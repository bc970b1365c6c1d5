--------------------------- MODULE HttpClientProofs ---------------------------
(***************************************************************************)
(* The life of the requests of HttpClient, for any number of requests and  *)
(* of threads of the application: who deletes each of them, what still     *)
(* refers to it, and which callback comes last.                            *)
(***************************************************************************)
EXTENDS HttpClient, TLAPS

CallbackPlaces == {"callback", "user", "erase"}
StopPlaces == {"stop", "complete", "drain"}
Destructor == {"swap", "cancel"}

(* The frames of all threads, each with its thread and its place there.    *)
Calls == UNION {{<<th, i, frames[th][i]>> : i \in 1 .. Len(frames[th])} : th \in Threads}

(* Which requests a frame is for. *)
FrameOK(f) ==
    /\ f.at \in Destructor <=> f.req = NoRequest
    /\ f.at # "cancel" => f.left = {}
    /\ f.at \in CallbackPlaces => f.kind \in Kinds
    /\ f.at = "erase" => f.kind # "event"
    /\ f.kind = "event" => f.req \in Eventing

(* The calls a thread of the application is in, the deleter's, ...         *)
ClientForm(f) ==
    /\ Len(f) <= 2
    /\ Len(f) = 1 => f[1].at \in {"emplace", "ready"} \cup Destructor \cup StopPlaces
    /\ Len(f) = 2 => \/ f[1].at = "ready" /\ f[2].at = "emplace"
                     \/ f[1].at = "cancel" /\ f[2].at \in StopPlaces

DeleterForm(f) == Len(f) <= 1 /\ (Len(f) = 1 => f[1].at \in StopPlaces)

(* ... and the dispatcher's: callbacks, each but the last one cancelling a *)
(* request and waiting for the callbacks of that one, on top of it.        *)
CalledFrom(g, f) ==
    \/ g.at = "user" /\ f.at = "emplace"
    \/ g.at = "user" /\ f.at \in StopPlaces /\ g.req \in Cancelling
    \/ g.at = "drain" /\ f.at \in CallbackPlaces

DispatcherForm(f) ==
    /\ Len(f) > 0 => f[1].at \in CallbackPlaces
    /\ \A i \in 1 .. Len(f) - 1 : CalledFrom(f[i], f[i + 1])
    /\ \A i, j \in 1 .. Len(f) : i < j /\ f[j].at \in StopPlaces => f[i].req # f[j].req

Forms ==
    /\ \A c \in Clients : ClientForm(frames[c])
    /\ DispatcherForm(frames[Dispatcher])
    /\ DeleterForm(frames[Deleter])
    /\ \A x \in Calls : FrameOK(x[3])

(* While a thread is in the destructor no other one of the application is  *)
(* in a call.                                                              *)
Shutdown ==
    /\ \A x, y \in Calls :
          x[1] \in Clients /\ y[1] \in Clients /\ x[3].at \in Destructor => x[1] = y[1]
    /\ is_shutdown => active_requests = {} /\ \A x \in Calls : x[3].at # "emplace"
    /\ destroyed => is_shutdown /\ \A x \in Calls : x[1] \notin Clients

(* One owner. *)
Held(r) == {x \in Calls : Owns(x[3], r)}
InLater(r) == \E i \in 1 .. Len(later) : later[i] = r

Ownership ==
    /\ \A i, j \in 1 .. Len(later) : later[i] = later[j] => i = j
    /\ \A r \in Requests :
          /\ r \in active_requests => ~InLater(r) /\ Held(r) = {}
          /\ InLater(r) => Held(r) = {}
          /\ \A x, y \in Held(r) : x = y
          /\ object[r] = "alive" <=> r \in active_requests \/ InLater(r) \/ Held(r) # {}

(* What there is of a request that was not executed: nothing.              *)
Fresh(r) ==
    /\ r \notin active_requests \cup ready \cup multi \cup is_complete \cup callback_posted
    /\ answers[r] = 0 /\ curl.req # r
    /\ \A i \in 1 .. Len(messages) : messages[i].req # r
    /\ \A i \in 1 .. Len(dispatch) : dispatch[i].req # r
    /\ \A x \in Calls : x[3].req # r

Unknown == \A r \in Requests : object[r] = "none" => Fresh(r)

(* The transfer, ... *)
Sent(r) == curl.req = r \/ r \in callback_posted
Message(type, r) == [type |-> type, req |-> r]
Sending(m) == \E i \in 1 .. Len(messages) : messages[i] = m

Transfer ==
    \A r \in Requests :
        /\ Sending(Message("START", r)) => r \notin multi /\ ~Sent(r)
        /\ r \in multi => ~Sent(r)
        /\ curl.req = r => r \notin callback_posted
        /\ object[r] = "deleted" => r \in is_complete \cap callback_posted

(* ... its end, asked for by the thread that deletes the request, ...      *)
Stopping(r) == curl.req = r /\ curl.stopped
InStop(r) == \E x \in Calls : x[3].at \in {"complete", "drain"} /\ x[3].req = r

Stops ==
    /\ \A r \in Requests :
          /\ Sending(Message("STOP", r)) => ~Stopping(r) /\ r \notin is_complete
          /\ Stopping(r) => r \notin is_complete
          /\ Sending(Message("STOP", r)) \/ Stopping(r) \/ r \in is_complete
                => InStop(r) \/ object[r] = "deleted"
    /\ \A x \in Calls : x[3].at = "drain" => x[3].req \in is_complete \cap callback_posted

(* ... and the callbacks: of a response sent the last one is queued, runs, *)
(* has run, or was dropped by the destructor.                              *)
HasCallbacks(r) == \E i \in 1 .. Len(dispatch) : dispatch[i].req = r
LastQueued(r) == \E i \in 1 .. Len(dispatch) : dispatch[i].req = r /\ dispatch[i].kind # "event"
Runs(f, r) == f.at \in CallbackPlaces /\ f.req = r
LastBegins(r) ==
    \E x \in Calls : Runs(x[3], r) /\ x[3].kind # "event" /\ x[3].at = "callback"

Callbacks ==
    /\ \A i, j \in 1 .. Len(dispatch) :
          i < j /\ dispatch[i].req = dispatch[j].req => dispatch[i].kind = "event"
    /\ \A i \in 1 .. Len(dispatch) :
          dispatch[i].kind = "event" => dispatch[i].req \in Eventing
    /\ \A r \in Requests :
          /\ LastQueued(r) => Sent(r)
          /\ Sent(r) /\ HasCallbacks(r) => LastQueued(r)
          /\ answers[r] \in {0, 1}
          /\ answers[r] = 1 => Sent(r) /\ ~HasCallbacks(r)
          /\ Sent(r) /\ answers[r] = 0 => LastQueued(r) \/ LastBegins(r) \/ is_shutdown

Running ==
    \A r \in Requests :
        /\ \A x \in Calls : Runs(x[3], r) /\ x[3].kind # "event" =>
              /\ Sent(r) /\ ~HasCallbacks(r)
              /\ answers[r] = IF x[3].at = "callback" THEN 0 ELSE 1
        /\ \A x, y \in Calls :
              /\ Runs(x[3], r) /\ x[3].kind # "event"
              /\ Runs(y[3], r) /\ y[3].kind # "event"
              => x = y

(* What waits for delete_later, or is deleted by it, has been answered.    *)
LeftToDeleter(r) == InLater(r) \/ \E x \in Held(r) : x[1] = Deleter

Answered ==
    \A r \in Requests : LeftToDeleter(r) =>
        /\ answers[r] = 1
        /\ \A x \in Calls : Runs(x[3], r) => x[3].kind = "event" /\ r \in Cancelling

Deleted ==
    \A r \in Requests : object[r] = "deleted" =>
        ~HasCallbacks(r) /\ \A x \in Calls : ~Runs(x[3], r)

IInv ==
    /\ TypeOK
    /\ Forms
    /\ Shutdown
    /\ Ownership
    /\ Unknown
    /\ Transfer
    /\ Stops
    /\ Callbacks
    /\ Running
    /\ Answered
    /\ Deleted

-----------------------------------------------------------------------------
(* The frames *)

(* Front and Last of a sequence that is not empty.                         *)
LEMMA FrontFacts ==
    ASSUME NEW S, NEW s \in Seq(S), s # <<>>
    PROVE  /\ Len(s) \in Nat \ {0}
           /\ Front(s) \in Seq(S)
           /\ Len(Front(s)) = Len(s) - 1
           /\ \A i \in 1 .. Len(s) - 1 : Front(s)[i] = s[i]
           /\ Last(s) = s[Len(s)]
           /\ Last(s) \in S
<1>1. Len(s) \in Nat \ {0}
  OBVIOUS
<1>2. Front(s) = [i \in 1 .. Len(s) - 1 |-> s[i]]
  BY <1>1 DEF Front
<1>3. Last(s) = s[Len(s)] /\ Last(s) \in S
  BY <1>1 DEF Last
<1> QED
  BY <1>1, <1>2, <1>3

(* What Append does to the elements. *)
LEMMA AppendFacts ==
    ASSUME NEW S, NEW s \in Seq(S), NEW x \in S
    PROVE  /\ Append(s, x) \in Seq(S)
           /\ Len(Append(s, x)) = Len(s) + 1
           /\ \A i \in 1 .. Len(s) : Append(s, x)[i] = s[i]
           /\ Append(s, x)[Len(s) + 1] = x
  OBVIOUS

(* What Tail does to the elements. *)
LEMMA TailFacts ==
    ASSUME NEW S, NEW s \in Seq(S), s # <<>>
    PROVE  /\ Len(s) \in Nat \ {0}
           /\ Tail(s) \in Seq(S)
           /\ Len(Tail(s)) = Len(s) - 1
           /\ \A i \in 1 .. Len(s) - 1 : Tail(s)[i] = s[i + 1]
           /\ Head(s) = s[1]
           /\ Head(s) \in S
  OBVIOUS

FramesType == frames \in [Threads -> Seq(Frame)]

(* The calls, one by one. *)
LEMMA CallsFacts ==
    ASSUME FramesType
    PROVE  /\ \A th \in Threads : /\ frames[th] \in Seq(Frame)
                                  /\ Len(frames[th]) \in Nat
                                  /\ frames[th] = <<>> <=> Len(frames[th]) = 0
           /\ \A th \in Threads : \A i \in 1 .. Len(frames[th]) :
                 <<th, i, frames[th][i]>> \in Calls /\ frames[th][i] \in Frame
           /\ \A x \in Calls : /\ x = <<x[1], x[2], x[3]>>
                               /\ x[1] \in Threads
                               /\ x[2] \in 1 .. Len(frames[x[1]])
                               /\ x[3] = frames[x[1]][x[2]]
                               /\ x[3] \in Frame
<1>1. \A th \in Threads : /\ frames[th] \in Seq(Frame)
                          /\ Len(frames[th]) \in Nat
                          /\ frames[th] = <<>> <=> Len(frames[th]) = 0
  BY DEF FramesType
<1>2. \A th \in Threads : \A i \in 1 .. Len(frames[th]) :
          <<th, i, frames[th][i]>> \in Calls /\ frames[th][i] \in Frame
  BY <1>1 DEF Calls
<1>3. ASSUME NEW x \in Calls
      PROVE  /\ x = <<x[1], x[2], x[3]>>
             /\ x[1] \in Threads
             /\ x[2] \in 1 .. Len(frames[x[1]])
             /\ x[3] = frames[x[1]][x[2]]
  <2>1. PICK th \in Threads : \E i \in 1 .. Len(frames[th]) : x = <<th, i, frames[th][i]>>
    BY DEF Calls
  <2>2. PICK i \in 1 .. Len(frames[th]) : x = <<th, i, frames[th][i]>>
    BY <2>1
  <2>3. x[1] = th /\ x[2] = i /\ x[3] = frames[th][i]
    BY <2>2
  <2> QED
    BY <2>2, <2>3
<1> QED
  BY <1>1, <1>2, <1>3

TopCall(th) == <<th, Len(frames[th]), Top(th)>>
Above(th, f) == <<th, Len(frames[th]) + 1, f>>

(* Frames that go on from the first k frames of a thread with one more, or *)
(* with none.                                                              *)
Others(th) ==
    /\ FramesType'
    /\ \A u \in Threads : u # th => frames'[u] = frames[u]

Keeps(th, k) == \A i \in 1 .. k : frames'[th][i] = frames[th][i]

(* What the changes of the frames do to the calls.                         *)
Pushed(th, f) ==
    /\ Others(th)
    /\ Keeps(th, Len(frames[th]))
    /\ Len(frames'[th]) = Len(frames[th]) + 1
    /\ frames'[th][Len(frames[th]) + 1] = f
    /\ Calls' = Calls \cup {Above(th, f)}
    /\ Above(th, f) \notin Calls

Popped(th) ==
    /\ Others(th)
    /\ Keeps(th, Len(frames[th]) - 1)
    /\ Len(frames'[th]) = Len(frames[th]) - 1
    /\ Calls' = Calls \ {TopCall(th)}

Replaced(th, f) ==
    /\ Others(th)
    /\ Keeps(th, Len(frames[th]) - 1)
    /\ Len(frames'[th]) = Len(frames[th])
    /\ frames'[th][Len(frames[th])] = f
    /\ Calls' = (Calls \ {TopCall(th)}) \cup {<<th, Len(frames[th]), f>>}

(* The top frame of a thread is its last call.                             *)
LEMMA TopFacts ==
    ASSUME FramesType, NEW th \in Threads, frames[th] # <<>>
    PROVE  /\ TopCall(th) \in Calls /\ TopCall(th)[3] = Top(th) /\ TopCall(th)[1] = th
           /\ Top(th) = frames[th][Len(frames[th])]
           /\ Top(th) \in Frame
           /\ Len(frames[th]) \in Nat \ {0}
<1>1. frames[th] \in Seq(Frame)
  BY CallsFacts
<1>2. Len(frames[th]) \in Nat \ {0} /\ Top(th) = frames[th][Len(frames[th])]
  BY <1>1, FrontFacts DEF Top
<1>3. Len(frames[th]) \in 1 .. Len(frames[th])
  BY <1>2
<1> QED
  BY <1>2, <1>3, CallsFacts DEF TopCall

(* A call begins, ... *)
LEMMA EntersPushes ==
    ASSUME FramesType, NEW th \in Threads, NEW f \in Frame, Enters(th, f)
    PROVE  Pushed(th, f)
<1> DEFINE n == Len(frames[th])
           s == Append(frames[th], f)
<1>1. frames[th] \in Seq(Frame) /\ n \in Nat
  BY CallsFacts
<1>2. /\ s \in Seq(Frame) /\ Len(s) = n + 1 /\ s[n + 1] = f
      /\ \A i \in 1 .. n : s[i] = frames[th][i]
  BY <1>1, AppendFacts
<1>3. frames' = [frames EXCEPT ![th] = s]
  BY DEF Enters, Becomes
<1> HIDE DEF s
<1>4. Others(th) /\ frames'[th] = s
  BY <1>2, <1>3 DEF Others, FramesType
<1>5. Keeps(th, n) /\ Len(frames'[th]) = n + 1 /\ frames'[th][n + 1] = f
  BY <1>2, <1>4 DEF Keeps
<1> HIDE DEF n
<1>6. \A i : i \in 1 .. n + 1 <=> i \in 1 .. n \/ i = n + 1
  BY <1>1
<1>7. Calls' = Calls \cup {<<th, n + 1, f>>}
  <2>1. ASSUME NEW x \in Calls' PROVE x \in Calls \cup {<<th, n + 1, f>>}
    <3>1. PICK u \in Threads : \E i \in 1 .. Len(frames'[u]) : x = <<u, i, frames'[u][i]>>
      BY DEF Calls
    <3>2. PICK i \in 1 .. Len(frames'[u]) : x = <<u, i, frames'[u][i]>>
      BY <3>1
    <3>3. CASE u # th
      BY <1>4, <3>2, <3>3, CallsFacts DEF Others
    <3>4. CASE u = th
      BY <1>5, <1>6, <3>2, <3>4, CallsFacts DEF Keeps, n
    <3> QED
      BY <3>3, <3>4
  <2>2. ASSUME NEW x \in Calls PROVE x \in Calls'
    <3>1. /\ x = <<x[1], x[2], frames[x[1]][x[2]]>> /\ x[1] \in Threads
          /\ x[2] \in 1 .. Len(frames[x[1]])
      BY CallsFacts
    <3>2. x[2] \in 1 .. Len(frames'[x[1]]) /\ frames'[x[1]][x[2]] = frames[x[1]][x[2]]
      BY <1>4, <1>5, <1>6, <3>1 DEF Others, Keeps, n
    <3> QED
      BY <3>1, <3>2 DEF Calls
  <2>3. <<th, n + 1, f>> \in Calls'
    <3>1. n + 1 \in 1 .. Len(frames'[th])
      BY <1>5, <1>6
    <3> QED
      BY <1>5, <3>1 DEF Calls
  <2> QED
    BY <2>1, <2>2, <2>3
<1>8. <<th, n + 1, f>> \notin Calls
  <2>1. n + 1 \notin 1 .. n
    BY <1>1
  <2> QED
    BY <2>1, CallsFacts DEF n
<1> QED
  BY <1>4, <1>5, <1>7, <1>8 DEF Pushed, Above, n

(* ... ends, ... *)
LEMMA ReturnsPops ==
    ASSUME FramesType, NEW th \in Threads, frames[th] # <<>>, Returns(th)
    PROVE  Popped(th)
<1> DEFINE n == Len(frames[th])
           s == Front(frames[th])
<1>1. /\ frames[th] \in Seq(Frame) /\ n \in Nat \ {0}
      /\ TopCall(th) = <<th, n, frames[th][n]>>
  BY CallsFacts, TopFacts DEF TopCall
<1>2. /\ s \in Seq(Frame) /\ Len(s) = n - 1
      /\ \A i \in 1 .. n - 1 : s[i] = frames[th][i]
  BY <1>1, FrontFacts
<1>3. frames' = [frames EXCEPT ![th] = s]
  BY DEF Returns, Becomes
<1> HIDE DEF s
<1>4. Others(th) /\ frames'[th] = s
  BY <1>2, <1>3 DEF Others, FramesType
<1>5. Keeps(th, n - 1) /\ Len(frames'[th]) = n - 1
  BY <1>2, <1>4 DEF Keeps
<1> HIDE DEF n
<1>6. \A i : i \in 1 .. n - 1 <=> i \in 1 .. n /\ i # n
  BY <1>1
<1>7. Calls' = Calls \ {<<th, n, frames[th][n]>>}
  <2>1. ASSUME NEW x \in Calls' PROVE x \in Calls /\ x # <<th, n, frames[th][n]>>
    <3>1. PICK u \in Threads : \E i \in 1 .. Len(frames'[u]) : x = <<u, i, frames'[u][i]>>
      BY DEF Calls
    <3>2. PICK i \in 1 .. Len(frames'[u]) : x = <<u, i, frames'[u][i]>>
      BY <3>1
    <3>3. CASE u # th
      BY <1>4, <3>2, <3>3, CallsFacts DEF Others
    <3>4. CASE u = th
      BY <1>5, <1>6, <3>2, <3>4, CallsFacts DEF Keeps, n
    <3> QED
      BY <3>3, <3>4
  <2>2. ASSUME NEW x \in Calls, x # <<th, n, frames[th][n]>> PROVE x \in Calls'
    <3>1. /\ x = <<x[1], x[2], frames[x[1]][x[2]]>> /\ x[1] \in Threads
          /\ x[2] \in 1 .. Len(frames[x[1]])
      BY CallsFacts
    <3>2. x[2] \in 1 .. Len(frames'[x[1]]) /\ frames'[x[1]][x[2]] = frames[x[1]][x[2]]
      BY <1>4, <1>5, <1>6, <2>2, <3>1 DEF Others, Keeps, n
    <3> QED
      BY <3>1, <3>2 DEF Calls
  <2> QED
    BY <2>1, <2>2
<1> QED
  BY <1>1, <1>4, <1>5, <1>7 DEF Popped, n

(* ... or goes on. *)
LEMMA GoesToReplaces ==
    ASSUME FramesType, NEW th \in Threads, frames[th] # <<>>, NEW f \in Frame, GoesTo(th, f)
    PROVE  Replaced(th, f)
<1> DEFINE n == Len(frames[th])
           r == Front(frames[th])
           s == Append(r, f)
<1>1. /\ frames[th] \in Seq(Frame) /\ n \in Nat \ {0}
      /\ TopCall(th) = <<th, n, frames[th][n]>>
  BY CallsFacts, TopFacts DEF TopCall
<1>2. /\ r \in Seq(Frame) /\ Len(r) = n - 1
      /\ \A i \in 1 .. n - 1 : r[i] = frames[th][i]
  BY <1>1, FrontFacts
<1> HIDE DEF r
<1>3. /\ s \in Seq(Frame) /\ Len(s) = Len(r) + 1 /\ s[Len(r) + 1] = f
      /\ \A i \in 1 .. Len(r) : s[i] = r[i]
  BY <1>2, AppendFacts
<1>4. frames' = [frames EXCEPT ![th] = s]
  BY DEF GoesTo, Becomes, r
<1> HIDE DEF s
<1>5. Others(th) /\ frames'[th] = s
  BY <1>3, <1>4 DEF Others, FramesType
<1>6. Len(r) + 1 = n
  BY <1>1, <1>2
<1>7. Keeps(th, n - 1) /\ Len(frames'[th]) = n /\ frames'[th][n] = f
  BY <1>2, <1>3, <1>5, <1>6 DEF Keeps
<1> HIDE DEF n
<1>8. \A i : i \in 1 .. n - 1 <=> i \in 1 .. n /\ i # n
  BY <1>1
<1>9. Calls' = (Calls \ {<<th, n, frames[th][n]>>}) \cup {<<th, n, f>>}
  <2>1. ASSUME NEW x \in Calls', x # <<th, n, f>>
        PROVE  x \in Calls /\ x # <<th, n, frames[th][n]>>
    <3>1. PICK u \in Threads : \E i \in 1 .. Len(frames'[u]) : x = <<u, i, frames'[u][i]>>
      BY DEF Calls
    <3>2. PICK i \in 1 .. Len(frames'[u]) : x = <<u, i, frames'[u][i]>>
      BY <3>1
    <3>3. CASE u # th
      BY <1>5, <3>2, <3>3, CallsFacts DEF Others
    <3>4. CASE u = th
      BY <1>7, <1>8, <2>1, <3>2, <3>4, CallsFacts DEF Keeps, n
    <3> QED
      BY <3>3, <3>4
  <2>2. ASSUME NEW x \in Calls, x # <<th, n, frames[th][n]>> PROVE x \in Calls'
    <3>1. /\ x = <<x[1], x[2], frames[x[1]][x[2]]>> /\ x[1] \in Threads
          /\ x[2] \in 1 .. Len(frames[x[1]])
      BY CallsFacts
    <3>2. x[2] \in 1 .. Len(frames'[x[1]]) /\ frames'[x[1]][x[2]] = frames[x[1]][x[2]]
      BY <1>5, <1>7, <1>8, <2>2, <3>1 DEF Others, Keeps, n
    <3> QED
      BY <3>1, <3>2 DEF Calls
  <2>3. <<th, n, f>> \in Calls'
    <3>1. n \in 1 .. Len(frames'[th])
      BY <1>1, <1>7
    <3> QED
      BY <1>7, <3>1 DEF Calls
  <2> QED
    BY <2>1, <2>2, <2>3
<1> QED
  BY <1>1, <1>5, <1>7, <1>9 DEF Replaced, n

-----------------------------------------------------------------------------
(* What the changes of the frames keep *)

Bodies == {x \in Calls : x[3].at \in CallbackPlaces}

(* The parts of the invariant about callbacks, when no callback begins,    *)
(* goes on or ends.                                                        *)
LEMMA CallbacksKept ==
    ASSUME Callbacks, Running, Bodies' = Bodies, is_shutdown => is_shutdown',
           UNCHANGED <<curl, callback_posted, dispatch, answers>>
    PROVE  Callbacks' /\ Running'
<1>1. \A r \in Requests : Sent(r)' = Sent(r) /\ HasCallbacks(r)' = HasCallbacks(r)
                          /\ LastQueued(r)' = LastQueued(r)
  BY DEF Sent, HasCallbacks, LastQueued
<1>2. \A x, r : x \in Calls /\ Runs(x[3], r) <=> x \in Bodies /\ x[3].req = r
  BY DEF Bodies, Runs
<1>3. \A x, r : x \in Calls' /\ Runs(x[3], r) <=> x \in Bodies /\ x[3].req = r
  BY DEF Bodies, Runs
<1>4. \A r \in Requests : LastBegins(r)' = LastBegins(r)
  BY <1>2, <1>3 DEF LastBegins
<1>5. Callbacks'
  BY <1>1, <1>4 DEF Callbacks
<1>6. Running'
  BY <1>1, <1>2, <1>3 DEF Running
<1> QED
  BY <1>5, <1>6

(* What waits for delete_later has still been answered.                    *)
LEMMA AnsweredKept ==
    ASSUME Answered, Bodies' = Bodies, answers' = answers,
           \A r \in Requests : LeftToDeleter(r)' => LeftToDeleter(r)
    PROVE  Answered'
<1>1. \A x, r : x \in Calls /\ Runs(x[3], r) <=> x \in Bodies /\ x[3].req = r
  BY DEF Bodies, Runs
<1>2. \A x, r : x \in Calls' /\ Runs(x[3], r) <=> x \in Bodies /\ x[3].req = r
  BY DEF Bodies, Runs
<1> QED
  BY <1>1, <1>2 DEF Answered

(* The callbacks do not change when other frames do.                       *)
LEMMA BodiesKept ==
    ASSUME FramesType, NEW th \in Threads
    PROVE  /\ \A f : Pushed(th, f) /\ f.at \notin CallbackPlaces => Bodies' = Bodies
           /\ frames[th] # <<>> /\ Top(th).at \notin CallbackPlaces =>
                 /\ Popped(th) => Bodies' = Bodies
                 /\ \A f : Replaced(th, f) /\ f.at \notin CallbackPlaces => Bodies' = Bodies
<1>1. ASSUME NEW f, Pushed(th, f), f.at \notin CallbackPlaces PROVE Bodies' = Bodies
  <2>1. Calls' = Calls \cup {Above(th, f)} /\ Above(th, f)[3] = f
    BY <1>1 DEF Pushed, Above
  <2> QED
    BY <1>1, <2>1 DEF Bodies
<1>2. ASSUME frames[th] # <<>>, Top(th).at \notin CallbackPlaces, Popped(th) PROVE Bodies' = Bodies
  <2>1. Calls' = Calls \ {TopCall(th)} /\ TopCall(th)[3] = Top(th)
    BY <1>2, TopFacts DEF Popped
  <2> QED
    BY <1>2, <2>1 DEF Bodies
<1>3. ASSUME frames[th] # <<>>, Top(th).at \notin CallbackPlaces,
             NEW f, Replaced(th, f), f.at \notin CallbackPlaces
      PROVE  Bodies' = Bodies
  <2> DEFINE n == <<th, Len(frames[th]), f>>
  <2>1. Calls' = (Calls \ {TopCall(th)}) \cup {n} /\ TopCall(th)[3] = Top(th) /\ n[3] = f
    BY <1>3, TopFacts DEF Replaced
  <2> HIDE DEF n
  <2> QED
    BY <1>3, <2>1 DEF Bodies
<1> QED
  BY <1>1, <1>2, <1>3

(* The frames of the thread th may be as they are. *)
FormOf(th) ==
    /\ th \in Clients => ClientForm(frames[th])
    /\ th = Dispatcher => DispatcherForm(frames[th])
    /\ th = Deleter => DeleterForm(frames[th])

(* The forms, when the frames of one thread change. *)
LEMMA FormsChange ==
    ASSUME Forms, NEW th \in Threads, Others(th), FormOf(th)',
           \A x \in Calls' : x \in Calls \/ FrameOK(x[3])
    PROVE  Forms'
<1>1. \A u \in Threads : u # th => frames'[u] = frames[u]
  BY DEF Others
<1>2. \A c \in Clients : ClientForm(frames'[c])
  BY <1>1 DEF Forms, FormOf, Threads
<1>3. DispatcherForm(frames'[Dispatcher])
  BY <1>1 DEF Forms, FormOf, Threads
<1>4. DeleterForm(frames'[Deleter])
  BY <1>1 DEF Forms, FormOf, Threads
<1>5. \A x \in Calls' : FrameOK(x[3])
  BY DEF Forms
<1> QED
  BY <1>2, <1>3, <1>4, <1>5 DEF Forms

(* The frames of the dispatcher's thread, when a call begins, ...          *)
LEMMA DispatcherPushed ==
    ASSUME FramesType, DispatcherForm(frames[Dispatcher]), NEW f, Pushed(Dispatcher, f),
           frames[Dispatcher] = <<>> => f.at \in CallbackPlaces,
           frames[Dispatcher] # <<>> => CalledFrom(Top(Dispatcher), f),
           f.at \in StopPlaces =>
               \A i \in 1 .. Len(frames[Dispatcher]) : frames[Dispatcher][i].req # f.req
    PROVE  DispatcherForm(frames'[Dispatcher])
<1> DEFINE s == frames[Dispatcher]
           t == frames'[Dispatcher]
<1>1. Len(s) \in Nat /\ (s = <<>> <=> Len(s) = 0)
  BY CallsFacts DEF Threads
<1>2. s # <<>> => Top(Dispatcher) = s[Len(s)]
  BY TopFacts DEF Threads
<1>3. Len(t) = Len(s) + 1 /\ t[Len(s) + 1] = f /\ \A i \in 1 .. Len(s) : t[i] = s[i]
  BY DEF Pushed, Keeps
<1> HIDE DEF s, t
<1>4. Len(t) > 0 => t[1].at \in CallbackPlaces
  BY <1>1, <1>3 DEF DispatcherForm, s
<1>5. ASSUME NEW i \in 1 .. Len(t) - 1 PROVE CalledFrom(t[i], t[i + 1])
  <2>1. CASE i = Len(s)
    BY <1>1, <1>2, <1>3, <2>1 DEF s
  <2>2. CASE i # Len(s)
    <3>1. i \in 1 .. Len(s) - 1 /\ i \in 1 .. Len(s) /\ i + 1 \in 1 .. Len(s)
      BY <1>1, <1>3, <2>2
    <3> QED
      BY <1>3, <3>1 DEF DispatcherForm, s
  <2> QED
    BY <2>1, <2>2
<1>6. ASSUME NEW i \in 1 .. Len(t), NEW j \in 1 .. Len(t), i < j, t[j].at \in StopPlaces
      PROVE  t[i].req # t[j].req
  <2>1. i \in 1 .. Len(s)
    BY <1>1, <1>3, <1>6
  <2>2. CASE j = Len(s) + 1
    BY <1>3, <1>6, <2>1, <2>2 DEF s
  <2>3. CASE j # Len(s) + 1
    <3>1. j \in 1 .. Len(s)
      BY <1>1, <1>3, <2>3
    <3> QED
      BY <1>3, <1>6, <2>1, <3>1 DEF DispatcherForm, s
  <2> QED
    BY <2>2, <2>3
<1> QED
  BY <1>4, <1>5, <1>6 DEF DispatcherForm, t

(* ... ends, ... *)
LEMMA DispatcherPopped ==
    ASSUME FramesType, DispatcherForm(frames[Dispatcher]), frames[Dispatcher] # <<>>,
           Popped(Dispatcher)
    PROVE  DispatcherForm(frames'[Dispatcher])
<1> DEFINE s == frames[Dispatcher]
           t == frames'[Dispatcher]
<1>1. Len(s) \in Nat \ {0}
  BY TopFacts DEF Threads
<1>2. Len(t) = Len(s) - 1 /\ \A i \in 1 .. Len(s) - 1 : t[i] = s[i]
  BY DEF Popped, Keeps
<1> HIDE DEF s, t
<1>3. \A i \in 1 .. Len(t) : i \in 1 .. Len(s) /\ t[i] = s[i]
  BY <1>1, <1>2
<1>4. Len(t) > 0 => t[1].at \in CallbackPlaces
  BY <1>1, <1>2, <1>3 DEF DispatcherForm, s
<1>5. ASSUME NEW i \in 1 .. Len(t) - 1 PROVE CalledFrom(t[i], t[i + 1])
  <2>1. i \in 1 .. Len(s) - 1 /\ i \in 1 .. Len(t) /\ i + 1 \in 1 .. Len(t)
    BY <1>1, <1>2
  <2> QED
    BY <1>3, <2>1 DEF DispatcherForm, s
<1>6. ASSUME NEW i \in 1 .. Len(t), NEW j \in 1 .. Len(t), i < j, t[j].at \in StopPlaces
      PROVE  t[i].req # t[j].req
  BY <1>3, <1>6 DEF DispatcherForm, s
<1> QED
  BY <1>4, <1>5, <1>6 DEF DispatcherForm, t

(* ... or goes on as one that may be called from where it was called.      *)
LEMMA DispatcherReplaced ==
    ASSUME FramesType, DispatcherForm(frames[Dispatcher]), frames[Dispatcher] # <<>>,
           NEW f, Replaced(Dispatcher, f),
           Len(frames[Dispatcher]) = 1 => f.at \in CallbackPlaces,
           \A g : CalledFrom(g, Top(Dispatcher)) => CalledFrom(g, f),
           f.at \in StopPlaces => Top(Dispatcher).at \in StopPlaces /\ Top(Dispatcher).req = f.req
    PROVE  DispatcherForm(frames'[Dispatcher])
<1> DEFINE s == frames[Dispatcher]
           t == frames'[Dispatcher]
           n == Len(s)
<1>1. n \in Nat \ {0} /\ Top(Dispatcher) = s[n]
  BY TopFacts DEF Threads
<1>2. Len(t) = n /\ t[n] = f /\ \A i \in 1 .. n - 1 : t[i] = s[i]
  BY DEF Replaced, Keeps
<1>3. /\ n = 1 => f.at \in CallbackPlaces
      /\ \A g : CalledFrom(g, s[n]) => CalledFrom(g, f)
      /\ f.at \in StopPlaces => s[n].at \in StopPlaces /\ s[n].req = f.req
  BY <1>1
<1>4. DispatcherForm(s)
  OBVIOUS
<1> HIDE DEF s, t
<1>5. Len(t) > 0 => t[1].at \in CallbackPlaces
  <2>1. CASE n = 1
    BY <1>2, <1>3, <2>1
  <2>2. CASE n # 1
    <3>1. 1 \in 1 .. n - 1 /\ n > 0
      BY <1>1, <2>2
    <3> QED
      BY <1>2, <1>4, <3>1 DEF DispatcherForm
  <2> QED
    BY <2>1, <2>2
<1>6. ASSUME NEW i \in 1 .. Len(t) - 1 PROVE CalledFrom(t[i], t[i + 1])
  <2>1. i \in 1 .. n - 1 /\ t[i] = s[i] /\ CalledFrom(s[i], s[i + 1])
    BY <1>2, <1>4 DEF DispatcherForm
  <2>2. CASE i + 1 = n
    BY <1>2, <1>3, <2>1, <2>2
  <2>3. CASE i + 1 # n
    <3>1. i + 1 \in 1 .. n - 1
      BY <1>1, <2>1, <2>3
    <3> QED
      BY <1>2, <2>1, <3>1
  <2> QED
    BY <2>2, <2>3
<1>7. ASSUME NEW i \in 1 .. Len(t), NEW j \in 1 .. Len(t), i < j, t[j].at \in StopPlaces
      PROVE  t[i].req # t[j].req
  <2>1. i \in 1 .. n - 1 /\ i \in 1 .. n /\ j \in 1 .. n /\ t[i] = s[i]
    BY <1>1, <1>2, <1>7
  <2>2. t[j].req = s[j].req /\ s[j].at \in StopPlaces
    <3>1. CASE j = n
      BY <1>2, <1>3, <1>7, <3>1
    <3>2. CASE j # n
      <4>1. j \in 1 .. n - 1
        BY <1>1, <2>1, <3>2
      <4> QED
        BY <1>2, <1>7, <4>1
    <3> QED
      BY <3>1, <3>2
  <2> QED
    BY <1>4, <1>7, <2>1, <2>2 DEF DispatcherForm
<1> QED
  BY <1>5, <1>6, <1>7 DEF DispatcherForm, t

(* A thread with the mutex is in no other call on top of that one.         *)
LEMMA EmplaceIsOnTop ==
    ASSUME FramesType, Forms, NEW x \in Calls, x[3].at = "emplace"
    PROVE  In(x[1], "emplace") /\ x = TopCall(x[1])
<1> DEFINE th == x[1]
           i == x[2]
           s == frames[th]
<1>1. th \in Threads /\ i \in 1 .. Len(s) /\ x[3] = s[i] /\ s \in Seq(Frame) /\ Len(s) \in Nat
      /\ x = <<th, i, s[i]>> /\ (s = <<>> <=> Len(s) = 0)
  BY CallsFacts
<1> HIDE DEF th, i
<1>2. i = Len(s)
  <2>1. CASE th \in Clients
    <3>1. ClientForm(s)
      BY <2>1 DEF Forms
    <3>2. i # Len(s) => i = 1 /\ Len(s) = 2
      <4>1. Len(s) <= 2
        BY <3>1 DEF ClientForm
      <4> DEFINE n == Len(s)
      <4>2. n \in Nat /\ i \in 1 .. n /\ n <= 2
        BY <1>1, <4>1
      <4> HIDE DEF n
      <4>3. i # n => i = 1 /\ n = 2
        BY <4>2
      <4> QED
        BY <4>3 DEF n
    <3>3. Len(s) = 2 => s[1].at \in {"ready", "cancel"}
      BY <3>1 DEF ClientForm
    <3>4. s[i].at = "emplace"
      BY <1>1
    <3> QED
      BY <3>2, <3>3, <3>4
  <2>2. CASE th = Dispatcher
    <3>1. DispatcherForm(s)
      BY <2>2 DEF Forms
    <3>2. i # Len(s) => i \in 1 .. Len(s) - 1
      BY <1>1
    <3> QED
      BY <1>1, <3>1, <3>2 DEF DispatcherForm, CalledFrom
  <2>3. CASE th = Deleter
    <3>1. DeleterForm(s)
      BY <2>3 DEF Forms
    <3> QED
      BY <1>1, <3>1 DEF DeleterForm
  <2> QED
    BY <1>1, <2>1, <2>2, <2>3 DEF Threads
<1>3. s # <<>> /\ Top(th) = s[Len(s)]
  BY <1>1, TopFacts
<1> QED
  BY <1>1, <1>2, <1>3 DEF In, TopCall, th

(* The deletion of a request is left to the same call, or one of the same  *)
(* thread that goes on from it.                                            *)
HoldersKept ==
    \A r \in Requests :
        /\ Held(r)' = {} <=> Held(r) = {}
        /\ \A x, y \in Held(r)' : x = y
        /\ (\E x \in Held(r)' : x[1] = Deleter) => \E x \in Held(r) : x[1] = Deleter

(* The frames of a call that deletes nothing come and go, and one that     *)
(* deletes a request goes on with that.                                    *)
LEMMA HeldKept ==
    ASSUME FramesType, Ownership, NEW th \in Threads
    PROVE  /\ \A f : Pushed(th, f) /\ (\A r \in Requests : ~Owns(f, r)) => HoldersKept
           /\ frames[th] # <<>> =>
                 /\ Popped(th) /\ (\A r \in Requests : ~Owns(Top(th), r)) => HoldersKept
                 /\ \A f : Replaced(th, f)
                           /\ (\A r \in Requests : Owns(f, r) <=> Owns(Top(th), r))
                           => HoldersKept
<1>1. \A r \in Requests : \A x, y \in Held(r) : x = y
  BY DEF Ownership
<1>2. ASSUME NEW f, Pushed(th, f), \A r \in Requests : ~Owns(f, r) PROVE HoldersKept
  <2>1. Calls' = Calls \cup {Above(th, f)} /\ Above(th, f)[3] = f
    BY <1>2 DEF Pushed, Above
  <2>2. \A r \in Requests : Held(r)' = Held(r)
    BY <1>2, <2>1 DEF Held
  <2> QED
    BY <1>1, <2>2 DEF HoldersKept
<1>3. ASSUME frames[th] # <<>>, Popped(th), \A r \in Requests : ~Owns(Top(th), r)
      PROVE  HoldersKept
  <2>1. Calls' = Calls \ {TopCall(th)} /\ TopCall(th)[3] = Top(th)
    BY <1>3, TopFacts DEF Popped
  <2>2. \A r \in Requests : Held(r)' = Held(r)
    BY <1>3, <2>1 DEF Held
  <2> QED
    BY <1>1, <2>2 DEF HoldersKept
<1>4. ASSUME frames[th] # <<>>, NEW f, Replaced(th, f),
             \A r \in Requests : Owns(f, r) <=> Owns(Top(th), r)
      PROVE  HoldersKept
  <2> DEFINE n == <<th, Len(frames[th]), f>>
  <2>1. /\ Calls' = (Calls \ {TopCall(th)}) \cup {n} /\ n[3] = f /\ n[1] = th
        /\ TopCall(th) \in Calls /\ TopCall(th)[3] = Top(th) /\ TopCall(th)[1] = th
    BY <1>4, TopFacts DEF Replaced
  <2> HIDE DEF n
  <2>2. ASSUME NEW r \in Requests, Owns(Top(th), r) PROVE Held(r)' = {n} /\ Held(r) = {TopCall(th)}
    <3>1. Held(r) = {TopCall(th)}
      BY <1>1, <2>1, <2>2 DEF Held
    <3>2. n \in Held(r)'
      BY <1>4, <2>1, <2>2 DEF Held
    <3>3. \A x \in Held(r)' : x = n \/ (x \in Held(r) /\ x # TopCall(th))
      BY <2>1 DEF Held
    <3> QED
      BY <3>1, <3>2, <3>3
  <2>3. ASSUME NEW r \in Requests, ~Owns(Top(th), r) PROVE Held(r)' = Held(r)
    BY <1>4, <2>1, <2>3 DEF Held
  <2> QED
    BY <1>1, <2>1, <2>2, <2>3 DEF HoldersKept
<1> QED
  BY <1>2, <1>3, <1>4

(* Nobody else takes a request. *)
LEMMA OwnershipKept ==
    ASSUME Ownership, HoldersKept, UNCHANGED <<active_requests, later, object>>
    PROVE  /\ Ownership'
           /\ \A r \in Requests : LeftToDeleter(r)' => LeftToDeleter(r)
<1>1. \A r \in Requests : InLater(r)' = InLater(r)
  BY DEF InLater
<1>2. Ownership'
  BY <1>1 DEF Ownership, HoldersKept
<1>3. \A r \in Requests : LeftToDeleter(r)' => LeftToDeleter(r)
  BY <1>1 DEF LeftToDeleter, HoldersKept
<1> QED
  BY <1>2, <1>3

(* What a request that is alive, or that a call or a message is about, is. *)
LEMMA KnownRequests ==
    ASSUME IInv, NEW r \in Requests
    PROVE  /\ Held(r) # {} => object[r] = "alive"
           /\ (\E x \in Calls : x[3].req = r) => object[r] # "none"
           /\ (\E i \in 1 .. Len(messages) : messages[i].req = r) => object[r] # "none"
           /\ (\E i \in 1 .. Len(dispatch) : dispatch[i].req = r) => object[r] # "none"
           /\ curl.req = r => object[r] # "none"
<1>1. Held(r) # {} => object[r] = "alive"
  BY DEF IInv, Ownership
<1>2. object[r] = "none" => Fresh(r)
  BY DEF IInv, Unknown
<1> QED
  BY <1>1, <1>2 DEF Fresh

(* Which request the top frame of a thread is for. *)
LEMMA TopRequest ==
    ASSUME IInv, NEW th \in Threads, frames[th] # <<>>
    PROVE  /\ FramesType
           /\ FrameOK(Top(th))
           /\ Top(th).at \notin Destructor => Top(th).req \in Requests
           /\ Top(th).at \in {"emplace", "stop", "complete", "drain"} =>
                 /\ Held(Top(th).req) = {TopCall(th)}
                 /\ object[Top(th).req] = "alive"
           /\ Top(th).at # "cancel" => \A r \in Requests : Owns(Top(th), r) <=>
                 Top(th).at \in {"emplace", "stop", "complete", "drain"} /\ Top(th).req = r
<1>1. FramesType
  BY DEF IInv, TypeOK, FramesType
<1>2. TopCall(th) \in Calls /\ TopCall(th)[3] = Top(th) /\ Top(th) \in Frame
  BY <1>1, TopFacts
<1>3. FrameOK(Top(th))
  BY <1>2 DEF IInv, Forms
<1>4. Top(th).at \notin Destructor => Top(th).req \in Requests
  BY <1>2, <1>3 DEF FrameOK, Frame
<1>5. ASSUME Top(th).at \in {"emplace", "stop", "complete", "drain"}
      PROVE  Held(Top(th).req) = {TopCall(th)} /\ object[Top(th).req] = "alive"
  <2>1. Top(th).req \in Requests
    BY <1>4, <1>5 DEF Destructor
  <2>2. TopCall(th) \in Held(Top(th).req)
    BY <1>2, <1>5 DEF Held, Owns
  <2>3. \A x, y \in Held(Top(th).req) : x = y
    BY <2>1 DEF IInv, Ownership
  <2> QED
    BY <2>1, <2>2, <2>3, KnownRequests
<1>6. Top(th).at # "cancel" => Top(th).left = {}
  BY <1>3 DEF FrameOK
<1> QED
  BY <1>1, <1>3, <1>4, <1>5, <1>6 DEF Owns

(* The form of the frames, when a call ends, ... *)
LEMMA FormsPopped ==
    ASSUME FramesType, Forms, NEW th \in Threads, frames[th] # <<>>, Popped(th)
    PROVE  Forms'
<1> DEFINE s == frames[th]
           t == frames'[th]
<1>1. Len(s) \in Nat \ {0}
  BY TopFacts
<1>2. Len(t) = Len(s) - 1 /\ \A i \in 1 .. Len(s) - 1 : t[i] = s[i]
  BY DEF Popped, Keeps
<1> HIDE DEF s, t
<1>3. ASSUME th \in Clients PROVE ClientForm(t)
  <2>1. ClientForm(s)
    BY <1>3 DEF Forms, s
  <2>2. Len(s) <= 2
    BY <2>1 DEF ClientForm
  <2>3. Len(t) <= 2 /\ Len(t) # 2 /\ (Len(t) = 1 => Len(s) = 2 /\ t[1] = s[1])
    BY <1>1, <1>2, <2>2
  <2>4. Len(s) = 2 => s[1].at \in {"ready", "cancel"}
    BY <2>1 DEF ClientForm
  <2> QED
    BY <2>3, <2>4 DEF ClientForm, Destructor
<1>4. ASSUME th = Dispatcher PROVE DispatcherForm(t)
  BY <1>4, DispatcherPopped DEF Forms, s, t
<1>5. ASSUME th = Deleter PROVE DeleterForm(t)
  <2>1. Len(s) <= 1
    BY <1>5 DEF Forms, DeleterForm, s
  <2>2. Len(t) = 0
    BY <1>1, <1>2, <2>1
  <2> QED
    BY <2>2 DEF DeleterForm
<1>6. FormOf(th)'
  BY <1>3, <1>4, <1>5 DEF FormOf, t
<1>7. Others(th) /\ \A x \in Calls' : x \in Calls \/ FrameOK(x[3])
  BY DEF Popped
<1> QED
  BY <1>6, <1>7, FormsChange

(* ... or goes on with the deletion of a request, ... *)
LEMMA FormsStopping ==
    ASSUME FramesType, Forms, NEW th \in Threads, frames[th] # <<>>, NEW f, Replaced(th, f),
           Top(th).at \in StopPlaces, f.at \in StopPlaces, f.req = Top(th).req, FrameOK(f)
    PROVE  Forms'
<1> DEFINE s == frames[th]
           t == frames'[th]
           n == Len(s)
<1>1. n \in Nat \ {0} /\ s[n] = Top(th)
  BY TopFacts
<1>2. Len(t) = n /\ t[n] = f /\ \A i \in 1 .. n - 1 : t[i] = s[i]
  BY DEF Replaced, Keeps
<1>3. s[n].at \in StopPlaces
  BY <1>1
<1>4. ASSUME th \in Clients PROVE ClientForm(t)
  <2>1. ClientForm(s)
    BY <1>4 DEF Forms
  <2> HIDE DEF s, t
  <2>2. n <= 2
    BY <2>1 DEF ClientForm
  <2>3. n = 1 \/ n = 2
    <3> HIDE DEF n
    <3> QED
      BY <1>1, <2>2
  <2>4. CASE n = 1
    BY <1>2, <2>4 DEF ClientForm
  <2>5. CASE n = 2
    <3>1. s[1].at = "cancel"
      BY <1>3, <2>1, <2>5 DEF ClientForm, StopPlaces
    <3>2. t[1] = s[1] /\ t[2] = f /\ Len(t) = 2
      BY <1>2, <2>5
    <3> QED
      BY <3>1, <3>2 DEF ClientForm
  <2> QED
    BY <2>3, <2>4, <2>5
<1>5. ASSUME th = Dispatcher PROVE DispatcherForm(t)
  <2>1. DispatcherForm(s)
    BY <1>5 DEF Forms
  <2>2. n # 1
    <3>1. n = 1 => s[1].at \in CallbackPlaces
      BY <1>1, <2>1 DEF DispatcherForm
    <3> QED
      BY <1>3, <3>1 DEF CallbackPlaces, StopPlaces
  <2>3. \A g : CalledFrom(g, Top(th)) => CalledFrom(g, f)
    BY DEF CalledFrom, StopPlaces, CallbackPlaces
  <2> QED
    BY <1>5, <2>1, <2>2, <2>3, DispatcherReplaced
<1>6. ASSUME th = Deleter PROVE DeleterForm(t)
  <2>1. DeleterForm(s)
    BY <1>6 DEF Forms
  <2> HIDE DEF s, t
  <2>2. n <= 1
    BY <2>1 DEF DeleterForm
  <2>3. n = 1
    <3> HIDE DEF n
    <3> QED
      BY <1>1, <2>2
  <2> QED
    BY <1>2, <2>3 DEF DeleterForm
<1>7. FormOf(th)'
  BY <1>4, <1>5, <1>6 DEF FormOf
<1>8. Others(th) /\ \A x \in Calls' : x \in Calls \/ FrameOK(x[3])
  <2>1. <<th, n, f>>[3] = f
    OBVIOUS
  <2> QED
    BY <2>1 DEF Replaced
<1> QED
  BY <1>7, <1>8, FormsChange

(* ... or a thread of the application goes on with the destructor.         *)
LEMMA FormsDestructing ==
    ASSUME FramesType, Forms, NEW c \in Clients, frames[c] # <<>>, NEW f, Replaced(c, f),
           Top(c).at \in Destructor, f.at \in Destructor, FrameOK(f)
    PROVE  /\ Forms'
           /\ Len(frames[c]) = 1
<1> DEFINE s == frames[c]
           t == frames'[c]
           n == Len(s)
<1>1. n \in Nat \ {0} /\ s[n] = Top(c)
  BY TopFacts DEF Threads
<1>2. Len(t) = n /\ t[n] = f
  BY DEF Replaced
<1>3. ClientForm(s)
  BY DEF Forms
<1>4. n = 1
  <2>1. n <= 2
    BY <1>3 DEF ClientForm
  <2>2. n = 2 => s[2].at \in {"emplace"} \cup StopPlaces
    BY <1>3 DEF ClientForm
  <2>3. n # 2
    BY <1>1, <2>2 DEF Destructor, StopPlaces
  <2> HIDE DEF n
  <2> QED
    BY <1>1, <2>1, <2>3
<1>5. ClientForm(t)
  BY <1>2, <1>4 DEF ClientForm
<1>6. FormOf(c)'
  BY <1>5, ThreadAssumption DEF FormOf
<1>7. Others(c) /\ \A x \in Calls' : x \in Calls \/ FrameOK(x[3])
  <2>1. <<c, n, f>>[3] = f
    OBVIOUS
  <2> QED
    BY <2>1 DEF Replaced
<1>8. Forms'
  BY <1>6, <1>7, FormsChange DEF Threads
<1> QED
  BY <1>4, <1>8

(* Who is in a callback, and in the destructor. *)
LEMMA WhoIsWhere ==
    ASSUME FramesType, Forms, NEW x \in Calls
    PROVE  /\ x[3].at \in CallbackPlaces => x[1] = Dispatcher
           /\ x[3].at \in Destructor => x[1] \in Clients /\ x[2] = 1
<1> DEFINE th == x[1]
           i == x[2]
           s == frames[th]
           n == Len(s)
<1>1. th \in Threads /\ i \in 1 .. n /\ x[3] = s[i] /\ n \in Nat
  BY CallsFacts
<1> HIDE DEF i
<1>2. CASE th \in Clients
  <2>1. ClientForm(s)
    BY <1>2 DEF Forms
  <2> HIDE DEF th, s
  <2>2. n <= 2
    BY <2>1 DEF ClientForm
  <2>3. i = 1 \/ (i = 2 /\ n = 2)
    <3> HIDE DEF n
    <3> QED
      BY <1>1, <2>2
  <2>4. n = 1 \/ n = 2
    <3> HIDE DEF n
    <3> QED
      BY <1>1, <2>2
  <2>5. s[i].at \notin CallbackPlaces
    BY <2>1, <2>3, <2>4 DEF ClientForm, StopPlaces, Destructor, CallbackPlaces
  <2>6. s[i].at \in Destructor => i = 1
    BY <2>1, <2>3 DEF ClientForm, StopPlaces, Destructor
  <2> QED
    BY <1>1, <1>2, <2>5, <2>6 DEF th, i
<1>3. CASE th = Dispatcher
  <2>1. DispatcherForm(s)
    BY <1>3 DEF Forms
  <2>2. s[i].at \notin Destructor
    <3> HIDE DEF th, s
    <3>1. CASE i = 1
      BY <1>1, <2>1, <3>1 DEF DispatcherForm, CallbackPlaces, Destructor
    <3>2. CASE i # 1
      <4> DEFINE j == i - 1
      <4>1. j \in 1 .. n - 1 /\ i = j + 1
        BY <1>1, <3>2
      <4> HIDE DEF j
      <4>2. CalledFrom(s[j], s[i])
        BY <2>1, <4>1 DEF DispatcherForm
      <4> QED
        BY <4>2 DEF CalledFrom, CallbackPlaces, StopPlaces, Destructor
    <3> QED
      BY <3>1, <3>2
  <2> QED
    BY <1>1, <1>3, <2>2
<1>4. CASE th = Deleter
  <2>1. DeleterForm(s)
    BY <1>4 DEF Forms
  <2> HIDE DEF th, s
  <2>2. n <= 1
    BY <2>1 DEF DeleterForm
  <2>3. n = 1 /\ i = 1
    <3> HIDE DEF n
    <3> QED
      BY <1>1, <2>2
  <2> QED
    BY <1>1, <2>1, <2>3 DEF DeleterForm, StopPlaces, CallbackPlaces, Destructor
<1> QED
  BY <1>1, <1>2, <1>3, <1>4 DEF Threads

(* What was deleted still is not called back. *)
LEMMA DeletedKept ==
    ASSUME Deleted, Bodies' = Bodies, dispatch' = dispatch,
           \A r \in Requests : object'[r] = "deleted" => object[r] = "deleted"
    PROVE  Deleted'
<1>1. \A r \in Requests : HasCallbacks(r)' = HasCallbacks(r)
  BY DEF HasCallbacks
<1>2. \A x, r : x \in Calls /\ Runs(x[3], r) <=> x \in Bodies /\ x[3].req = r
  BY DEF Bodies, Runs
<1>3. \A x, r : x \in Calls' /\ Runs(x[3], r) <=> x \in Bodies /\ x[3].req = r
  BY DEF Bodies, Runs
<1> QED
  BY <1>1, <1>2, <1>3 DEF Deleted

-----------------------------------------------------------------------------
(* The steps of the calls of the client *)

(* ExecuteAsync lists the request. *)
LEMMA EmplaceInv ==
    ASSUME IInv, NEW th \in Threads, Emplace(th)
    PROVE  IInv'
<1> DEFINE t == TopCall(th)
<1>1. frames[th] # <<>> /\ Top(th).at = "emplace" /\ Returns(th)
  BY DEF Emplace, In
<1>2. PICK r \in Requests : r = Top(th).req
  BY <1>1, TopRequest DEF Destructor
<1>3. /\ active_requests' = active_requests \cup {r}
      /\ UNCHANGED <<is_shutdown, ready, object, curlVars, dispatch, later, history>>
  BY <1>2 DEF Emplace
<1>4. FramesType /\ object[r] = "alive" /\ Held(r) = {t}
  BY <1>1, <1>2, TopRequest
<1>5. /\ Popped(th) /\ Others(th) /\ Calls' = Calls \ {t}
      /\ t \in Calls /\ t[3] = Top(th)
  BY <1>1, <1>4, ReturnsPops, TopFacts DEF Popped
<1>6. \A q \in Requests : q # r => ~Owns(Top(th), q)
  BY <1>1, <1>2, TopRequest
<1> HIDE DEF t
<1>7. ~is_shutdown
  BY <1>1, <1>5 DEF IInv, Shutdown
<1>8. Bodies' = Bodies
  BY <1>1, <1>4, <1>5, BodiesKept DEF CallbackPlaces
<1>9. /\ Held(r)' = {}
      /\ \A q \in Requests : q # r => Held(q)' = Held(q)
  <2>1. ASSUME NEW x \in Calls', Owns(x[3], r) PROVE FALSE
    <3>1. x \in Held(r)
      BY <1>5, <2>1 DEF Held
    <3> QED
      BY <1>4, <1>5, <3>1
  <2>2. ASSUME NEW q \in Requests, q # r PROVE Held(q)' = Held(q)
    BY <1>5, <1>6, <2>2 DEF Held
  <2> QED
    BY <2>1, <2>2 DEF Held
<1>10. TypeOK'
  BY <1>3, <1>4, <1>5 DEF IInv, TypeOK, Others, FramesType, curlVars, history
<1>11. Forms'
  BY <1>1, <1>4, <1>5, FormsPopped DEF IInv
<1>12. Shutdown'
  BY <1>3, <1>5, <1>7 DEF IInv, Shutdown, history
<1>13. Ownership' /\ \A q \in Requests : LeftToDeleter(q)' => LeftToDeleter(q)
  <2>1. \A q \in Requests : InLater(q)' = InLater(q)
    BY <1>3 DEF InLater
  <2>2. Held(r) # {} /\ ~InLater(r) /\ r \notin active_requests
    BY <1>4 DEF IInv, Ownership
  <2>3. Ownership'
    BY <1>3, <1>4, <1>9, <2>1, <2>2 DEF IInv, Ownership
  <2>4. \A q \in Requests : LeftToDeleter(q)' => LeftToDeleter(q)
    BY <1>9, <2>1 DEF LeftToDeleter
  <2> QED
    BY <2>3, <2>4
<1>14. Unknown'
  BY <1>3, <1>4, <1>5 DEF IInv, Unknown, Fresh, curlVars, history
<1>15. Transfer'
  BY <1>3 DEF IInv, Transfer, Sent, Sending, curlVars
<1>16. Stops'
  BY <1>1, <1>3, <1>5 DEF IInv, Stops, Sending, Stopping, InStop, curlVars
<1>17. Callbacks' /\ Running'
  BY <1>3, <1>8, CallbacksKept DEF IInv, curlVars, history
<1>18. Answered'
  BY <1>3, <1>8, <1>13, AnsweredKept DEF IInv, history
<1>19. Deleted'
  BY <1>3, <1>8, DeletedKept DEF IInv
<1> QED
  BY <1>10, <1>11, <1>12, <1>13, <1>14, <1>15, <1>16, <1>17, <1>18, <1>19 DEF IInv

(* Execute returns. *)
LEMMA WaitUntilReadyInv ==
    ASSUME IInv, NEW th \in Threads, WaitUntilReady(th)
    PROVE  IInv'
<1> DEFINE t == TopCall(th)
<1>1. frames[th] # <<>> /\ Top(th).at = "ready" /\ Returns(th)
  BY DEF WaitUntilReady, In
<1>2. UNCHANGED <<clientVars, curlVars, dispatch, later, history>>
  BY DEF WaitUntilReady
<1>3. FramesType /\ \A r \in Requests : ~Owns(Top(th), r)
  BY <1>1, TopRequest
<1>4. /\ Popped(th) /\ Others(th) /\ Calls' = Calls \ {t}
      /\ t \in Calls /\ t[3] = Top(th)
  BY <1>1, <1>3, ReturnsPops, TopFacts DEF Popped
<1> HIDE DEF t
<1>5. Bodies' = Bodies
  BY <1>1, <1>3, <1>4, BodiesKept DEF CallbackPlaces
<1>6. HoldersKept
  BY <1>1, <1>3, <1>4, HeldKept DEF IInv
<1>7. TypeOK'
  BY <1>2, <1>4 DEF IInv, TypeOK, Others, FramesType, clientVars, curlVars, history
<1>8. Forms'
  BY <1>1, <1>3, <1>4, FormsPopped DEF IInv
<1>9. Shutdown'
  BY <1>2, <1>4 DEF IInv, Shutdown, clientVars, history
<1>10. Ownership' /\ \A r \in Requests : LeftToDeleter(r)' => LeftToDeleter(r)
  BY <1>2, <1>6, OwnershipKept DEF IInv, clientVars
<1>11. Unknown'
  BY <1>2, <1>4 DEF IInv, Unknown, Fresh, clientVars, curlVars, history
<1>12. Transfer'
  BY <1>2 DEF IInv, Transfer, Sent, Sending, clientVars, curlVars
<1>13. Stops'
  BY <1>1, <1>2, <1>4 DEF IInv, Stops, Sending, Stopping, InStop, clientVars, curlVars
<1>14. Callbacks' /\ Running'
  BY <1>2, <1>5, CallbacksKept DEF IInv, clientVars, curlVars, history
<1>15. Answered'
  BY <1>2, <1>5, <1>10, AnsweredKept DEF IInv, history
<1>16. Deleted'
  BY <1>2, <1>5, DeletedKept DEF IInv, clientVars
<1> QED
  BY <1>7, <1>8, <1>9, <1>10, <1>11, <1>12, <1>13, <1>14, <1>15, <1>16 DEF IInv

(* The thread that deletes a request asks for its end: nobody has, because *)
(* who asks is the one that deletes it.                                    *)
LEMMA StopRequestInv ==
    ASSUME IInv, NEW th \in Threads, StopRequest(th)
    PROVE  IInv'
<1> DEFINE r == Top(th).req
           t == TopCall(th)
           f == At("complete", r)
           n == <<th, Len(frames[th]), f>>
           m == Message("STOP", r)
<1>1. frames[th] # <<>> /\ Top(th).at = "stop" /\ GoesTo(th, f)
  BY DEF StopRequest, In
<1>2. /\ messages' = Append(messages, m)
      /\ UNCHANGED <<clientVars, multi, curl, is_complete, callback_posted, dispatch, later,
                     history>>
  BY DEF StopRequest, Message
<1>3. FramesType /\ r \in Requests /\ object[r] = "alive" /\ Held(r) = {t}
  BY <1>1, TopRequest DEF Destructor
<1>4. /\ f \in Frame /\ f.at = "complete" /\ f.req = r /\ f.left = {} /\ FrameOK(f)
      /\ n[1] = th /\ n[3] = f
  BY <1>3, NoRequestAssumption DEF At, Frame, Places, FrameOK, Destructor, CallbackPlaces
<1>5. \A q \in Requests : Owns(Top(th), q) <=> q = r
  BY <1>1, TopRequest
<1> HIDE DEF f
<1>6. /\ Replaced(th, f) /\ Others(th) /\ Calls' = (Calls \ {t}) \cup {n}
      /\ t \in Calls /\ t[3] = Top(th) /\ t[1] = th
  BY <1>1, <1>3, <1>4, GoesToReplaces, TopFacts DEF Replaced
<1> HIDE DEF t, n
<1>7. Bodies' = Bodies
  BY <1>1, <1>3, <1>4, <1>6, BodiesKept DEF CallbackPlaces
<1>8. \A q \in Requests : Owns(f, q) <=> q = r
  BY <1>4 DEF Owns
<1>9. HoldersKept
  BY <1>1, <1>3, <1>5, <1>6, <1>8, HeldKept DEF IInv
<1>10. ~InStop(r)
  <2>1. ASSUME NEW x \in Calls, x[3].at \in {"complete", "drain"}, x[3].req = r PROVE FALSE
    <3>1. x \in Held(r)
      BY <2>1 DEF Held, Owns
    <3>2. x[3] = Top(th)
      BY <1>3, <1>6, <3>1
    <3> QED
      BY <1>1, <2>1, <3>2
  <2> QED
    BY <2>1 DEF InStop
<1>11. ~Sending(m) /\ ~Stopping(r) /\ r \notin is_complete
  BY <1>3, <1>10 DEF IInv, Stops
<1> HIDE DEF r
<1>12. m.type = "STOP" /\ m.req = r /\ m \in [type : {"START", "STOP"}, req : Requests]
  BY <1>3 DEF Message
<1>13. messages \in Seq([type : {"START", "STOP"}, req : Requests]) /\ Len(messages) \in Nat
  BY DEF IInv, TypeOK
<1> HIDE DEF m
<1>14. /\ messages' \in Seq([type : {"START", "STOP"}, req : Requests])
       /\ Len(messages') = Len(messages) + 1
       /\ messages'[Len(messages) + 1] = m
       /\ \A i \in 1 .. Len(messages) : messages'[i] = messages[i]
  BY <1>2, <1>12, <1>13, AppendFacts
<1>15. \A i : i \in 1 .. Len(messages') <=> i \in 1 .. Len(messages) \/ i = Len(messages) + 1
  BY <1>13, <1>14
<1>16. \A k : Sending(k)' <=> Sending(k) \/ k = m
  BY <1>14, <1>15 DEF Sending
<1>17. IsInjective(messages')
  <2>1. IsInjective(messages)
    BY DEF IInv, TypeOK
  <2>2. DOMAIN messages = 1 .. Len(messages) /\ DOMAIN messages' = 1 .. Len(messages')
    BY <1>13, <1>14
  <2> QED
    BY <1>11, <1>14, <1>15, <2>1, <2>2 DEF IsInjective, Sending
<1>18. TypeOK'
  BY <1>2, <1>6, <1>14, <1>17 DEF IInv, TypeOK, Others, FramesType, clientVars, history
<1>19. Forms'
  BY <1>1, <1>3, <1>4, <1>6, FormsStopping DEF IInv, StopPlaces, r
<1>20. Shutdown'
  BY <1>1, <1>2, <1>4, <1>6 DEF IInv, Shutdown, clientVars, history, Destructor
<1>21. Ownership' /\ \A q \in Requests : LeftToDeleter(q)' => LeftToDeleter(q)
  BY <1>2, <1>9, OwnershipKept DEF IInv, clientVars
<1>22. Unknown'
  BY <1>2, <1>3, <1>4, <1>6, <1>12, <1>14, <1>15
     DEF IInv, Unknown, Fresh, clientVars, history
<1>23. Transfer'
  <2>1. \A q \in Requests : Sending(Message("START", q))' <=> Sending(Message("START", q))
    BY <1>12, <1>16 DEF Message
  <2>2. \A q \in Requests : Sent(q)' <=> Sent(q)
    BY <1>2 DEF Sent
  <2> QED
    BY <1>2, <2>1, <2>2 DEF IInv, Transfer, clientVars
<1>24. Stops'
  <2>1. \A q \in Requests : Sending(Message("STOP", q))' <=> Sending(Message("STOP", q)) \/ q = r
    BY <1>16 DEF Message, m
  <2>2. \A q \in Requests : Stopping(q)' <=> Stopping(q)
    BY <1>2 DEF Stopping
  <2>3. \A q \in Requests : InStop(q)' <=> InStop(q) \/ q = r
    BY <1>1, <1>4, <1>6 DEF InStop
  <2>4. \A x \in Calls' : x[3].at = "drain" => x \in Calls
    BY <1>4, <1>6
  <2> QED
    BY <1>2, <1>11, <2>1, <2>2, <2>3, <2>4 DEF IInv, Stops, clientVars
<1>25. Callbacks' /\ Running'
  BY <1>2, <1>7, CallbacksKept DEF IInv, clientVars, history
<1>26. Answered'
  BY <1>2, <1>7, <1>21, AnsweredKept DEF IInv, history
<1>27. Deleted'
  BY <1>2, <1>7, DeletedKept DEF IInv, clientVars
<1> QED
  BY <1>18, <1>19, <1>20, <1>21, <1>22, <1>23, <1>24, <1>25, <1>26, <1>27 DEF IInv

(* stop_request goes on when the curl thread has done with the request.    *)
LEMMA WaitForCompletionInv ==
    ASSUME IInv, NEW th \in Threads, WaitForCompletion(th)
    PROVE  IInv'
<1> DEFINE t == TopCall(th)
<1>1. frames[th] # <<>> /\ Top(th).at = "complete"
  BY DEF WaitForCompletion, In
<1>2. PICK r \in Requests : r = Top(th).req
  BY <1>1, TopRequest DEF Destructor
<1> DEFINE f == At("drain", r)
           n == <<th, Len(frames[th]), f>>
<1>3. /\ GoesTo(th, f) /\ r \in is_complete \cap callback_posted
      /\ UNCHANGED <<clientVars, curlVars, dispatch, later, history>>
  BY <1>2 DEF WaitForCompletion
<1>4. FramesType /\ object[r] = "alive"
  BY <1>1, <1>2, TopRequest
<1>5. /\ f \in Frame /\ f.at = "drain" /\ f.req = r /\ f.left = {} /\ FrameOK(f)
      /\ n[1] = th /\ n[3] = f
  BY <1>2, NoRequestAssumption DEF At, Frame, Places, FrameOK, Destructor, CallbackPlaces
<1>6. \A q \in Requests : Owns(Top(th), q) <=> q = r
  BY <1>1, <1>2, TopRequest
<1> HIDE DEF f
<1>7. /\ Replaced(th, f) /\ Others(th) /\ Calls' = (Calls \ {t}) \cup {n}
      /\ t \in Calls /\ t[3] = Top(th) /\ t[1] = th
  BY <1>1, <1>3, <1>4, <1>5, GoesToReplaces, TopFacts DEF Replaced
<1> HIDE DEF t, n
<1>8. Bodies' = Bodies
  BY <1>1, <1>4, <1>5, <1>7, BodiesKept DEF CallbackPlaces
<1>9. \A q \in Requests : Owns(f, q) <=> q = r
  BY <1>5 DEF Owns
<1>10. HoldersKept
  BY <1>1, <1>4, <1>6, <1>7, <1>9, HeldKept DEF IInv
<1>11. TypeOK'
  BY <1>3, <1>7 DEF IInv, TypeOK, Others, FramesType, clientVars, curlVars, history
<1>12. Forms'
  BY <1>1, <1>2, <1>4, <1>5, <1>7, FormsStopping DEF IInv, StopPlaces
<1>13. Shutdown'
  BY <1>1, <1>3, <1>5, <1>7 DEF IInv, Shutdown, clientVars, history, Destructor
<1>14. Ownership' /\ \A q \in Requests : LeftToDeleter(q)' => LeftToDeleter(q)
  BY <1>3, <1>10, OwnershipKept DEF IInv, clientVars
<1>15. Unknown'
  BY <1>3, <1>4, <1>5, <1>7 DEF IInv, Unknown, Fresh, clientVars, curlVars, history
<1>16. Transfer'
  BY <1>3 DEF IInv, Transfer, Sent, Sending, clientVars, curlVars
<1>17. Stops'
  <2>1. \A q \in Requests : /\ Sending(Message("STOP", q))' <=> Sending(Message("STOP", q))
                            /\ Stopping(q)' <=> Stopping(q)
    BY <1>3 DEF Sending, Stopping, curlVars
  <2>2. \A q \in Requests : InStop(q)' <=> InStop(q)
    BY <1>1, <1>2, <1>5, <1>7 DEF InStop
  <2>3. \A x \in Calls' : x[3].at = "drain" => x \in Calls \/ x = n
    BY <1>5, <1>7
  <2> QED
    BY <1>3, <1>5, <2>1, <2>2, <2>3 DEF IInv, Stops, clientVars, curlVars
<1>18. Callbacks' /\ Running'
  BY <1>3, <1>8, CallbacksKept DEF IInv, clientVars, curlVars, history
<1>19. Answered'
  BY <1>3, <1>8, <1>14, AnsweredKept DEF IInv, history
<1>20. Deleted'
  BY <1>3, <1>8, DeletedKept DEF IInv, clientVars
<1> QED
  BY <1>11, <1>12, <1>13, <1>14, <1>15, <1>16, <1>17, <1>18, <1>19, <1>20 DEF IInv

(* A thread that cancels a request within a callback of that one is not    *)
(* the dispatcher's.                                                       *)
LEMMA NoCallbackLeft ==
    ASSUME IInv, NEW th \in Threads, frames[th] # <<>>, Top(th).at \in StopPlaces,
           Drained(th, Top(th).req)
    PROVE  \A x \in Calls : ~Runs(x[3], Top(th).req)
<1> SUFFICES ASSUME NEW x \in Calls, Runs(x[3], Top(th).req) PROVE FALSE
  OBVIOUS
<1>1. FramesType /\ Forms
  BY TopRequest DEF IInv
<1>2. /\ x[1] = Dispatcher /\ x[2] \in 1 .. Len(frames[Dispatcher])
      /\ x[3] = frames[Dispatcher][x[2]] /\ x[3].at \in CallbackPlaces
      /\ x[3].req = Top(th).req
  BY <1>1, WhoIsWhere, CallsFacts DEF Runs
<1>3. frames[Dispatcher] \in Seq(Frame)
  BY <1>1, CallsFacts DEF Threads
<1>4. x[2] \in DOMAIN frames[Dispatcher]
  BY <1>2, <1>3
<1>5. CallbackRuns(Top(th).req)
  BY <1>2, <1>4 DEF CallbackRuns, CallbackPlaces
<1>6. th = Dispatcher
  BY <1>5 DEF Drained
<1> DEFINE n == Len(frames[Dispatcher])
<1>7. n \in Nat \ {0} /\ Top(th) = frames[Dispatcher][n]
  BY <1>1, <1>6, TopFacts
<1>8. x[2] # n
  BY <1>2, <1>7 DEF StopPlaces, CallbackPlaces
<1>9. x[2] \in 1 .. n /\ n \in 1 .. n /\ x[2] < n
  <2> HIDE DEF n
  <2>1. x[2] \in 1 .. n
    BY <1>2 DEF n
  <2> QED
    BY <1>7, <1>8, <2>1
<1>10. DispatcherForm(frames[Dispatcher])
  BY <1>1 DEF Forms
<1>11. frames[Dispatcher][n].at \in StopPlaces
  BY <1>7
<1>12. frames[Dispatcher][x[2]].req # frames[Dispatcher][n].req
  BY <1>9, <1>10, <1>11 DEF DispatcherForm
<1> QED
  BY <1>2, <1>7, <1>12

(* The HttpRequest is deleted. *)
LEMMA DeleteRequestInv ==
    ASSUME IInv, NEW th \in Threads, DeleteRequest(th)
    PROVE  IInv'
<1> DEFINE t == TopCall(th)
<1>1. frames[th] # <<>> /\ Top(th).at = "drain" /\ Returns(th) /\ Drained(th, Top(th).req)
  BY DEF DeleteRequest, In
<1>2. PICK r \in Requests : r = Top(th).req
  BY <1>1, TopRequest DEF Destructor
<1>3. /\ object' = [object EXCEPT ![r] = "deleted"]
      /\ UNCHANGED <<active_requests, is_shutdown, ready, curlVars, dispatch, later, history>>
  BY <1>2 DEF DeleteRequest
<1>4. FramesType /\ object[r] = "alive" /\ Held(r) = {t}
  BY <1>1, <1>2, TopRequest
<1>5. \A q \in Requests : q # r => ~Owns(Top(th), q)
  BY <1>1, <1>2, TopRequest
<1>6. \A x \in Calls : ~Runs(x[3], r)
  BY <1>1, <1>2, NoCallbackLeft DEF StopPlaces
<1>7. ~HasCallbacks(r)
  <2>1. dispatch \in Seq([req : Requests, kind : Kinds])
    BY DEF IInv, TypeOK
  <2>2. DOMAIN dispatch = 1 .. Len(dispatch)
    BY <2>1
  <2> QED
    BY <1>1, <1>2, <2>2 DEF Drained, Queued, HasCallbacks
<1>8. /\ Popped(th) /\ Others(th) /\ Calls' = Calls \ {t}
      /\ t \in Calls /\ t[3] = Top(th)
  BY <1>1, <1>4, ReturnsPops, TopFacts DEF Popped
<1> HIDE DEF t
<1>9. Bodies' = Bodies
  BY <1>1, <1>4, <1>8, BodiesKept DEF CallbackPlaces
<1>10. /\ Held(r)' = {}
       /\ \A q \in Requests : q # r => Held(q)' = Held(q)
  <2>1. ASSUME NEW x \in Calls', Owns(x[3], r) PROVE FALSE
    <3>1. x \in Held(r)
      BY <1>8, <2>1 DEF Held
    <3> QED
      BY <1>4, <1>8, <3>1
  <2>2. ASSUME NEW q \in Requests, q # r PROVE Held(q)' = Held(q)
    BY <1>5, <1>8, <2>2 DEF Held
  <2> QED
    BY <2>1, <2>2 DEF Held
<1>11. /\ object \in [Requests -> {"none", "alive", "deleted"}]
       /\ object'[r] = "deleted" /\ \A q \in Requests : q # r => object'[q] = object[q]
  BY <1>3 DEF IInv, TypeOK
<1>12. TypeOK'
  BY <1>3, <1>8, <1>11 DEF IInv, TypeOK, Others, FramesType, curlVars, history
<1>13. Forms'
  BY <1>1, <1>4, <1>8, FormsPopped DEF IInv
<1>14. Shutdown'
  BY <1>3, <1>8 DEF IInv, Shutdown, history
<1>15. Ownership' /\ \A q \in Requests : LeftToDeleter(q)' => LeftToDeleter(q)
  <2>1. \A q \in Requests : InLater(q)' = InLater(q)
    BY <1>3 DEF InLater
  <2>2. Held(r) # {} /\ ~InLater(r) /\ r \notin active_requests
    BY <1>4 DEF IInv, Ownership
  <2>3. Ownership'
    BY <1>3, <1>10, <1>11, <2>1, <2>2 DEF IInv, Ownership
  <2>4. \A q \in Requests : LeftToDeleter(q)' => LeftToDeleter(q)
    BY <1>10, <2>1 DEF LeftToDeleter
  <2> QED
    BY <2>3, <2>4
<1>16. Unknown'
  BY <1>3, <1>8, <1>11 DEF IInv, Unknown, Fresh, curlVars, history
<1>17. r \in is_complete \cap callback_posted
  BY <1>1, <1>2, <1>8 DEF IInv, Stops
<1>18. Transfer'
  BY <1>3, <1>11, <1>17 DEF IInv, Transfer, Sent, Sending, curlVars
<1>19. Stops'
  <2>1. \A q \in Requests : /\ Sending(Message("STOP", q))' <=> Sending(Message("STOP", q))
                            /\ Stopping(q)' <=> Stopping(q)
    BY <1>3 DEF Sending, Stopping, curlVars
  <2>2. \A q \in Requests : q # r => (InStop(q)' <=> InStop(q))
    BY <1>2, <1>8 DEF InStop
  <2>3. \A x \in Calls' : x \in Calls
    BY <1>8
  <2> QED
    BY <1>3, <1>11, <2>1, <2>2, <2>3 DEF IInv, Stops, curlVars
<1>20. Callbacks' /\ Running'
  BY <1>3, <1>9, CallbacksKept DEF IInv, curlVars, history
<1>21. Answered'
  BY <1>3, <1>9, <1>15, AnsweredKept DEF IInv, history
<1>22. Deleted'
  <2>1. \A q \in Requests : HasCallbacks(q)' = HasCallbacks(q)
    BY <1>3 DEF HasCallbacks
  <2> QED
    BY <1>6, <1>7, <1>8, <1>11, <2>1 DEF IInv, Deleted
<1> QED
  BY <1>12, <1>13, <1>14, <1>15, <1>16, <1>18, <1>19, <1>20, <1>21, <1>22 DEF IInv

(* The thread of delete_later takes a request. *)
LEMMA DeleteLaterInv ==
    ASSUME IInv, DeleteLater
    PROVE  IInv'
<1>1. /\ frames[Deleter] = <<>> /\ later # <<>> /\ later' = Tail(later)
      /\ UNCHANGED <<clientVars, curlVars, dispatch, history>>
  BY DEF DeleteLater
<1>2. later \in Seq(Requests)
  BY DEF IInv, TypeOK
<1>3. PICK r \in Requests : r = Head(later)
  BY <1>1, <1>2
<1> DEFINE f == At("stop", r)
           n == Above(Deleter, f)
<1>4. Enters(Deleter, f)
  BY <1>3 DEF DeleteLater
<1>5. /\ f \in Frame /\ f.at = "stop" /\ f.req = r /\ f.left = {} /\ FrameOK(f)
      /\ n[1] = Deleter /\ n[3] = f
  BY NoRequestAssumption
     DEF At, Frame, Places, FrameOK, Destructor, CallbackPlaces, Above
<1> HIDE DEF f
<1>6. FramesType /\ Deleter \in Threads /\ Len(frames[Deleter]) = 0
  BY <1>1, CallsFacts DEF IInv, TypeOK, FramesType, Threads
<1>7. /\ Pushed(Deleter, f) /\ Others(Deleter) /\ Calls' = Calls \cup {n} /\ n \notin Calls
      /\ Len(frames'[Deleter]) = 1 /\ frames'[Deleter][1] = f
  <2>1. Pushed(Deleter, f)
    BY <1>4, <1>5, <1>6, EntersPushes
  <2>2. Len(frames[Deleter]) + 1 = 1
    BY <1>6
  <2> QED
    BY <2>1, <2>2 DEF Pushed
<1> HIDE DEF n
<1>8. Bodies' = Bodies
  BY <1>5, <1>6, <1>7, BodiesKept DEF CallbackPlaces
<1>9. /\ Len(later) \in Nat \ {0} /\ Len(later') = Len(later) - 1 /\ later[1] = r
      /\ later' \in Seq(Requests)
      /\ \A i \in 1 .. Len(later) - 1 : later'[i] = later[i + 1]
  BY <1>1, <1>2, <1>3, TailFacts
<1>10. \A i, j \in 1 .. Len(later) : later[i] = later[j] => i = j
  BY DEF IInv, Ownership
<1>11. \A q \in Requests : InLater(q)' <=> InLater(q) /\ q # r
  <2>1. ASSUME NEW i \in 1 .. Len(later') PROVE i + 1 \in 1 .. Len(later) /\ later[i + 1] # r
    <3>1. 1 \in 1 .. Len(later) /\ i + 1 \in 1 .. Len(later) /\ i + 1 # 1
      BY <1>9
    <3> QED
      BY <1>9, <1>10, <3>1
  <2>2. ASSUME NEW q \in Requests, InLater(q)' PROVE InLater(q) /\ q # r
    BY <1>9, <2>1, <2>2 DEF InLater
  <2>3. ASSUME NEW q \in Requests, InLater(q), q # r PROVE InLater(q)'
    <3>1. PICK i \in 1 .. Len(later) : later[i] = q
      BY <2>3 DEF InLater
    <3>2. i # 1
      BY <1>9, <2>3, <3>1
    <3>3. i - 1 \in 1 .. Len(later') /\ i - 1 \in 1 .. Len(later) - 1 /\ (i - 1) + 1 = i
      BY <1>9, <3>2
    <3>4. later'[i - 1] = q
      BY <1>9, <3>1, <3>3
    <3> QED
      BY <3>3, <3>4 DEF InLater
  <2> QED
    BY <2>2, <2>3
<1>12. InLater(r)
  BY <1>9 DEF InLater
<1>13. r \notin active_requests /\ Held(r) = {} /\ object[r] = "alive"
  BY <1>12 DEF IInv, Ownership
<1>14. Held(r)' = {n} /\ \A q \in Requests : q # r => Held(q)' = Held(q)
  BY <1>5, <1>7, <1>13 DEF Held, Owns
<1>15. TypeOK'
  BY <1>1, <1>7, <1>9 DEF IInv, TypeOK, Others, FramesType, clientVars, curlVars, history
<1>16. Forms'
  <2>1. FormOf(Deleter)'
    BY <1>5, <1>7, ThreadAssumption DEF FormOf, DeleterForm, StopPlaces
  <2> QED
    BY <1>5, <1>6, <1>7, <2>1, FormsChange DEF IInv
<1>17. Shutdown'
  BY <1>1, <1>5, <1>7, ThreadAssumption DEF IInv, Shutdown, Destructor, clientVars, history
<1>18. Ownership'
  <2>1. ASSUME NEW i \in 1 .. Len(later'), NEW j \in 1 .. Len(later'), later'[i] = later'[j]
        PROVE  i = j
    <3>1. i + 1 \in 1 .. Len(later) /\ j + 1 \in 1 .. Len(later) /\ later[i + 1] = later[j + 1]
      BY <1>9, <2>1
    <3>2. i + 1 = j + 1
      BY <1>10, <3>1
    <3> QED
      BY <3>2
  <2>2. active_requests' = active_requests /\ object' = object
    BY <1>1 DEF clientVars
  <2>3. ASSUME NEW q \in Requests
        PROVE  /\ q \in active_requests => ~InLater(q)' /\ Held(q)' = {}
               /\ InLater(q)' => Held(q)' = {}
               /\ \A x, y \in Held(q)' : x = y
               /\ object[q] = "alive" <=> q \in active_requests \/ InLater(q)' \/ Held(q)' # {}
    BY <1>11, <1>13, <1>14 DEF IInv, Ownership
  <2> QED
    BY <2>1, <2>2, <2>3 DEF Ownership
<1>19. Unknown'
  BY <1>1, <1>5, <1>7, <1>13 DEF IInv, Unknown, Fresh, clientVars, curlVars, history
<1>20. Transfer'
  BY <1>1 DEF IInv, Transfer, Sent, Sending, clientVars, curlVars
<1>21. Stops'
  BY <1>1, <1>5, <1>7 DEF IInv, Stops, Sending, Stopping, InStop, clientVars, curlVars
<1>22. Callbacks' /\ Running'
  BY <1>1, <1>8, CallbacksKept DEF IInv, clientVars, curlVars, history
<1>23. Answered'
  <2>1. \A q \in Requests : LeftToDeleter(q)' => LeftToDeleter(q)
    BY <1>11, <1>12, <1>14 DEF LeftToDeleter
  <2> QED
    BY <1>1, <1>8, <2>1, AnsweredKept DEF IInv, history
<1>24. Deleted'
  BY <1>1, <1>8, DeletedKept DEF IInv, clientVars
<1> QED
  BY <1>15, <1>16, <1>17, <1>18, <1>19, <1>20, <1>21, <1>22, <1>23, <1>24 DEF IInv

(* A thread of the application is in two calls now. *)
LEMMA TwoFrames ==
    ASSUME FramesType, NEW th \in Threads, NEW a \in Frame, NEW b \in Frame,
           Becomes(th, <<a, b>>)
    PROVE  /\ Others(th)
           /\ Len(frames'[th]) = 2 /\ frames'[th][1] = a /\ frames'[th][2] = b
           /\ Calls' = {x \in Calls : x[1] # th} \cup {<<th, 1, a>>, <<th, 2, b>>}
<1> DEFINE s == <<a, b>>
<1>1. s \in Seq(Frame) /\ Len(s) = 2 /\ s[1] = a /\ s[2] = b
  OBVIOUS
<1>2. frames' = [frames EXCEPT ![th] = s]
  BY DEF Becomes
<1> HIDE DEF s
<1>3. Others(th) /\ frames'[th] = s
  BY <1>1, <1>2 DEF Others, FramesType
<1>4. \A i : i \in 1 .. 2 <=> i = 1 \/ i = 2
  OBVIOUS
<1>5. ASSUME NEW x \in Calls'
      PROVE  (x \in Calls /\ x[1] # th) \/ x = <<th, 1, a>> \/ x = <<th, 2, b>>
  <2>1. PICK u \in Threads : \E i \in 1 .. Len(frames'[u]) : x = <<u, i, frames'[u][i]>>
    BY DEF Calls
  <2>2. PICK i \in 1 .. Len(frames'[u]) : x = <<u, i, frames'[u][i]>>
    BY <2>1
  <2>3. CASE u # th
    BY <1>3, <2>2, <2>3, CallsFacts DEF Others
  <2>4. CASE u = th
    BY <1>1, <1>3, <1>4, <2>2, <2>4
  <2> QED
    BY <2>3, <2>4
<1>6. ASSUME NEW x \in Calls, x[1] # th PROVE x \in Calls'
  <2>1. /\ x = <<x[1], x[2], frames[x[1]][x[2]]>> /\ x[1] \in Threads
        /\ x[2] \in 1 .. Len(frames[x[1]])
    BY CallsFacts
  <2>2. frames'[x[1]] = frames[x[1]]
    BY <1>3, <1>6, <2>1 DEF Others
  <2> QED
    BY <2>1, <2>2 DEF Calls
<1>7. <<th, 1, a>> \in Calls' /\ <<th, 2, b>> \in Calls'
  <2>1. 1 \in 1 .. Len(frames'[th]) /\ 2 \in 1 .. Len(frames'[th])
    <3>1. Len(frames'[th]) = 2
      BY <1>1, <1>3
    <3> QED
      BY <1>4, <3>1
  <2> QED
    BY <1>1, <1>3, <2>1 DEF Calls
<1> QED
  BY <1>1, <1>3, <1>5, <1>6, <1>7

(* Who calls the client, and when. *)
LEMMA WhoCalls ==
    ASSUME FramesType, Forms, NEW th \in Threads, MayCall(th)
    PROVE  \/ /\ th \in Clients /\ frames[th] = <<>> /\ Len(frames[th]) = 0
              /\ \A x \in Calls : x[3].at \notin Destructor
           \/ th = Dispatcher /\ frames[th] # <<>> /\ Top(th).at = "user"
<1>1. CASE In(th, "user")
  <2>1. frames[th] # <<>> /\ Top(th).at = "user"
    BY <1>1 DEF In
  <2>2. TopCall(th) \in Calls /\ TopCall(th)[3] = Top(th) /\ TopCall(th)[1] = th
    BY <2>1, TopFacts
  <2>3. th = Dispatcher
    BY <2>1, <2>2, WhoIsWhere DEF CallbackPlaces
  <2> QED
    BY <2>1, <2>3
<1>2. CASE th \in Clients /\ frames[th] = <<>> /\ ~Destructing
  <2>1. Len(frames[th]) = 0
    BY <1>2, CallsFacts
  <2>2. ASSUME NEW x \in Calls, x[3].at \in Destructor PROVE FALSE
    <3>1. x[1] \in Clients /\ x[2] = 1
      BY <2>2, WhoIsWhere
    <3>2. x[1] \in Threads /\ x[2] \in 1 .. Len(frames[x[1]]) /\ x[3] = frames[x[1]][x[2]]
      BY CallsFacts
    <3>3. frames[x[1]] # <<>>
      BY <3>1, <3>2, CallsFacts
    <3> QED
      BY <1>2, <2>2, <3>1, <3>2, <3>3 DEF Destructing, Destructor
  <2> QED
    BY <1>2, <2>1, <2>2
<1> QED
  BY <1>1, <1>2 DEF MayCall

(* A call of the client keeps the form of the frames. *)
LEMMA FormsCalled ==
    ASSUME FramesType, Forms, NEW th \in Threads, MayCall(th), NEW f, Pushed(th, f),
           FrameOK(f), f.at \in {"emplace", "stop"},
           f.at = "stop" => /\ th = Dispatcher => Top(th).req \in Cancelling
                            /\ \A i \in 1 .. Len(frames[th]) : frames[th][i].req # f.req
    PROVE  Forms'
<1>1. Others(th) /\ \A x \in Calls' : x \in Calls \/ FrameOK(x[3])
  BY DEF Pushed, Above
<1>2. CASE th \in Clients /\ Len(frames[th]) = 0
  <2>1. Len(frames[th]) + 1 = 1
    BY <1>2
  <2>2. Len(frames'[th]) = 1 /\ frames'[th][1] = f
    BY <2>1 DEF Pushed
  <2>3. FormOf(th)'
    BY <1>2, <2>2, ThreadAssumption DEF FormOf, ClientForm, StopPlaces
  <2> QED
    BY <1>1, <2>3, FormsChange
<1>3. CASE th = Dispatcher /\ frames[th] # <<>> /\ Top(th).at = "user"
  <2>1. CalledFrom(Top(th), f)
    BY <1>3 DEF CalledFrom, StopPlaces
  <2>2. DispatcherForm(frames'[Dispatcher])
    BY <1>3, <2>1, DispatcherPushed DEF Forms, StopPlaces
  <2>3. FormOf(th)'
    BY <1>3, <2>2, ThreadAssumption DEF FormOf
  <2> QED
    BY <1>1, <2>3, FormsChange
<1> QED
  BY <1>2, <1>3, WhoCalls

(* A call of the client is not that of the deleter, and none of the        *)
(* destructor.                                                             *)
LEMMA CancelAsyncRequestInv ==
    ASSUME IInv, NEW th \in Threads, NEW r \in Requests, CancelAsyncRequest(th, r)
    PROVE  IInv'
<1> DEFINE f == At("stop", r)
           n == Above(th, f)
<1>1. /\ MayCall(th) /\ r \in active_requests /\ (th = Dispatcher => Top(th).req \in Cancelling)
      /\ \A i \in DOMAIN frames[th] : frames[th][i].req # r
      /\ active_requests' = active_requests \ {r}
      /\ UNCHANGED <<is_shutdown, ready, object, curlVars, dispatch, later, history>>
  BY DEF CancelAsyncRequest
<1>2. Enters(th, f)
  BY DEF CancelAsyncRequest
<1>3. /\ f \in Frame /\ f.at = "stop" /\ f.req = r /\ f.left = {} /\ FrameOK(f)
      /\ n[1] = th /\ n[3] = f
  BY NoRequestAssumption
     DEF At, Frame, Places, FrameOK, Destructor, CallbackPlaces, Above
<1> HIDE DEF f
<1>4. FramesType /\ Forms
  BY DEF IInv, TypeOK, FramesType
<1>5. Pushed(th, f) /\ Others(th) /\ Calls' = Calls \cup {n}
  BY <1>2, <1>3, <1>4, EntersPushes DEF Pushed
<1> HIDE DEF n
<1>6. Bodies' = Bodies
  BY <1>3, <1>4, <1>5, BodiesKept DEF CallbackPlaces
<1>7. \/ th \in Clients /\ \A x \in Calls : x[3].at \notin Destructor
      \/ th = Dispatcher
  BY <1>1, <1>4, WhoCalls
<1>8. ~InLater(r) /\ Held(r) = {} /\ object[r] = "alive" /\ ~is_shutdown /\ ~destroyed
  BY <1>1 DEF IInv, Ownership, Shutdown
<1>9. Held(r)' = {n} /\ \A q \in Requests : q # r => Held(q)' = Held(q)
  BY <1>3, <1>5, <1>8 DEF Held, Owns
<1>10. TypeOK'
  BY <1>1, <1>5 DEF IInv, TypeOK, Others, FramesType, curlVars, history
<1>11. Forms'
  <2>1. DOMAIN frames[th] = 1 .. Len(frames[th])
    BY <1>4, CallsFacts
  <2> QED
    BY <1>1, <1>3, <1>4, <1>5, <2>1, FormsCalled
<1>12. Shutdown'
  BY <1>1, <1>3, <1>5, <1>7, <1>8, ThreadAssumption DEF IInv, Shutdown, Destructor, history
<1>13. Ownership' /\ \A q \in Requests : LeftToDeleter(q)' => LeftToDeleter(q)
  <2>1. \A q \in Requests : InLater(q)' = InLater(q)
    BY <1>1 DEF InLater
  <2>2. Ownership'
    BY <1>1, <1>8, <1>9, <2>1 DEF IInv, Ownership
  <2>3. th # Deleter
    BY <1>7, ThreadAssumption
  <2>4. \A q \in Requests : LeftToDeleter(q)' => LeftToDeleter(q)
    BY <1>3, <1>9, <2>1, <2>3 DEF LeftToDeleter
  <2> QED
    BY <2>2, <2>4
<1>14. Unknown'
  BY <1>1, <1>3, <1>5, <1>8 DEF IInv, Unknown, Fresh, curlVars, history
<1>15. Transfer'
  BY <1>1 DEF IInv, Transfer, Sent, Sending, curlVars
<1>16. Stops'
  BY <1>1, <1>3, <1>5 DEF IInv, Stops, Sending, Stopping, InStop, curlVars
<1>17. Callbacks' /\ Running'
  BY <1>1, <1>6, CallbacksKept DEF IInv, curlVars, history
<1>18. Answered'
  BY <1>1, <1>6, <1>13, AnsweredKept DEF IInv, history
<1>19. Deleted'
  BY <1>1, <1>6, DeletedKept DEF IInv
<1> QED
  BY <1>10, <1>11, <1>12, <1>13, <1>14, <1>15, <1>16, <1>17, <1>18, <1>19 DEF IInv

(* The destructor begins. *)
LEMMA DestructInv ==
    ASSUME IInv, NEW c \in Clients, Destruct(c)
    PROVE  IInv'
<1> DEFINE f == At("swap", NoRequest)
           n == Above(c, f)
<1>1. /\ \A d \in Clients : frames[d] = <<>>
      /\ ~is_shutdown
      /\ UNCHANGED <<clientVars, curlVars, dispatch, later, history>>
  BY DEF Destruct
<1>2. Enters(c, f)
  BY DEF Destruct
<1>3. /\ f \in Frame /\ f.at = "swap" /\ f.req = NoRequest /\ f.left = {} /\ FrameOK(f)
      /\ n[1] = c /\ n[3] = f
  BY DEF At, Frame, Places, FrameOK, Destructor, CallbackPlaces, Above
<1> HIDE DEF f
<1>4. FramesType /\ Forms /\ c \in Threads /\ Len(frames[c]) = 0
  BY <1>1, CallsFacts DEF IInv, TypeOK, FramesType, Threads
<1>5. Pushed(c, f) /\ Others(c) /\ Calls' = Calls \cup {n}
  BY <1>2, <1>3, <1>4, EntersPushes DEF Pushed
<1> HIDE DEF n
<1>6. Bodies' = Bodies
  BY <1>3, <1>4, <1>5, BodiesKept DEF CallbackPlaces
<1>7. \A r \in Requests : ~Owns(f, r)
  BY <1>3 DEF Owns
<1>8. HoldersKept
  BY <1>4, <1>5, <1>7, HeldKept DEF IInv
<1>9. \A x \in Calls : x[1] \notin Clients
  BY <1>1, <1>4, CallsFacts
<1>10. TypeOK'
  BY <1>1, <1>5 DEF IInv, TypeOK, Others, FramesType, clientVars, curlVars, history
<1>11. Forms'
  <2>1. Len(frames'[c]) = 1 /\ frames'[c][1] = f
    <3>1. Len(frames[c]) + 1 = 1
      BY <1>4
    <3> QED
      BY <1>5, <3>1 DEF Pushed
  <2>2. FormOf(c)'
    BY <1>3, <2>1, ThreadAssumption DEF FormOf, ClientForm, Destructor
  <2> QED
    BY <1>3, <1>4, <1>5, <2>2, FormsChange
<1>12. Shutdown'
  BY <1>1, <1>3, <1>5, <1>9 DEF IInv, Shutdown, clientVars, history
<1>13. Ownership' /\ \A r \in Requests : LeftToDeleter(r)' => LeftToDeleter(r)
  BY <1>1, <1>8, OwnershipKept DEF IInv, clientVars
<1>14. Unknown'
  BY <1>1, <1>3, <1>5, NoRequestAssumption
     DEF IInv, Unknown, Fresh, clientVars, curlVars, history
<1>15. Transfer'
  BY <1>1 DEF IInv, Transfer, Sent, Sending, clientVars, curlVars
<1>16. Stops'
  BY <1>1, <1>3, <1>5 DEF IInv, Stops, Sending, Stopping, InStop, clientVars, curlVars
<1>17. Callbacks' /\ Running'
  BY <1>1, <1>6, CallbacksKept DEF IInv, clientVars, curlVars, history
<1>18. Answered'
  BY <1>1, <1>6, <1>13, AnsweredKept DEF IInv, history
<1>19. Deleted'
  BY <1>1, <1>6, DeletedKept DEF IInv, clientVars
<1> QED
  BY <1>10, <1>11, <1>12, <1>13, <1>14, <1>15, <1>16, <1>17, <1>18, <1>19 DEF IInv

(* The destructor takes the requests that are left, or has ended.          *)
LEMMA SwapInv ==
    ASSUME IInv, NEW c \in Clients, Swap(c)
    PROVE  IInv'
<1> DEFINE t == TopCall(c)
<1>1. /\ frames[c] # <<>> /\ Top(c).at = "swap" /\ MutexFree
      /\ is_shutdown' = TRUE /\ active_requests' = {}
      /\ UNCHANGED <<ready, object, curlVars, dispatch, later, answers, events>>
  BY DEF Swap, In
<1>2. FramesType /\ Forms /\ c \in Threads
  BY DEF IInv, TypeOK, FramesType, Threads
<1>3. t \in Calls /\ t[3] = Top(c) /\ t[1] = c
  BY <1>1, <1>2, TopFacts
<1>4. \A r \in Requests : ~Owns(Top(c), r)
  BY <1>1, <1>2, TopRequest
<1> HIDE DEF t
<1>5. \A x \in Calls : x[3].at # "emplace"
  BY <1>1, <1>2, EmplaceIsOnTop, CallsFacts DEF MutexFree
<1>6. \A x \in Calls : x[1] \in Clients => x[1] = c
  BY <1>1, <1>3 DEF IInv, Shutdown, Destructor
<1>7. ~destroyed
  BY <1>3 DEF IInv, Shutdown
<1>8. \A r \in Requests : InLater(r)' = InLater(r)
  BY <1>1 DEF InLater
<1>9. Transfer'
  BY <1>1 DEF IInv, Transfer, Sent, Sending, curlVars
<1>10. CASE active_requests = {}
  <2>1. Returns(c) /\ destroyed' = TRUE
    BY <1>10 DEF Swap
  <2>2. Popped(c) /\ Others(c) /\ Calls' = Calls \ {t}
    BY <1>1, <1>2, <2>1, ReturnsPops DEF Popped, t
  <2>3. Bodies' = Bodies
    BY <1>1, <1>2, <2>2, BodiesKept DEF CallbackPlaces
  <2>4. HoldersKept
    BY <1>1, <1>2, <1>4, <2>2, HeldKept DEF IInv
  <2>5. Len(frames[c]) = 1
    <3>1. ClientForm(frames[c]) /\ Len(frames[c]) \in Nat \ {0}
          /\ Top(c) = frames[c][Len(frames[c])]
      BY <1>1, <1>2, TopFacts DEF Forms
    <3>2. Len(frames[c]) <= 2
      BY <3>1 DEF ClientForm
    <3>3. Len(frames[c]) # 2
      BY <1>1, <3>1 DEF ClientForm, StopPlaces
    <3> DEFINE n == Len(frames[c])
    <3> HIDE DEF n
    <3>4. n \in Nat \ {0} /\ n <= 2 /\ n # 2
      BY <3>1, <3>2, <3>3 DEF n
    <3>5. n = 1
      BY <3>4
    <3> QED
      BY <3>5 DEF n
  <2>6. \A x \in Calls' : x[1] \notin Clients
    <3>1. ASSUME NEW x \in Calls', x[1] \in Clients PROVE FALSE
      <4>1. x \in Calls /\ x # t /\ x[1] = c
        BY <1>6, <2>2, <3>1
      <4>2. x = <<x[1], x[2], x[3]>> /\ x[2] \in 1 .. Len(frames[x[1]])
            /\ x[3] = frames[x[1]][x[2]]
        BY <1>2, <4>1, CallsFacts
      <4>3. x[2] \in 1 .. 1
        BY <2>5, <4>1, <4>2
      <4>4. x[2] = 1
        BY <4>3
      <4>5. t = <<c, 1, frames[c][1]>>
        BY <1>1, <1>2, <2>5, TopFacts DEF t, TopCall
      <4> QED
        BY <4>1, <4>2, <4>4, <4>5
    <3> QED
      BY <3>1
  <2>7. TypeOK'
    BY <1>1, <2>1, <2>2 DEF IInv, TypeOK, Others, FramesType, curlVars
  <2>8. Forms'
    BY <1>1, <1>2, <2>2, FormsPopped
  <2>9. Shutdown'
    BY <1>1, <1>5, <2>2, <2>6 DEF Shutdown
  <2>10. Ownership' /\ \A r \in Requests : LeftToDeleter(r)' => LeftToDeleter(r)
    <3>1. UNCHANGED <<active_requests, later, object>>
      BY <1>1, <1>10
    <3> QED
      BY <2>4, <3>1, OwnershipKept DEF IInv
  <2>11. Unknown'
    BY <1>1, <2>2 DEF IInv, Unknown, Fresh, curlVars
  <2>12. Stops'
    BY <1>1, <1>3, <2>2 DEF IInv, Stops, Sending, Stopping, InStop, curlVars
  <2>13. Callbacks' /\ Running'
    BY <1>1, <2>3, CallbacksKept DEF IInv, curlVars
  <2>14. Answered'
    BY <1>1, <2>3, <2>10, AnsweredKept DEF IInv
  <2>15. Deleted'
    BY <1>1, <2>3, DeletedKept DEF IInv
  <2> QED
    BY <1>9, <2>7, <2>8, <2>9, <2>10, <2>11, <2>12, <2>13, <2>14, <2>15 DEF IInv
<1>11. CASE active_requests # {}
  <2>1. PICK left \in SUBSET Requests : left = active_requests
    BY DEF IInv, TypeOK
  <2> DEFINE f == CancelAll(left)
             n == <<c, Len(frames[c]), f>>
  <2>2. GoesTo(c, f) /\ destroyed' = destroyed
    BY <1>11, <2>1 DEF Swap
  <2>3. /\ f \in Frame /\ f.at = "cancel" /\ f.req = NoRequest /\ f.left = left /\ FrameOK(f)
        /\ f.kind = "none" /\ n[1] = c /\ n[3] = f
    BY DEF CancelAll, Frame, Places, FrameOK, Destructor, CallbackPlaces
  <2> HIDE DEF f
  <2>4. Replaced(c, f) /\ Others(c) /\ Calls' = (Calls \ {t}) \cup {n}
    BY <1>1, <1>2, <2>2, <2>3, GoesToReplaces DEF Replaced, t
  <2> HIDE DEF n
  <2>5. Bodies' = Bodies
    BY <1>1, <1>2, <2>3, <2>4, BodiesKept DEF CallbackPlaces
  <2>6. \A r \in Requests : Owns(f, r) <=> r \in left
    BY <2>3, NoRequestAssumption DEF Owns
  <2>7. \A r \in left : Held(r) = {} /\ ~InLater(r) /\ object[r] = "alive"
    BY <2>1 DEF IInv, Ownership
  <2>8. /\ \A r \in left : Held(r)' = {n}
        /\ \A r \in Requests \ left : Held(r)' = Held(r)
    <3>1. ASSUME NEW r \in left PROVE Held(r)' = {n}
      BY <2>3, <2>4, <2>6, <2>7 DEF Held
    <3>2. ASSUME NEW r \in Requests \ left PROVE Held(r)' = Held(r)
      BY <1>3, <1>4, <2>3, <2>4, <2>6 DEF Held
    <3> QED
      BY <3>1, <3>2
  <2>9. TypeOK'
    BY <1>1, <2>2, <2>4 DEF IInv, TypeOK, Others, FramesType, curlVars
  <2>10. Forms'
    BY <1>1, <1>2, <2>3, <2>4, FormsDestructing DEF Destructor
  <2>11. Shutdown'
    BY <1>1, <1>5, <1>6, <1>7, <2>2, <2>3, <2>4 DEF Shutdown
  <2>12. Ownership' /\ \A r \in Requests : LeftToDeleter(r)' => LeftToDeleter(r)
    <3>1. Ownership'
      BY <1>1, <1>8, <2>1, <2>7, <2>8 DEF IInv, Ownership
    <3>2. c # Deleter
      BY ThreadAssumption
    <3>3. \A r \in Requests : LeftToDeleter(r)' => LeftToDeleter(r)
      BY <1>8, <2>3, <2>8, <3>2 DEF LeftToDeleter
    <3> QED
      BY <3>1, <3>3
  <2>13. Unknown'
    BY <1>1, <2>2, <2>3, <2>4, NoRequestAssumption DEF IInv, Unknown, Fresh, curlVars
  <2>14. Stops'
    BY <1>1, <1>3, <2>3, <2>4 DEF IInv, Stops, Sending, Stopping, InStop, curlVars
  <2>15. Callbacks' /\ Running'
    BY <1>1, <2>5, CallbacksKept DEF IInv, curlVars
  <2>16. Answered'
    BY <1>1, <2>5, <2>12, AnsweredKept DEF IInv
  <2>17. Deleted'
    BY <1>1, <2>5, DeletedKept DEF IInv
  <2> QED
    BY <1>9, <2>9, <2>10, <2>11, <2>12, <2>13, <2>14, <2>15, <2>16, <2>17 DEF IInv
<1> QED
  BY <1>10, <1>11

(* The destructor cancels the next request, or looks for new ones.         *)
LEMMA CancelNextInv ==
    ASSUME IInv, NEW c \in Clients, CancelNext(c)
    PROVE  IInv'
<1> DEFINE t == TopCall(c)
<1>1. /\ frames[c] # <<>> /\ Top(c).at = "cancel"
      /\ UNCHANGED <<clientVars, curlVars, dispatch, later, history>>
  BY DEF CancelNext, In
<1>2. FramesType /\ Forms /\ c \in Threads
  BY DEF IInv, TypeOK, FramesType, Threads
<1>3. t \in Calls /\ t[3] = Top(c) /\ t[1] = c /\ Top(c) \in Frame
  BY <1>1, <1>2, TopFacts
<1>4. PICK left \in SUBSET Requests : left = Top(c).left
  BY <1>3 DEF Frame
<1>5. \A r \in Requests : Owns(Top(c), r) <=> r \in left
  BY <1>1, <1>4 DEF Owns
<1>6. /\ \A x \in Calls : x[1] \in Clients => x[1] = c
      /\ ~destroyed
  BY <1>1, <1>3 DEF IInv, Shutdown, Destructor
<1>7. Transfer'
  BY <1>1 DEF IInv, Transfer, Sent, Sending, clientVars, curlVars
<1>8. CASE left = {}
  <2> DEFINE f == At("swap", NoRequest)
             n == <<c, Len(frames[c]), f>>
  <2>1. GoesTo(c, f)
    BY <1>4, <1>8 DEF CancelNext
  <2>2. /\ f \in Frame /\ f.at = "swap" /\ f.req = NoRequest /\ f.left = {} /\ FrameOK(f)
        /\ n[1] = c /\ n[3] = f
    BY DEF At, Frame, Places, FrameOK, Destructor, CallbackPlaces
  <2> HIDE DEF f
  <2>3. Replaced(c, f) /\ Others(c) /\ Calls' = (Calls \ {t}) \cup {n}
    BY <1>1, <1>2, <2>1, <2>2, GoesToReplaces DEF Replaced
  <2> HIDE DEF n, t
  <2>4. Bodies' = Bodies
    BY <1>1, <1>2, <2>2, <2>3, BodiesKept DEF CallbackPlaces
  <2>5. \A r \in Requests : Owns(f, r) <=> Owns(Top(c), r)
    BY <1>5, <1>8, <2>2 DEF Owns
  <2>6. HoldersKept
    BY <1>1, <1>2, <2>3, <2>5, HeldKept DEF IInv
  <2>7. TypeOK'
    BY <1>1, <2>3 DEF IInv, TypeOK, Others, FramesType, clientVars, curlVars, history
  <2>8. Forms'
    BY <1>1, <1>2, <2>2, <2>3, FormsDestructing DEF Destructor
  <2>9. Shutdown'
    BY <1>1, <1>6, <2>2, <2>3 DEF IInv, Shutdown, clientVars, history
  <2>10. Ownership' /\ \A r \in Requests : LeftToDeleter(r)' => LeftToDeleter(r)
    BY <1>1, <2>6, OwnershipKept DEF IInv, clientVars
  <2>11. Unknown'
    BY <1>1, <2>2, <2>3, NoRequestAssumption
       DEF IInv, Unknown, Fresh, clientVars, curlVars, history
  <2>12. Stops'
    BY <1>1, <1>3, <2>2, <2>3
       DEF IInv, Stops, Sending, Stopping, InStop, clientVars, curlVars
  <2>13. Callbacks' /\ Running'
    BY <1>1, <2>4, CallbacksKept DEF IInv, clientVars, curlVars, history
  <2>14. Answered'
    BY <1>1, <2>4, <2>10, AnsweredKept DEF IInv, history
  <2>15. Deleted'
    BY <1>1, <2>4, DeletedKept DEF IInv, clientVars
  <2> QED
    BY <1>7, <2>7, <2>8, <2>9, <2>10, <2>11, <2>12, <2>13, <2>14, <2>15 DEF IInv
<1>9. CASE left # {}
  <2>1. PICK r \in left :
            Becomes(c, Front(frames[c]) \o <<CancelAll(left \ {r}), At("stop", r)>>)
    BY <1>4, <1>9 DEF CancelNext
  <2> DEFINE f == CancelAll(left \ {r})
             g == At("stop", r)
             m == <<c, 1, f>>
             n == <<c, 2, g>>
  <2>2. /\ f \in Frame /\ f.at = "cancel" /\ f.req = NoRequest /\ f.left = left \ {r}
        /\ FrameOK(f) /\ m[1] = c /\ m[3] = f
    BY DEF CancelAll, Frame, Places, FrameOK, Destructor, CallbackPlaces
  <2>3. /\ g \in Frame /\ g.at = "stop" /\ g.req = r /\ g.left = {} /\ FrameOK(g)
        /\ n[1] = c /\ n[3] = g
    BY NoRequestAssumption DEF At, Frame, Places, FrameOK, Destructor, CallbackPlaces
  <2> HIDE DEF f, g
  <2>4. Len(frames[c]) = 1 /\ t = <<c, 1, frames[c][1]>>
    <3>1. ClientForm(frames[c]) /\ Len(frames[c]) \in Nat \ {0}
          /\ Top(c) = frames[c][Len(frames[c])]
      BY <1>1, <1>2, TopFacts DEF Forms
    <3>2. Len(frames[c]) <= 2
      BY <3>1 DEF ClientForm
    <3>3. Len(frames[c]) # 2
      BY <1>1, <3>1 DEF ClientForm, StopPlaces
    <3> DEFINE k == Len(frames[c])
    <3> HIDE DEF k
    <3>4. k \in Nat \ {0} /\ k <= 2 /\ k # 2
      BY <3>1, <3>2, <3>3 DEF k
    <3>5. k = 1
      BY <3>4
    <3> QED
      BY <3>1, <3>5 DEF k, TopCall
  <2>5. Front(frames[c]) \o <<f, g>> = <<f, g>>
    <3>1. frames[c] \in Seq(Frame)
      BY <1>2, CallsFacts
    <3>2. Front(frames[c]) \in Seq(Frame) /\ Len(Front(frames[c])) = 0
      BY <1>1, <2>4, <3>1, FrontFacts
    <3>3. Front(frames[c]) = <<>>
      BY <3>2
    <3> QED
      BY <2>2, <2>3, <3>3
  <2>6. Becomes(c, <<f, g>>)
    BY <2>1, <2>5 DEF f, g
  <2>7. /\ Others(c) /\ Len(frames'[c]) = 2 /\ frames'[c][1] = f /\ frames'[c][2] = g
        /\ Calls' = {x \in Calls : x[1] # c} \cup {m, n}
    BY <1>2, <2>2, <2>3, <2>6, TwoFrames
  <2>8. \A x \in Calls : x[1] = c => x = t
    <3>1. ASSUME NEW x \in Calls, x[1] = c PROVE x = t
      <4>1. x = <<x[1], x[2], x[3]>> /\ x[2] \in 1 .. Len(frames[x[1]])
            /\ x[3] = frames[x[1]][x[2]]
        BY <1>2, CallsFacts
      <4>2. x[2] \in 1 .. 1
        BY <2>4, <3>1, <4>1
      <4>3. x[2] = 1
        BY <4>2
      <4> QED
        BY <2>4, <3>1, <4>1, <4>3
    <3> QED
      BY <3>1
  <2> HIDE DEF m, n, t
  <2>9. Calls' = (Calls \ {t}) \cup {m, n}
    BY <1>3, <2>7, <2>8
  <2>10. Bodies' = Bodies
    BY <1>1, <1>3, <2>2, <2>3, <2>9 DEF Bodies, CallbackPlaces
  <2>11. /\ \A q \in Requests : Owns(f, q) <=> q \in left \ {r}
         /\ \A q \in Requests : Owns(g, q) <=> q = r
    BY <2>2, <2>3, NoRequestAssumption DEF Owns
  <2>12. HoldersKept
    <3>1. \A q \in left : Held(q) = {t}
      <4>1. ASSUME NEW q \in left PROVE t \in Held(q)
        BY <1>3, <1>5 DEF Held
      <4> QED
        BY <4>1 DEF IInv, Ownership
    <3>2. ASSUME NEW q \in Requests \ left PROVE Held(q)' = Held(q)
      BY <1>3, <1>5, <2>2, <2>3, <2>9, <2>11 DEF Held
    <3>3. Held(r) = {t}
      BY <3>1
    <3>4. ASSUME NEW x \in Calls', NEW q \in left, Owns(x[3], q)
          PROVE  x = IF q = r THEN n ELSE m
      <4>1. x \in Calls /\ x # t => FALSE
        <5>1. x \in Calls => x \in Held(q)
          BY <3>4 DEF Held
        <5> QED
          BY <3>1, <5>1
      <4>2. x = m \/ x = n
        BY <2>9, <4>1
      <4> QED
        BY <2>2, <2>3, <2>11, <3>4, <4>2
    <3>5. ASSUME NEW q \in left PROVE Held(q)' = {IF q = r THEN n ELSE m}
      <4>1. IF q = r THEN n \in Held(q)' ELSE m \in Held(q)'
        BY <2>2, <2>3, <2>9, <2>11 DEF Held
      <4>2. \A x \in Held(q)' : x = IF q = r THEN n ELSE m
        BY <3>4 DEF Held
      <4> QED
        BY <4>1, <4>2
    <3>6. \A q \in Requests : \A x, y \in Held(q) : x = y
      BY DEF IInv, Ownership
    <3>7. c # Deleter
      BY ThreadAssumption
    <3> QED
      BY <2>2, <2>3, <3>1, <3>2, <3>5, <3>6, <3>7 DEF HoldersKept
  <2>13. TypeOK'
    BY <1>1, <2>7 DEF IInv, TypeOK, Others, FramesType, clientVars, curlVars, history
  <2>14. Forms'
    <3>1. FormOf(c)'
      BY <2>2, <2>3, <2>7, ThreadAssumption DEF FormOf, ClientForm, StopPlaces
    <3> QED
      BY <1>2, <2>2, <2>3, <2>7, <2>9, <3>1, FormsChange
  <2>15. Shutdown'
    BY <1>1, <1>6, <2>2, <2>3, <2>9 DEF IInv, Shutdown, clientVars, history
  <2>16. Ownership' /\ \A q \in Requests : LeftToDeleter(q)' => LeftToDeleter(q)
    BY <1>1, <2>12, OwnershipKept DEF IInv, clientVars
  <2>17. Unknown'
    <3>1. object[r] = "alive"
      <4>1. t \in Held(r)
        BY <1>3, <1>5 DEF Held
      <4> QED
        BY <4>1, KnownRequests
    <3> QED
      BY <1>1, <2>2, <2>3, <2>9, <3>1, NoRequestAssumption
         DEF IInv, Unknown, Fresh, clientVars, curlVars, history
  <2>18. Stops'
    BY <1>1, <1>3, <2>2, <2>3, <2>9
       DEF IInv, Stops, Sending, Stopping, InStop, clientVars, curlVars
  <2>19. Callbacks' /\ Running'
    BY <1>1, <2>10, CallbacksKept DEF IInv, clientVars, curlVars, history
  <2>20. Answered'
    BY <1>1, <2>10, <2>16, AnsweredKept DEF IInv, history
  <2>21. Deleted'
    BY <1>1, <2>10, DeletedKept DEF IInv, clientVars
  <2> QED
    BY <1>7, <2>13, <2>14, <2>15, <2>16, <2>17, <2>18, <2>19, <2>20, <2>21 DEF IInv
<1> QED
  BY <1>8, <1>9

(* What ExecuteAsync and Execute do to the frames. *)
Opened(th, r, e) ==
    /\ Others(th)
    /\ e[1] = th /\ e[3] = At("emplace", r)
    /\ e \in Calls' /\ e \notin Calls
    /\ \A x \in Calls : x \in Calls'
    /\ \A x \in Calls' : x \in Calls \/ x = e \/ (x[1] = th /\ x[3] = At("ready", r))

(* A request is executed that is not known yet, neither to the client nor  *)
(* to curl.                                                                *)
LEMMA StartedInv ==
    ASSUME IInv, NEW th \in Threads, NEW r \in Requests, NEW fs, Started(th, r, fs),
           NEW e, Opened(th, r, e), Forms'
    PROVE  IInv'
<1> DEFINE m == Message("START", r)
           f == At("emplace", r)
           g == At("ready", r)
<1>1. /\ MayCall(th) /\ ~is_shutdown /\ object[r] = "none"
      /\ object' = [object EXCEPT ![r] = "alive"]
      /\ messages' = Append(messages, m)
      /\ UNCHANGED <<active_requests, is_shutdown, ready, multi, curl, is_complete,
                     callback_posted, dispatch, later, history>>
  BY DEF Started, Message
<1>2. FramesType /\ Forms
  BY DEF IInv, TypeOK, FramesType
<1>3. /\ f.at = "emplace" /\ f.req = r /\ f.left = {} /\ g.at = "ready" /\ g.req = r
      /\ g.left = {}
  BY DEF At
<1> HIDE DEF f, g
<1>4. /\ Others(th) /\ e[1] = th /\ e[3] = f /\ e \in Calls' /\ e \notin Calls
      /\ \A x \in Calls : x \in Calls'
      /\ \A x \in Calls' : x \in Calls \/ x = e \/ (x[1] = th /\ x[3] = g)
  BY DEF Opened, f, g
<1>5. Bodies' = Bodies
  BY <1>3, <1>4 DEF Bodies, CallbackPlaces
<1>6. \/ th \in Clients /\ \A x \in Calls : x[3].at \notin Destructor
      \/ th = Dispatcher
  BY <1>1, <1>2, WhoCalls
<1>7. Fresh(r)
  BY <1>1 DEF IInv, Unknown
<1>8. /\ object \in [Requests -> {"none", "alive", "deleted"}]
      /\ object'[r] = "alive" /\ \A q \in Requests : q # r => object'[q] = object[q]
  BY <1>1 DEF IInv, TypeOK
<1>9. \A q \in Requests : Owns(f, q) <=> q = r
  BY <1>3 DEF Owns
<1>10. \A q \in Requests : ~Owns(g, q)
  BY <1>3 DEF Owns
<1>11. Held(r) = {} /\ ~InLater(r) /\ r \notin active_requests
  BY <1>1 DEF IInv, Ownership
<1>12. Held(r)' = {e} /\ \A q \in Requests : q # r => Held(q)' = Held(q)
  <2>1. ASSUME NEW x \in Calls', Owns(x[3], r) PROVE x = e
    <3>1. x \notin Calls
      BY <1>11, <2>1 DEF Held
    <3> QED
      BY <1>4, <1>10, <2>1, <3>1
  <2>2. Held(r)' = {e}
    BY <1>4, <1>9, <2>1 DEF Held
  <2>3. ASSUME NEW q \in Requests, q # r PROVE Held(q)' = Held(q)
    BY <1>4, <1>9, <1>10, <2>3 DEF Held
  <2> QED
    BY <2>2, <2>3
<1>13. m.type = "START" /\ m.req = r /\ m \in [type : {"START", "STOP"}, req : Requests]
  BY DEF Message
<1>14. messages \in Seq([type : {"START", "STOP"}, req : Requests]) /\ Len(messages) \in Nat
  BY DEF IInv, TypeOK
<1> HIDE DEF m
<1>15. /\ messages' \in Seq([type : {"START", "STOP"}, req : Requests])
       /\ Len(messages') = Len(messages) + 1
       /\ messages'[Len(messages) + 1] = m
       /\ \A i \in 1 .. Len(messages) : messages'[i] = messages[i]
  BY <1>1, <1>13, <1>14, AppendFacts
<1>16. \A i : i \in 1 .. Len(messages') <=> i \in 1 .. Len(messages) \/ i = Len(messages) + 1
  BY <1>14, <1>15
<1>17. \A k : Sending(k)' <=> Sending(k) \/ k = m
  BY <1>15, <1>16 DEF Sending
<1>18. ~Sending(m)
  BY <1>7, <1>13 DEF Fresh, Sending
<1>19. IsInjective(messages')
  <2>1. IsInjective(messages)
    BY DEF IInv, TypeOK
  <2>2. DOMAIN messages = 1 .. Len(messages) /\ DOMAIN messages' = 1 .. Len(messages')
    BY <1>14, <1>15
  <2> QED
    BY <1>15, <1>16, <1>18, <2>1, <2>2 DEF IsInjective, Sending
<1>20. TypeOK'
  BY <1>1, <1>4, <1>8, <1>15, <1>19 DEF IInv, TypeOK, Others, FramesType, history
<1>21. Shutdown'
  <2>1. \A x \in Calls' : x[3].at \in Destructor =>
            x \in Calls /\ (x[1] \notin Clients \/ th = Dispatcher)
    BY <1>2, <1>3, <1>4, <1>6, WhoIsWhere DEF Destructor
  <2>2. ~is_shutdown' /\ ~destroyed'
    BY <1>1 DEF IInv, Shutdown, history
  <2>3. ASSUME NEW x \in Calls', NEW y \in Calls', x[1] \in Clients, y[1] \in Clients,
               x[3].at \in Destructor
        PROVE  x[1] = y[1]
    <3>1. x \in Calls /\ th = Dispatcher
      BY <2>1, <2>3
    <3>2. y \in Calls
      BY <1>4, <2>3, <3>1, ThreadAssumption
    <3> QED
      BY <2>3, <3>1, <3>2 DEF IInv, Shutdown
  <2> QED
    BY <2>2, <2>3 DEF Shutdown
<1>22. Ownership' /\ \A q \in Requests : LeftToDeleter(q)' => LeftToDeleter(q)
  <2>1. \A q \in Requests : InLater(q)' = InLater(q)
    BY <1>1 DEF InLater
  <2>2. Ownership'
    BY <1>1, <1>8, <1>11, <1>12, <2>1 DEF IInv, Ownership
  <2>3. th # Deleter
    BY <1>6, ThreadAssumption
  <2>4. \A q \in Requests : LeftToDeleter(q)' => LeftToDeleter(q)
    BY <1>4, <1>12, <2>1, <2>3 DEF LeftToDeleter
  <2> QED
    BY <2>2, <2>4
<1>23. Unknown'
  <2>1. ASSUME NEW q \in Requests, object'[q] = "none" PROVE Fresh(q)'
    <3>1. q # r /\ Fresh(q)
      BY <1>8, <2>1 DEF IInv, Unknown
    <3>2. \A x \in Calls' : x[3].req # q
      BY <1>3, <1>4, <3>1 DEF Fresh
    <3>3. \A i \in 1 .. Len(messages') : messages'[i].req # q
      BY <1>13, <1>15, <1>16, <3>1 DEF Fresh
    <3> QED
      BY <1>1, <3>1, <3>2, <3>3 DEF Fresh, history
  <2> QED
    BY <2>1 DEF Unknown
<1>24. Transfer'
  <2>1. \A q \in Requests : Sending(Message("START", q))' <=>
                                Sending(Message("START", q)) \/ q = r
    BY <1>17 DEF Message, m
  <2>2. \A q \in Requests : Sent(q)' <=> Sent(q)
    BY <1>1 DEF Sent
  <2>3. r \notin multi /\ ~Sent(r)
    BY <1>7 DEF Fresh, Sent
  <2> QED
    BY <1>1, <1>8, <2>1, <2>2, <2>3 DEF IInv, Transfer
<1>25. Stops'
  <2>1. \A q \in Requests : Sending(Message("STOP", q))' <=> Sending(Message("STOP", q))
    BY <1>13, <1>17 DEF Message
  <2>2. \A q \in Requests : Stopping(q)' <=> Stopping(q)
    BY <1>1 DEF Stopping
  <2>3. \A q \in Requests : InStop(q)' <=> InStop(q)
    BY <1>3, <1>4 DEF InStop
  <2>4. \A x \in Calls' : x[3].at = "drain" => x \in Calls
    BY <1>3, <1>4
  <2>5. \A q \in Requests : object'[q] = "deleted" <=> object[q] = "deleted"
    BY <1>1, <1>8
  <2> QED
    BY <1>1, <2>1, <2>2, <2>3, <2>4, <2>5 DEF IInv, Stops
<1>26. Callbacks' /\ Running'
  BY <1>1, <1>5, CallbacksKept DEF IInv, history
<1>27. Answered'
  BY <1>1, <1>5, <1>22, AnsweredKept DEF IInv, history
<1>28. Deleted'
  BY <1>1, <1>5, <1>8, DeletedKept DEF IInv
<1> QED
  BY <1>20, <1>21, <1>22, <1>23, <1>24, <1>25, <1>26, <1>27, <1>28 DEF IInv

(* The request of a call is executed and its callbacks come later, ...     *)
LEMMA ExecuteAsyncInv ==
    ASSUME IInv, NEW th \in Threads, NEW r \in Requests, ExecuteAsync(th, r)
    PROVE  IInv'
<1> DEFINE f == At("emplace", r)
           e == Above(th, f)
<1>1. MayCall(th) /\ Becomes(th, frames[th] \o <<f>>) /\ Started(th, r, <<f>>)
  BY DEF ExecuteAsync, Started
<1>2. f \in Frame /\ f.at = "emplace" /\ FrameOK(f)
  BY NoRequestAssumption DEF At, Frame, Places, FrameOK, Destructor, CallbackPlaces
<1>3. FramesType /\ Forms
  BY DEF IInv, TypeOK, FramesType
<1> HIDE DEF f
<1>4. Enters(th, f)
  <2>1. frames[th] \in Seq(Frame)
    BY <1>3, CallsFacts
  <2>2. frames[th] \o <<f>> = Append(frames[th], f)
    BY <1>2, <2>1
  <2> QED
    BY <1>1, <2>2 DEF Enters
<1>5. Pushed(th, f)
  BY <1>2, <1>3, <1>4, EntersPushes
<1>6. Opened(th, r, e)
  BY <1>5 DEF Pushed, Opened, Above, f
<1>7. Forms'
  BY <1>1, <1>2, <1>3, <1>5, FormsCalled
<1> QED
  BY <1>1, <1>6, <1>7, StartedInv

(* ... or before the call returns. *)
LEMMA ExecuteInv ==
    ASSUME IInv, NEW c \in Clients, NEW r \in Requests, Execute(c, r)
    PROVE  IInv'
<1> DEFINE g == At("ready", r)
           f == At("emplace", r)
           e == <<c, 2, f>>
<1>1. MayCall(c) /\ Becomes(c, frames[c] \o <<g, f>>) /\ Started(c, r, <<g, f>>)
  BY DEF Execute, Started
<1>2. /\ f \in Frame /\ f.at = "emplace" /\ FrameOK(f)
      /\ g \in Frame /\ g.at = "ready" /\ FrameOK(g)
  BY NoRequestAssumption DEF At, Frame, Places, FrameOK, Destructor, CallbackPlaces
<1>3. FramesType /\ Forms /\ c \in Threads
  BY DEF IInv, TypeOK, FramesType, Threads
<1> HIDE DEF f, g
<1>4. frames[c] = <<>> /\ Len(frames[c]) = 0
  BY <1>1, <1>3, WhoCalls, ThreadAssumption
<1>5. Becomes(c, <<g, f>>)
  <2>1. <<>> \o <<g, f>> = <<g, f>>
    BY <1>2
  <2> QED
    BY <1>1, <1>4, <2>1
<1>6. /\ Others(c) /\ Len(frames'[c]) = 2 /\ frames'[c][1] = g /\ frames'[c][2] = f
      /\ Calls' = {x \in Calls : x[1] # c} \cup {<<c, 1, g>>, e}
  BY <1>2, <1>3, <1>5, TwoFrames
<1>7. \A x \in Calls : x[1] # c
  BY <1>3, <1>4, CallsFacts
<1>8. Opened(c, r, e)
  BY <1>6, <1>7 DEF Opened, f, g
<1>9. Forms'
  <2>1. FormOf(c)'
    BY <1>2, <1>6, ThreadAssumption DEF FormOf, ClientForm
  <2>2. \A x \in Calls' : x \in Calls \/ FrameOK(x[3])
    BY <1>2, <1>6
  <2> QED
    BY <1>3, <1>6, <2>1, <2>2, FormsChange
<1> QED
  BY <1>1, <1>3, <1>8, <1>9, StartedInv

-----------------------------------------------------------------------------
(* The steps of the callbacks *)

(* A callback begins: if it is the last one of its request no other one is *)
(* queued or runs.                                                         *)
LEMMA CallbackBeginsInv ==
    ASSUME IInv, CallbackBegins
    PROVE  IInv'
<1>1. /\ dispatch # <<>> /\ dispatch' = Tail(dispatch)
      /\ frames[Dispatcher] # <<>> => Top(Dispatcher).at = "drain"
      /\ UNCHANGED <<clientVars, curlVars, later, history>>
  BY DEF CallbackBegins, In
<1>2. dispatch \in Seq([req : Requests, kind : Kinds])
  BY DEF IInv, TypeOK
<1>3. PICK m \in [req : Requests, kind : Kinds] : m = Head(dispatch)
  <2>1. Head(dispatch) \in [req : Requests, kind : Kinds]
    BY <1>1, <1>2, TailFacts
  <2> QED
    BY <2>1
<1> DEFINE f == Callback("callback", m)
           n == Above(Dispatcher, f)
<1>4. Enters(Dispatcher, f)
  BY <1>3 DEF CallbackBegins
<1>5. FramesType /\ Forms /\ Dispatcher \in Threads
  BY DEF IInv, TypeOK, FramesType, Threads
<1>6. /\ Len(dispatch) \in Nat \ {0} /\ dispatch' \in Seq([req : Requests, kind : Kinds])
      /\ Len(dispatch') = Len(dispatch) - 1 /\ dispatch[1] = m
      /\ \A i \in 1 .. Len(dispatch) - 1 : dispatch'[i] = dispatch[i + 1]
  BY <1>1, <1>2, <1>3, TailFacts
<1> DEFINE k == Len(dispatch)
           l == Len(dispatch')
<1>7. 1 \in 1 .. k /\ k \in Nat \ {0} /\ l = k - 1
  BY <1>6
<1>8. /\ \A i \in 1 .. l : i + 1 \in 1 .. k /\ dispatch'[i] = dispatch[i + 1]
      /\ \A i \in 1 .. k : i = 1 \/ (i - 1 \in 1 .. l /\ dispatch'[i - 1] = dispatch[i])
  <2> HIDE DEF k, l
  <2>1. \A i \in 1 .. l : i + 1 \in 1 .. k /\ i \in 1 .. k - 1
    BY <1>7
  <2>2. \A i \in 1 .. k : i = 1 \/ (i - 1 \in 1 .. l /\ i - 1 \in 1 .. k - 1 /\ (i - 1) + 1 = i)
    BY <1>7
  <2>3. \A i \in 1 .. k - 1 : dispatch'[i] = dispatch[i + 1]
    BY <1>6 DEF k
  <2> QED
    BY <2>1, <2>2, <2>3
<1>9. \A i, j \in 1 .. k : i < j /\ dispatch[i].req = dispatch[j].req => dispatch[i].kind = "event"
  BY DEF IInv, Callbacks
<1>10. m.req \in Requests /\ m.kind \in Kinds /\ (m.kind = "event" => m.req \in Eventing)
  BY <1>3, <1>6, <1>7 DEF IInv, Callbacks
<1>11. m.kind # "event" => ~HasCallbacks(m.req)'
  <2> SUFFICES ASSUME m.kind # "event", NEW i \in 1 .. l, dispatch'[i].req = m.req PROVE FALSE
    BY <1>3 DEF HasCallbacks
  <2>1. i + 1 \in 1 .. k /\ dispatch[i + 1].req = m.req /\ 1 < i + 1
    <3> HIDE DEF k, l
    <3>1. i + 1 \in 1 .. k /\ dispatch[i + 1].req = m.req
      BY <1>8
    <3>2. 1 < i + 1
      BY <1>7
    <3> QED
      BY <3>1, <3>2
  <2> QED
    BY <1>6, <1>7, <1>9, <2>1
<1>12. ASSUME NEW r \in Requests
       PROVE  /\ HasCallbacks(r) <=> HasCallbacks(r)' \/ r = m.req
              /\ LastQueued(r) <=> LastQueued(r)' \/ (r = m.req /\ m.kind # "event")
  <2> HIDE DEF k, l
  <2>1. HasCallbacks(r) <=> \E i \in 1 .. k : dispatch[i].req = r
    BY DEF HasCallbacks, k
  <2>2. HasCallbacks(r)' <=> \E i \in 1 .. l : dispatch'[i].req = r
    BY DEF HasCallbacks, l
  <2>3. LastQueued(r) <=> \E i \in 1 .. k : dispatch[i].req = r /\ dispatch[i].kind # "event"
    BY DEF LastQueued, k
  <2>4. LastQueued(r)' <=> \E i \in 1 .. l : dispatch'[i].req = r /\ dispatch'[i].kind # "event"
    BY DEF LastQueued, l
  <2>5. dispatch[1] = m
    BY <1>6
  <2>6. HasCallbacks(r) <=> HasCallbacks(r)' \/ r = m.req
    BY <1>7, <1>8, <2>1, <2>2, <2>5
  <2>7. LastQueued(r) <=> LastQueued(r)' \/ (r = m.req /\ m.kind # "event")
    BY <1>7, <1>8, <2>3, <2>4, <2>5
  <2> QED
    BY <2>6, <2>7
<1>13. /\ f \in Frame /\ f.at = "callback" /\ f.req = m.req /\ f.kind = m.kind /\ f.left = {}
       /\ FrameOK(f) /\ n[1] = Dispatcher /\ n[3] = f
  BY <1>10, NoRequestAssumption
     DEF Callback, Frame, Places, FrameOK, Destructor, CallbackPlaces, Above
<1> HIDE DEF f, k, l
<1>14. Pushed(Dispatcher, f) /\ Others(Dispatcher) /\ Calls' = Calls \cup {n}
  BY <1>4, <1>5, <1>13, EntersPushes DEF Pushed
<1> HIDE DEF n
<1>15. \A r \in Requests : ~Owns(f, r)
  BY <1>13 DEF Owns
<1>16. HoldersKept
  BY <1>5, <1>14, <1>15, HeldKept DEF IInv
<1>17. object[m.req] # "none" /\ object[m.req] # "deleted"
  <2>1. HasCallbacks(m.req)
    BY <1>10, <1>12
  <2>2. object[m.req] # "none"
    BY <1>10, <2>1, KnownRequests DEF HasCallbacks
  <2> QED
    BY <1>10, <2>1, <2>2 DEF IInv, Deleted
<1>18. \A r \in Requests : /\ Sent(r)' = Sent(r) /\ answers'[r] = answers[r]
                           /\ object'[r] = object[r]
  BY <1>1 DEF Sent, clientVars, curlVars, history
<1>19. TypeOK'
  BY <1>1, <1>6, <1>14 DEF IInv, TypeOK, Others, FramesType, clientVars, curlVars, history
<1>20. Forms'
  <2>1. frames[Dispatcher] # <<>> => CalledFrom(Top(Dispatcher), f)
    BY <1>1, <1>13 DEF CalledFrom, CallbackPlaces
  <2>2. DispatcherForm(frames'[Dispatcher])
    BY <1>5, <1>13, <1>14, <2>1, DispatcherPushed DEF Forms, CallbackPlaces, StopPlaces
  <2>3. FormOf(Dispatcher)'
    BY <2>2, ThreadAssumption DEF FormOf
  <2> QED
    BY <1>5, <1>13, <1>14, <2>3, FormsChange
<1>21. Shutdown'
  BY <1>1, <1>13, <1>14, ThreadAssumption DEF IInv, Shutdown, Destructor, clientVars, history
<1>22. Ownership' /\ \A r \in Requests : LeftToDeleter(r)' => LeftToDeleter(r)
  BY <1>1, <1>16, OwnershipKept DEF IInv, clientVars
<1>23. Unknown'
  <2>1. ASSUME NEW r \in Requests, object'[r] = "none" PROVE Fresh(r)'
    <3>1. Fresh(r) /\ r # m.req
      BY <1>17, <1>18, <2>1 DEF IInv, Unknown
    <3>2. \A i \in 1 .. Len(dispatch') : dispatch'[i].req # r
      BY <1>8, <3>1 DEF Fresh, k, l
    <3>3. \A x \in Calls' : x[3].req # r
      BY <1>13, <1>14, <3>1 DEF Fresh
    <3> QED
      BY <1>1, <3>1, <3>2, <3>3 DEF Fresh, clientVars, curlVars, history
  <2> QED
    BY <2>1 DEF Unknown
<1>24. Transfer'
  BY <1>1 DEF IInv, Transfer, Sent, Sending, clientVars, curlVars
<1>25. Stops'
  BY <1>1, <1>13, <1>14 DEF IInv, Stops, Sending, Stopping, InStop, clientVars, curlVars
<1>26. Callbacks'
  <2>1. ASSUME NEW i \in 1 .. l, NEW j \in 1 .. l, i < j, dispatch'[i].req = dispatch'[j].req
        PROVE  dispatch'[i].kind = "event"
    <3>1. i + 1 < j + 1
      BY <1>7, <2>1
    <3> QED
      BY <1>8, <1>9, <2>1, <3>1
  <2>2. \A i \in 1 .. l : dispatch'[i].kind = "event" => dispatch'[i].req \in Eventing
    BY <1>8 DEF IInv, Callbacks, k
  <2>3. ASSUME NEW r \in Requests
        PROVE  /\ LastQueued(r)' => Sent(r)
               /\ Sent(r) /\ HasCallbacks(r)' => LastQueued(r)'
               /\ answers[r] = 1 => ~HasCallbacks(r)'
               /\ LastQueued(r) => LastQueued(r)' \/ LastBegins(r)'
               /\ LastBegins(r) => LastBegins(r)'
    <3>1. LastQueued(r)' => Sent(r)
      BY <1>12 DEF IInv, Callbacks
    <3>2. Sent(r) /\ HasCallbacks(r)' => LastQueued(r)'
      BY <1>11, <1>12 DEF IInv, Callbacks
    <3>3. answers[r] = 1 => ~HasCallbacks(r)'
      BY <1>12 DEF IInv, Callbacks
    <3>4. LastBegins(r) => LastBegins(r)'
      BY <1>14 DEF LastBegins
    <3>5. ASSUME r = m.req, m.kind # "event" PROVE LastBegins(r)'
      BY <1>13, <1>14, <3>5 DEF LastBegins, Runs, CallbackPlaces
    <3> QED
      BY <1>12, <3>1, <3>2, <3>3, <3>4, <3>5
  <2>4. is_shutdown' = is_shutdown
    BY <1>1 DEF clientVars
  <2>5. \A r \in Requests :
            /\ LastQueued(r)' => Sent(r)'
            /\ Sent(r)' /\ HasCallbacks(r)' => LastQueued(r)'
            /\ answers'[r] \in {0, 1}
            /\ answers'[r] = 1 => Sent(r)' /\ ~HasCallbacks(r)'
            /\ Sent(r)' /\ answers'[r] = 0 => LastQueued(r)' \/ LastBegins(r)' \/ is_shutdown'
    BY <1>18, <2>3, <2>4 DEF IInv, Callbacks
  <2> QED
    BY <2>1, <2>2, <2>5 DEF Callbacks, l
<1>27. Running'
  <2>1. ASSUME m.kind # "event"
        PROVE  /\ Sent(m.req) /\ ~HasCallbacks(m.req)' /\ answers[m.req] = 0
               /\ \A x \in Calls : Runs(x[3], m.req) => x[3].kind = "event"
    BY <1>10, <1>11, <1>12, <2>1 DEF IInv, Callbacks, Running
  <2>2. ASSUME NEW r \in Requests, NEW x \in Calls', Runs(x[3], r), x[3].kind # "event"
        PROVE  /\ Sent(r) /\ ~HasCallbacks(r)'
               /\ answers[r] = IF x[3].at = "callback" THEN 0 ELSE 1
    <3>1. CASE x \in Calls
      BY <1>12, <2>2, <3>1 DEF IInv, Running
    <3>2. CASE x = n
      BY <1>13, <2>1, <2>2, <3>2 DEF Runs
    <3> QED
      BY <1>14, <3>1, <3>2
  <2>3. ASSUME NEW r \in Requests, NEW x \in Calls', NEW y \in Calls',
               Runs(x[3], r), x[3].kind # "event", Runs(y[3], r), y[3].kind # "event"
        PROVE  x = y
    <3>1. CASE x \in Calls /\ y \in Calls
      BY <2>3, <3>1 DEF IInv, Running
    <3>2. CASE x = n \/ y = n
      <4>1. r = m.req /\ m.kind # "event"
        BY <1>13, <2>3, <3>2 DEF Runs
      <4>2. x \notin Calls /\ y \notin Calls
        BY <2>1, <2>3, <4>1
      <4> QED
        BY <1>14, <4>2
    <3> QED
      BY <1>14, <3>1, <3>2
  <2> QED
    BY <1>18, <2>2, <2>3 DEF Running
<1>28. Answered'
  <2>1. ASSUME NEW r \in Requests, LeftToDeleter(r)'
        PROVE  /\ answers'[r] = 1
               /\ \A x \in Calls' : Runs(x[3], r) => x[3].kind = "event" /\ r \in Cancelling
    <3>1. /\ answers[r] = 1
          /\ \A x \in Calls : Runs(x[3], r) => x[3].kind = "event" /\ r \in Cancelling
      BY <1>22, <2>1 DEF IInv, Answered
    <3>2. r # m.req
      BY <1>12, <3>1 DEF IInv, Callbacks
    <3> QED
      BY <1>13, <1>14, <1>18, <3>1, <3>2 DEF Runs
  <2> QED
    BY <2>1 DEF Answered
<1>29. Deleted'
  <2>1. ASSUME NEW r \in Requests, object'[r] = "deleted"
        PROVE  ~HasCallbacks(r)' /\ \A x \in Calls' : ~Runs(x[3], r)
    <3>1. object[r] = "deleted" /\ r # m.req
      BY <1>17, <1>18, <2>1
    <3> QED
      BY <1>12, <1>13, <1>14, <3>1 DEF IInv, Deleted, Runs
  <2> QED
    BY <2>1 DEF Deleted
<1> QED
  BY <1>19, <1>20, <1>21, <1>22, <1>23, <1>24, <1>25, <1>26, <1>27, <1>28, <1>29 DEF IInv

(* The user is called, unless the client is shut down: that is the answer, *)
(* when the callback is the last one.                                      *)
LEMMA CallUserInv ==
    ASSUME IInv, CallUser
    PROVE  IInv'
<1> DEFINE t == TopCall(Dispatcher)
           g == Top(Dispatcher)
<1>1. /\ frames[Dispatcher] # <<>> /\ g.at = "callback"
      /\ UNCHANGED <<clientVars, curlVars, dispatch, later, destroyed, events>>
  BY DEF CallUser, In
<1>2. FramesType /\ Forms /\ Dispatcher \in Threads
  BY DEF IInv, TypeOK, FramesType, Threads
<1>3. PICK r \in Requests : r = g.req
  BY <1>1, <1>2, TopRequest DEF Destructor
<1>4. PICK kind \in Kinds : kind = g.kind
  BY <1>1, <1>2, TopRequest DEF FrameOK, CallbackPlaces
<1>5. t \in Calls /\ t[3] = g /\ t[1] = Dispatcher
  BY <1>1, <1>2, TopFacts
<1>6. \A q \in Requests : ~Owns(g, q)
  BY <1>1, <1>2, TopRequest
<1>7. kind = "event" => r \in Eventing
  BY <1>1, <1>2, <1>3, <1>4, TopRequest DEF FrameOK
<1>8. kind # "event" => /\ Sent(r) /\ ~HasCallbacks(r) /\ answers[r] = 0
                        /\ \A x \in Calls : Runs(x[3], r) /\ x[3].kind # "event" => x = t
  BY <1>1, <1>3, <1>4, <1>5 DEF IInv, Running, Runs, CallbackPlaces
<1> HIDE DEF t, g
<1>9. \A q \in Requests : /\ Sent(q)' = Sent(q)
                          /\ HasCallbacks(q)' = HasCallbacks(q)
                          /\ LastQueued(q)' = LastQueued(q)
  BY <1>1 DEF Sent, HasCallbacks, LastQueued, curlVars
<1>10. Transfer'
  BY <1>1 DEF IInv, Transfer, Sent, Sending, clientVars, curlVars
<1>11. CASE is_shutdown
  <2>1. Returns(Dispatcher) /\ answers' = answers
    BY <1>11 DEF CallUser
  <2>2. Popped(Dispatcher) /\ Others(Dispatcher) /\ Calls' = Calls \ {t}
    BY <1>1, <1>2, <2>1, ReturnsPops DEF Popped, t
  <2>3. HoldersKept
    BY <1>1, <1>2, <1>6, <2>2, HeldKept DEF IInv, g
  <2>4. TypeOK'
    BY <1>1, <2>1, <2>2 DEF IInv, TypeOK, Others, FramesType, clientVars, curlVars
  <2>5. Forms'
    BY <1>1, <1>2, <2>2, FormsPopped
  <2>6. Shutdown'
    BY <1>1, <2>2 DEF IInv, Shutdown, clientVars
  <2>7. Ownership' /\ \A q \in Requests : LeftToDeleter(q)' => LeftToDeleter(q)
    BY <1>1, <2>3, OwnershipKept DEF IInv, clientVars
  <2>8. Unknown'
    BY <1>1, <2>1, <2>2 DEF IInv, Unknown, Fresh, clientVars, curlVars
  <2>9. Stops'
    BY <1>1, <1>5, <2>2 DEF IInv, Stops, Sending, Stopping, InStop, clientVars, curlVars
  <2>10. Callbacks'
    BY <1>1, <1>9, <1>11, <2>1 DEF IInv, Callbacks, clientVars
  <2>11. Running'
    BY <1>9, <2>1, <2>2 DEF IInv, Running
  <2>12. Answered'
    BY <2>1, <2>2, <2>7 DEF IInv, Answered
  <2>13. Deleted'
    BY <1>1, <1>9, <2>2 DEF IInv, Deleted, clientVars
  <2> QED
    BY <1>10, <2>4, <2>5, <2>6, <2>7, <2>8, <2>9, <2>10, <2>11, <2>12, <2>13 DEF IInv
<1>12. CASE ~is_shutdown
  <2> DEFINE f == [at |-> "user", req |-> r, kind |-> kind, left |-> {}]
             n == <<Dispatcher, Len(frames[Dispatcher]), f>>
  <2>1. GoesTo(Dispatcher, f)
    BY <1>3, <1>4, <1>12 DEF CallUser, Callback, g
  <2>2. answers' = [answers EXCEPT ![r] = @ + (IF kind = "event" THEN 0 ELSE 1)]
    BY <1>3, <1>4, <1>12 DEF CallUser, g
  <2>3. answers \in [Requests -> Nat]
    BY DEF IInv, TypeOK
  <2>4. /\ answers' \in [Requests -> Nat]
        /\ answers'[r] = IF kind = "event" THEN answers[r] ELSE answers[r] + 1
        /\ \A q \in Requests : q # r => answers'[q] = answers[q]
    BY <2>2, <2>3
  <2>5. answers'[r] = IF kind = "event" THEN answers[r] ELSE 1
    BY <1>8, <2>4
  <2>6. /\ f \in Frame /\ f.at = "user" /\ f.req = r /\ f.kind = kind /\ f.left = {}
        /\ FrameOK(f) /\ n[1] = Dispatcher /\ n[3] = f
    BY <1>7, NoRequestAssumption DEF Frame, Places, FrameOK, Destructor, CallbackPlaces
  <2> HIDE DEF f
  <2>7. /\ Replaced(Dispatcher, f) /\ Others(Dispatcher)
        /\ Calls' = (Calls \ {t}) \cup {n}
    BY <1>1, <1>2, <2>1, <2>6, GoesToReplaces DEF Replaced, t
  <2> HIDE DEF n
  <2>8. \A q \in Requests : Owns(f, q) <=> Owns(g, q)
    BY <1>6, <2>6 DEF Owns
  <2>9. HoldersKept
    BY <1>1, <1>2, <2>7, <2>8, HeldKept DEF IInv, g
  <2>10. TypeOK'
    BY <1>1, <2>4, <2>7 DEF IInv, TypeOK, Others, FramesType, clientVars, curlVars
  <2>11. Forms'
    <3>1. \A h : CalledFrom(h, Top(Dispatcher)) => CalledFrom(h, f)
      BY <1>1, <2>6 DEF CalledFrom, CallbackPlaces, StopPlaces, g
    <3>2. DispatcherForm(frames'[Dispatcher])
      BY <1>1, <1>2, <2>6, <2>7, <3>1, DispatcherReplaced
         DEF Forms, CallbackPlaces, StopPlaces
    <3>3. FormOf(Dispatcher)'
      BY <3>2, ThreadAssumption DEF FormOf
    <3> QED
      BY <1>2, <2>6, <2>7, <3>3, FormsChange
  <2>12. Shutdown'
    BY <1>1, <1>12, <2>6, <2>7, ThreadAssumption DEF IInv, Shutdown, Destructor, clientVars
  <2>13. Ownership' /\ \A q \in Requests : LeftToDeleter(q)' => LeftToDeleter(q)
    BY <1>1, <2>9, OwnershipKept DEF IInv, clientVars
  <2>14. Unknown'
    <3>1. ASSUME NEW q \in Requests, object'[q] = "none" PROVE Fresh(q)'
      <4>1. Fresh(q)
        BY <1>1, <3>1 DEF IInv, Unknown, clientVars
      <4>2. q # r
        BY <1>3, <1>5, <4>1 DEF Fresh
      <4>3. \A x \in Calls' : x[3].req # q
        BY <2>6, <2>7, <4>1, <4>2 DEF Fresh
      <4> QED
        BY <1>1, <2>4, <4>1, <4>2, <4>3 DEF Fresh, clientVars, curlVars
    <3> QED
      BY <3>1 DEF Unknown
  <2>15. Stops'
    BY <1>1, <1>5, <2>6, <2>7
       DEF IInv, Stops, Sending, Stopping, InStop, clientVars, curlVars
  <2>16. Callbacks'
    <3>1. ASSUME NEW q \in Requests, LastBegins(q), q = r => kind = "event"
          PROVE  LastBegins(q)'
      <4>1. PICK x \in Calls : Runs(x[3], q) /\ x[3].kind # "event" /\ x[3].at = "callback"
        BY <3>1 DEF LastBegins
      <4>2. x # t
        BY <1>3, <1>4, <1>5, <3>1, <4>1 DEF Runs
      <4> QED
        BY <2>7, <4>1, <4>2 DEF LastBegins
    <3>2. ASSUME NEW q \in Requests
          PROVE  /\ answers'[q] \in {0, 1}
                 /\ answers'[q] = 1 => Sent(q) /\ ~HasCallbacks(q)
                 /\ Sent(q) /\ answers'[q] = 0 => LastQueued(q) \/ LastBegins(q)' \/ is_shutdown
      <4>1. CASE q = r /\ kind # "event"
        BY <1>8, <2>5, <4>1
      <4>2. CASE ~(q = r /\ kind # "event")
        <5>1. answers'[q] = answers[q]
          BY <2>4, <2>5, <4>2
        <5>2. LastBegins(q) => LastBegins(q)'
          BY <3>1, <4>2
        <5> QED
          BY <5>1, <5>2 DEF IInv, Callbacks
      <4> QED
        BY <4>1, <4>2
    <3>3. is_shutdown' = is_shutdown /\ dispatch' = dispatch
      BY <1>1 DEF clientVars
    <3> QED
      BY <1>9, <3>2, <3>3 DEF IInv, Callbacks
  <2>17. Running'
    <3>1. ASSUME NEW q \in Requests, NEW x \in Calls', Runs(x[3], q), x[3].kind # "event"
          PROVE  /\ Sent(q) /\ ~HasCallbacks(q)
                 /\ answers'[q] = IF x[3].at = "callback" THEN 0 ELSE 1
                 /\ q = r /\ kind # "event" => x = n
      <4>1. CASE x = n
        BY <1>8, <2>5, <2>6, <3>1, <4>1 DEF Runs
      <4>2. CASE x \in Calls /\ x # t
        <5>1. ~(q = r /\ kind # "event")
          BY <1>8, <3>1, <4>2
        <5>2. answers'[q] = answers[q]
          BY <2>4, <2>5, <5>1
        <5> QED
          BY <3>1, <4>2, <5>1, <5>2 DEF IInv, Running
      <4> QED
        BY <2>7, <4>1, <4>2
    <3>2. ASSUME NEW q \in Requests, NEW x \in Calls', NEW y \in Calls',
                 Runs(x[3], q), x[3].kind # "event", Runs(y[3], q), y[3].kind # "event"
          PROVE  x = y
      <4>1. CASE q = r /\ kind # "event"
        BY <3>1, <3>2, <4>1
      <4>2. CASE ~(q = r /\ kind # "event")
        <5>1. x # n /\ y # n
          BY <2>6, <3>2, <4>2 DEF Runs
        <5>2. x \in Calls /\ y \in Calls
          BY <2>7, <5>1
        <5> QED
          BY <3>2, <5>2 DEF IInv, Running
      <4> QED
        BY <4>1, <4>2
    <3> QED
      BY <1>9, <3>1, <3>2 DEF Running
  <2>18. Answered'
    <3>1. ASSUME NEW q \in Requests, LeftToDeleter(q)'
          PROVE  /\ answers'[q] = 1
                 /\ \A x \in Calls' : Runs(x[3], q) => x[3].kind = "event" /\ q \in Cancelling
      <4>1. /\ answers[q] = 1
            /\ \A x \in Calls : Runs(x[3], q) => x[3].kind = "event" /\ q \in Cancelling
        BY <2>13, <3>1 DEF IInv, Answered
      <4>2. q = r => kind = "event" /\ r \in Cancelling
        BY <1>1, <1>3, <1>4, <1>5, <4>1 DEF Runs, CallbackPlaces
      <4> QED
        BY <2>4, <2>5, <2>6, <2>7, <4>1, <4>2 DEF Runs
    <3> QED
      BY <3>1 DEF Answered
  <2>19. Deleted'
    <3>1. ASSUME NEW q \in Requests, object'[q] = "deleted"
          PROVE  ~HasCallbacks(q) /\ \A x \in Calls' : ~Runs(x[3], q)
      <4>1. ~HasCallbacks(q) /\ \A x \in Calls : ~Runs(x[3], q)
        BY <1>1, <3>1 DEF IInv, Deleted, clientVars
      <4>2. q # r
        BY <1>1, <1>3, <1>5, <4>1 DEF Runs, CallbackPlaces
      <4> QED
        BY <2>6, <2>7, <4>1, <4>2 DEF Runs
    <3> QED
      BY <1>9, <3>1 DEF Deleted
  <2> QED
    BY <1>10, <2>10, <2>11, <2>12, <2>13, <2>14, <2>15, <2>16, <2>17, <2>18, <2>19 DEF IInv
<1> QED
  BY <1>11, <1>12

(* The user's callback returns: with the last one of a request that was    *)
(* not cancelled the lambda goes on.                                       *)
LEMMA UserReturnsInv ==
    ASSUME IInv, UserReturns
    PROVE  IInv'
<1> DEFINE t == TopCall(Dispatcher)
           g == Top(Dispatcher)
<1>1. /\ frames[Dispatcher] # <<>> /\ g.at = "user"
      /\ UNCHANGED <<active_requests, is_shutdown, object, curlVars, dispatch, later, history>>
  BY DEF UserReturns, In
<1>2. FramesType /\ Forms /\ Dispatcher \in Threads
  BY DEF IInv, TypeOK, FramesType, Threads
<1>3. PICK r \in Requests : r = g.req
  BY <1>1, <1>2, TopRequest DEF Destructor
<1>4. PICK kind \in Kinds : kind = g.kind
  BY <1>1, <1>2, TopRequest DEF FrameOK, CallbackPlaces
<1>5. t \in Calls /\ t[3] = g /\ t[1] = Dispatcher
  BY <1>1, <1>2, TopFacts
<1>6. \A q \in Requests : ~Owns(g, q)
  BY <1>1, <1>2, TopRequest
<1>7. ready' = ready \/ ready' = ready \cup {r}
  BY <1>3 DEF UserReturns
<1>8. object[r] # "none"
  BY <1>3, <1>5, KnownRequests
<1>9. \/ Returns(Dispatcher)
      \/ GoesTo(Dispatcher, Callback("erase", g)) /\ kind # "event"
  BY <1>4 DEF UserReturns
<1> HIDE DEF t, g
<1>10. \A q \in Requests : /\ Sent(q)' = Sent(q)
                           /\ HasCallbacks(q)' = HasCallbacks(q)
                           /\ LastQueued(q)' = LastQueued(q)
  BY <1>1 DEF Sent, HasCallbacks, LastQueued, curlVars
<1>11. Transfer'
  BY <1>1 DEF IInv, Transfer, Sent, Sending, curlVars
<1>12. CASE Returns(Dispatcher)
  <2>1. Popped(Dispatcher) /\ Others(Dispatcher) /\ Calls' = Calls \ {t}
    BY <1>1, <1>2, <1>12, ReturnsPops DEF Popped, t
  <2>2. HoldersKept
    BY <1>1, <1>2, <1>6, <2>1, HeldKept DEF IInv, g
  <2>3. TypeOK'
    BY <1>1, <1>7, <1>8, <2>1 DEF IInv, TypeOK, Others, FramesType, curlVars, history
  <2>4. Forms'
    BY <1>1, <1>2, <2>1, FormsPopped
  <2>5. Shutdown'
    BY <1>1, <2>1 DEF IInv, Shutdown, history
  <2>6. Ownership' /\ \A q \in Requests : LeftToDeleter(q)' => LeftToDeleter(q)
    BY <1>1, <2>2, OwnershipKept DEF IInv
  <2>7. Unknown'
    BY <1>1, <1>7, <1>8, <2>1 DEF IInv, Unknown, Fresh, curlVars, history
  <2>8. Stops'
    BY <1>1, <1>5, <2>1 DEF IInv, Stops, Sending, Stopping, InStop, curlVars
  <2>9. Callbacks'
    <3>1. \A q \in Requests : LastBegins(q) => LastBegins(q)'
      BY <1>1, <1>5, <2>1 DEF LastBegins
    <3> QED
      BY <1>1, <1>10, <3>1 DEF IInv, Callbacks, history
  <2>10. Running'
    BY <1>1, <1>10, <2>1 DEF IInv, Running, history
  <2>11. Answered'
    BY <1>1, <2>1, <2>6 DEF IInv, Answered, history
  <2>12. Deleted'
    BY <1>1, <1>10, <2>1 DEF IInv, Deleted
  <2> QED
    BY <1>11, <2>3, <2>4, <2>5, <2>6, <2>7, <2>8, <2>9, <2>10, <2>11, <2>12 DEF IInv
<1>13. CASE GoesTo(Dispatcher, Callback("erase", g)) /\ kind # "event"
  <2> DEFINE f == [at |-> "erase", req |-> r, kind |-> kind, left |-> {}]
             n == <<Dispatcher, Len(frames[Dispatcher]), f>>
  <2>1. GoesTo(Dispatcher, f)
    BY <1>3, <1>4, <1>13 DEF Callback
  <2>2. /\ f \in Frame /\ f.at = "erase" /\ f.req = r /\ f.kind = kind /\ f.left = {}
        /\ FrameOK(f) /\ n[1] = Dispatcher /\ n[3] = f
    BY <1>13, NoRequestAssumption DEF Frame, Places, FrameOK, Destructor, CallbackPlaces
  <2> HIDE DEF f
  <2>3. /\ Replaced(Dispatcher, f) /\ Others(Dispatcher)
        /\ Calls' = (Calls \ {t}) \cup {n}
    BY <1>1, <1>2, <2>1, <2>2, GoesToReplaces DEF Replaced, t
  <2> HIDE DEF n
  <2>4. \A q \in Requests : Owns(f, q) <=> Owns(g, q)
    BY <1>6, <2>2 DEF Owns
  <2>5. HoldersKept
    BY <1>1, <1>2, <2>3, <2>4, HeldKept DEF IInv, g
  <2>6. TypeOK'
    BY <1>1, <1>7, <1>8, <2>3 DEF IInv, TypeOK, Others, FramesType, curlVars, history
  <2>7. Forms'
    <3>1. \A h : CalledFrom(h, Top(Dispatcher)) => CalledFrom(h, f)
      BY <1>1, <2>2 DEF CalledFrom, CallbackPlaces, StopPlaces, g
    <3>2. DispatcherForm(frames'[Dispatcher])
      BY <1>1, <1>2, <2>2, <2>3, <3>1, DispatcherReplaced
         DEF Forms, CallbackPlaces, StopPlaces
    <3>3. FormOf(Dispatcher)'
      BY <3>2, ThreadAssumption DEF FormOf
    <3> QED
      BY <1>2, <2>2, <2>3, <3>3, FormsChange
  <2>8. Shutdown'
    BY <1>1, <2>2, <2>3, ThreadAssumption DEF IInv, Shutdown, Destructor, history
  <2>9. Ownership' /\ \A q \in Requests : LeftToDeleter(q)' => LeftToDeleter(q)
    BY <1>1, <2>5, OwnershipKept DEF IInv
  <2>10. Unknown'
    BY <1>1, <1>7, <1>8, <2>2, <2>3 DEF IInv, Unknown, Fresh, curlVars, history
  <2>11. Stops'
    BY <1>1, <1>5, <2>2, <2>3 DEF IInv, Stops, Sending, Stopping, InStop, curlVars
  <2>12. Callbacks'
    <3>1. \A q \in Requests : LastBegins(q) => LastBegins(q)'
      BY <1>1, <1>5, <2>3 DEF LastBegins
    <3> QED
      BY <1>1, <1>10, <3>1 DEF IInv, Callbacks, history
  <2>13. \A q : Runs(n[3], q) <=> Runs(t[3], q)
    BY <1>1, <1>3, <1>5, <2>2 DEF Runs, CallbackPlaces
  <2>14. n[3].kind = t[3].kind /\ n[3].at # "callback" /\ t[3].at # "callback"
    BY <1>1, <1>4, <1>5, <2>2
  <2>15. Running'
    <3>1. ASSUME NEW q \in Requests, NEW x \in Calls', Runs(x[3], q), x[3].kind # "event"
          PROVE  /\ Sent(q) /\ ~HasCallbacks(q)
                 /\ answers[q] = IF x[3].at = "callback" THEN 0 ELSE 1
      <4>1. CASE x \in Calls
        BY <3>1, <4>1 DEF IInv, Running
      <4>2. CASE x = n
        BY <1>5, <2>13, <2>14, <3>1, <4>2 DEF IInv, Running
      <4> QED
        BY <2>3, <4>1, <4>2
    <3>2. ASSUME NEW q \in Requests, NEW x \in Calls', NEW y \in Calls',
                 Runs(x[3], q), x[3].kind # "event", Runs(y[3], q), y[3].kind # "event"
          PROVE  x = y
      <4>1. ASSUME NEW x1 \in Calls, NEW y1 \in Calls, Runs(x1[3], q), x1[3].kind # "event",
                   Runs(y1[3], q), y1[3].kind # "event"
            PROVE  x1 = y1
        BY <4>1 DEF IInv, Running
      <4>2. CASE x = n /\ y = n
        BY <4>2
      <4>3. CASE x # n /\ y # n
        BY <2>3, <3>2, <4>1, <4>3
      <4>4. CASE x # n /\ y = n
        BY <1>5, <2>3, <2>13, <2>14, <3>2, <4>1, <4>4
      <4>5. CASE x = n /\ y # n
        BY <1>5, <2>3, <2>13, <2>14, <3>2, <4>1, <4>5
      <4> QED
        BY <4>2, <4>3, <4>4, <4>5
    <3> QED
      BY <1>1, <1>10, <3>1, <3>2 DEF Running, history
  <2>16. Answered'
    BY <1>1, <1>5, <2>3, <2>9, <2>13, <2>14 DEF IInv, Answered, history
  <2>17. Deleted'
    BY <1>1, <1>5, <1>10, <2>3, <2>13 DEF IInv, Deleted
  <2> QED
    BY <1>11, <2>6, <2>7, <2>8, <2>9, <2>10, <2>11, <2>12, <2>15, <2>16, <2>17 DEF IInv
<1> QED
  BY <1>9, <1>12, <1>13

(* The last callback of a request that no one has taken leaves it to       *)
(* delete_later.                                                           *)
LEMMA EraseInv ==
    ASSUME IInv, Erase
    PROVE  IInv'
<1> DEFINE t == TopCall(Dispatcher)
           g == Top(Dispatcher)
<1>1. /\ frames[Dispatcher] # <<>> /\ g.at = "erase" /\ MutexFree /\ Returns(Dispatcher)
      /\ UNCHANGED <<is_shutdown, ready, object, curlVars, dispatch, history>>
  BY DEF Erase, In
<1>2. FramesType /\ Forms /\ Dispatcher \in Threads
  BY DEF IInv, TypeOK, FramesType, Threads
<1>3. PICK r \in Requests : r = g.req
  BY <1>1, <1>2, TopRequest DEF Destructor
<1>4. /\ active_requests' = active_requests \ {r}
      /\ later' = IF r \in active_requests THEN Append(later, r) ELSE later
  BY <1>3 DEF Erase
<1>5. t \in Calls /\ t[3] = g /\ t[1] = Dispatcher
  BY <1>1, <1>2, TopFacts
<1>6. \A q \in Requests : ~Owns(g, q)
  BY <1>1, <1>2, TopRequest
<1>7. g.kind # "event"
  BY <1>1, <1>2, TopRequest DEF FrameOK
<1>8. Runs(g, r)
  BY <1>1, <1>3 DEF Runs, CallbackPlaces
<1>9. /\ answers[r] = 1
      /\ \A x \in Calls : Runs(x[3], r) /\ x[3].kind # "event" => x = t
  BY <1>1, <1>5, <1>7, <1>8 DEF IInv, Running
<1>10. \A x \in Calls : x[3].at # "emplace"
  BY <1>1, <1>2, EmplaceIsOnTop, CallsFacts DEF MutexFree
<1>11. ASSUME NEW x \in Calls, x # t, Runs(x[3], r) PROVE x[3].kind = "event" /\ r \in Cancelling
  <2> DEFINE s == frames[Dispatcher]
             i == x[2]
             k == Len(s)
  <2>1. /\ x[1] = Dispatcher /\ x = <<Dispatcher, i, s[i]>> /\ i \in 1 .. k /\ x[3] = s[i]
        /\ k \in Nat
    BY <1>2, <1>11, WhoIsWhere, CallsFacts DEF Runs
  <2>2. t = <<Dispatcher, k, s[k]>>
    BY <1>1, <1>2, TopFacts DEF TopCall
  <2>3. i # k
    BY <1>11, <2>1, <2>2
  <2>4. DispatcherForm(s)
    BY <1>2 DEF Forms
  <2>5. /\ \A j \in 1 .. k : <<Dispatcher, j, s[j]>> \in Calls
        /\ <<Dispatcher, i + 1, s[i + 1]>>[3] = s[i + 1]
    BY <1>2, CallsFacts
  <2> HIDE DEF s, i, k
  <2>6. i \in 1 .. k - 1 /\ i + 1 \in 1 .. k
    BY <2>1, <2>3
  <2>7. CalledFrom(s[i], s[i + 1])
    BY <2>4, <2>6 DEF DispatcherForm, k
  <2>8. s[i + 1].at # "emplace"
    BY <1>10, <2>5, <2>6
  <2>9. x[3].at # "drain"
    BY <1>11 DEF Runs, CallbackPlaces
  <2>10. x[3].req \in Cancelling
    BY <2>1, <2>7, <2>8, <2>9 DEF CalledFrom
  <2> QED
    BY <1>9, <1>11, <2>10 DEF Runs
<1> HIDE DEF t, g
<1>12. Popped(Dispatcher) /\ Others(Dispatcher) /\ Calls' = Calls \ {t}
  BY <1>1, <1>2, ReturnsPops DEF Popped, t
<1>13. \A q \in Requests : Held(q)' = Held(q)
  BY <1>5, <1>6, <1>12 DEF Held
<1>14. later \in Seq(Requests) /\ Len(later) \in Nat
  BY DEF IInv, TypeOK
<1>15. \A i, j \in 1 .. Len(later) : later[i] = later[j] => i = j
  BY DEF IInv, Ownership
<1>16. /\ later' \in Seq(Requests)
       /\ \A i, j \in 1 .. Len(later') : later'[i] = later'[j] => i = j
       /\ \A q \in Requests : InLater(q)' <=> InLater(q) \/ (q = r /\ r \in active_requests)
  <2>1. CASE r \notin active_requests
    BY <1>4, <1>14, <1>15, <2>1 DEF InLater
  <2>2. CASE r \in active_requests
    <3>1. /\ later' \in Seq(Requests) /\ Len(later') = Len(later) + 1
          /\ later'[Len(later) + 1] = r
          /\ \A i \in 1 .. Len(later) : later'[i] = later[i]
      BY <1>4, <1>14, <2>2, AppendFacts
    <3>2. \A i : i \in 1 .. Len(later') <=> i \in 1 .. Len(later) \/ i = Len(later) + 1
      BY <1>14, <3>1
    <3>3. \A i \in 1 .. Len(later) : later[i] # r
      BY <2>2 DEF IInv, Ownership, InLater
    <3>4. \A i, j \in 1 .. Len(later') : later'[i] = later'[j] => i = j
      BY <1>15, <3>1, <3>2, <3>3
    <3>5. \A q \in Requests : InLater(q)' <=> InLater(q) \/ q = r
      BY <3>1, <3>2 DEF InLater
    <3> QED
      BY <2>2, <3>1, <3>4, <3>5
  <2> QED
    BY <2>1, <2>2
<1>17. \A q \in Requests : /\ Sent(q)' = Sent(q)
                           /\ HasCallbacks(q)' = HasCallbacks(q)
                           /\ LastQueued(q)' = LastQueued(q)
  BY <1>1 DEF Sent, HasCallbacks, LastQueued, curlVars
<1>18. TypeOK'
  BY <1>1, <1>4, <1>12, <1>16 DEF IInv, TypeOK, Others, FramesType, curlVars, history
<1>19. Forms'
  BY <1>1, <1>2, <1>12, FormsPopped
<1>20. Shutdown'
  BY <1>1, <1>4, <1>12 DEF IInv, Shutdown, history
<1>21. Ownership'
  <2>1. ASSUME NEW q \in Requests
        PROVE  /\ q \in active_requests' => ~InLater(q)' /\ Held(q)' = {}
               /\ InLater(q)' => Held(q)' = {}
               /\ \A x, y \in Held(q)' : x = y
               /\ object'[q] = "alive" <=> q \in active_requests' \/ InLater(q)' \/ Held(q)' # {}
    <3>1. /\ q \in active_requests => ~InLater(q) /\ Held(q) = {}
          /\ InLater(q) => Held(q) = {}
          /\ \A x, y \in Held(q) : x = y
          /\ object[q] = "alive" <=> q \in active_requests \/ InLater(q) \/ Held(q) # {}
      BY DEF IInv, Ownership
    <3>2. Held(q)' = Held(q) /\ object' = object
      BY <1>1, <1>13
    <3>3. InLater(q)' <=> InLater(q) \/ (q = r /\ r \in active_requests)
      BY <1>16
    <3>4. q \in active_requests' <=> q \in active_requests /\ q # r
      BY <1>4
    <3> QED
      BY <3>1, <3>2, <3>3, <3>4
  <2> QED
    BY <1>16, <2>1 DEF Ownership
<1>22. Unknown'
  BY <1>1, <1>4, <1>12 DEF IInv, Unknown, Fresh, curlVars, history
<1>23. Transfer'
  BY <1>1 DEF IInv, Transfer, Sent, Sending, curlVars
<1>24. Stops'
  BY <1>1, <1>5, <1>12 DEF IInv, Stops, Sending, Stopping, InStop, curlVars
<1>25. Callbacks'
  <2>1. \A q \in Requests : LastBegins(q) => LastBegins(q)'
    BY <1>1, <1>5, <1>12 DEF LastBegins
  <2> QED
    BY <1>1, <1>17, <2>1 DEF IInv, Callbacks, history
<1>26. Running'
  BY <1>1, <1>12, <1>17 DEF IInv, Running, history
<1>27. Answered'
  <2>1. ASSUME NEW q \in Requests, LeftToDeleter(q)'
        PROVE  /\ answers[q] = 1
               /\ \A x \in Calls' : Runs(x[3], q) => x[3].kind = "event" /\ q \in Cancelling
    <3>1. LeftToDeleter(q) \/ q = r
      BY <1>13, <1>16, <2>1 DEF LeftToDeleter
    <3>2. CASE LeftToDeleter(q)
      BY <1>12, <3>2 DEF IInv, Answered
    <3>3. CASE q = r
      BY <1>9, <1>11, <1>12, <3>3
    <3> QED
      BY <3>1, <3>2, <3>3
  <2> QED
    BY <1>1, <2>1 DEF Answered, history
<1>28. Deleted'
  BY <1>1, <1>12, <1>17 DEF IInv, Deleted
<1> QED
  BY <1>18, <1>19, <1>20, <1>21, <1>22, <1>23, <1>24, <1>25, <1>26, <1>27, <1>28 DEF IInv

-----------------------------------------------------------------------------
(* The steps of the curl thread *)

(* The calls are as they were. *)
LEMMA CallsUnchanged ==
    ASSUME IInv, UNCHANGED <<clientVars, later, frames, destroyed>>
    PROVE  /\ Calls' = Calls /\ Bodies' = Bodies
           /\ Forms' /\ Shutdown' /\ Ownership'
           /\ \A r \in Requests : LeftToDeleter(r)' => LeftToDeleter(r)
<1>1. Calls' = Calls
  BY DEF Calls
<1>2. /\ \A r \in Requests : Held(r)' = Held(r) /\ InLater(r)' = InLater(r)
      /\ Bodies' = Bodies
  BY <1>1 DEF Held, InLater, Bodies
<1>3. Forms'
  BY <1>1 DEF IInv, Forms
<1>4. Shutdown'
  BY <1>1 DEF IInv, Shutdown, clientVars
<1>5. Ownership'
  BY <1>2 DEF IInv, Ownership, clientVars
<1>6. \A r \in Requests : LeftToDeleter(r)' => LeftToDeleter(r)
  BY <1>2 DEF LeftToDeleter
<1> QED
  BY <1>1, <1>2, <1>3, <1>4, <1>5, <1>6

MessageType == [type : {"START", "STOP"}, req : Requests]

(* The curl thread takes a message: no other one is equal to it.           *)
LEMMA MessageTaken ==
    ASSUME IInv, messages # <<>>, messages' = Tail(messages)
    PROVE  /\ messages' \in Seq(MessageType) /\ IsInjective(messages')
           /\ Head(messages) \in MessageType
           /\ Sending(Head(messages))
           /\ \A k : Sending(k)' <=> Sending(k) /\ k # Head(messages)
<1>1. messages \in Seq(MessageType) /\ IsInjective(messages)
  BY DEF IInv, TypeOK, MessageType
<1>2. /\ Len(messages) \in Nat \ {0} /\ messages' \in Seq(MessageType)
      /\ Len(messages') = Len(messages) - 1
      /\ \A i \in 1 .. Len(messages) - 1 : messages'[i] = messages[i + 1]
      /\ Head(messages) = messages[1] /\ Head(messages) \in MessageType
  BY <1>1, TailFacts
<1> DEFINE k == Len(messages)
           l == Len(messages')
<1>3. DOMAIN messages = 1 .. k /\ DOMAIN messages' = 1 .. l
  BY <1>1, <1>2
<1>4. k \in Nat \ {0} /\ l = k - 1
  BY <1>2
<1>5. \A i, j \in 1 .. k : messages[i] = messages[j] => i = j
  BY <1>1, <1>3 DEF IsInjective
<1> HIDE DEF k, l
<1>6. 1 \in 1 .. k
  BY <1>4
<1>7. \A i \in 1 .. l : i \in 1 .. k - 1 /\ i + 1 \in 1 .. k /\ i + 1 # 1
  BY <1>4
<1>8. \A i \in 1 .. l : messages'[i] = messages[i + 1]
  BY <1>2, <1>7 DEF k
<1>9. \A i \in 1 .. k : i = 1 \/ (i - 1 \in 1 .. l /\ (i - 1) + 1 = i)
  BY <1>4
<1>10. IsInjective(messages')
  <2>1. ASSUME NEW i \in 1 .. l, NEW j \in 1 .. l, messages'[i] = messages'[j] PROVE i = j
    <3>1. i + 1 = j + 1
      BY <1>5, <1>7, <1>8, <2>1
    <3> QED
      BY <3>1
  <2> QED
    BY <1>3, <2>1 DEF IsInjective
<1>11. Sending(Head(messages))
  BY <1>2, <1>6 DEF Sending, k
<1>12. ASSUME NEW m, Sending(m)' PROVE Sending(m) /\ m # Head(messages)
  <2>1. PICK i \in 1 .. l : messages'[i] = m
    BY <1>12 DEF Sending, l
  <2>2. messages[i + 1] = m /\ i + 1 \in 1 .. k /\ i + 1 # 1
    BY <1>7, <1>8, <2>1
  <2>3. Sending(m)
    BY <2>2 DEF Sending, k
  <2> QED
    BY <1>2, <1>5, <1>6, <2>2, <2>3
<1>13. ASSUME NEW m, Sending(m), m # Head(messages) PROVE Sending(m)'
  <2>1. PICK i \in 1 .. k : messages[i] = m
    BY <1>13 DEF Sending, k
  <2>2. i # 1
    BY <1>2, <1>13, <2>1
  <2>3. i - 1 \in 1 .. l /\ (i - 1) + 1 = i
    BY <1>9, <2>1, <2>2
  <2>4. messages'[i - 1] = m
    BY <1>8, <2>1, <2>3
  <2> QED
    BY <2>3, <2>4 DEF Sending, l
<1> QED
  BY <1>2, <1>10, <1>11, <1>12, <1>13

(* START_REQUEST. *)
LEMMA StartMessageInv ==
    ASSUME IInv, StartMessage
    PROVE  IInv'
<1>1. /\ messages # <<>> /\ messages' = Tail(messages) /\ Head(messages).type = "START"
      /\ UNCHANGED <<clientVars, curl, is_complete, callback_posted, dispatch, later, frames,
                     history>>
  BY DEF StartMessage
<1>2. /\ messages' \in Seq(MessageType) /\ IsInjective(messages')
      /\ Head(messages) \in MessageType
      /\ Sending(Head(messages))
      /\ \A k : Sending(k)' <=> Sending(k) /\ k # Head(messages)
  BY <1>1, MessageTaken
<1>3. PICK r \in Requests : r = Head(messages).req
  BY <1>2 DEF MessageType
<1>4. multi' = multi \cup {r}
  BY <1>3 DEF StartMessage
<1>5. Head(messages) = Message("START", r)
  BY <1>1, <1>2, <1>3 DEF Message, MessageType
<1>6. object[r] # "none" /\ ~Sent(r)
  <2>1. object[r] # "none"
    BY <1>2, <1>3, KnownRequests DEF Sending
  <2> QED
    BY <1>2, <1>5, <2>1 DEF IInv, Transfer
<1>7. /\ Calls' = Calls /\ Bodies' = Bodies
      /\ Forms' /\ Shutdown' /\ Ownership'
      /\ \A q \in Requests : LeftToDeleter(q)' => LeftToDeleter(q)
  BY <1>1, CallsUnchanged DEF history
<1>8. TypeOK'
  BY <1>1, <1>2, <1>4, <1>6 DEF IInv, TypeOK, clientVars, history, MessageType
<1>9. Unknown'
  <2>1. ASSUME NEW q \in Requests, object'[q] = "none" PROVE Fresh(q)'
    <3>1. Fresh(q) /\ q # r
      BY <1>1, <1>6, <2>1 DEF IInv, Unknown, clientVars
    <3>2. ASSUME NEW i \in 1 .. Len(messages') PROVE messages'[i].req # q
      <4>1. PICK m : m = messages'[i]
        OBVIOUS
      <4>2. Sending(m)
        BY <1>2, <4>1 DEF Sending
      <4> QED
        BY <3>1, <4>1, <4>2 DEF Fresh, Sending
    <3> QED
      BY <1>1, <1>4, <1>7, <3>1, <3>2 DEF Fresh, clientVars, history
  <2> QED
    BY <2>1 DEF Unknown
<1>10. Transfer'
  <2>1. \A q \in Requests : /\ Sending(Message("START", q))' <=>
                                   Sending(Message("START", q)) /\ q # r
                            /\ Sent(q)' = Sent(q)
    BY <1>1, <1>2, <1>5 DEF Message, Sent
  <2> QED
    BY <1>1, <1>4, <1>6, <2>1 DEF IInv, Transfer, clientVars
<1>11. Stops'
  <2>1. \A q \in Requests : /\ Sending(Message("STOP", q))' => Sending(Message("STOP", q))
                            /\ Sending(Message("STOP", q)) => Sending(Message("STOP", q))'
                            /\ Stopping(q)' = Stopping(q) /\ InStop(q)' = InStop(q)
    BY <1>1, <1>2, <1>5, <1>7 DEF Message, Stopping, InStop
  <2> QED
    BY <1>1, <1>7, <2>1 DEF IInv, Stops, clientVars
<1>12. Callbacks' /\ Running'
  BY <1>1, <1>7, CallbacksKept DEF IInv, clientVars, history
<1>13. Answered'
  BY <1>1, <1>7, AnsweredKept DEF IInv, history
<1>14. Deleted'
  BY <1>1, <1>7, DeletedKept DEF IInv, clientVars
<1> QED
  BY <1>7, <1>8, <1>9, <1>10, <1>11, <1>12, <1>13, <1>14 DEF IInv

(* One callback more is queued. *)
LEMMA CallbackQueued ==
    ASSUME IInv, NEW m \in [req : Requests, kind : Kinds], dispatch' = Append(dispatch, m)
    PROVE  /\ dispatch' \in Seq([req : Requests, kind : Kinds])
           /\ \A r \in Requests :
                 /\ HasCallbacks(r)' <=> HasCallbacks(r) \/ r = m.req
                 /\ LastQueued(r)' <=> LastQueued(r) \/ (r = m.req /\ m.kind # "event")
           /\ \A i \in 1 .. Len(dispatch') :
                 dispatch'[i].req = m.req \/ HasCallbacks(dispatch'[i].req)
           /\ ~LastQueued(m.req) =>
                 \A i, j \in 1 .. Len(dispatch') :
                    i < j /\ dispatch'[i].req = dispatch'[j].req => dispatch'[i].kind = "event"
           /\ (m.kind = "event" => m.req \in Eventing) =>
                 \A i \in 1 .. Len(dispatch') :
                    dispatch'[i].kind = "event" => dispatch'[i].req \in Eventing
<1> DEFINE k == Len(dispatch)
           l == Len(dispatch')
<1>1. dispatch \in Seq([req : Requests, kind : Kinds]) /\ k \in Nat
  BY DEF IInv, TypeOK
<1>2. /\ dispatch' \in Seq([req : Requests, kind : Kinds])
      /\ l = k + 1 /\ dispatch'[k + 1] = m
      /\ \A i \in 1 .. k : dispatch'[i] = dispatch[i]
  BY <1>1, AppendFacts
<1> HIDE DEF k, l
<1>3. \A i : i \in 1 .. l <=> i \in 1 .. k \/ i = k + 1
  BY <1>1, <1>2
<1>4. \A r \in Requests :
          /\ HasCallbacks(r)' <=> HasCallbacks(r) \/ r = m.req
          /\ LastQueued(r)' <=> LastQueued(r) \/ (r = m.req /\ m.kind # "event")
  BY <1>2, <1>3 DEF HasCallbacks, LastQueued, k, l
<1>5. \A i \in 1 .. l : dispatch'[i].req = m.req \/ HasCallbacks(dispatch'[i].req)
  <2>1. ASSUME NEW i \in 1 .. k PROVE HasCallbacks(dispatch'[i].req)
    <3>1. PICK q : q = dispatch'[i].req
      OBVIOUS
    <3>2. HasCallbacks(q)
      BY <1>2, <3>1 DEF HasCallbacks, k
    <3> QED
      BY <3>1, <3>2
  <2> QED
    BY <1>2, <1>3, <2>1
<1>6. ASSUME ~LastQueued(m.req), NEW i \in 1 .. l, NEW j \in 1 .. l, i < j,
             dispatch'[i].req = dispatch'[j].req
      PROVE  dispatch'[i].kind = "event"
  <2>1. i \in 1 .. k
    BY <1>1, <1>2, <1>6
  <2>2. CASE j \in 1 .. k
    BY <1>2, <1>6, <2>1, <2>2 DEF IInv, Callbacks, k
  <2>3. CASE j = k + 1
    BY <1>2, <1>6, <2>1, <2>3 DEF LastQueued, k
  <2> QED
    BY <1>3, <2>2, <2>3
<1>7. ASSUME m.kind = "event" => m.req \in Eventing, NEW i \in 1 .. l, dispatch'[i].kind = "event"
      PROVE  dispatch'[i].req \in Eventing
  <2>1. CASE i \in 1 .. k
    BY <1>2, <1>7, <2>1 DEF IInv, Callbacks, k
  <2>2. CASE i = k + 1
    BY <1>2, <1>7, <2>2
  <2> QED
    BY <1>3, <2>1, <2>2
<1> QED
  BY <1>2, <1>4, <1>5, <1>6, <1>7 DEF l

(* A response is sent for a request that is still transferred: the first,  *)
(* and last, one.                                                          *)
LEMMA SendResponseInv ==
    ASSUME IInv, CurlFree, NEW r \in multi, NEW kind \in Kinds \ {"event"},
           NEW stopped \in BOOLEAN, SendResponse(r, kind, stopped),
           UNCHANGED <<clientVars, is_complete, callback_posted, later, frames, history>>,
           messages' \in Seq(MessageType), IsInjective(messages'),
           \A k : Sending(k)' => Sending(k),
           stopped => Sending(Message("STOP", r)) /\ ~Sending(Message("STOP", r))'
    PROVE  IInv'
<1> DEFINE m == [req |-> r, kind |-> kind]
<1>1. /\ multi' = multi \ {r} /\ dispatch' = Append(dispatch, m)
      /\ curl' = [req |-> r, stopped |-> stopped]
      /\ curl.req = NoRequest
  BY DEF SendResponse, CurlFree
<1>2. r \in Requests /\ object[r] # "none" /\ ~Sent(r) /\ ~Sending(Message("START", r))
  BY DEF IInv, TypeOK, Transfer
<1>3. m \in [req : Requests, kind : Kinds] /\ m.req = r /\ m.kind = kind /\ m.kind # "event"
  BY <1>2
<1> HIDE DEF m
<1>4. ~LastQueued(r) /\ answers[r] = 0 /\ object[r] # "deleted"
  BY <1>2 DEF IInv, Callbacks, Transfer, Sent
<1>5. \A x \in Calls : ~(Runs(x[3], r) /\ x[3].kind # "event")
  BY <1>2 DEF IInv, Running
<1>6. /\ dispatch' \in Seq([req : Requests, kind : Kinds])
      /\ \A q \in Requests :
            /\ HasCallbacks(q)' <=> HasCallbacks(q) \/ q = r
            /\ LastQueued(q)' <=> LastQueued(q) \/ q = r
      /\ \A i \in 1 .. Len(dispatch') : dispatch'[i].req = r \/ HasCallbacks(dispatch'[i].req)
      /\ \A i, j \in 1 .. Len(dispatch') :
            i < j /\ dispatch'[i].req = dispatch'[j].req => dispatch'[i].kind = "event"
      /\ \A i \in 1 .. Len(dispatch') :
            dispatch'[i].kind = "event" => dispatch'[i].req \in Eventing
  BY <1>1, <1>3, <1>4, CallbackQueued
<1>7. \A q \in Requests : q # NoRequest
  BY NoRequestAssumption
<1>8. \A q \in Requests : Sent(q)' <=> Sent(q) \/ q = r
  BY <1>1, <1>7 DEF Sent
<1>9. /\ Calls' = Calls /\ Bodies' = Bodies
      /\ Forms' /\ Shutdown' /\ Ownership'
      /\ \A q \in Requests : LeftToDeleter(q)' => LeftToDeleter(q)
  BY CallsUnchanged DEF history
<1>10. TypeOK'
  BY <1>1, <1>2, <1>6 DEF IInv, TypeOK, clientVars, history, MessageType
<1>11. Unknown'
  <2>1. ASSUME NEW q \in Requests, object'[q] = "none" PROVE Fresh(q)'
    <3>1. Fresh(q) /\ q # r
      BY <1>2, <2>1 DEF IInv, Unknown, clientVars
    <3>2. ASSUME NEW i \in 1 .. Len(messages') PROVE messages'[i].req # q
      <4>1. PICK k : k = messages'[i]
        OBVIOUS
      <4>2. Sending(k)
        BY <4>1 DEF Sending
      <4> QED
        BY <3>1, <4>1, <4>2 DEF Fresh, Sending
    <3>3. \A i \in 1 .. Len(dispatch') : dispatch'[i].req # q
      BY <1>6, <3>1 DEF Fresh, HasCallbacks
    <3> QED
      BY <1>1, <1>9, <3>1, <3>2, <3>3 DEF Fresh, clientVars, history
  <2> QED
    BY <2>1 DEF Unknown
<1>12. Transfer'
  <2>1. ASSUME NEW q \in Requests
        PROVE  /\ Sending(Message("START", q))' => q \notin multi' /\ ~Sent(q)'
               /\ q \in multi' => ~Sent(q)'
               /\ curl'.req = q => q \notin callback_posted
               /\ object[q] = "deleted" => q \in is_complete \cap callback_posted
    <3>1. Sending(Message("START", q))' => Sending(Message("START", q)) /\ q # r
      BY <1>2
    <3>2. q = r => q \notin callback_posted
      BY <1>2 DEF Sent
    <3> QED
      BY <1>1, <1>8, <3>1, <3>2 DEF IInv, Transfer
  <2> QED
    BY <2>1 DEF Transfer, clientVars
<1>13. Stops'
  <2>1. ASSUME NEW q \in Requests
        PROVE  /\ Stopping(q)' <=> q = r /\ stopped
               /\ ~Stopping(q)
    BY <1>1, <1>7 DEF Stopping
  <2>2. stopped => r \notin is_complete /\ (InStop(r) \/ object[r] = "deleted")
    BY <1>2 DEF IInv, Stops
  <2>3. \A q \in Requests : InStop(q)' = InStop(q)
    BY <1>9 DEF InStop
  <2>4. ASSUME NEW q \in Requests
        PROVE  /\ Sending(Message("STOP", q))' => ~Stopping(q)' /\ q \notin is_complete
               /\ Stopping(q)' => q \notin is_complete
               /\ Sending(Message("STOP", q))' \/ Stopping(q)' \/ q \in is_complete
                     => InStop(q) \/ object[q] = "deleted"
    BY <2>1, <2>2 DEF IInv, Stops
  <2>5. \A x \in Calls : x[3].at = "drain" => x[3].req \in is_complete \cap callback_posted
    BY DEF IInv, Stops
  <2> QED
    BY <1>9, <2>3, <2>4, <2>5 DEF Stops, clientVars
<1>14. Callbacks'
  <2>1. \A q \in Requests : LastBegins(q)' = LastBegins(q)
    BY <1>9 DEF LastBegins
  <2>2. ASSUME NEW q \in Requests
        PROVE  /\ LastQueued(q)' => Sent(q)'
               /\ Sent(q)' /\ HasCallbacks(q)' => LastQueued(q)'
               /\ answers[q] \in {0, 1}
               /\ answers[q] = 1 => Sent(q)' /\ ~HasCallbacks(q)'
               /\ Sent(q)' /\ answers[q] = 0 => LastQueued(q)' \/ LastBegins(q) \/ is_shutdown
    BY <1>4, <1>6, <1>8 DEF IInv, Callbacks
  <2> QED
    BY <1>6, <2>1, <2>2 DEF Callbacks, clientVars, history
<1>15. Running'
  <2>1. \A q \in Requests : \A x \in Calls : Runs(x[3], q) /\ x[3].kind # "event" =>
            /\ q # r /\ Sent(q) /\ ~HasCallbacks(q)
            /\ answers[q] = IF x[3].at = "callback" THEN 0 ELSE 1
    BY <1>5 DEF IInv, Running
  <2>2. \A q \in Requests : \A x, y \in Calls :
            /\ Runs(x[3], q) /\ x[3].kind # "event"
            /\ Runs(y[3], q) /\ y[3].kind # "event"
            => x = y
    BY DEF IInv, Running
  <2>3. \A q \in Requests : \A x \in Calls : Runs(x[3], q) /\ x[3].kind # "event" =>
            Sent(q)' /\ ~HasCallbacks(q)'
    BY <1>6, <1>8, <2>1
  <2> QED
    BY <1>9, <2>1, <2>2, <2>3 DEF Running, history
<1>16. Answered'
  BY <1>9, AnsweredKept DEF IInv, history
<1>17. Deleted'
  BY <1>4, <1>6, <1>9 DEF IInv, Deleted, clientVars
<1> QED
  BY <1>9, <1>10, <1>11, <1>12, <1>13, <1>14, <1>15, <1>16, <1>17 DEF IInv

(* A transfer ends. *)
LEMMA TransferEndsInv ==
    ASSUME IInv, NEW r \in Requests, TransferEnds(r)
    PROVE  IInv'
<1>1. /\ CurlFree /\ r \in multi /\ messages' = messages
      /\ UNCHANGED <<clientVars, is_complete, callback_posted, later, frames, history>>
  BY DEF TransferEnds
<1>2. PICK kind \in {"success", "failed"} : SendResponse(r, kind, FALSE)
  BY DEF TransferEnds
<1>3. kind \in Kinds \ {"event"} /\ FALSE \in BOOLEAN
  BY DEF Kinds
<1>4. messages' \in Seq(MessageType) /\ IsInjective(messages') /\ \A k : Sending(k)' => Sending(k)
  BY <1>1 DEF IInv, TypeOK, MessageType, Sending
<1> QED
  BY <1>1, <1>2, <1>3, <1>4, SendResponseInv

(* STOP_REQUEST. *)
LEMMA StopMessageInv ==
    ASSUME IInv, StopMessage
    PROVE  IInv'
<1>1. /\ CurlFree /\ messages # <<>> /\ messages' = Tail(messages)
      /\ Head(messages).type = "STOP"
      /\ UNCHANGED <<clientVars, callback_posted, later, frames, history>>
  BY DEF StopMessage
<1>2. /\ messages' \in Seq(MessageType) /\ IsInjective(messages')
      /\ Head(messages) \in MessageType
      /\ Sending(Head(messages))
      /\ \A k : Sending(k)' <=> Sending(k) /\ k # Head(messages)
  BY <1>1, MessageTaken
<1>3. PICK r \in Requests : r = Head(messages).req
  BY <1>2 DEF MessageType
<1>4. Head(messages) = Message("STOP", r)
  BY <1>1, <1>2, <1>3 DEF Message, MessageType
<1>5. Sending(Message("STOP", r)) /\ ~Sending(Message("STOP", r))'
  <2>1. PICK m : m = Message("STOP", r)
    OBVIOUS
  <2>2. Sending(m) /\ ~Sending(m)'
    BY <1>2, <1>4, <2>1
  <2> QED
    BY <2>1, <2>2 DEF Message
<1>6. \/ r \in multi /\ SendResponse(r, "canceled", TRUE) /\ UNCHANGED is_complete
      \/ /\ r \notin multi
         /\ is_complete' = is_complete \cup {r}
         /\ UNCHANGED <<multi, dispatch, curl>>
  BY <1>3 DEF StopMessage
<1>7. CASE r \in multi /\ SendResponse(r, "canceled", TRUE) /\ UNCHANGED is_complete
  BY <1>1, <1>2, <1>5, <1>7, SendResponseInv DEF Kinds
<1>8. CASE /\ r \notin multi
           /\ is_complete' = is_complete \cup {r}
           /\ UNCHANGED <<multi, dispatch, curl>>
  <2>1. object[r] # "none"
    BY <1>2, <1>3, KnownRequests DEF Sending
  <2>2. /\ Calls' = Calls /\ Bodies' = Bodies
        /\ Forms' /\ Shutdown' /\ Ownership'
        /\ \A q \in Requests : LeftToDeleter(q)' => LeftToDeleter(q)
    BY <1>1, CallsUnchanged DEF history
  <2>3. TypeOK'
    BY <1>1, <1>2, <1>8, <2>1 DEF IInv, TypeOK, clientVars, history, MessageType
  <2>4. Unknown'
    <3>1. ASSUME NEW q \in Requests, object'[q] = "none" PROVE Fresh(q)'
      <4>1. Fresh(q) /\ q # r
        BY <1>1, <2>1, <3>1 DEF IInv, Unknown, clientVars
      <4>2. ASSUME NEW i \in 1 .. Len(messages') PROVE messages'[i].req # q
        <5>1. PICK k : k = messages'[i]
          OBVIOUS
        <5>2. Sending(k)
          BY <1>2, <5>1 DEF Sending
        <5> QED
          BY <4>1, <5>1, <5>2 DEF Fresh, Sending
      <4> QED
        BY <1>1, <1>8, <2>2, <4>1, <4>2 DEF Fresh, clientVars, history
    <3> QED
      BY <3>1 DEF Unknown
  <2>5. Transfer'
    <3>1. \A q \in Requests : /\ Sending(Message("START", q))' => Sending(Message("START", q))
                              /\ Sent(q)' = Sent(q)
      BY <1>1, <1>2, <1>8 DEF Message, Sent
    <3> QED
      BY <1>1, <1>8, <3>1 DEF IInv, Transfer, clientVars
  <2>6. Stops'
    <3>1. \A q \in Requests : /\ Sending(Message("STOP", q))' =>
                                     Sending(Message("STOP", q)) /\ q # r
                              /\ Stopping(q)' = Stopping(q) /\ InStop(q)' = InStop(q)
                              /\ ~Stopping(q)
      BY <1>1, <1>2, <1>4, <1>8, <2>2, NoRequestAssumption
         DEF Message, Stopping, InStop, CurlFree
    <3>2. InStop(r) \/ object[r] = "deleted"
      BY <1>5 DEF IInv, Stops
    <3> QED
      BY <1>1, <1>8, <2>2, <3>1, <3>2 DEF IInv, Stops, clientVars
  <2>7. Callbacks' /\ Running'
    BY <1>1, <1>8, <2>2, CallbacksKept DEF IInv, clientVars, history
  <2>8. Answered'
    BY <1>1, <2>2, AnsweredKept DEF IInv, history
  <2>9. Deleted'
    BY <1>1, <1>8, <2>2, DeletedKept DEF IInv, clientVars
  <2> QED
    BY <2>2, <2>3, <2>4, <2>5, <2>6, <2>7, <2>8, <2>9 DEF IInv
<1> QED
  BY <1>6, <1>7, <1>8

(* The curl thread says that a response is sent. *)
LEMMA ResponseSentInv ==
    ASSUME IInv, ResponseSent
    PROVE  IInv'
<1>1. PICK r \in Requests : r = curl.req
  BY DEF ResponseSent, CurlFree, IInv, TypeOK
<1>2. /\ callback_posted' = callback_posted \cup {r}
      /\ is_complete' = IF curl.stopped THEN is_complete \cup {r} ELSE is_complete
      /\ curl' = [req |-> NoRequest, stopped |-> FALSE]
      /\ UNCHANGED <<clientVars, messages, multi, dispatch, later, frames, history>>
  BY <1>1 DEF ResponseSent
<1>3. \A q \in Requests : q # NoRequest
  BY NoRequestAssumption
<1>4. \A q \in Requests : /\ Sent(q)' <=> Sent(q)
                          /\ HasCallbacks(q)' = HasCallbacks(q)
                          /\ LastQueued(q)' = LastQueued(q)
  BY <1>1, <1>2, <1>3 DEF Sent, HasCallbacks, LastQueued
<1>5. object[r] # "none"
  BY <1>1, KnownRequests
<1>6. /\ Calls' = Calls /\ Bodies' = Bodies
      /\ Forms' /\ Shutdown' /\ Ownership'
      /\ \A q \in Requests : LeftToDeleter(q)' => LeftToDeleter(q)
  BY <1>2, CallsUnchanged DEF history
<1>7. TypeOK'
  BY <1>2, <1>5 DEF IInv, TypeOK, clientVars, history
<1>8. Unknown'
  <2>1. ASSUME NEW q \in Requests, object'[q] = "none" PROVE Fresh(q)'
    <3>1. Fresh(q) /\ q # r
      BY <1>2, <1>5, <2>1 DEF IInv, Unknown, clientVars
    <3> QED
      BY <1>2, <1>3, <1>6, <3>1 DEF Fresh, clientVars, history
  <2> QED
    BY <2>1 DEF Unknown
<1>9. Transfer'
  <2>1. \A q \in Requests : Sending(Message("START", q))' = Sending(Message("START", q))
    BY <1>2 DEF Sending, Message
  <2> QED
    BY <1>2, <1>3, <1>4, <2>1 DEF IInv, Transfer, clientVars
<1>10. Stops'
  <2>1. \A q \in Requests : /\ Sending(Message("STOP", q))' = Sending(Message("STOP", q))
                            /\ InStop(q)' = InStop(q) /\ ~Stopping(q)'
                            /\ q \in is_complete' <=> q \in is_complete \/ Stopping(q)
    BY <1>1, <1>2, <1>3, <1>6 DEF Sending, Message, InStop, Stopping
  <2>2. \A q \in Requests :
            /\ Sending(Message("STOP", q)) => q \notin is_complete'
            /\ q \in is_complete' => InStop(q) \/ object[q] = "deleted"
    BY <2>1 DEF IInv, Stops
  <2>3. \A x \in Calls : x[3].at = "drain" => x[3].req \in is_complete' \cap callback_posted'
    BY <1>2 DEF IInv, Stops
  <2>4. object' = object
    BY <1>2 DEF clientVars
  <2> QED
    BY <1>6, <2>1, <2>2, <2>3, <2>4 DEF IInv, Stops
<1>11. Callbacks'
  <2>1. \A q \in Requests : LastBegins(q)' = LastBegins(q)
    BY <1>6 DEF LastBegins
  <2> QED
    BY <1>2, <1>4, <2>1 DEF IInv, Callbacks, clientVars, history
<1>12. Running'
  BY <1>2, <1>4, <1>6 DEF IInv, Running, history
<1>13. Answered'
  BY <1>2, <1>6, AnsweredKept DEF IInv, history
<1>14. Deleted'
  BY <1>2, <1>6, DeletedKept DEF IInv, clientVars
<1> QED
  BY <1>6, <1>7, <1>8, <1>9, <1>10, <1>11, <1>12, <1>13, <1>14 DEF IInv

(* A part of an event stream arrives. *)
LEMMA StreamContinuesInv ==
    ASSUME IInv, NEW r \in Requests, StreamContinues(r)
    PROVE  IInv'
<1> DEFINE m == [req |-> r, kind |-> "event"]
<1>1. /\ r \in multi \cap Eventing /\ events < MaxEvents /\ events' = events + 1
      /\ dispatch' = Append(dispatch, m)
      /\ UNCHANGED <<clientVars, curlVars, later, frames, answers, destroyed>>
  BY DEF StreamContinues
<1>2. m \in [req : Requests, kind : Kinds] /\ m.req = r /\ m.kind = "event"
  BY DEF Kinds
<1> HIDE DEF m
<1>3. ~Sent(r) /\ object[r] # "none"
  BY <1>1 DEF IInv, TypeOK, Transfer
<1>4. ~LastQueued(r) /\ answers[r] = 0 /\ object[r] # "deleted"
  BY <1>3 DEF IInv, Callbacks, Transfer, Sent
<1>5. \A x \in Calls : ~(Runs(x[3], r) /\ x[3].kind # "event")
  BY <1>3 DEF IInv, Running
<1>6. /\ dispatch' \in Seq([req : Requests, kind : Kinds])
      /\ \A q \in Requests :
            /\ HasCallbacks(q)' <=> HasCallbacks(q) \/ q = r
            /\ LastQueued(q)' <=> LastQueued(q)
      /\ \A i \in 1 .. Len(dispatch') : dispatch'[i].req = r \/ HasCallbacks(dispatch'[i].req)
      /\ \A i, j \in 1 .. Len(dispatch') :
            i < j /\ dispatch'[i].req = dispatch'[j].req => dispatch'[i].kind = "event"
      /\ \A i \in 1 .. Len(dispatch') :
            dispatch'[i].kind = "event" => dispatch'[i].req \in Eventing
  BY <1>1, <1>2, <1>4, CallbackQueued
<1>7. \A q \in Requests : Sent(q)' = Sent(q)
  BY <1>1 DEF Sent, curlVars
<1>8. /\ Calls' = Calls /\ Bodies' = Bodies
      /\ Forms' /\ Shutdown' /\ Ownership'
      /\ \A q \in Requests : LeftToDeleter(q)' => LeftToDeleter(q)
  BY <1>1, CallsUnchanged
<1>9. TypeOK'
  <2>1. events' \in 0 .. MaxEvents
    BY <1>1, EventsAssumption DEF IInv, TypeOK
  <2> QED
    BY <1>1, <1>6, <2>1 DEF IInv, TypeOK, clientVars, curlVars
<1>10. Unknown'
  <2>1. ASSUME NEW q \in Requests, object'[q] = "none" PROVE Fresh(q)'
    <3>1. Fresh(q) /\ q # r
      BY <1>1, <1>3, <2>1 DEF IInv, Unknown, clientVars
    <3>2. \A i \in 1 .. Len(dispatch') : dispatch'[i].req # q
      BY <1>6, <3>1 DEF Fresh, HasCallbacks
    <3> QED
      BY <1>1, <1>8, <3>1, <3>2 DEF Fresh, clientVars, curlVars
  <2> QED
    BY <2>1 DEF Unknown
<1>11. Transfer'
  BY <1>1 DEF IInv, Transfer, Sent, Sending, clientVars, curlVars
<1>12. Stops'
  BY <1>1, <1>8 DEF IInv, Stops, Sending, Stopping, InStop, clientVars, curlVars
<1>13. Callbacks'
  <2>1. \A q \in Requests : LastBegins(q)' = LastBegins(q)
    BY <1>8 DEF LastBegins
  <2>2. ASSUME NEW q \in Requests
        PROVE  /\ LastQueued(q)' => Sent(q)'
               /\ Sent(q)' /\ HasCallbacks(q)' => LastQueued(q)'
               /\ answers[q] \in {0, 1}
               /\ answers[q] = 1 => Sent(q)' /\ ~HasCallbacks(q)'
               /\ Sent(q)' /\ answers[q] = 0 => LastQueued(q)' \/ LastBegins(q) \/ is_shutdown
    BY <1>3, <1>4, <1>6, <1>7 DEF IInv, Callbacks
  <2> QED
    BY <1>1, <1>6, <2>1, <2>2 DEF Callbacks, clientVars
<1>14. Running'
  <2>1. \A q \in Requests : \A x \in Calls : Runs(x[3], q) /\ x[3].kind # "event" => q # r
    BY <1>5
  <2> QED
    BY <1>1, <1>6, <1>7, <1>8, <2>1 DEF IInv, Running
<1>15. Answered'
  BY <1>1, <1>8, AnsweredKept DEF IInv
<1>16. Deleted'
  BY <1>1, <1>4, <1>6, <1>8 DEF IInv, Deleted, clientVars
<1> QED
  BY <1>8, <1>9, <1>10, <1>11, <1>12, <1>13, <1>14, <1>15, <1>16 DEF IInv

-----------------------------------------------------------------------------
(* The invariant *)

(* No request has been executed in the beginning. *)
LEMMA InitIInv ==
    Init => IInv
<1> SUFFICES ASSUME Init PROVE IInv
  OBVIOUS
<1>1. /\ active_requests = {} /\ is_shutdown = FALSE /\ ready = {}
      /\ object = [r \in Requests |-> "none"] /\ messages = <<>> /\ multi = {}
      /\ curl = [req |-> NoRequest, stopped |-> FALSE] /\ is_complete = {}
      /\ callback_posted = {} /\ dispatch = <<>> /\ later = <<>>
      /\ frames = [th \in Threads |-> <<>>] /\ answers = [r \in Requests |-> 0]
      /\ destroyed = FALSE /\ events = 0
  BY DEF Init
<1>2. \A th \in Threads : frames[th] = <<>> /\ Len(frames[th]) = 0
  BY <1>1
<1>3. Calls = {}
  BY <1>2 DEF Calls
<1>4. TypeOK
  <2>1. IsInjective(messages)
    BY <1>1 DEF IsInjective
  <2>2. events \in 0 .. MaxEvents
    BY <1>1, EventsAssumption
  <2>3. frames \in [Threads -> Seq(Frame)] /\ answers \in [Requests -> Nat]
    BY <1>1
  <2>4. /\ object \in [Requests -> {"none", "alive", "deleted"}]
        /\ messages \in Seq([type : {"START", "STOP"}, req : Requests])
        /\ curl \in [req : Requests \cup {NoRequest}, stopped : BOOLEAN]
        /\ dispatch \in Seq([req : Requests, kind : Kinds])
        /\ later \in Seq(Requests)
    BY <1>1
  <2> QED
    BY <1>1, <2>1, <2>2, <2>3, <2>4 DEF TypeOK
<1>5. Forms
  BY <1>2, <1>3 DEF Forms, ClientForm, DispatcherForm, DeleterForm, Threads
<1>6. Shutdown
  BY <1>1, <1>3 DEF Shutdown
<1>7. Ownership
  BY <1>1, <1>3 DEF Ownership, InLater, Held
<1>8. Unknown
  BY <1>1, <1>3, NoRequestAssumption DEF Unknown, Fresh
<1>9. \A r \in Requests : ~Sent(r) /\ ~Stopping(r) /\ ~HasCallbacks(r) /\ ~LastQueued(r)
  BY <1>1, NoRequestAssumption DEF Sent, Stopping, HasCallbacks, LastQueued
<1>10. \A m : ~Sending(m)
  BY <1>1 DEF Sending
<1>11. Transfer
  BY <1>1, <1>9, <1>10, NoRequestAssumption DEF Transfer
<1>12. Stops
  BY <1>1, <1>3, <1>9, <1>10 DEF Stops
<1>13. Callbacks
  BY <1>1, <1>9 DEF Callbacks
<1>14. Running
  BY <1>3 DEF Running
<1>15. Answered
  BY <1>1, <1>3 DEF Answered, LeftToDeleter, InLater, Held
<1>16. Deleted
  BY <1>1 DEF Deleted
<1> QED
  BY <1>4, <1>5, <1>6, <1>7, <1>8, <1>11, <1>12, <1>13, <1>14, <1>15, <1>16 DEF IInv

(* Every step keeps the invariant. *)
LEMMA NextIInv ==
    IInv /\ [Next]_vars => IInv'
<1> SUFFICES ASSUME IInv, [Next]_vars PROVE IInv'
  OBVIOUS
<1>1. ASSUME NEW th \in Threads, Step(th) PROVE IInv'
  <2>1. CASE Emplace(th)
    BY <2>1, EmplaceInv
  <2>2. CASE WaitUntilReady(th)
    BY <2>2, WaitUntilReadyInv
  <2>3. CASE StopRequest(th)
    BY <2>3, StopRequestInv
  <2>4. CASE WaitForCompletion(th)
    BY <2>4, WaitForCompletionInv
  <2>5. CASE DeleteRequest(th)
    BY <2>5, DeleteRequestInv
  <2>6. CASE th = Deleter /\ DeleteLater
    BY <2>6, DeleteLaterInv
  <2>7. CASE th \in Clients /\ Swap(th)
    BY <2>7, SwapInv
  <2>8. CASE th \in Clients /\ CancelNext(th)
    BY <2>8, CancelNextInv
  <2>9. CASE th = Dispatcher /\ CallbackBegins
    BY <2>9, CallbackBeginsInv
  <2>10. CASE th = Dispatcher /\ CallUser
    BY <2>10, CallUserInv
  <2>11. CASE th = Dispatcher /\ UserReturns
    BY <2>11, UserReturnsInv
  <2>12. CASE th = Dispatcher /\ Erase
    BY <2>12, EraseInv
  <2> QED
    BY <1>1, <2>1, <2>2, <2>3, <2>4, <2>5, <2>6, <2>7, <2>8, <2>9, <2>10, <2>11, <2>12 DEF Step
<1>2. ASSUME NEW th \in Threads, Call(th) PROVE IInv'
  <2>1. ASSUME NEW r \in Requests, ExecuteAsync(th, r) PROVE IInv'
    BY <2>1, ExecuteAsyncInv
  <2>2. ASSUME NEW r \in Requests, CancelAsyncRequest(th, r) PROVE IInv'
    BY <2>2, CancelAsyncRequestInv
  <2>3. ASSUME NEW r \in Requests, th \in Clients, Execute(th, r) PROVE IInv'
    BY <2>3, ExecuteInv
  <2>4. CASE th \in Clients /\ Destruct(th)
    BY <2>4, DestructInv
  <2> QED
    BY <1>2, <2>1, <2>2, <2>3, <2>4 DEF Call
<1>3. CASE CurlStep
  BY <1>3, StartMessageInv, StopMessageInv, ResponseSentInv DEF CurlStep
<1>4. ASSUME NEW r \in Requests, TransferEnds(r) \/ StreamContinues(r) PROVE IInv'
  BY <1>4, TransferEndsInv, StreamContinuesInv
<1>5. CASE UNCHANGED vars
  <2>1. /\ UNCHANGED <<active_requests, is_shutdown, ready, object, messages, multi, curl,
                       is_complete, callback_posted, dispatch, later, frames, answers,
                       destroyed, events>>
    BY <1>5 DEF vars, clientVars, curlVars, history
  <2>2. /\ Calls' = Calls /\ Bodies' = Bodies
        /\ Forms' /\ Shutdown' /\ Ownership'
        /\ \A q \in Requests : LeftToDeleter(q)' => LeftToDeleter(q)
    BY <2>1, CallsUnchanged DEF clientVars
  <2>3. TypeOK'
    BY <2>1 DEF IInv, TypeOK
  <2>4. Unknown'
    BY <2>1, <2>2 DEF IInv, Unknown, Fresh
  <2>5. Transfer'
    BY <2>1 DEF IInv, Transfer, Sent, Sending
  <2>6. Stops'
    BY <2>1, <2>2 DEF IInv, Stops, Sending, Stopping, InStop
  <2>7. Callbacks' /\ Running'
    BY <2>1, <2>2, CallbacksKept DEF IInv
  <2>8. Answered' /\ Deleted'
    BY <2>1, <2>2, AnsweredKept, DeletedKept DEF IInv
  <2> QED
    BY <2>2, <2>3, <2>4, <2>5, <2>6, <2>7, <2>8 DEF IInv
<1> QED
  BY <1>1, <1>2, <1>3, <1>4, <1>5 DEF Next

(* The invariant holds in every state. *)
LEMMA Invariance ==
    Spec => []IInv
<1> QED
  BY InitIInv, NextIInv, PTL DEF Spec

-----------------------------------------------------------------------------
(* What follows *)

(* One thread, list or queue is in charge of a request that is alive, ...  *)
LEMMA IInvOneOwner ==
    IInv => OneOwner
<1> SUFFICES ASSUME IInv, NEW r \in Requests
             PROVE  /\ object[r] = "alive" <=> Owners(r) # {}
                    /\ \A p, q \in Owners(r) : p = q
  BY DEF OneOwner
<1>1. FramesType
  BY DEF IInv, TypeOK, FramesType
<1>2. DOMAIN later = 1 .. Len(later) /\ \A th \in Threads : DOMAIN frames[th] = 1 .. Len(frames[th])
  BY <1>1, CallsFacts DEF IInv, TypeOK
<1>3. ASSUME NEW p \in Owners(r)
      PROVE  \/ p = <<"list", Deleter, 0>> /\ r \in active_requests
             \/ p[1] = "later" /\ p = <<"later", Deleter, p[3]>> /\ p[3] \in 1 .. Len(later)
                /\ later[p[3]] = r
             \/ p[1] = "frame" /\ p = <<"frame", p[2], p[3]>>
                /\ <<p[2], p[3], frames[p[2]][p[3]]>> \in Held(r)
  <2>1. CASE p \in {<<"list", Deleter, 0>> : x \in active_requests \cap {r}}
    BY <2>1
  <2>2. CASE p \in {<<"later", Deleter, i>> : i \in {j \in DOMAIN later : later[j] = r}}
    <3>1. PICK i \in 1 .. Len(later) : later[i] = r /\ p = <<"later", Deleter, i>>
      BY <1>2, <2>2
    <3> QED
      BY <3>1
  <2>3. CASE p \in {<<"frame", q[1], q[2]>> : q \in {q \in Positions : Owns(frames[q[1]][q[2]], r)}}
    <3>1. PICK q \in Positions : Owns(frames[q[1]][q[2]], r) /\ p = <<"frame", q[1], q[2]>>
      BY <2>3
    <3>2. PICK th \in Threads : q \in {<<th, i>> : i \in DOMAIN frames[th]}
      BY DEF Positions
    <3>3. PICK i \in 1 .. Len(frames[th]) : q = <<th, i>>
      BY <1>2, <3>2
    <3>4. <<th, i, frames[th][i]>> \in Calls /\ <<th, i, frames[th][i]>>[3] = frames[th][i]
      BY <1>1, CallsFacts
    <3>5. p = <<"frame", th, i>> /\ Owns(frames[th][i], r)
      BY <3>1, <3>3
    <3>6. <<th, i, frames[th][i]>> \in Held(r)
      BY <3>4, <3>5 DEF Held
    <3> QED
      BY <3>5, <3>6
  <2> QED
    BY <2>1, <2>2, <2>3 DEF Owners
<1>4. ASSUME NEW x \in Held(r) PROVE <<"frame", x[1], x[2]>> \in Owners(r)
  <2>1. /\ x[1] \in Threads /\ x[2] \in 1 .. Len(frames[x[1]]) /\ x[3] = frames[x[1]][x[2]]
        /\ Owns(x[3], r)
    BY <1>1, CallsFacts DEF Held
  <2> DEFINE q == <<x[1], x[2]>>
  <2>2. q \in Positions
    BY <1>2, <2>1 DEF Positions
  <2>3. Owns(frames[q[1]][q[2]], r) /\ <<"frame", x[1], x[2]>> = <<"frame", q[1], q[2]>>
    BY <2>1
  <2> HIDE DEF q
  <2> QED
    BY <2>2, <2>3 DEF Owners
<1>5. /\ r \in active_requests => <<"list", Deleter, 0>> \in Owners(r)
      /\ \A i \in 1 .. Len(later) : later[i] = r => <<"later", Deleter, i>> \in Owners(r)
  BY <1>2 DEF Owners
<1>6. object[r] = "alive" <=> r \in active_requests \/ InLater(r) \/ Held(r) # {}
  BY DEF IInv, Ownership
<1>7. Owners(r) # {} => r \in active_requests \/ InLater(r) \/ Held(r) # {}
  BY <1>3 DEF InLater
<1>8. r \in active_requests \/ InLater(r) \/ Held(r) # {} => Owners(r) # {}
  BY <1>4, <1>5 DEF InLater
<1>9. ASSUME NEW p \in Owners(r), NEW q \in Owners(r) PROVE p = q
  <2>1. /\ r \in active_requests => ~InLater(r) /\ Held(r) = {}
        /\ InLater(r) => Held(r) = {}
        /\ \A x, y \in Held(r) : x = y
        /\ \A i, j \in 1 .. Len(later) : later[i] = later[j] => i = j
    BY DEF IInv, Ownership
  <2>2. CASE r \in active_requests
    BY <1>3, <2>1, <2>2 DEF InLater
  <2>3. CASE InLater(r)
    <3>1. /\ p = <<"later", Deleter, p[3]>> /\ p[3] \in 1 .. Len(later) /\ later[p[3]] = r
          /\ q = <<"later", Deleter, q[3]>> /\ q[3] \in 1 .. Len(later) /\ later[q[3]] = r
      BY <1>3, <2>1, <2>3
    <3>2. p[3] = q[3]
      BY <2>1, <3>1
    <3> QED
      BY <3>1, <3>2
  <2>4. CASE r \notin active_requests /\ ~InLater(r)
    <3>1. /\ p = <<"frame", p[2], p[3]>> /\ <<p[2], p[3], frames[p[2]][p[3]]>> \in Held(r)
          /\ q = <<"frame", q[2], q[3]>> /\ <<q[2], q[3], frames[q[2]][q[3]]>> \in Held(r)
      BY <1>3, <2>4 DEF InLater
    <3>2. <<p[2], p[3], frames[p[2]][p[3]]>> = <<q[2], q[3], frames[q[2]][q[3]]>>
      BY <2>1, <3>1
    <3>3. p[2] = q[2] /\ p[3] = q[3]
      BY <3>2
    <3> QED
      BY <3>1, <3>3
  <2> QED
    BY <2>2, <2>3, <2>4
<1> QED
  BY <1>6, <1>7, <1>8, <1>9

(* ... and nothing refers to one that is deleted. *)
LEMMA IInvNoUseAfterDelete ==
    IInv => NoUseAfterDelete
<1> SUFFICES ASSUME IInv, NEW r \in Requests, object[r] = "deleted"
             PROVE  /\ ~Queued(r) /\ ~CallbackRuns(r)
                    /\ r \notin multi /\ curl.req # r
                    /\ \A i \in DOMAIN messages : messages[i].req # r
  BY DEF NoUseAfterDelete
<1>1. FramesType /\ Dispatcher \in Threads
  BY DEF IInv, TypeOK, FramesType, Threads
<1>2. ~HasCallbacks(r) /\ \A x \in Calls : ~Runs(x[3], r)
  BY DEF IInv, Deleted
<1>3. Sent(r) /\ r \in is_complete /\ r \notin multi /\ curl.req # r
  BY DEF IInv, Transfer, Sent
<1>4. ~Queued(r)
  <2>1. DOMAIN dispatch = 1 .. Len(dispatch)
    BY DEF IInv, TypeOK
  <2> QED
    BY <1>2, <2>1 DEF Queued, HasCallbacks
<1>5. ~CallbackRuns(r)
  <2>1. DOMAIN frames[Dispatcher] = 1 .. Len(frames[Dispatcher])
    BY <1>1, CallsFacts
  <2>2. ASSUME NEW i \in 1 .. Len(frames[Dispatcher]) PROVE ~Runs(frames[Dispatcher][i], r)
    <3>1. <<Dispatcher, i, frames[Dispatcher][i]>> \in Calls
      BY <1>1, CallsFacts
    <3>2. <<Dispatcher, i, frames[Dispatcher][i]>>[3] = frames[Dispatcher][i]
      OBVIOUS
    <3> QED
      BY <1>2, <3>1, <3>2
  <2> QED
    BY <2>1, <2>2 DEF CallbackRuns, Runs, CallbackPlaces
<1>6. ASSUME NEW i \in DOMAIN messages, messages[i].req = r PROVE FALSE
  <2>1. i \in 1 .. Len(messages) /\ messages[i] \in MessageType
    <3>1. messages \in Seq(MessageType)
      BY DEF IInv, TypeOK, MessageType
    <3>2. i \in 1 .. Len(messages)
      BY <3>1
    <3> QED
      BY <3>1, <3>2
  <2>2. messages[i] = Message("START", r) \/ messages[i] = Message("STOP", r)
    BY <1>6, <2>1 DEF MessageType, Message
  <2>3. Sending(Message("START", r)) \/ Sending(Message("STOP", r))
    BY <2>1, <2>2 DEF Sending
  <2> QED
    BY <1>3, <2>3 DEF IInv, Transfer, Stops
<1> QED
  BY <1>3, <1>4, <1>5, <1>6

(* When the destructor has returned, only the thread of delete_later and   *)
(* callbacks on the dispatcher have requests to delete.                    *)
LEMMA DeleterHasTheRest ==
    ASSUME IInv, destroyed, NEW r \in Requests, object[r] = "alive",
           frames[Dispatcher] # <<>> => frames[Dispatcher][1].req = r
    PROVE  LeftToDeleter(r)
<1>1. FramesType /\ Forms /\ Dispatcher \in Threads
  BY DEF IInv, TypeOK, FramesType, Threads
<1>2. /\ active_requests = {}
      /\ \A x \in Calls : x[1] \notin Clients /\ x[3].at # "emplace"
  BY DEF IInv, Shutdown
<1>3. InLater(r) \/ Held(r) # {}
  BY <1>2 DEF IInv, Ownership
<1>4. ASSUME NEW x \in Held(r) PROVE x[1] = Deleter
  <2>1. x \in Calls /\ Owns(x[3], r)
    BY DEF Held
  <2>2. x[3].left = {}
    <3>1. x[3].at \notin Destructor
      BY <1>1, <1>2, <2>1, WhoIsWhere
    <3> QED
      BY <1>1, <2>1, <3>1 DEF Forms, FrameOK, Destructor
  <2>3. x[3].req = r /\ x[3].at \in StopPlaces
    BY <1>2, <2>1, <2>2 DEF Owns, StopPlaces
  <2>4. x[1] \in {Dispatcher, Deleter}
    BY <1>1, <1>2, <2>1, CallsFacts DEF Threads
  <2>5. ASSUME x[1] = Dispatcher PROVE FALSE
    <3> DEFINE s == frames[Dispatcher]
               k == Len(s)
    <3>1. x[2] \in 1 .. k /\ x[3] = s[x[2]] /\ k \in Nat /\ (s = <<>> <=> k = 0)
      BY <1>1, <2>1, <2>5, CallsFacts
    <3>2. DispatcherForm(s)
      BY <1>1 DEF Forms
    <3> HIDE DEF k
    <3>3. s # <<>> /\ k > 0 /\ 1 \in 1 .. k
      BY <3>1
    <3> HIDE DEF s
    <3>4. s[1].at \in CallbackPlaces
      BY <3>2, <3>3 DEF DispatcherForm, k
    <3>5. x[2] # 1
      BY <2>3, <3>1, <3>4 DEF CallbackPlaces, StopPlaces
    <3>6. 1 < x[2]
      BY <3>1, <3>5
    <3>7. s[1].req # s[x[2]].req
      BY <2>3, <3>1, <3>2, <3>3, <3>6 DEF DispatcherForm, k
    <3> QED
      BY <2>3, <3>1, <3>3, <3>7 DEF s
  <2> QED
    BY <2>4, <2>5
<1> QED
  BY <1>3, <1>4 DEF LeftToDeleter

(* Who has the last requests decides what may still run then.              *)
LEMMA IInvDestroyedIsQuiet ==
    IInv => DestroyedIsQuiet
<1> SUFFICES ASSUME IInv, destroyed
             PROVE  \/ frames[Dispatcher] = <<>> /\ dispatch = <<>>
                    \/ /\ frames[Dispatcher] # <<>>
                       /\ frames[Dispatcher][1].req \in Eventing \cap Cancelling
  BY DEF DestroyedIsQuiet
<1>1. FramesType /\ Forms /\ Dispatcher \in Threads
  BY DEF IInv, TypeOK, FramesType, Threads
<1>2. ASSUME frames[Dispatcher] # <<>>
      PROVE  frames[Dispatcher][1].req \in Eventing \cap Cancelling
  <2> DEFINE s == frames[Dispatcher]
             x == <<Dispatcher, 1, s[1]>>
  <2>1. Len(s) \in Nat /\ Len(s) # 0
    BY <1>1, <1>2, CallsFacts
  <2>2. Len(s) > 0 /\ 1 \in 1 .. Len(s)
    BY <2>1
  <2>3. x \in Calls /\ x[3] = s[1] /\ s[1] \in Frame
    BY <1>1, <2>2, CallsFacts
  <2>4. s[1].at \in CallbackPlaces
    BY <1>1, <2>2 DEF Forms, DispatcherForm
  <2>5. FrameOK(s[1])
    BY <1>1, <2>3 DEF Forms
  <2> HIDE DEF x
  <2>6. PICK r \in Requests : r = s[1].req
    BY <2>3, <2>4, <2>5 DEF FrameOK, Frame, CallbackPlaces, Destructor
  <2>7. Runs(x[3], r)
    BY <2>3, <2>4, <2>6 DEF Runs
  <2>8. object[r] # "none" /\ object[r] # "deleted"
    <3>1. object[r] # "none"
      BY <2>3, <2>6, KnownRequests
    <3> QED
      BY <2>3, <2>7, <3>1 DEF IInv, Deleted
  <2>9. object[r] = "alive"
    BY <2>8 DEF IInv, TypeOK
  <2>10. LeftToDeleter(r)
    BY <2>6, <2>9, DeleterHasTheRest
  <2>11. x[3].kind = "event" /\ r \in Cancelling
    BY <2>3, <2>7, <2>10 DEF IInv, Answered
  <2> QED
    BY <2>3, <2>5, <2>6, <2>11 DEF FrameOK
<1>3. ASSUME frames[Dispatcher] = <<>>, dispatch # <<>> PROVE FALSE
  <2>1. dispatch \in Seq([req : Requests, kind : Kinds])
    BY DEF IInv, TypeOK
  <2>2. 1 \in 1 .. Len(dispatch) /\ dispatch[1] \in [req : Requests, kind : Kinds]
    <3>1. /\ Len(dispatch) \in Nat \ {0} /\ Head(dispatch) = dispatch[1]
          /\ Head(dispatch) \in [req : Requests, kind : Kinds]
      BY <1>3, <2>1, TailFacts
    <3>2. 1 \in 1 .. Len(dispatch)
      BY <3>1
    <3>3. dispatch[1] \in [req : Requests, kind : Kinds]
      BY <3>1
    <3> QED
      BY <3>2, <3>3
  <2>3. PICK r \in Requests : r = dispatch[1].req
    BY <2>2
  <2>4. HasCallbacks(r)
    BY <2>2, <2>3 DEF HasCallbacks
  <2>5. object[r] # "none" /\ object[r] # "deleted"
    <3>1. object[r] # "none"
      BY <2>2, <2>3, KnownRequests
    <3> QED
      BY <2>4, <3>1 DEF IInv, Deleted
  <2>6. object[r] = "alive"
    BY <2>5 DEF IInv, TypeOK
  <2>7. LeftToDeleter(r)
    BY <1>3, <2>6, DeleterHasTheRest
  <2> QED
    BY <2>4, <2>7 DEF IInv, Answered, Callbacks
<1> QED
  BY <1>2, <1>3

-----------------------------------------------------------------------------
(***************************************************************************)
(* HttpClient.h and HttpRequest.cpp: however many requests there are, and  *)
(* whichever of the last callback, CancelAsyncRequest and the destructor   *)
(* come together, the HttpRequest of each is deleted once, and nothing     *)
(* refers to it after that.                                                *)
(***************************************************************************)
THEOREM RequestsLiveOnce ==
    Spec => []RequestLivesOnce
<1>1. IInv => RequestLivesOnce
  BY IInvOneOwner, IInvNoUseAfterDelete DEF RequestLivesOnce, IInv
<1> QED
  BY <1>1, Invariance, PTL

(***************************************************************************)
(* The last callback of a request is called at most once, and has been     *)
(* called when its HttpRequest is deleted, unless the destructor has begun *)
(* to cancel the requests.                                                 *)
(***************************************************************************)
THEOREM RequestsAreAnsweredOnce ==
    Spec => []OneAnswer
<1>1. ASSUME IInv PROVE OneAnswer
  <2>1. ASSUME NEW r \in Requests PROVE answers[r] <= 1
    BY <1>1 DEF IInv, Callbacks
  <2>2. ASSUME NEW r \in Requests, object[r] = "deleted", ~is_shutdown PROVE answers[r] = 1
    <3>1. Sent(r)
      BY <1>1, <2>2 DEF IInv, Transfer, Sent
    <3>2. ~HasCallbacks(r) /\ \A x \in Calls : ~Runs(x[3], r)
      BY <1>1, <2>2 DEF IInv, Deleted
    <3>3. ~LastQueued(r) /\ ~LastBegins(r)
      BY <3>2 DEF HasCallbacks, LastQueued, LastBegins
    <3> QED
      BY <1>1, <2>2, <3>1, <3>3 DEF IInv, Callbacks
  <2> QED
    BY <2>1, <2>2 DEF OneAnswer
<1> QED
  BY <1>1, Invariance, PTL

(***************************************************************************)
(* When ~HttpClient has returned the dispatcher's thread is in no callback *)
(* of a request, and has none queued, but for a callback of an event       *)
(* stream that cancels other requests and is still under way.              *)
(***************************************************************************)
THEOREM QuietAfterDestruction ==
    Spec => []DestroyedIsQuiet
<1> QED
  BY Invariance, IInvDestroyedIsQuiet, PTL
===============================================================================
