------------------------ MODULE OperationalQueueProofs ------------------------
(***************************************************************************)
(* The safety of the operational queue, for any number of tickets, clients *)
(* and workers, and that it implements TicketQueue.                        *)
(***************************************************************************)
EXTENDS OperationalQueue, SequenceTheorems, FiniteSetTheorems, TLAPS

Depth == Len(current_ticket_stack)

(* The calls a client may be in, one at a time. *)
ClientFrames ==
    \A c \in Clients :
        frames[c] # <<>> =>
            /\ Len(frames[c]) = 1
            /\ Top(c).at \in {"add_task", "resolve", "wait", "future", "idle", "join"}

(***************************************************************************)
(* The frames of the worker in the loop, below its top frame: suspended    *)
(* loops and, between each two, the ticket on the stack that runs there.   *)
(* Only the outermost loop waits for no ticket.                            *)
(***************************************************************************)
LoopTop(w) ==
    LET at == Top(w).at
        n == Len(frames[w])
    IN /\ at \in {"loop", "check", "fetch", "leave",
                  "run", "unstack", "complete", "wait", "resolve"}
       /\ at \in {"run", "unstack"} => n = 2 * Depth
       /\ at = "complete" => n = 2 * Depth + 2
       /\ at \notin {"run", "unstack", "complete"} => n = 2 * Depth + 1
       /\ at \in {"loop", "leave"} => Depth = 0
       /\ at \in {"run", "unstack", "wait", "resolve"} => Depth > 0

Below(f, n, stack, d) ==
    /\ \A i \in 1 .. d : f[2 * i].ticket = stack[i]
    /\ \A i \in 1 .. d : 2 * i < n => f[2 * i].at = "run"
    /\ \A i \in 1 .. d + 1 : 2 * i - 1 < n => f[2 * i - 1].at = "check"
    /\ \A i \in 1 .. n : f[i].ticket = NoTicket <=> i = 1

LoopBelow(w) == Below(frames[w], Len(frames[w]), current_ticket_stack, Depth)

LoopFrames(w) == LoopTop(w) /\ LoopBelow(w)

Adding(c) == In(c, "add_task")

(* The one loop: about to be added to the pool, in it, or on a worker.     *)
OneLoop ==
    /\ \A w \in Workers : frames[w] = <<>> <=> worker[w].at # "run"
    /\ \A v, w \in InLoop : v = w
    /\ \A w \in InLoop :
          processing_thread_id = IF Top(w).at = "loop" THEN NoThread ELSE w
    /\ InLoop = {} => processing_thread_id = NoThread /\ current_ticket_stack = <<>>
    /\ \A c, d \in Clients : Adding(c) /\ Adding(d) => c = d
    /\ \A c \in Clients : Adding(c) => InLoop = {} /\ pool_tasks = <<>>
    /\ pool_tasks # <<>> => InLoop = {} /\ Len(pool_tasks) = 1

(* is_scheduled says whether there is one; a closed pool drops it.         *)
Scheduled ==
    /\ InLoop # {} \/ pool_tasks # <<>> \/ (\E c \in Clients : Adding(c)) => is_scheduled
    /\ is_scheduled /\ ~pool_close =>
          InLoop # {} \/ pool_tasks # <<>> \/ \E c \in Clients : Adding(c)
    /\ processing_queue # <<>> /\ ~stop_processing_requested => is_scheduled
    /\ stop_processing_requested /\ (\A c \in Clients : ~In(c, "idle")) => ~is_scheduled

(* Where the tickets are. *)
Places ==
    /\ registry \cup was_scheduled \subseteq created
    /\ \A i \in DOMAIN processing_queue : processing_queue[i] \in registry \cap was_scheduled
    /\ \A i \in DOMAIN current_ticket_stack :
          current_ticket_stack[i] \in registry \cap was_scheduled
    /\ \A i, j \in DOMAIN processing_queue :
          processing_queue[i] = processing_queue[j] => i = j
    /\ \A i, j \in DOMAIN current_ticket_stack :
          current_ticket_stack[i] = current_ticket_stack[j] => i = j
    /\ \A i \in DOMAIN processing_queue, j \in DOMAIN current_ticket_stack :
          processing_queue[i] # current_ticket_stack[j]

(* A thread about to set a promise. *)
Setting(th) == In(th, "resolve") \/ In(th, "complete")

Promises ==
    /\ \A th \in Threads :
          Setting(th) => Top(th).ticket \in created \ (registry \cup completed)
    /\ \A th, u \in Threads :
          Setting(th) /\ Setting(u) /\ Top(th).ticket = Top(u).ticket => th = u

IInv ==
    /\ TypeOK
    /\ ClientFrames
    /\ \A w \in InLoop : LoopFrames(w)
    /\ OneLoop
    /\ Scheduled
    /\ Places
    /\ Promises
-----------------------------------------------------------------------------
(* Sequences and frames *)

(* Front and Last of a sequence that is not empty.                       *)
LEMMA FrontFacts ==
    ASSUME NEW S, NEW s \in Seq(S), s # <<>>
    PROVE  /\ Len(s) \in Nat \ {0}
           /\ Front(s) \in Seq(S)
           /\ Len(Front(s)) = Len(s) - 1
           /\ \A i \in 1 .. Len(s) - 1 : Front(s)[i] = s[i]
           /\ Last(s) = s[Len(s)]
           /\ Last(s) \in S
<1>1. Len(s) \in Nat \ {0}
  BY EmptySeq
<1>2. Front(s) = SubSeq(s, 1, Len(s) - 1) /\ Last(s) = s[Len(s)]
  BY DEF Front, Last
<1>3. \A i \in 1 .. Len(s) : s[i] \in S
  BY ElementOfSeq
<1>4. /\ SubSeq(s, 1, Len(s) - 1) \in Seq(S)
      /\ Len(SubSeq(s, 1, Len(s) - 1)) = Len(s) - 1
      /\ \A i \in 1 .. Len(s) - 1 : SubSeq(s, 1, Len(s) - 1)[i] = s[i]
  <2> DEFINE n == Len(s) - 1
             t == [i \in 1 .. n |-> s[i]]
  <2>1. n \in Nat /\ \A i \in 1 .. n : s[i] \in S
    BY <1>1, <1>3
  <2>2. SubSeq(s, 1, n) = t
    BY <2>1
  <2> HIDE DEF n
  <2>3. t \in Seq(S)
    BY <2>1
  <2>4. Len(t) = n
    BY <2>1
  <2>5. \A i \in 1 .. n : t[i] = s[i]
    OBVIOUS
  <2> QED
    BY <2>2, <2>3, <2>4, <2>5 DEF n
<1> QED
  BY <1>1, <1>2, <1>3, <1>4

(* What Append does to the elements.                                     *)
LEMMA AppendFacts ==
    ASSUME NEW S, NEW s \in Seq(S), NEW x \in S
    PROVE  /\ Append(s, x) \in Seq(S)
           /\ Append(s, x) # <<>>
           /\ Len(Append(s, x)) = Len(s) + 1
           /\ \A i \in 1 .. Len(s) : Append(s, x)[i] = s[i]
           /\ Append(s, x)[Len(s) + 1] = x
           /\ Last(Append(s, x)) = x
  BY DEF Last

(* What the three ways to change the frames of a thread do. *)
FramesType == frames \in [Threads -> Seq(Frame)]
OthersStay(th) ==
    /\ FramesType'
    /\ \A o \in Threads : o # th => frames'[o] = frames[o] /\ Top(o)' = Top(o)

(* The top frame is replaced; the other threads and frames stay.         *)
LEMMA GoesToFacts ==
    ASSUME FramesType, NEW th \in Threads, frames[th] # <<>>, NEW x \in Frame, GoesTo(th, x)
    PROVE  /\ OthersStay(th)
           /\ frames'[th] # <<>>
           /\ Len(frames'[th]) = Len(frames[th])
           /\ \A i \in 1 .. Len(frames[th]) - 1 : frames'[th][i] = frames[th][i]
           /\ frames'[th][Len(frames[th])] = x
           /\ Top(th)' = x
<1> DEFINE s == frames[th]
<1>1. frames' = [frames EXCEPT ![th] = Append(Front(s), x)] /\ s \in Seq(Frame)
  BY DEF FramesType, GoesTo
<1>2. Front(s) \in Seq(Frame) /\ Len(Front(s)) = Len(s) - 1 /\ Len(s) \in Nat \ {0}
      /\ \A i \in 1 .. Len(s) - 1 : Front(s)[i] = s[i]
  BY <1>1, FrontFacts
<1>3. frames'[th] = Append(Front(s), x) /\ OthersStay(th)
  BY <1>1, <1>2, AppendFacts DEF FramesType, OthersStay, Top
<1> HIDE DEF s
<1>4. /\ Append(Front(s), x) # <<>>
      /\ Len(Append(Front(s), x)) = Len(s)
      /\ \A i \in 1 .. Len(s) - 1 : Append(Front(s), x)[i] = s[i]
      /\ Append(Front(s), x)[Len(s)] = x
      /\ Last(Append(Front(s), x)) = x
  BY <1>2, AppendFacts
<1> QED
  BY <1>3, <1>4 DEF s, Top

(* The top frame goes; the other threads and frames stay.                *)
LEMMA ReturnsFacts ==
    ASSUME FramesType, NEW th \in Threads, frames[th] # <<>>, Returns(th)
    PROVE  /\ OthersStay(th)
           /\ Len(frames'[th]) = Len(frames[th]) - 1
           /\ \A i \in 1 .. Len(frames[th]) - 1 : frames'[th][i] = frames[th][i]
           /\ frames'[th] # <<>> => Top(th)' = frames[th][Len(frames[th]) - 1]
           /\ frames'[th] = <<>> <=> Len(frames[th]) = 1
<1> DEFINE s == frames[th]
<1>1. frames' = [frames EXCEPT ![th] = Front(s)] /\ s \in Seq(Frame)
  BY DEF FramesType, Returns
<1>2. Front(s) \in Seq(Frame) /\ Len(Front(s)) = Len(s) - 1 /\ Len(s) \in Nat \ {0}
      /\ \A i \in 1 .. Len(s) - 1 : Front(s)[i] = s[i]
  BY <1>1, FrontFacts
<1>3. frames'[th] = Front(s) /\ OthersStay(th)
  BY <1>1, <1>2 DEF FramesType, OthersStay, Top
<1>4. Front(s) = <<>> <=> Len(s) = 1
  <2>1. Front(s) = <<>> <=> Len(Front(s)) = 0
    BY <1>2, EmptySeq
  <2> QED
    BY <1>2, <2>1
<1> HIDE DEF s
<1>5. Front(s) # <<>> => Front(s)[Len(Front(s))] = s[Len(s) - 1]
  BY <1>2, <1>4
<1> QED
  BY <1>2, <1>3, <1>4, <1>5 DEF s, Top, Last

(* A frame is added on top; the other threads and frames stay.           *)
LEMMA EntersFacts ==
    ASSUME FramesType, NEW th \in Threads, NEW x \in Frame, Enters(th, x)
    PROVE  /\ OthersStay(th)
           /\ frames'[th] # <<>>
           /\ Len(frames'[th]) = Len(frames[th]) + 1
           /\ \A i \in 1 .. Len(frames[th]) : frames'[th][i] = frames[th][i]
           /\ frames'[th][Len(frames[th]) + 1] = x
           /\ Top(th)' = x
<1> DEFINE s == frames[th]
<1>1. frames' = [frames EXCEPT ![th] = Append(s, x)] /\ s \in Seq(Frame)
  BY DEF FramesType, Enters
<1>2. frames'[th] = Append(s, x) /\ OthersStay(th)
  BY <1>1, AppendFacts DEF FramesType, OthersStay, Top
<1>3. s \in Seq(Frame)
  BY DEF FramesType
<1> HIDE DEF s
<1> QED
  BY <1>2, <1>3, AppendFacts DEF s, Top

(* FetchTicket, on the frames: the loop goes on to its condition, and the  *)
(* ticket runs on top of it.                                               *)
GoesOnAndEnters(th, x, y) == frames' = [frames EXCEPT ![th] = Front(@) \o <<x, y>>]

(* The frames after FetchTicket's two changes of them.                   *)
LEMMA FetchFacts ==
    ASSUME FramesType, NEW th \in Threads, frames[th] # <<>>, NEW x \in Frame, NEW y \in Frame,
           GoesOnAndEnters(th, x, y)
    PROVE  /\ OthersStay(th)
           /\ frames'[th] # <<>>
           /\ Len(frames'[th]) = Len(frames[th]) + 1
           /\ \A i \in 1 .. Len(frames[th]) - 1 : frames'[th][i] = frames[th][i]
           /\ frames'[th][Len(frames[th])] = x
           /\ frames'[th][Len(frames[th]) + 1] = y
           /\ Top(th)' = y
<1> DEFINE s == frames[th]
           r == Front(s) \o <<x, y>>
<1>1. s \in Seq(Frame)
  BY DEF FramesType
<1>2. Front(s) \in Seq(Frame) /\ Len(Front(s)) = Len(s) - 1 /\ Len(s) \in Nat \ {0}
      /\ \A i \in 1 .. Len(s) - 1 : Front(s)[i] = s[i]
  BY <1>1, FrontFacts
<1>3. r \in Seq(Frame)
  BY <1>2
<1>4. frames'[th] = r /\ OthersStay(th)
  BY <1>3 DEF FramesType, OthersStay, Top, GoesOnAndEnters
<1> HIDE DEF s
<1>5. /\ Len(r) = Len(s) + 1
      /\ \A i \in 1 .. Len(s) - 1 : r[i] = s[i]
      /\ r[Len(s)] = x
      /\ r[Len(s) + 1] = y
      /\ r # <<>>
  BY <1>2
<1> HIDE DEF r
<1> QED
  BY <1>2, <1>4, <1>5 DEF s, Top, Last

(* A ticket is at most once in the queue: taken out, it is gone, the       *)
(* others stay, each once.                                                 *)
LEMMA RemoveFirstFacts ==
    ASSUME NEW S, NEW s \in Seq(S), NEW e,
           \A i, j \in 1 .. Len(s) : s[i] = s[j] => i = j
    PROVE  LET r == RemoveFirst(s, e)
           IN /\ r \in Seq(S)
              /\ \A i \in 1 .. Len(r) : r[i] # e /\ \E j \in 1 .. Len(s) : r[i] = s[j]
              /\ \A i, j \in 1 .. Len(r) : r[i] = r[j] => i = j
              /\ \A j \in 1 .. Len(s) : s[j] # e => \E i \in 1 .. Len(r) : r[i] = s[j]
<1>1. CASE ~\E i \in 1 .. Len(s) : s[i] = e
  BY <1>1 DEF RemoveFirst
<1>2. CASE \E i \in 1 .. Len(s) : s[i] = e
  <2>1. PICK k \in 1 .. Len(s) : s[k] = e
    BY <1>2
  <2>2. {i \in 1 .. Len(s) : s[i] = e} = {k}
    BY <2>1
  <2>3. k \in Nat /\ Min({k}) = k
    BY <2>1 DEF Min
  <2>4. RemoveFirst(s, e) = RemoveAt(s, k)
    BY <1>2, <2>2, <2>3 DEF RemoveFirst, SelectInSeq
  <2> DEFINE n == Len(s) - 1
             a == [i \in 1 .. k - 1 |-> s[i]]
             b == [i \in 1 .. n + 1 - k |-> s[i + k]]
             r == a \o b
  <2>5. n \in Nat /\ Len(s) = n + 1 /\ k \in 1 .. n + 1
    BY <2>1
  <2>6. RemoveAt(s, k) = r
    <3>1. SubSeq(s, 1, k - 1) = a
      BY <2>5
    <3>2. SubSeq(s, k + 1, Len(s)) = b
      BY <2>5
    <3> QED
      BY <3>1, <3>2, Zenon DEF RemoveAt
  <2>7. a \in Seq(S) /\ Len(a) = k - 1 /\ b \in Seq(S) /\ Len(b) = n + 1 - k
    <3>1. /\ k - 1 \in Nat /\ \A i \in 1 .. k - 1 : s[i] \in S
          /\ n + 1 - k \in Nat /\ \A i \in 1 .. n + 1 - k : s[i + k] \in S
      BY <2>5
    <3> QED
      BY <3>1
  <2>8. /\ r \in Seq(S) /\ Len(r) = n
        /\ \A i \in 1 .. n : r[i] = IF i < k THEN s[i] ELSE s[i + 1]
    <3>1. /\ \A i \in 1 .. k - 1 : a[i] = s[i]
          /\ \A i \in 1 .. n + 1 - k : b[i] = s[i + k]
      OBVIOUS
    <3> HIDE DEF a, b
    <3>2. r \in Seq(S) /\ Len(r) = n
      <4>1. a \in Seq(S) /\ b \in Seq(S)
        BY <2>7
      <4>2. r \in Seq(S) /\ Len(r) = Len(a) + Len(b)
        BY <4>1, ConcatProperties
      <4> QED
        BY <2>5, <2>7, <4>2
    <3>3. ASSUME NEW i \in 1 .. n PROVE r[i] = IF i < k THEN s[i] ELSE s[i + 1]
      <4>1. CASE i < k
        BY <2>5, <2>7, <3>1, <4>1, ConcatProperties
      <4>2. CASE ~(i < k)
        <5>1. r[i] = b[i - (k - 1)] /\ i - (k - 1) \in 1 .. n + 1 - k
          BY <2>5, <2>7, <4>2, ConcatProperties
        <5>2. (i - (k - 1)) + k = i + 1
          BY <2>5
        <5> QED
          BY <3>1, <4>2, <5>1, <5>2
      <4> QED
        BY <4>1, <4>2
    <3> QED
      BY <3>2, <3>3
  <2> HIDE DEF n, r
  <2>9. ASSUME NEW i \in 1 .. n PROVE r[i] # e /\ \E j \in 1 .. Len(s) : r[i] = s[j]
    <3>1. i \in 1 .. Len(s) /\ i + 1 \in 1 .. Len(s) /\ i + 1 # i
      BY <2>5
    <3>2. CASE i < k
      BY <2>1, <2>5, <2>8, <3>1, <3>2
    <3>3. CASE ~(i < k)
      BY <2>1, <2>5, <2>8, <3>1, <3>3
    <3> QED
      BY <3>2, <3>3
  <2>10. \A i, j \in 1 .. n : r[i] = r[j] => i = j
    BY <2>1, <2>5, <2>8
  <2>11. ASSUME NEW j \in 1 .. Len(s), s[j] # e PROVE \E i \in 1 .. n : r[i] = s[j]
    <3>1. CASE j < k
      BY <2>5, <2>8, <3>1
    <3>2. CASE j > k
      <4>1. j - 1 \in 1 .. n /\ ~(j - 1 < k) /\ (j - 1) + 1 = j
        BY <2>5, <3>2
      <4>2. r[j - 1] = s[(j - 1) + 1]
        BY <2>8, <4>1
      <4> QED
        BY <4>1, <4>2
    <3> QED
      BY <2>1, <2>5, <2>11, <3>1, <3>2
  <2>12. /\ r \in Seq(S)
         /\ \A i \in 1 .. Len(r) : r[i] # e /\ \E j \in 1 .. Len(s) : r[i] = s[j]
         /\ \A i, j \in 1 .. Len(r) : r[i] = r[j] => i = j
         /\ \A j \in 1 .. Len(s) : s[j] # e => \E i \in 1 .. Len(r) : r[i] = s[j]
    <3>1. r \in Seq(S) /\ Len(r) = n
      BY <2>8
    <3> QED
      BY <2>9, <2>10, <2>11, <3>1, Zenon
  <2>13. RemoveFirst(s, e) = r
    BY <2>4, <2>6, Zenon
  <2> QED
    BY <2>12, <2>13, Zenon
<1> QED
  BY <1>1, <1>2

-----------------------------------------------------------------------------
(* The invariant is inductive *)

(* What the types say of the frames.                                     *)
LEMMA TypeFacts ==
    ASSUME TypeOK
    PROVE  /\ FramesType
           /\ Depth \in Nat
           /\ \A th \in Threads : frames[th] \in Seq(Frame) /\ Len(frames[th]) \in Nat
           /\ \A th \in Threads : frames[th] # <<>> => /\ Top(th) = frames[th][Len(frames[th])]
                                                       /\ Top(th) \in Frame
                                                       /\ Len(frames[th]) > 0
<1>1. FramesType /\ Depth \in Nat
  BY DEF TypeOK, FramesType, Depth
<1>2. \A th \in Threads : frames[th] \in Seq(Frame) /\ Len(frames[th]) \in Nat
  BY DEF TypeOK
<1>3. ASSUME NEW th \in Threads, frames[th] # <<>>
      PROVE  /\ Top(th) = frames[th][Len(frames[th])] /\ Top(th) \in Frame
             /\ Len(frames[th]) > 0
  <2> DEFINE s == frames[th]
  <2>1. s \in Seq(Frame) /\ s # <<>> /\ Top(th) = Last(s)
    BY <1>2, <1>3 DEF Top
  <2> HIDE DEF s
  <2>2. Len(s) \in Nat \ {0} /\ Last(s) = s[Len(s)] /\ Last(s) \in Frame
    BY <2>1, FrontFacts
  <2> QED
    BY <2>1, <2>2 DEF s
<1> QED
  BY <1>1, <1>2, <1>3

(* Who calls the queue: a client in no call, or the ticket on top of the *)
(* loop.                                                                 *)
LEMMA CallerFacts ==
    ASSUME IInv, NEW th \in Threads, MayCall(th)
    PROVE  \/ th \in Clients /\ frames[th] = <<>> /\ ~stop_processing_requested
           \/ /\ th \in InLoop
              /\ Top(th).at = "run"
              /\ processing_thread_id = th
              /\ is_scheduled
<1>1. CASE In(th, "run")
  BY <1>1 DEF IInv, ClientFrames, OneLoop, Scheduled, In, InLoop, Threads
<1> QED
  BY <1>1 DEF MayCall

(* A step of the loop that stays in it. *)
LEMMA LoopStep ==
    ASSUME IInv, NEW w \in InLoop, OthersStay(w), frames'[w] # <<>>,
           Top(w).at # "loop", Top(w)'.at # "loop",
           UNCHANGED <<pool_tasks, pool_close, worker, processing_thread_id, is_scheduled,
                       stop_processing_requested>>
    PROVE  /\ InLoop' = {w} /\ InLoop = {w}
           /\ ClientFrames' /\ OneLoop' /\ Scheduled'
           /\ processing_thread_id = w /\ is_scheduled
<1> USE ThreadsAssumption
<1>1. w \in Workers /\ w \notin Clients /\ w \in Threads /\ frames[w] # <<>>
      /\ processing_thread_id = w /\ is_scheduled
  BY DEF IInv, OneLoop, Scheduled, InLoop, Threads
<1>2. \A c \in Clients : frames'[c] = frames[c] /\ Top(c)' = Top(c)
  BY <1>1 DEF OthersStay, Threads
<1>3. \A v \in Workers : v # w => frames'[v] = frames[v] /\ Top(v)' = Top(v)
  BY <1>1 DEF OthersStay, Threads
<1>4. InLoop = {w} /\ InLoop' = {w}
  BY <1>1, <1>3 DEF IInv, OneLoop, InLoop
<1>5. ClientFrames'
  BY <1>2 DEF IInv, ClientFrames
<1>6. OneLoop'
  BY <1>1, <1>2, <1>3, <1>4 DEF IInv, OneLoop, Adding, In
<1>7. Scheduled'
  BY <1>1, <1>2, <1>4 DEF IInv, Scheduled, Adding, In
<1> QED
  BY <1>1, <1>4, <1>5, <1>6, <1>7

(* A step of a client. *)
LEMMA ClientStep ==
    ASSUME IInv, NEW c \in Clients, OthersStay(c),
           UNCHANGED <<worker, processing_thread_id, current_ticket_stack>>
    PROVE  /\ InLoop' = InLoop
           /\ \A w \in InLoop' : LoopFrames(w)'
           /\ \A d \in Clients : d # c => frames'[d] = frames[d] /\ Top(d)' = Top(d)
           /\ \A w \in Workers : frames'[w] = <<>> <=> worker'[w].at # "run"
           /\ \A v, w \in InLoop' : v = w
           /\ \A w \in InLoop' :
                 processing_thread_id' = IF Top(w)'.at = "loop" THEN NoThread ELSE w
           /\ InLoop' = {} => processing_thread_id' = NoThread /\ current_ticket_stack' = <<>>
<1> USE ThreadsAssumption
<1>1. \A w \in Workers : w # c /\ frames'[w] = frames[w] /\ Top(w)' = Top(w)
  BY DEF OthersStay, Threads
<1>2. InLoop' = InLoop
  BY <1>1 DEF InLoop
<1>3. \A w \in InLoop : LoopFrames(w)'
  <2>1. ASSUME NEW w \in InLoop
        PROVE  LoopFrames(w) /\ frames'[w] = frames[w] /\ Top(w)' = Top(w) /\ Depth' = Depth
    BY <1>1 DEF IInv, InLoop, Depth
  <2>2. ASSUME NEW w \in InLoop PROVE LoopTop(w)'
    BY <2>1 DEF LoopFrames, LoopTop
  <2>3. ASSUME NEW w \in InLoop PROVE LoopBelow(w)'
    BY <2>1 DEF LoopFrames, LoopBelow
  <2> QED
    BY <2>2, <2>3 DEF LoopFrames
<1>4. \A d \in Clients : d # c => frames'[d] = frames[d] /\ Top(d)' = Top(d)
  BY DEF OthersStay, Threads
<1> QED
  BY <1>1, <1>2, <1>3, <1>4 DEF IInv, OneLoop, InLoop

-----------------------------------------------------------------------------
(* The frames of the loop: g is f with its last frame replaced, ... *)
LEMMA BelowReplaced ==
    ASSUME NEW f, NEW g, NEW s, NEW n \in Nat \ {0}, NEW d \in Nat, 2 * d <= n,
           Below(f, n, s, d), \A i \in 1 .. n - 1 : g[i] = f[i], g[n].ticket = f[n].ticket
    PROVE  Below(g, n, s, d)
<1>1. \A i \in 1 .. n : g[i].ticket = f[i].ticket
  OBVIOUS
<1>2. ASSUME NEW i \in 1 .. d PROVE g[2 * i].ticket = s[i]
  BY <1>1 DEF Below
<1>3. ASSUME NEW i \in 1 .. d, 2 * i < n PROVE g[2 * i].at = "run"
  BY <1>3 DEF Below
<1>4. ASSUME NEW i \in 1 .. d + 1, 2 * i - 1 < n PROVE g[2 * i - 1].at = "check"
  BY <1>4 DEF Below
<1>5. ASSUME NEW i \in 1 .. n PROVE g[i].ticket = NoTicket <=> i = 1
  BY <1>1 DEF Below
<1> QED
  BY <1>2, <1>3, <1>4, <1>5 DEF Below

(* ... or without it, ... *)
LEMMA BelowShorter ==
    ASSUME NEW f, NEW g, NEW s, NEW n \in Nat, n > 1, NEW d \in Nat, 2 * d <= n - 1,
           Below(f, n, s, d), \A i \in 1 .. n - 1 : g[i] = f[i]
    PROVE  Below(g, n - 1, s, d)
<1>1. ASSUME NEW i \in 1 .. d PROVE g[2 * i].ticket = s[i]
  BY DEF Below
<1>2. ASSUME NEW i \in 1 .. d, 2 * i < n - 1 PROVE g[2 * i].at = "run"
  BY <1>2 DEF Below
<1>3. ASSUME NEW i \in 1 .. d + 1, 2 * i - 1 < n - 1 PROVE g[2 * i - 1].at = "check"
  BY <1>3 DEF Below
<1>4. ASSUME NEW i \in 1 .. n - 1 PROVE g[i].ticket = NoTicket <=> i = 1
  BY DEF Below
<1> QED
  BY <1>1, <1>2, <1>3, <1>4 DEF Below

(* ... or with a call of the ticket added, ... *)
LEMMA BelowLonger ==
    ASSUME NEW f, NEW g, NEW s, NEW d \in Nat \ {0},
           Below(f, 2 * d, s, d), f[2 * d].at = "run",
           \A i \in 1 .. 2 * d : g[i] = f[i], g[2 * d + 1].ticket # NoTicket
    PROVE  Below(g, 2 * d + 1, s, d)
<1>1. ASSUME NEW i \in 1 .. d PROVE g[2 * i].ticket = s[i]
  BY DEF Below
<1>2. ASSUME NEW i \in 1 .. d PROVE g[2 * i].at = "run"
  <2>1. CASE i = d
    BY <2>1
  <2>2. CASE i # d
    <3>1. 2 * i < 2 * d
      BY <2>2
    <3> QED
      BY <3>1 DEF Below
  <2> QED
    BY <2>1, <2>2
<1>3. ASSUME NEW i \in 1 .. d + 1, 2 * i - 1 < 2 * d + 1 PROVE g[2 * i - 1].at = "check"
  <2>1. 2 * i - 1 < 2 * d /\ 2 * i - 1 \in 1 .. 2 * d
    BY <1>3
  <2> QED
    BY <2>1 DEF Below
<1>4. ASSUME NEW i \in 1 .. 2 * d + 1 PROVE g[i].ticket = NoTicket <=> i = 1
  <2>1. CASE i = 2 * d + 1
    BY <2>1
  <2>2. CASE i # 2 * d + 1
    <3>1. i \in 1 .. 2 * d
      BY <2>2
    <3> QED
      BY <3>1 DEF Below
  <2> QED
    BY <2>1, <2>2
<1> QED
  BY <1>1, <1>2, <1>3, <1>4 DEF Below

(* ... or after a ticket began on top of the loop, ... *)
Fetched(f, g, n, s, r, d) ==
    /\ n = 2 * d + 1
    /\ \A i \in 1 .. n - 1 : g[i] = f[i]
    /\ g[n].at = "check" /\ g[n].ticket = f[n].ticket
    /\ g[n + 1].at = "run" /\ g[n + 1].ticket = r[d + 1]
    /\ r[d + 1] # NoTicket
    /\ \A i \in 1 .. d : r[i] = s[i]

(* The frames below a ticket that began are in order again.              *)
LEMMA BelowFetched ==
    ASSUME NEW f, NEW g, NEW s, NEW r, NEW d \in Nat, NEW n \in Nat,
           Below(f, n, s, d), Fetched(f, g, n, s, r, d)
    PROVE  Below(g, n + 1, r, d + 1)
<1> USE DEF Fetched
<1>1. ASSUME NEW i \in 1 .. d + 1 PROVE g[2 * i].ticket = r[i] /\ g[2 * i].at = "run"
  <2>1. CASE i = d + 1
    <3>1. 2 * i = n + 1
      BY <2>1
    <3> QED
      BY <2>1, <3>1
  <2>2. CASE i # d + 1
    <3>1. i \in 1 .. d /\ 2 * i < n /\ 2 * i \in 1 .. n - 1
      BY <2>2
    <3> QED
      BY <3>1 DEF Below
  <2> QED
    BY <2>1, <2>2
<1>2. ASSUME NEW i \in 1 .. d + 2, 2 * i - 1 < n + 1 PROVE g[2 * i - 1].at = "check"
  <2>1. CASE i = d + 1
    <3>1. 2 * i - 1 = n
      BY <2>1
    <3> QED
      BY <3>1
  <2>2. CASE i # d + 1
    <3>1. i \in 1 .. d + 1 /\ 2 * i - 1 < n /\ 2 * i - 1 \in 1 .. n - 1
      BY <1>2, <2>2
    <3> QED
      BY <3>1 DEF Below
  <2> QED
    BY <2>1, <2>2
<1>3. ASSUME NEW i \in 1 .. n + 1 PROVE g[i].ticket = NoTicket <=> i = 1
  <2>1. CASE i = n + 1
    BY <2>1
  <2>2. CASE i # n + 1
    <3>1. i \in 1 .. n /\ (i \in 1 .. n - 1 \/ i = n)
      BY <2>2
    <3>2. g[i].ticket = f[i].ticket
      BY <3>1
    <3> QED
      BY <3>1, <3>2 DEF Below
  <2> QED
    BY <2>1, <2>2
<1> QED
  BY <1>1, <1>2, <1>3 DEF Below

(* ... or after it left the stack. *)
LEMMA BelowUnstacked ==
    ASSUME NEW f, NEW g, NEW s, NEW r, NEW d \in Nat \ {0},
           Below(f, 2 * d, s, d), \A i \in 1 .. 2 * d - 1 : g[i] = f[i],
           g[2 * d].ticket = f[2 * d].ticket, \A i \in 1 .. d - 1 : r[i] = s[i]
    PROVE  Below(g, 2 * d, r, d - 1)
<1>1. \A i \in 1 .. 2 * d : g[i].ticket = f[i].ticket
  OBVIOUS
<1>2. ASSUME NEW i \in 1 .. d - 1 PROVE g[2 * i].ticket = r[i] /\ g[2 * i].at = "run"
  <2>1. i \in 1 .. d /\ 2 * i < 2 * d /\ 2 * i \in 1 .. 2 * d - 1
    OBVIOUS
  <2> QED
    BY <2>1 DEF Below
<1>3. ASSUME NEW i \in 1 .. (d - 1) + 1, 2 * i - 1 < 2 * d PROVE g[2 * i - 1].at = "check"
  <2>1. i \in 1 .. d + 1 /\ 2 * i - 1 \in 1 .. 2 * d - 1
    BY <1>3
  <2> QED
    BY <1>3, <2>1 DEF Below
<1>4. ASSUME NEW i \in 1 .. 2 * d PROVE g[i].ticket = NoTicket <=> i = 1
  BY <1>1 DEF Below
<1> QED
  BY <1>2, <1>3, <1>4 DEF Below

(* What the invariant says of the frames of the loop.                    *)
LEMMA LoopFacts ==
    ASSUME IInv, NEW w \in InLoop
    PROVE  /\ w \in Threads /\ frames[w] # <<>> /\ Depth \in Nat
           /\ Len(frames[w]) \in Nat /\ Len(frames[w]) > 0
           /\ Top(w) = frames[w][Len(frames[w])] /\ Top(w) \in Frame
           /\ LoopTop(w)
           /\ Below(frames[w], Len(frames[w]), current_ticket_stack, Depth)
  BY TypeFacts DEF IInv, InLoop, Threads, LoopFrames, LoopBelow

(* The top frame of the loop is replaced, ... *)
LEMMA LoopGoesOn ==
    ASSUME IInv, NEW w \in InLoop, NEW x \in Frame, GoesTo(w, x),
           UNCHANGED current_ticket_stack,
           \/ /\ Top(w).at \in {"loop", "check", "fetch", "leave", "wait"}
              /\ x.at \in {"check", "fetch"}
              /\ x.ticket = Top(w).ticket
           \/ /\ Top(w).at \in {"check", "fetch"} /\ x.at = "leave"
              /\ x.ticket = NoTicket /\ Top(w).ticket = NoTicket
           \/ Top(w).at = "run" /\ x.at = "unstack" /\ x.ticket = Top(w).ticket
    PROVE  OthersStay(w) /\ frames'[w] # <<>> /\ Top(w)' = x /\ LoopFrames(w)'
<1> DEFINE n == Len(frames[w])
<1>1. /\ OthersStay(w) /\ frames'[w] # <<>> /\ Top(w)' = x /\ Len(frames'[w]) = n
      /\ \A i \in 1 .. n - 1 : frames'[w][i] = frames[w][i]
      /\ frames'[w][n] = x
  BY LoopFacts, GoesToFacts DEF IInv, TypeOK, FramesType
<1>2. /\ n \in Nat \ {0} /\ Depth \in Nat /\ Depth' = Depth
      /\ Top(w) = frames[w][n] /\ LoopTop(w) /\ Below(frames[w], n, current_ticket_stack, Depth)
  BY LoopFacts DEF Depth
<1> HIDE DEF n
<1>3. 2 * Depth <= n
  BY <1>2 DEF LoopTop, n
<1>4. x.ticket = Top(w).ticket
  OBVIOUS
<1>5. LoopBelow(w)'
  <2>1. Below(frames'[w], n, current_ticket_stack, Depth)
    BY <1>1, <1>2, <1>3, <1>4, BelowReplaced
  <2> QED
    BY <1>1, <1>2, <2>1 DEF LoopBelow
<1>6. x.at = "leave" => Depth = 0
  <2>1. Top(w).ticket = NoTicket => n = 1
    BY <1>2 DEF Below
  <2> QED
    BY <1>2, <2>1 DEF LoopTop, n
<1>7. LoopTop(w)'
  BY <1>1, <1>2, <1>6 DEF LoopTop, n
<1> QED
  BY <1>1, <1>5, <1>7 DEF LoopFrames

(* ... or its call ends, ... *)
LEMMA LoopReturns ==
    ASSUME IInv, NEW w \in InLoop, Returns(w), UNCHANGED current_ticket_stack,
           Top(w).at \in {"check", "fetch", "wait", "resolve", "complete"},
           Top(w).ticket # NoTicket
    PROVE  /\ OthersStay(w) /\ frames'[w] # <<>> /\ LoopFrames(w)'
           /\ Top(w)'.at = IF Top(w).at = "complete" THEN "check" ELSE "run"
<1> DEFINE n == Len(frames[w])
<1>1. /\ OthersStay(w) /\ Len(frames'[w]) = n - 1
      /\ \A i \in 1 .. n - 1 : frames'[w][i] = frames[w][i]
      /\ frames'[w] # <<>> => Top(w)' = frames[w][n - 1]
      /\ frames'[w] = <<>> <=> n = 1
  BY LoopFacts, ReturnsFacts DEF IInv, TypeOK, FramesType
<1>2. /\ n \in Nat \ {0} /\ Depth \in Nat /\ Depth' = Depth
      /\ Top(w) = frames[w][n] /\ LoopTop(w) /\ Below(frames[w], n, current_ticket_stack, Depth)
  BY LoopFacts DEF Depth
<1> HIDE DEF n
<1>3. n > 1 /\ frames'[w] # <<>> /\ Top(w)' = frames[w][n - 1]
  BY <1>1, <1>2 DEF Below
<1>4. 2 * Depth <= n - 1
  BY <1>2, <1>3 DEF LoopTop, n
<1>5. LoopBelow(w)'
  <2>1. Below(frames'[w], n - 1, current_ticket_stack, Depth)
    BY <1>1, <1>2, <1>3, <1>4, BelowShorter
  <2> QED
    BY <1>1, <1>2, <2>1 DEF LoopBelow
<1>6. ASSUME Top(w).at = "complete" PROVE Top(w)'.at = "check" /\ n - 1 = 2 * Depth + 1
  <2>1. n = 2 * Depth + 2
    BY <1>2, <1>6 DEF LoopTop, n
  <2>2. 2 * (Depth + 1) - 1 = n - 1 /\ 2 * (Depth + 1) - 1 < n /\ Depth + 1 \in 1 .. Depth + 1
    BY <1>2, <2>1
  <2>3. frames[w][2 * (Depth + 1) - 1].at = "check"
    BY <1>2, <2>2 DEF Below
  <2> QED
    BY <1>2, <1>3, <2>1, <2>2, <2>3
<1>7. ASSUME Top(w).at # "complete" PROVE Top(w)'.at = "run" /\ n - 1 = 2 * Depth /\ Depth > 0
  <2>1. n = 2 * Depth + 1 /\ Depth > 0
    BY <1>2, <1>3, <1>7 DEF LoopTop, n
  <2>2. 2 * Depth < n /\ n - 1 = 2 * Depth /\ Depth \in 1 .. Depth
    BY <1>2, <2>1
  <2>3. frames[w][2 * Depth].at = "run"
    BY <1>2, <2>2 DEF Below
  <2> QED
    BY <1>3, <2>1, <2>2, <2>3
<1>8. LoopTop(w)'
  BY <1>1, <1>2, <1>6, <1>7 DEF LoopTop
<1> QED
  BY <1>1, <1>3, <1>5, <1>6, <1>7, <1>8 DEF LoopFrames

(* ... or the ticket calls the queue, ... *)
LEMMA LoopEnters ==
    ASSUME IInv, NEW w \in InLoop, NEW t \in Tickets, NEW x \in Frame,
           x = At("wait", t) \/ x = At("resolve", t),
           Enters(w, x), UNCHANGED current_ticket_stack, Top(w).at = "run"
    PROVE  OthersStay(w) /\ frames'[w] # <<>> /\ Top(w)' = x /\ LoopFrames(w)'
<1> DEFINE n == Len(frames[w])
<1>1. /\ OthersStay(w) /\ frames'[w] # <<>> /\ Top(w)' = x /\ Len(frames'[w]) = n + 1
      /\ \A i \in 1 .. n : frames'[w][i] = frames[w][i]
      /\ frames'[w][n + 1] = x
  BY LoopFacts, EntersFacts DEF IInv, TypeOK, FramesType
<1>2. /\ n \in Nat \ {0} /\ Depth \in Nat /\ Depth' = Depth
      /\ Top(w) = frames[w][n] /\ LoopTop(w) /\ Below(frames[w], n, current_ticket_stack, Depth)
  BY LoopFacts DEF Depth
<1> HIDE DEF n
<1>3. n = 2 * Depth /\ Depth \in Nat \ {0}
  BY <1>2 DEF LoopTop, n
<1>4. x.ticket # NoTicket /\ x.at \in {"wait", "resolve"}
  BY NoTicketAssumption DEF At
<1>5. LoopBelow(w)'
  <2>1. Below(frames'[w], 2 * Depth + 1, current_ticket_stack, Depth)
    BY <1>1, <1>2, <1>3, <1>4, BelowLonger
  <2> QED
    BY <1>1, <1>2, <1>3, <2>1 DEF LoopBelow
<1>6. LoopTop(w)'
  BY <1>1, <1>2, <1>3, <1>4 DEF LoopTop
<1> QED
  BY <1>1, <1>5, <1>6 DEF LoopFrames

(* ... or a ticket begins, ... *)
LEMMA LoopFetches ==
    ASSUME IInv, NEW w \in InLoop, NEW t \in Tickets, Top(w).at = "fetch",
           frames' = [frames EXCEPT ![w] =
               Front(@) \o <<At("check", Top(w).ticket), At("run", t)>>],
           current_ticket_stack' = Append(current_ticket_stack, t)
    PROVE  OthersStay(w) /\ frames'[w] # <<>> /\ Top(w)' = At("run", t) /\ LoopFrames(w)'
<1> DEFINE n == Len(frames[w])
           x == At("check", Top(w).ticket)
           y == At("run", t)
<1>1. x \in Frame /\ y \in Frame
  BY LoopFacts DEF Frame, At
<1> HIDE DEF x, y
<1>2. /\ OthersStay(w) /\ frames'[w] # <<>> /\ Top(w)' = y /\ Len(frames'[w]) = n + 1
      /\ \A i \in 1 .. n - 1 : frames'[w][i] = frames[w][i]
      /\ frames'[w][n] = x /\ frames'[w][n + 1] = y
  <2>1. FramesType /\ w \in Threads /\ frames[w] # <<>>
    BY LoopFacts, TypeFacts DEF IInv
  <2>2. GoesOnAndEnters(w, x, y)
    BY DEF GoesOnAndEnters, x, y
  <2> QED
    BY <1>1, <2>1, <2>2, FetchFacts
<1>3. /\ n \in Nat \ {0} /\ Depth \in Nat
      /\ Top(w) = frames[w][n] /\ LoopTop(w) /\ Below(frames[w], n, current_ticket_stack, Depth)
  BY LoopFacts
<1> HIDE DEF n
<1>4. /\ Depth' = Depth + 1 /\ current_ticket_stack'[Depth + 1] = t
      /\ \A i \in 1 .. Depth : current_ticket_stack'[i] = current_ticket_stack[i]
  BY AppendFacts DEF IInv, TypeOK, Depth
<1>5. n = 2 * Depth + 1
  BY <1>3 DEF LoopTop, n
<1>6. /\ x.at = "check" /\ x.ticket = frames[w][n].ticket
      /\ y.at = "run" /\ y.ticket = t /\ t # NoTicket
  BY <1>3, NoTicketAssumption DEF At, x, y
<1>7. LoopBelow(w)'
  <2> DEFINE f == frames[w]
             g == frames'[w]
             s == current_ticket_stack
             r == current_ticket_stack'
             d == Depth
  <2>1. \A i \in 1 .. n - 1 : g[i] = f[i]
    BY <1>2, <1>3
  <2>2. g[n] = x /\ g[n + 1] = y /\ Len(g) = n + 1 /\ Depth' = d + 1
    BY <1>2, <1>4
  <2>3. Fetched(f, g, n, s, r, d)
    BY <1>3, <1>4, <1>5, <1>6, <2>1, <2>2 DEF Fetched
  <2> HIDE DEF f, g, s, r, d
  <2>4. Below(g, n + 1, r, d + 1)
    BY <1>3, <2>3, BelowFetched DEF f, s, d
  <2> QED
    BY <2>2, <2>4 DEF LoopBelow, g, r
<1>8. LoopTop(w)'
  <2>1. Top(w)'.at = "run" /\ Depth' > 0
    BY <1>2, <1>3, <1>4, <1>6
  <2>2. Len(frames'[w]) = 2 * Depth'
    BY <1>2, <1>3, <1>4, <1>5
  <2> QED
    BY <2>1, <2>2 DEF LoopTop
<1> QED
  BY <1>2, <1>7, <1>8 DEF LoopFrames, y

(* ... or leaves the stack. *)
LEMMA LoopUnstacks ==
    ASSUME IInv, NEW w \in InLoop, Top(w).at = "unstack",
           GoesTo(w, At("complete", Top(w).ticket)),
           current_ticket_stack' = Front(current_ticket_stack)
    PROVE  /\ OthersStay(w) /\ frames'[w] # <<>>
           /\ Top(w)' = At("complete", Top(w).ticket) /\ LoopFrames(w)'
<1> DEFINE n == Len(frames[w])
           x == At("complete", Top(w).ticket)
<1>1. x \in Frame
  BY LoopFacts DEF Frame, At
<1> HIDE DEF x
<1>2. /\ OthersStay(w) /\ frames'[w] # <<>> /\ Top(w)' = x /\ Len(frames'[w]) = n
      /\ \A i \in 1 .. n - 1 : frames'[w][i] = frames[w][i]
      /\ frames'[w][n] = x
  BY <1>1, LoopFacts, GoesToFacts DEF IInv, TypeOK, FramesType, x
<1>3. /\ n \in Nat \ {0} /\ Depth \in Nat
      /\ Top(w) = frames[w][n] /\ LoopTop(w) /\ Below(frames[w], n, current_ticket_stack, Depth)
  BY LoopFacts
<1> HIDE DEF n
<1>4. n = 2 * Depth /\ Depth \in Nat \ {0}
  BY <1>3 DEF LoopTop, n
<1>5. /\ Depth' = Depth - 1
      /\ \A i \in 1 .. Depth - 1 : current_ticket_stack'[i] = current_ticket_stack[i]
  <2> DEFINE s == current_ticket_stack
  <2>1. s \in Seq(Tickets) /\ s # <<>> /\ s' = Front(s) /\ Depth = Len(s)
    BY <1>4 DEF IInv, TypeOK, Depth
  <2>2. Len(Front(s)) = Len(s) - 1 /\ \A i \in 1 .. Len(s) - 1 : Front(s)[i] = s[i]
    BY <2>1, FrontFacts
  <2> QED
    BY <2>1, <2>2 DEF Depth
<1>6. x.at = "complete" /\ x.ticket = frames[w][n].ticket
  BY <1>3 DEF At, x
<1>7. LoopBelow(w)'
  <2>1. Below(frames'[w], 2 * Depth, current_ticket_stack', Depth - 1)
    <3> DEFINE f == frames[w]
               g == frames'[w]
               s == current_ticket_stack
               r == current_ticket_stack'
               d == Depth
    <3>1. /\ d \in Nat \ {0} /\ Below(f, 2 * d, s, d)
          /\ \A i \in 1 .. 2 * d - 1 : g[i] = f[i]
          /\ g[2 * d].ticket = f[2 * d].ticket /\ \A i \in 1 .. d - 1 : r[i] = s[i]
      BY <1>2, <1>3, <1>4, <1>5, <1>6
    <3> HIDE DEF f, g, s, r, d
    <3>2. Below(g, 2 * d, r, d - 1)
      BY <3>1, BelowUnstacked
    <3> QED
      BY <3>2 DEF g, r, d
  <2> QED
    BY <1>2, <1>4, <1>5, <2>1 DEF LoopBelow
<1>8. LoopTop(w)'
  BY <1>2, <1>3, <1>4, <1>5, <1>6 DEF LoopTop
<1> QED
  BY <1>2, <1>7, <1>8 DEF LoopFrames, x

-----------------------------------------------------------------------------
(* The promises, after a step that leaves a thread about to set none, ... *)
LEMMA PromisesKept ==
    ASSUME IInv, NEW th \in Threads, OthersStay(th), ~Setting(th)',
           created \subseteq created',
           registry' \subseteq registry \cup (created' \ created),
           \/ completed' = completed
           \/ Setting(th) /\ completed' = completed \cup {Top(th).ticket}
    PROVE  Promises'
<1>1. \A o \in Threads : Setting(o)' => o # th /\ Setting(o) /\ Top(o)' = Top(o)
  BY DEF OthersStay, Setting, In
<1>2. ASSUME NEW o \in Threads, Setting(o)'
      PROVE  Top(o)'.ticket \in created' \ (registry' \cup completed')
  <2>1. o # th /\ Setting(o) /\ Top(o)' = Top(o)
    BY <1>1, <1>2
  <2>2. Top(o).ticket \in created \ (registry \cup completed)
    BY <2>1 DEF IInv, Promises
  <2>3. Setting(th) => Top(o).ticket # Top(th).ticket
    BY <2>1 DEF IInv, Promises
  <2> QED
    BY <2>1, <2>2, <2>3
<1> QED
  BY <1>1, <1>2 DEF IInv, Promises

(* ... and after one that takes a ticket out of the registry. *)
LEMMA PromiseMade ==
    ASSUME IInv, NEW th \in Threads, OthersStay(th),
           Top(th)'.ticket \in registry, registry' = registry \ {Top(th)'.ticket},
           UNCHANGED <<created, completed>>
    PROVE  Promises'
<1>1. \A o \in Threads : o # th /\ Setting(o)' => Setting(o) /\ Top(o)' = Top(o)
  BY DEF OthersStay, Setting, In
<1>2. \A o \in Threads : o # th /\ Setting(o)' =>
          Top(o)'.ticket \in created' \ (registry \cup completed')
  BY <1>1 DEF IInv, Promises
<1>3. Top(th)'.ticket \in created \ (registry' \cup completed)
  BY DEF IInv, TypeOK, Places
<1> QED
  BY <1>1, <1>2, <1>3 DEF IInv, Promises

dataVars == <<registry, processing_queue, was_scheduled, current_ticket_stack, created>>

(* A step that leaves the data of the queue leaves every ticket where it *)
(* is.                                                                   *)
LEMMA PlacesStay == ASSUME IInv, UNCHANGED dataVars PROVE Places'
  BY DEF IInv, Places, dataVars

-----------------------------------------------------------------------------
(* Steps of the loop *)

(* Which frames are for a ticket, and which for none.                    *)
LEMMA FrameFacts ==
    ASSUME NEW x \in Frame
    PROVE  /\ x.at \in {"check", "fetch"} => x.ticket \in Tickets \cup {NoTicket}
           /\ x.at \in {"run", "unstack", "complete", "resolve", "wait", "future"} =>
                  x.ticket \in Tickets /\ x.ticket # NoTicket
           /\ x.at \in {"loop", "leave", "add_task", "idle", "join"} => x.ticket = NoTicket
  BY NoTicketAssumption DEF Frame

(* A worker with frames is in the loop.                                  *)
LEMMA InLoopFacts ==
    ASSUME IInv, NEW w \in Workers, frames[w] # <<>>
    PROVE  /\ w \in InLoop /\ w \in Threads /\ w \notin Clients
           /\ Top(w) \in Frame
           /\ Top(w).at \in {"loop", "check", "fetch", "leave",
                             "run", "unstack", "complete", "wait", "resolve"}
  BY LoopFacts, ThreadsAssumption DEF InLoop, LoopTop, Threads

(* A step of the loop that changes its frames only. *)
LEMMA LoopStepIInv ==
    ASSUME IInv, NEW w \in InLoop, OthersStay(w), frames'[w] # <<>>, LoopFrames(w)',
           Top(w).at # "loop", Top(w)'.at # "loop", ~Setting(w)',
           UNCHANGED <<poolVars, registry, processing_queue, was_scheduled,
                       current_ticket_stack, stop_processing_requested, is_scheduled,
                       processing_thread_id, created>>,
           \/ completed' = completed
           \/ Setting(w) /\ completed' = completed \cup {Top(w).ticket}
    PROVE  IInv'
<1>1. w \in Threads
  BY LoopFacts
<1>2. UNCHANGED <<pool_tasks, pool_close, worker>>
  BY DEF poolVars
<1>3. InLoop' = {w} /\ ClientFrames' /\ OneLoop' /\ Scheduled'
  BY <1>2, LoopStep
<1>4. Promises'
  BY <1>1, PromisesKept
<1>5. Places'
  BY PlacesStay DEF dataVars
<1>6. TypeOK'
  <2>1. completed' \subseteq created \ registry
    BY <1>1 DEF IInv, TypeOK, Promises
  <2> QED
    BY <1>2, <2>1 DEF IInv, TypeOK, ThreadPoolTypeOK, OthersStay, FramesType
<1> QED
  BY <1>3, <1>4, <1>5, <1>6 DEF IInv

(* processing_loop looks at its break condition.                         *)
LEMMA LoopConditionStep == ASSUME IInv, NEW w \in Workers, LoopCondition(w) PROVE IInv'
<1>1. /\ w \in InLoop /\ Top(w).at = "check" /\ Top(w) \in Frame
      /\ UNCHANGED <<poolVars, ticketVars>>
  BY InLoopFacts DEF LoopCondition, In
<1> DEFINE t == Top(w).ticket
<1>2. t \in Tickets \cup {NoTicket}
  BY <1>1, FrameFacts
<1>3. UNCHANGED <<poolVars, registry, processing_queue, was_scheduled, current_ticket_stack,
                  stop_processing_requested, is_scheduled, processing_thread_id, created,
                  completed>>
  BY <1>1 DEF ticketVars
<1>4. CASE GoesTo(w, At("fetch", t))
  <2>1. At("fetch", t) \in Frame /\ At("fetch", t).at = "fetch" /\ At("fetch", t).ticket = t
    BY <1>2 DEF Frame, At
  <2>2. /\ OthersStay(w) /\ frames'[w] # <<>> /\ Top(w)' = At("fetch", t)
        /\ LoopFrames(w)'
    BY <1>1, <1>3, <1>4, <2>1, LoopGoesOn
  <2> QED
    BY <1>1, <1>3, <2>1, <2>2, LoopStepIInv DEF Setting, In
<1>5. CASE t = NoTicket /\ GoesTo(w, At("leave", NoTicket))
  <2>1. At("leave", NoTicket) \in Frame /\ At("leave", NoTicket).at = "leave"
        /\ At("leave", NoTicket).ticket = NoTicket
    BY DEF Frame, At
  <2>2. /\ OthersStay(w) /\ frames'[w] # <<>> /\ Top(w)' = At("leave", NoTicket)
        /\ LoopFrames(w)'
    BY <1>1, <1>3, <1>5, <2>1, LoopGoesOn
  <2> QED
    BY <1>1, <1>3, <2>1, <2>2, LoopStepIInv DEF Setting, In
<1>6. CASE t # NoTicket /\ Returns(w)
  <2>1. /\ OthersStay(w) /\ frames'[w] # <<>> /\ Top(w)'.at = "run" /\ LoopFrames(w)'
    BY <1>1, <1>3, <1>6, LoopReturns
  <2> QED
    BY <1>1, <1>3, <2>1, LoopStepIInv DEF Setting, In
<1> QED
  BY <1>4, <1>5, <1>6 DEF LoopCondition

(* processing_loop wakes up because the queue stops.                     *)
LEMMA FetchStoppedStep == ASSUME IInv, NEW w \in Workers, FetchStopped(w) PROVE IInv'
<1>1. /\ w \in InLoop /\ Top(w).at = "fetch" /\ Top(w) \in Frame
      /\ UNCHANGED <<poolVars, ticketVars>>
  BY InLoopFacts DEF FetchStopped, In
<1>2. UNCHANGED <<poolVars, registry, processing_queue, was_scheduled, current_ticket_stack,
                  stop_processing_requested, is_scheduled, processing_thread_id, created,
                  completed>>
  BY <1>1 DEF ticketVars
<1>3. CASE Top(w).ticket = NoTicket /\ GoesTo(w, At("leave", NoTicket))
  <2>1. At("leave", NoTicket) \in Frame /\ At("leave", NoTicket).at = "leave"
        /\ At("leave", NoTicket).ticket = NoTicket
    BY DEF Frame, At
  <2>2. /\ OthersStay(w) /\ frames'[w] # <<>> /\ Top(w)' = At("leave", NoTicket)
        /\ LoopFrames(w)'
    BY <1>1, <1>2, <1>3, <2>1, LoopGoesOn
  <2> QED
    BY <1>1, <1>2, <2>1, <2>2, LoopStepIInv DEF Setting, In
<1>4. CASE Top(w).ticket # NoTicket /\ Returns(w)
  <2>1. /\ OthersStay(w) /\ frames'[w] # <<>> /\ Top(w)'.at = "run" /\ LoopFrames(w)'
    BY <1>1, <1>2, <1>4, LoopReturns
  <2> QED
    BY <1>1, <1>2, <2>1, LoopStepIInv DEF Setting, In
<1> QED
  BY <1>3, <1>4 DEF FetchStopped

(* The function of a ticket returns.                                     *)
LEMMA InvocableReturnsStep == ASSUME IInv, NEW w \in Workers, InvocableReturns(w) PROVE IInv'
<1> DEFINE x == At("unstack", Top(w).ticket)
<1>1. /\ w \in InLoop /\ Top(w).at = "run" /\ Top(w) \in Frame /\ GoesTo(w, x)
      /\ UNCHANGED <<poolVars, registry, processing_queue, was_scheduled, current_ticket_stack,
                     stop_processing_requested, is_scheduled, processing_thread_id, created,
                     completed>>
  BY InLoopFacts DEF InvocableReturns, In, ticketVars
<1>2. x \in Frame /\ x.at = "unstack" /\ x.ticket = Top(w).ticket
  BY <1>1, FrameFacts DEF Frame, At
<1> HIDE DEF x
<1>3. OthersStay(w) /\ frames'[w] # <<>> /\ Top(w)' = x /\ LoopFrames(w)'
  BY <1>1, <1>2, LoopGoesOn
<1> QED
  BY <1>1, <1>2, <1>3, LoopStepIInv DEF Setting, In

(* processing_loop sets the promise of the ticket that ended.            *)
LEMMA CompleteStep == ASSUME IInv, NEW w \in Workers, Complete(w) PROVE IInv'
<1>1. /\ w \in InLoop /\ Top(w).at = "complete" /\ Top(w) \in Frame /\ Returns(w) /\ Setting(w)
      /\ UNCHANGED <<poolVars, registry, processing_queue, was_scheduled, current_ticket_stack,
                     stop_processing_requested, is_scheduled, processing_thread_id, created>>
      /\ completed' = completed \cup {Top(w).ticket}
  BY InLoopFacts DEF Complete, In, Setting
<1>2. Top(w).ticket # NoTicket
  BY <1>1, FrameFacts
<1>3. /\ OthersStay(w) /\ frames'[w] # <<>> /\ Top(w)'.at = "check" /\ LoopFrames(w)'
  BY <1>1, <1>2, LoopReturns
<1> QED
  BY <1>1, <1>3, LoopStepIInv DEF Setting, In

(* processing_loop takes the oldest ticket of the queue.                 *)
LEMMA FetchTicketStep == ASSUME IInv, NEW w \in Workers, FetchTicket(w) PROVE IInv'
<1> DEFINE t == Head(processing_queue)
<1>1. /\ w \in InLoop /\ w \in Threads /\ Top(w).at = "fetch" /\ Top(w) \in Frame
      /\ processing_queue # <<>>
      /\ current_ticket_stack' = Append(current_ticket_stack, t)
      /\ processing_queue' = Tail(processing_queue)
      /\ UNCHANGED <<poolVars, registry, was_scheduled, stop_processing_requested,
                     is_scheduled, processing_thread_id, completed, created>>
  BY InLoopFacts DEF FetchTicket, In
<1>2. frames' = [frames EXCEPT ![w] = Front(@) \o <<At("check", Top(w).ticket), At("run", t)>>]
  BY DEF FetchTicket, Top
<1>3. /\ processing_queue \in Seq(Tickets) /\ t = processing_queue[1] /\ t \in Tickets
      /\ processing_queue' \in Seq(Tickets)
      /\ Len(processing_queue') = Len(processing_queue) - 1
      /\ \A i \in 1 .. Len(processing_queue) - 1 : processing_queue'[i] = processing_queue[i + 1]
      /\ Len(processing_queue) \in Nat \ {0}
  BY <1>1 DEF IInv, TypeOK
<1>4. /\ OthersStay(w) /\ frames'[w] # <<>> /\ Top(w)' = At("run", t) /\ LoopFrames(w)'
  BY <1>1, <1>2, <1>3, LoopFetches
<1> HIDE DEF t
<1>5. UNCHANGED <<pool_tasks, pool_close, worker>>
  BY <1>1 DEF poolVars
<1>6. Top(w)'.at = "run" /\ ~Setting(w)'
  BY <1>4 DEF At, Setting, In
<1>7. InLoop' = {w} /\ ClientFrames' /\ OneLoop' /\ Scheduled'
  BY <1>1, <1>4, <1>5, <1>6, LoopStep
<1>8. Promises'
  BY <1>1, <1>4, <1>6, PromisesKept
<1>9. /\ Len(current_ticket_stack) \in Nat
      /\ current_ticket_stack' \in Seq(Tickets)
      /\ Len(current_ticket_stack') = Len(current_ticket_stack) + 1
      /\ current_ticket_stack'[Len(current_ticket_stack) + 1] = t
      /\ \A i \in 1 .. Len(current_ticket_stack) :
            current_ticket_stack'[i] = current_ticket_stack[i]
  BY <1>1, <1>3, AppendFacts DEF IInv, TypeOK
<1>10. Places'
  <2> DEFINE q == processing_queue
             s == current_ticket_stack
  <2>1. /\ DOMAIN q = 1 .. Len(q) /\ DOMAIN q' = 1 .. Len(q) - 1
        /\ DOMAIN s = 1 .. Len(s) /\ DOMAIN s' = 1 .. Len(s) + 1
    BY <1>3, <1>9 DEF IInv, TypeOK
  <2>2. /\ \A i \in 1 .. Len(q) : q[i] \in registry \cap was_scheduled
        /\ \A i \in 1 .. Len(s) : s[i] \in registry \cap was_scheduled
        /\ \A i, j \in 1 .. Len(q) : q[i] = q[j] => i = j
        /\ \A i, j \in 1 .. Len(s) : s[i] = s[j] => i = j
        /\ \A i \in 1 .. Len(q), j \in 1 .. Len(s) : q[i] # s[j]
        /\ registry \cup was_scheduled \subseteq created
    BY <2>1 DEF IInv, Places
  <2>3. 1 \in 1 .. Len(q) /\ t = q[1] /\ t \in registry \cap was_scheduled
        /\ \A i \in 1 .. Len(q) - 1 : i + 1 \in 1 .. Len(q) /\ i + 1 # 1
    BY <1>3, <2>2
  <2>4. /\ \A i \in 1 .. Len(q) - 1 : q'[i] = q[i + 1]
        /\ s'[Len(s) + 1] = t /\ \A i \in 1 .. Len(s) : s'[i] = s[i]
        /\ Len(s) \in Nat /\ Len(q) \in Nat
    BY <1>3, <1>9
  <2>5. registry' = registry /\ was_scheduled' = was_scheduled /\ created' = created
    BY <1>1
  <2>6. \A i \in DOMAIN q' : q'[i] \in registry \cap was_scheduled
    BY <2>1, <2>2, <2>3, <2>4
  <2>7. \A i \in DOMAIN s' : i = Len(s) + 1 \/ i \in 1 .. Len(s)
    BY <2>1, <2>4
  <2> HIDE DEF q, s
  <2>8. \A i \in DOMAIN s' : s'[i] \in registry \cap was_scheduled
    BY <2>2, <2>3, <2>4, <2>7
  <2>9. \A i, j \in DOMAIN q' : q'[i] = q'[j] => i = j
    BY <2>1, <2>2, <2>3, <2>4
  <2>10. \A i, j \in DOMAIN s' : s'[i] = s'[j] => i = j
    BY <2>2, <2>3, <2>4, <2>7
  <2>11. \A i \in DOMAIN q', j \in DOMAIN s' : q'[i] # s'[j]
    BY <2>1, <2>2, <2>3, <2>4, <2>7
  <2> QED
    BY <2>2, <2>5, <2>6, <2>8, <2>9, <2>10, <2>11 DEF Places, q, s
<1>11. TypeOK'
  BY <1>1, <1>3, <1>4, <1>5, <1>9 DEF IInv, TypeOK, ThreadPoolTypeOK, OthersStay, FramesType
<1> QED
  BY <1>4, <1>7, <1>8, <1>10, <1>11 DEF IInv

(* The ticket that ended leaves the stack and the registry.              *)
LEMMA UnstackStep == ASSUME IInv, NEW w \in Workers, Unstack(w) PROVE IInv'
<1> DEFINE t == Top(w).ticket
           s == current_ticket_stack
<1>1. /\ w \in InLoop /\ w \in Threads /\ Top(w).at = "unstack" /\ Top(w) \in Frame
      /\ s' = Front(s)
      /\ registry' = registry \ {t}
      /\ GoesTo(w, At("complete", t))
      /\ UNCHANGED <<poolVars, processing_queue, was_scheduled, stop_processing_requested,
                     is_scheduled, processing_thread_id, completed, created>>
  BY InLoopFacts DEF Unstack, In
<1>2. /\ OthersStay(w) /\ frames'[w] # <<>> /\ Top(w)' = At("complete", t) /\ LoopFrames(w)'
  BY <1>1, LoopUnstacks
<1>3. UNCHANGED <<pool_tasks, pool_close, worker>>
  BY <1>1 DEF poolVars
<1>4. Top(w)'.at = "complete" /\ Top(w)'.ticket = t
  BY <1>2 DEF At
<1>5. InLoop' = {w} /\ ClientFrames' /\ OneLoop' /\ Scheduled'
  BY <1>1, <1>2, <1>3, <1>4, LoopStep
(* The ticket that ends is the last on the stack. *)
<1>6. s \in Seq(Tickets) /\ Len(s) \in Nat \ {0} /\ t = s[Len(s)]
  <2>1. /\ Depth \in Nat /\ Depth > 0 /\ Len(frames[w]) = 2 * Depth
        /\ Top(w) = frames[w][2 * Depth]
        /\ Below(frames[w], Len(frames[w]), s, Depth)
    BY <1>1, LoopFacts DEF LoopTop
  <2>2. Depth \in 1 .. Depth
    BY <2>1
  <2> QED
    BY <2>1, <2>2 DEF Below, Depth, IInv, TypeOK
<1>7. /\ s' \in Seq(Tickets) /\ Len(s') = Len(s) - 1
      /\ \A i \in 1 .. Len(s) - 1 : s'[i] = s[i]
  <2>1. s # <<>>
    BY <1>6
  <2> QED
    BY <1>1, <1>6, <2>1, FrontFacts
<1>8. Places' /\ t \in registry
  <2> DEFINE q == processing_queue
  <2>1. DOMAIN s = 1 .. Len(s) /\ DOMAIN s' = 1 .. Len(s) - 1 /\ q' = q
    BY <1>1, <1>6, <1>7
  <2>2. /\ \A i \in DOMAIN q : q[i] \in registry \cap was_scheduled
        /\ \A i \in 1 .. Len(s) : s[i] \in registry \cap was_scheduled
        /\ \A i, j \in DOMAIN q : q[i] = q[j] => i = j
        /\ \A i, j \in 1 .. Len(s) : s[i] = s[j] => i = j
        /\ \A i \in DOMAIN q, j \in 1 .. Len(s) : q[i] # s[j]
        /\ registry \cup was_scheduled \subseteq created
    BY <2>1 DEF IInv, Places
  <2>3. /\ Len(s) \in 1 .. Len(s)
        /\ \A i \in 1 .. Len(s) - 1 : i \in 1 .. Len(s) /\ i # Len(s)
    BY <1>6
  <2>4. registry' = registry \ {t} /\ was_scheduled' = was_scheduled /\ created' = created
    BY <1>1
  <2> HIDE DEF q, s, t
  <2>5. \A i \in DOMAIN q' : q'[i] \in registry' \cap was_scheduled'
    BY <1>6, <2>1, <2>2, <2>3, <2>4
  <2>6. \A i \in DOMAIN s' : s'[i] \in registry' \cap was_scheduled'
    BY <1>6, <1>7, <2>1, <2>2, <2>3, <2>4
  <2>7. \A i, j \in DOMAIN s' : s'[i] = s'[j] => i = j
    BY <1>7, <2>1, <2>2, <2>3
  <2>8. \A i \in DOMAIN q', j \in DOMAIN s' : q'[i] # s'[j]
    BY <1>7, <2>1, <2>2, <2>3
  <2>9. t \in registry
    BY <1>6, <2>2, <2>3
  <2> QED
    BY <2>1, <2>2, <2>4, <2>5, <2>6, <2>7, <2>8, <2>9 DEF Places, q, s
<1>9. Promises'
  BY <1>1, <1>2, <1>4, <1>8, PromiseMade
<1>10. TypeOK'
  BY <1>1, <1>2, <1>3, <1>7 DEF IInv, TypeOK, ThreadPoolTypeOK, OthersStay, FramesType
<1> QED
  BY <1>2, <1>5, <1>8, <1>9, <1>10 DEF IInv

(* The loop's task says which thread processes the queue.                *)
LEMMA SetProcessingThreadStep ==
    ASSUME IInv, NEW w \in Workers, SetProcessingThread(w) PROVE IInv'
<1> DEFINE x == At("check", NoTicket)
<1>1. /\ w \in InLoop /\ w \in Threads /\ w \notin Clients /\ frames[w] # <<>>
      /\ Top(w).at = "loop" /\ Top(w) \in Frame
      /\ processing_thread_id' = w
      /\ GoesTo(w, x)
      /\ UNCHANGED <<poolVars, registry, processing_queue, was_scheduled, current_ticket_stack,
                     stop_processing_requested, is_scheduled, completed, created>>
  BY InLoopFacts DEF SetProcessingThread, In
<1>2. x \in Frame /\ x.at = "check" /\ x.ticket = NoTicket /\ Top(w).ticket = NoTicket
  BY <1>1, FrameFacts DEF At, Frame
<1> HIDE DEF x
<1>3. OthersStay(w) /\ frames'[w] # <<>> /\ Top(w)' = x /\ LoopFrames(w)'
  BY <1>1, <1>2, LoopGoesOn
<1>4. UNCHANGED <<pool_tasks, pool_close, worker>>
  BY <1>1 DEF poolVars
<1>5. \A c \in Clients : frames'[c] = frames[c] /\ Top(c)' = Top(c)
  BY <1>1, <1>3 DEF OthersStay, Threads
<1>6. \A v \in Workers : v # w => frames'[v] = frames[v] /\ Top(v)' = Top(v)
  BY <1>3 DEF OthersStay, Threads
<1>7. InLoop = {w} /\ InLoop' = {w}
  BY <1>1, <1>3, <1>6 DEF IInv, OneLoop, InLoop
<1>8. ClientFrames'
  BY <1>5 DEF IInv, ClientFrames
<1>9. OneLoop'
  BY <1>1, <1>2, <1>3, <1>4, <1>5, <1>6, <1>7 DEF IInv, OneLoop, Adding, In
<1>10. Scheduled'
  BY <1>1, <1>4, <1>5, <1>7 DEF IInv, Scheduled, Adding, In
<1>11. Promises'
  BY <1>1, <1>2, <1>3, PromisesKept DEF Setting, In
<1>12. Places'
  BY <1>1, PlacesStay DEF dataVars
<1>13. TypeOK'
  BY <1>1, <1>3, <1>4 DEF IInv, TypeOK, ThreadPoolTypeOK, OthersStay, FramesType
<1> QED
  BY <1>3, <1>7, <1>8, <1>9, <1>10, <1>11, <1>12, <1>13 DEF IInv

(* The loop's task ends, or goes on for a ticket that has just arrived.  *)
LEMMA LeaveLoopStep == ASSUME IInv, NEW w \in Workers, LeaveLoop(w) PROVE IInv'
<1>1. /\ w \in InLoop /\ w \in Threads /\ w \notin Clients /\ frames[w] # <<>>
      /\ Top(w).at = "leave" /\ Top(w) \in Frame /\ Top(w).ticket = NoTicket
      /\ is_scheduled' = ~IsDone
      /\ UNCHANGED <<registry, processing_queue, was_scheduled, current_ticket_stack,
                     stop_processing_requested, completed, created>>
  BY InLoopFacts, FrameFacts DEF LeaveLoop, In
<1>2. InLoop = {w} /\ processing_thread_id = w /\ is_scheduled /\ pool_tasks = <<>>
      /\ \A c \in Clients : ~Adding(c)
  BY <1>1 DEF IInv, OneLoop, Scheduled, InLoop
<1>3. CASE IsDone
  <2>1. /\ processing_thread_id' = NoThread /\ Returns(w)
        /\ worker[w].at = "run" /\ MoveWorker(w, "check")
        /\ pool_tasks' = pool_tasks /\ pool_close' = pool_close /\ is_scheduled' = FALSE
    BY <1>1, <1>3 DEF LeaveLoop, TaskReturns
  <2>2. Len(frames[w]) = 1 /\ current_ticket_stack = <<>>
    <3>0. LoopTop(w)
      BY <1>1, LoopFacts
    <3>1. Depth = 0 /\ Len(frames[w]) = 1
      BY <1>1, <3>0 DEF LoopTop
    <3>2. current_ticket_stack \in Seq(Tickets) /\ Len(current_ticket_stack) = 0
      BY <3>1 DEF IInv, TypeOK, Depth
    <3> QED
      BY <3>1, <3>2
  <2>3. OthersStay(w) /\ frames'[w] = <<>>
    BY <1>1, <2>1, <2>2, ReturnsFacts DEF IInv, TypeOK, FramesType
  <2>4. /\ worker' \in [Workers -> WorkerState] /\ worker'[w].at = "check"
        /\ \A v \in Workers : v # w => worker'[v] = worker[v]
    BY <2>1 DEF MoveWorker, WorkerState, IInv, TypeOK, ThreadPoolTypeOK
  <2>5. \A c \in Clients : frames'[c] = frames[c] /\ Top(c)' = Top(c)
    BY <1>1, <2>3 DEF OthersStay, Threads
  <2>6. \A v \in Workers : v # w => frames'[v] = frames[v]
    BY <2>3 DEF OthersStay, Threads
  <2>7. InLoop' = {}
    BY <1>2, <2>3, <2>6 DEF InLoop
  <2>8. ClientFrames'
    BY <2>5 DEF IInv, ClientFrames
  <2>9. OneLoop'
    <3>1. \A v \in Workers : frames'[v] = <<>> <=> worker'[v].at # "run"
      BY <2>3, <2>4, <2>6 DEF IInv, OneLoop
    <3>2. \A c \in Clients : ~Adding(c)'
      BY <1>2, <2>5 DEF Adding, In
    <3> QED
      BY <1>1, <1>2, <2>1, <2>2, <2>7, <3>1, <3>2 DEF OneLoop
  <2>10. Scheduled'
    <3>1. \A c \in Clients : ~Adding(c)'
      BY <1>2, <2>5 DEF Adding, In
    <3> QED
      BY <1>1, <1>2, <1>3, <2>1, <2>7, <3>1 DEF Scheduled, IsDone
  <2>11. Promises'
    BY <1>1, <2>3, PromisesKept DEF Setting, In
  <2>12. Places'
    BY <1>1, PlacesStay DEF dataVars
  <2>13. TypeOK'
    BY <1>1, <2>1, <2>3, <2>4 DEF IInv, TypeOK, ThreadPoolTypeOK, OthersStay, FramesType
  <2> QED
    BY <2>7, <2>8, <2>9, <2>10, <2>11, <2>12, <2>13 DEF IInv
<1>4. CASE ~IsDone
  <2> DEFINE x == At("check", NoTicket)
  <2>1. /\ GoesTo(w, x) /\ UNCHANGED <<poolVars, processing_thread_id>>
        /\ is_scheduled' = is_scheduled
    BY <1>1, <1>2, <1>4 DEF LeaveLoop
  <2>2. x \in Frame /\ x.at = "check" /\ x.ticket = NoTicket
    BY DEF At, Frame
  <2> HIDE DEF x
  <2>3. OthersStay(w) /\ frames'[w] # <<>> /\ Top(w)' = x /\ LoopFrames(w)'
    BY <1>1, <2>1, <2>2, LoopGoesOn
  <2> QED
    BY <1>1, <2>1, <2>2, <2>3, LoopStepIInv DEF Setting, In
<1> QED
  BY <1>3, <1>4

(* A worker takes the loop's task from the pool.                         *)
LEMMA StartLoopStep == ASSUME IInv, NEW w \in Workers, StartLoop(w) PROVE IInv'
<1> DEFINE x == At("loop", NoTicket)
<1>1. /\ worker[w].at = "wait" /\ pool_tasks # <<>>
      /\ worker' = [worker EXCEPT ![w] = [at |-> "run", task |-> Head(pool_tasks)]]
      /\ pool_tasks' = Tail(pool_tasks)
      /\ pool_close' = pool_close
      /\ Enters(w, x)
      /\ UNCHANGED <<registry, processing_queue, was_scheduled, current_ticket_stack,
                     stop_processing_requested, is_scheduled, processing_thread_id,
                     completed, created>>
  BY DEF StartLoop, TakeTask, ticketVars
<1>2. x \in Frame /\ x.at = "loop" /\ x.ticket = NoTicket
  BY DEF At, Frame
<1> HIDE DEF x
<1>3. /\ InLoop = {} /\ Len(pool_tasks) = 1 /\ frames[w] = <<>> /\ is_scheduled
      /\ processing_thread_id = NoThread /\ current_ticket_stack = <<>>
      /\ \A c \in Clients : ~Adding(c)
      /\ w \in Threads /\ w \notin Clients
  BY <1>1, ThreadsAssumption DEF IInv, OneLoop, Scheduled, Threads
<1>4. /\ OthersStay(w) /\ frames'[w] # <<>> /\ Top(w)' = x
      /\ Len(frames'[w]) = 1 /\ frames'[w][1] = x
  <2>1. FramesType /\ Len(frames[w]) = 0
    BY <1>3 DEF IInv, TypeOK, FramesType
  <2>2. /\ OthersStay(w) /\ frames'[w] # <<>> /\ Top(w)' = x
        /\ Len(frames'[w]) = Len(frames[w]) + 1 /\ frames'[w][Len(frames[w]) + 1] = x
    BY <1>1, <1>2, <1>3, <2>1, EntersFacts
  <2> QED
    BY <2>1, <2>2
<1>5. pool_tasks' = <<>> /\ Head(pool_tasks) \in PoolTasks
  BY <1>1, <1>3 DEF IInv, TypeOK, ThreadPoolTypeOK
<1>6. /\ worker' \in [Workers -> WorkerState] /\ worker'[w].at = "run"
      /\ \A v \in Workers : v # w => worker'[v] = worker[v]
  BY <1>1, <1>5 DEF WorkerState, IInv, TypeOK, ThreadPoolTypeOK
<1>7. \A c \in Clients : frames'[c] = frames[c] /\ Top(c)' = Top(c)
  BY <1>3, <1>4 DEF OthersStay, Threads
<1>8. \A v \in Workers : v # w => frames'[v] = frames[v]
  BY <1>4 DEF OthersStay, Threads
<1>9. InLoop' = {w}
  BY <1>3, <1>4, <1>8 DEF InLoop
<1>10. LoopFrames(w)'
  <2>1. Depth' = 0
    BY <1>1, <1>3 DEF Depth
  <2>2. LoopTop(w)'
    BY <1>2, <1>4, <2>1 DEF LoopTop
  <2>3. LoopBelow(w)'
    BY <1>2, <1>4, <2>1 DEF LoopBelow, Below
  <2> QED
    BY <2>2, <2>3 DEF LoopFrames
<1>11. ClientFrames'
  BY <1>7 DEF IInv, ClientFrames
<1>12. \A c \in Clients : ~Adding(c)'
  BY <1>3, <1>7 DEF Adding, In
<1>13. OneLoop'
  <2>1. \A v \in Workers : frames'[v] = <<>> <=> worker'[v].at # "run"
    BY <1>4, <1>6, <1>8 DEF IInv, OneLoop
  <2> QED
    BY <1>1, <1>2, <1>3, <1>4, <1>5, <1>9, <1>12, <2>1 DEF OneLoop
<1>14. Scheduled'
  <2>1. \A c \in Clients : In(c, "idle")' <=> In(c, "idle")
    BY <1>7 DEF In
  <2> QED
    BY <1>1, <1>3, <1>5, <1>9, <1>12, <2>1 DEF IInv, Scheduled
<1>15. Promises'
  BY <1>1, <1>2, <1>3, <1>4, PromisesKept DEF Setting, In
<1>16. Places'
  BY <1>1, PlacesStay DEF dataVars
<1>17. TypeOK'
  <2>1. ThreadPoolTypeOK'
    BY <1>1, <1>5, <1>6 DEF IInv, TypeOK, ThreadPoolTypeOK
  <2> QED
    BY <1>1, <1>4, <2>1 DEF IInv, TypeOK, OthersStay, FramesType
<1> QED
  BY <1>9, <1>10, <1>11, <1>13, <1>14, <1>15, <1>16, <1>17 DEF IInv

(* What a step leaves of the invariant that does not touch the frames.     *)
LEMMA SameFrames ==
    ASSUME IInv, UNCHANGED <<frames, processing_thread_id, current_ticket_stack>>
    PROVE  /\ InLoop' = InLoop
           /\ \A th \in Threads : Top(th)' = Top(th)
           /\ ClientFrames'
           /\ \A w \in InLoop' : LoopFrames(w)'
<1>1. InLoop' = InLoop /\ Depth' = Depth
  BY DEF InLoop, Depth
<1>2. \A th \in Threads : Top(th)' = Top(th)
  BY DEF Top
<1>3. ClientFrames'
  BY <1>2 DEF IInv, ClientFrames, Threads
<1>4. ASSUME NEW w \in InLoop PROVE LoopFrames(w)'
  <2>1. LoopFrames(w) /\ Top(w)' = Top(w)
    BY <1>2 DEF IInv, InLoop, Threads
  <2>2. LoopTop(w)'
    BY <1>1, <2>1 DEF LoopFrames, LoopTop
  <2>3. LoopBelow(w)'
    BY <1>1, <2>1 DEF LoopFrames, LoopBelow
  <2> QED
    BY <2>2, <2>3 DEF LoopFrames
<1> QED
  BY <1>1, <1>2, <1>3, <1>4

(* A worker without the loop goes to sleep, wakes up or leaves.          *)
LEMMA IdleWorkerStep == ASSUME IInv, NEW w \in Workers, IdleWorker(w) PROVE IInv'
<1>1. /\ worker[w].at \in {"check", "wait"}
      /\ \E at \in {"wait", "left", "check"} : MoveWorker(w, at)
      /\ UNCHANGED <<pool_tasks, pool_close>>
      /\ UNCHANGED <<registry, processing_queue, was_scheduled, current_ticket_stack,
                     stop_processing_requested, is_scheduled, processing_thread_id,
                     completed, created, frames>>
  BY DEF IdleWorker, EnterOrLeaveEventLoop, WakeToLeave, queueVars, ticketVars
<1>2. /\ worker' \in [Workers -> WorkerState] /\ worker'[w].at # "run"
      /\ \A v \in Workers : v # w => worker'[v] = worker[v]
  BY <1>1 DEF MoveWorker, WorkerState, IInv, TypeOK, ThreadPoolTypeOK
<1>3. /\ InLoop' = InLoop /\ ClientFrames' /\ \A v \in InLoop' : LoopFrames(v)'
      /\ \A th \in Threads : Top(th)' = Top(th)
  BY <1>1, SameFrames
<1>4. \A v \in Workers : frames'[v] = <<>> <=> worker'[v].at # "run"
  BY <1>1, <1>2 DEF IInv, OneLoop
<1>5. \A c \in Clients : Adding(c)' = Adding(c) /\ In(c, "idle")' = In(c, "idle")
  BY <1>1, <1>3 DEF Adding, In, Threads
<1>6. OneLoop'
  BY <1>1, <1>3, <1>4, <1>5 DEF IInv, OneLoop, InLoop, Threads
<1>7. Scheduled'
  BY <1>1, <1>3, <1>5 DEF IInv, Scheduled
<1>8. Promises'
  BY <1>1, <1>3 DEF IInv, Promises, Setting, In
<1>9. Places'
  BY <1>1, PlacesStay DEF dataVars
<1>10. TypeOK'
  BY <1>1, <1>2 DEF IInv, TypeOK, ThreadPoolTypeOK
<1> QED
  BY <1>3, <1>6, <1>7, <1>8, <1>9, <1>10 DEF IInv

-----------------------------------------------------------------------------
(* Steps of a client, and calls of the queue *)

(* A client is in one call of the queue, or in none.                     *)
LEMMA ClientFacts ==
    ASSUME IInv, NEW c \in Clients
    PROVE  /\ c \in Threads /\ c \notin Workers /\ FramesType /\ c # processing_thread_id
           /\ frames[c] # <<>> => /\ Len(frames[c]) = 1 /\ Top(c) \in Frame
                                  /\ Top(c).at \in {"add_task", "resolve", "wait", "future",
                                                    "idle", "join"}
           /\ Len(frames[c]) = 0 <=> frames[c] = <<>>
<1>1. c \in Threads /\ c \notin Workers /\ c # NoThread
  BY ThreadsAssumption DEF Threads
<1>2. c # processing_thread_id
  BY <1>1 DEF IInv, OneLoop, InLoop
<1>3. frames[c] \in Seq(Frame)
  BY <1>1 DEF IInv, TypeOK
<1>4. Len(frames[c]) = 0 <=> frames[c] = <<>>
  BY <1>3
<1> QED
  BY <1>1, <1>2, <1>4, TypeFacts DEF IInv, ClientFrames

CallsOfClients == {"resolve", "wait", "future", "idle", "join"}

(* What a step of a client leaves alone: the loop and its frames.        *)
LEMMA ClientKeepsLoop ==
    ASSUME IInv, NEW c \in Clients, OthersStay(c),
           frames'[c] # <<>> => Len(frames'[c]) = 1 /\ Top(c)'.at \in CallsOfClients,
           ~Adding(c),
           UNCHANGED <<pool_tasks, worker, processing_thread_id, current_ticket_stack,
                       is_scheduled>>,
           pool_close => pool_close',
           processing_queue' # <<>> => processing_queue # <<>>,
           \/ /\ stop_processing_requested' = stop_processing_requested
              /\ In(c, "idle") => In(c, "idle")' \/ ~is_scheduled
           \/ stop_processing_requested' /\ In(c, "idle")'
    PROVE  /\ InLoop' = InLoop
           /\ \A w \in InLoop' : LoopFrames(w)'
           /\ ClientFrames' /\ OneLoop' /\ Scheduled'
<1>1. /\ InLoop' = InLoop
      /\ \A w \in InLoop' : LoopFrames(w)'
      /\ \A d \in Clients : d # c => frames'[d] = frames[d] /\ Top(d)' = Top(d)
      /\ \A w \in Workers : frames'[w] = <<>> <=> worker'[w].at # "run"
      /\ \A v, w \in InLoop' : v = w
      /\ \A w \in InLoop' :
            processing_thread_id' = IF Top(w)'.at = "loop" THEN NoThread ELSE w
      /\ InLoop' = {} => processing_thread_id' = NoThread /\ current_ticket_stack' = <<>>
  BY ClientStep
<1>2. ClientFrames'
  BY <1>1 DEF IInv, ClientFrames, CallsOfClients
<1>3. ~Adding(c)'
  BY DEF Adding, In, CallsOfClients
<1>4. \A d \in Clients : Adding(d)' <=> Adding(d)
  BY <1>1, <1>3 DEF Adding, In
<1>5. \A d \in Clients : d # c => (In(d, "idle")' <=> In(d, "idle"))
  BY <1>1 DEF In
<1>6. OneLoop'
  BY <1>1, <1>4 DEF IInv, OneLoop
<1>7. Scheduled'
  BY <1>1, <1>4, <1>5 DEF IInv, Scheduled
<1> QED
  BY <1>1, <1>2, <1>6, <1>7

(* A step of a client that changes its frames only. *)
LEMMA ClientStepIInv ==
    ASSUME IInv, NEW c \in Clients, OthersStay(c),
           frames'[c] # <<>> => Len(frames'[c]) = 1 /\ Top(c)'.at \in CallsOfClients,
           ~Adding(c), ~Setting(c)',
           In(c, "idle") => In(c, "idle")' \/ ~is_scheduled,
           UNCHANGED <<poolVars, registry, processing_queue, was_scheduled,
                       current_ticket_stack, stop_processing_requested, is_scheduled,
                       processing_thread_id, created>>,
           \/ completed' = completed
           \/ Setting(c) /\ completed' = completed \cup {Top(c).ticket}
    PROVE  IInv'
<1>1. c \in Threads
  BY ClientFacts
<1>2. UNCHANGED <<pool_tasks, pool_close, worker>>
  BY DEF poolVars
<1>3. /\ \A w \in InLoop' : LoopFrames(w)'
      /\ ClientFrames' /\ OneLoop' /\ Scheduled'
  BY <1>2, ClientKeepsLoop
<1>4. Promises'
  BY <1>1, PromisesKept
<1>5. Places'
  BY PlacesStay DEF dataVars
<1>6. TypeOK'
  <2>1. completed' \subseteq created \ registry
    BY <1>1 DEF IInv, TypeOK, Promises
  <2> QED
    BY <1>2, <2>1 DEF IInv, TypeOK, ThreadPoolTypeOK, OthersStay, FramesType
<1> QED
  BY <1>3, <1>4, <1>5, <1>6 DEF IInv

(* A client's call ends, ... *)
LEMMA ClientReturns ==
    ASSUME IInv, NEW c \in Clients, frames[c] # <<>>, Returns(c)
    PROVE  OthersStay(c) /\ frames'[c] = <<>>
  BY ClientFacts, ReturnsFacts

(* ... goes on, ... *)
LEMMA ClientGoesOn ==
    ASSUME IInv, NEW c \in Clients, frames[c] # <<>>, NEW x \in Frame, GoesTo(c, x)
    PROVE  OthersStay(c) /\ frames'[c] # <<>> /\ Len(frames'[c]) = 1 /\ Top(c)' = x
  BY ClientFacts, GoesToFacts

(* ... or begins. *)
LEMMA ClientEnters ==
    ASSUME IInv, NEW c \in Clients, frames[c] = <<>>, NEW x \in Frame, Enters(c, x)
    PROVE  OthersStay(c) /\ frames'[c] # <<>> /\ Len(frames'[c]) = 1 /\ Top(c)' = x
<1>1. c \in Threads /\ FramesType /\ Len(frames[c]) = 0
  BY ClientFacts
<1>2. /\ OthersStay(c) /\ frames'[c] # <<>> /\ Len(frames'[c]) = Len(frames[c]) + 1
      /\ Top(c)' = x
  BY <1>1, EntersFacts
<1> QED
  BY <1>1, <1>2

(* wait_ticket blocks, runs a nested loop or returns.                    *)
LEMMA WaitTicketStep == ASSUME IInv, NEW th \in Threads, WaitTicket(th) PROVE IInv'
<1> DEFINE t == Top(th).ticket
<1>1. /\ frames[th] # <<>> /\ Top(th).at = "wait" /\ Top(th) \in Frame
      /\ UNCHANGED <<poolVars, registry, processing_queue, was_scheduled, current_ticket_stack,
                     stop_processing_requested, is_scheduled, processing_thread_id, created,
                     completed>>
  BY TypeFacts DEF WaitTicket, In, ticketVars, IInv
<1>2. t \in Tickets /\ t # NoTicket
  BY <1>1, FrameFacts
<1>3. CASE th \in Clients
  <2>1. ~Adding(th) /\ ~In(th, "idle")
    BY <1>1 DEF Adding, In
  <2>2. CASE Returns(th)
    BY <1>1, <1>3, <2>1, <2>2, ClientReturns, ClientStepIInv DEF Setting, In
  <2>3. CASE GoesTo(th, At("future", t))
    <3>1. At("future", t) \in Frame /\ At("future", t).at = "future"
      BY <1>2 DEF At, Frame
    <3>2. /\ OthersStay(th) /\ frames'[th] # <<>> /\ Len(frames'[th]) = 1
          /\ Top(th)' = At("future", t)
      BY <1>1, <1>3, <2>3, <3>1, ClientGoesOn
    <3> QED
      BY <1>1, <1>3, <2>1, <3>1, <3>2, ClientStepIInv DEF Setting, In, CallsOfClients
  <2> QED
    BY <1>3, <2>2, <2>3, ClientFacts DEF WaitTicket
<1>4. CASE th \in Workers
  <2>1. th \in InLoop /\ processing_thread_id = th
    BY <1>1, <1>4 DEF IInv, OneLoop, InLoop
  <2>2. CASE Returns(th)
    <3>1. /\ OthersStay(th) /\ frames'[th] # <<>> /\ Top(th)'.at = "run"
          /\ LoopFrames(th)'
      BY <1>1, <1>2, <2>1, <2>2, LoopReturns
    <3> QED
      BY <1>1, <2>1, <3>1, LoopStepIInv DEF Setting, In
  <2>3. CASE GoesTo(th, At("check", t))
    <3>1. At("check", t) \in Frame /\ At("check", t).at = "check" /\ At("check", t).ticket = t
      BY <1>2 DEF At, Frame
    <3>2. /\ OthersStay(th) /\ frames'[th] # <<>> /\ Top(th)' = At("check", t)
          /\ LoopFrames(th)'
      BY <1>1, <2>1, <2>3, <3>1, LoopGoesOn
    <3> QED
      BY <1>1, <2>1, <3>1, <3>2, LoopStepIInv DEF Setting, In
  <2> QED
    BY <2>1, <2>2, <2>3 DEF WaitTicket
<1> QED
  BY <1>3, <1>4 DEF Threads

(* discard_ticket sets the promise.                                      *)
LEMMA ResolveDiscardedStep ==
    ASSUME IInv, NEW th \in Threads, ResolveDiscarded(th) PROVE IInv'
<1>1. /\ frames[th] # <<>> /\ Top(th).at = "resolve" /\ Top(th) \in Frame
      /\ Setting(th) /\ Returns(th)
      /\ UNCHANGED <<poolVars, registry, processing_queue, was_scheduled, current_ticket_stack,
                     stop_processing_requested, is_scheduled, processing_thread_id, created>>
      /\ completed' = completed \cup {Top(th).ticket}
  BY TypeFacts DEF ResolveDiscarded, In, Setting, IInv
<1>2. Top(th).ticket # NoTicket
  BY <1>1, FrameFacts
<1>3. CASE th \in Clients
  <2>1. ~Adding(th) /\ ~In(th, "idle")
    BY <1>1 DEF Adding, In
  <2> QED
    BY <1>1, <1>3, <2>1, ClientReturns, ClientStepIInv DEF Setting, In
<1>4. CASE th \in Workers
  <2>1. th \in InLoop
    BY <1>1, <1>4 DEF InLoop
  <2>2. /\ OthersStay(th) /\ frames'[th] # <<>> /\ Top(th)'.at = "run"
        /\ LoopFrames(th)'
    BY <1>1, <1>2, <2>1, LoopReturns
  <2> QED
    BY <1>1, <2>1, <2>2, LoopStepIInv DEF Setting, In
<1> QED
  BY <1>3, <1>4 DEF Threads

(* The waits of a client end. *)
LEMMA ClientReturnsStep ==
    ASSUME IInv, NEW c \in Clients, FutureReady(c) \/ StopReturns(c) \/ JoinReturns(c)
    PROVE  IInv'
<1>1. /\ frames[c] # <<>> /\ Top(c).at \in {"future", "idle", "join"} /\ Returns(c)
      /\ Top(c).at = "idle" => ~is_scheduled
      /\ UNCHANGED <<poolVars, registry, processing_queue, was_scheduled, current_ticket_stack,
                     stop_processing_requested, is_scheduled, processing_thread_id, created,
                     completed>>
  BY DEF FutureReady, StopReturns, JoinReturns, In, ticketVars
<1>2. ~Adding(c) /\ (In(c, "idle") => ~is_scheduled)
  BY <1>1 DEF Adding, In
<1> QED
  BY <1>1, <1>2, ClientReturns, ClientStepIInv DEF Setting, In

(* Only a client waits on a future. *)
LEMMA FutureReadyStep == ASSUME IInv, NEW th \in Threads, FutureReady(th) PROVE IInv'
<1>1. th \in Clients
  BY InLoopFacts DEF FutureReady, In, Threads
<1> QED
  BY <1>1, ClientReturnsStep

(* Only a client adds the loop to the pool: a ticket runs in a loop. *)
LEMMA ScheduleProcessingLoopStep ==
    ASSUME IInv, NEW th \in Threads, ScheduleProcessingLoop(th) PROVE IInv'
<1>1. /\ th \in Clients /\ frames[th] # <<>> /\ Adding(th) /\ Returns(th)
      /\ pool_tasks' = (IF pool_close THEN pool_tasks ELSE Append(pool_tasks, LoopTask))
      /\ pool_close' = pool_close /\ worker' = worker
      /\ UNCHANGED <<registry, processing_queue, was_scheduled, current_ticket_stack,
                     stop_processing_requested, is_scheduled, processing_thread_id,
                     completed, created>>
  BY InLoopFacts DEF ScheduleProcessingLoop, In, Threads, Adding, AddTask, ticketVars
<1>2. /\ InLoop = {} /\ pool_tasks = <<>> /\ is_scheduled
      /\ \A c \in Clients : Adding(c) => c = th
  BY <1>1 DEF IInv, OneLoop, Scheduled
<1>3. OthersStay(th) /\ frames'[th] = <<>> /\ th \in Threads
  BY <1>1, ClientReturns, ClientFacts
<1>4. /\ InLoop' = InLoop
      /\ \A w \in InLoop' : LoopFrames(w)'
      /\ \A d \in Clients : d # th => frames'[d] = frames[d] /\ Top(d)' = Top(d)
      /\ \A w \in Workers : frames'[w] = <<>> <=> worker'[w].at # "run"
      /\ InLoop' = {} => processing_thread_id' = NoThread /\ current_ticket_stack' = <<>>
  BY <1>1, <1>3, ClientStep
<1>5. ClientFrames'
  BY <1>3, <1>4 DEF IInv, ClientFrames
<1>6. \A c \in Clients : ~Adding(c)'
  BY <1>2, <1>3, <1>4 DEF Adding, In
<1>7. /\ pool_tasks' \in Seq(PoolTasks)
      /\ pool_close => pool_tasks' = <<>>
      /\ ~pool_close => pool_tasks' # <<>> /\ Len(pool_tasks') = 1
  BY <1>1, <1>2, LoopTaskAssumption
<1>8. OneLoop'
  BY <1>2, <1>4, <1>6, <1>7 DEF OneLoop
<1>9. Scheduled'
  <2>1. \A c \in Clients : In(c, "idle")' <=> In(c, "idle")
    BY <1>1, <1>3, <1>4 DEF In, Adding
  <2> QED
    BY <1>1, <1>2, <1>4, <1>6, <1>7, <2>1 DEF IInv, Scheduled
<1>10. Promises'
  BY <1>1, <1>3, PromisesKept DEF Setting, In
<1>11. Places'
  BY <1>1, PlacesStay DEF dataVars
<1>12. TypeOK'
  BY <1>1, <1>3, <1>7 DEF IInv, TypeOK, ThreadPoolTypeOK, OthersStay, FramesType
<1> QED
  BY <1>4, <1>5, <1>8, <1>9, <1>10, <1>11, <1>12 DEF IInv

(* create_ticket registers a ticket.                                     *)
LEMMA CreateTicketStep ==
    ASSUME IInv, NEW th \in Threads, NEW t \in Tickets, CreateTicket(th, t) PROVE IInv'
<1>1. /\ t \notin created /\ created' = created \cup {t}
      /\ registry' = (IF stop_processing_requested THEN registry ELSE registry \cup {t})
      /\ UNCHANGED <<pool_tasks, pool_close, worker, processing_queue, was_scheduled,
                     current_ticket_stack, stop_processing_requested, is_scheduled,
                     processing_thread_id, completed, frames>>
  BY DEF CreateTicket, poolVars
<1>2. /\ InLoop' = InLoop /\ ClientFrames' /\ \A v \in InLoop' : LoopFrames(v)'
      /\ \A u \in Threads : Top(u)' = Top(u)
  BY <1>1, SameFrames
<1>3. \A c \in Clients : Adding(c)' = Adding(c) /\ In(c, "idle")' = In(c, "idle")
  BY <1>1, <1>2 DEF Adding, In, Threads
<1>4. OneLoop'
  BY <1>1, <1>2, <1>3 DEF IInv, OneLoop, InLoop, Threads
<1>5. Scheduled'
  BY <1>1, <1>2, <1>3 DEF IInv, Scheduled
<1>6. Promises'
  BY <1>1, <1>2 DEF IInv, Promises, Setting, In
<1>7. Places'
  BY <1>1 DEF IInv, Places
<1>8. TypeOK'
  BY <1>1 DEF IInv, TypeOK, ThreadPoolTypeOK
<1> QED
  BY <1>2, <1>4, <1>5, <1>6, <1>7, <1>8 DEF IInv

(* A scheduled ticket joins the queue: it was in neither the queue nor the *)
(* stack.                                                                  *)
LEMMA QueuedPlaces ==
    ASSUME IInv, NEW t \in registry \ was_scheduled,
           was_scheduled' = was_scheduled \cup {t},
           processing_queue' = Append(processing_queue, t),
           UNCHANGED <<registry, current_ticket_stack, created>>
    PROVE  Places' /\ processing_queue' \in Seq(Tickets) /\ t \in Tickets
<1> DEFINE q == processing_queue
           s == current_ticket_stack
<1>1. t \in Tickets /\ q \in Seq(Tickets)
  BY DEF IInv, TypeOK
<1>2. /\ q' \in Seq(Tickets) /\ Len(q') = Len(q) + 1 /\ q'[Len(q) + 1] = t
      /\ \A i \in 1 .. Len(q) : q'[i] = q[i]
  BY <1>1, AppendFacts
<1>3. DOMAIN q = 1 .. Len(q) /\ Len(q) \in Nat /\ DOMAIN q' = 1 .. Len(q) + 1
  BY <1>1, <1>2
<1>4. /\ \A i \in 1 .. Len(q) : q[i] \in registry \cap was_scheduled
      /\ \A i \in DOMAIN s : s[i] \in registry \cap was_scheduled
      /\ \A i, j \in 1 .. Len(q) : q[i] = q[j] => i = j
      /\ \A i, j \in DOMAIN s : s[i] = s[j] => i = j
      /\ \A i \in 1 .. Len(q), j \in DOMAIN s : q[i] # s[j]
      /\ registry \cup was_scheduled \subseteq created
  BY <1>3 DEF IInv, Places
<1>5. s' = s /\ registry' = registry /\ created' = created
  OBVIOUS
<1>6. \A i \in DOMAIN q' : i = Len(q) + 1 \/ i \in 1 .. Len(q)
  BY <1>3
<1> HIDE DEF q, s
<1>7. \A i \in DOMAIN q' : q'[i] \in registry \cap was_scheduled'
  BY <1>2, <1>4, <1>6
<1>8. \A i, j \in DOMAIN q' : q'[i] = q'[j] => i = j
  BY <1>2, <1>4, <1>6
<1>9. \A i \in DOMAIN q', j \in DOMAIN s : q'[i] # s[j]
  BY <1>2, <1>4, <1>6
<1> QED
  BY <1>1, <1>2, <1>4, <1>5, <1>7, <1>8, <1>9 DEF Places, q, s

(* schedule_ticket queues a ticket, and asks for a loop when there is    *)
(* none.                                                                 *)
LEMMA ScheduleTicketStep ==
    ASSUME IInv, NEW th \in Threads, NEW t \in Tickets, ScheduleTicket(th, t) PROVE IInv'
<1>1. /\ MayCall(th) /\ ~stop_processing_requested
      /\ t \in registry \ was_scheduled /\ is_scheduled' = TRUE
      /\ was_scheduled' = was_scheduled \cup {t}
      /\ processing_queue' = Append(processing_queue, t)
      /\ UNCHANGED <<pool_tasks, pool_close, worker, registry, current_ticket_stack,
                     stop_processing_requested, processing_thread_id, completed, created>>
  BY DEF ScheduleTicket, poolVars
<1>2. Places' /\ processing_queue' \in Seq(Tickets)
  BY <1>1, QueuedPlaces
<1>3. CASE is_scheduled
  <2>1. frames' = frames /\ is_scheduled' = is_scheduled
    BY <1>1, <1>3 DEF ScheduleTicket
  <2>2. /\ InLoop' = InLoop /\ ClientFrames' /\ \A v \in InLoop' : LoopFrames(v)'
        /\ \A u \in Threads : Top(u)' = Top(u)
    BY <1>1, <2>1, SameFrames
  <2>3. \A c \in Clients : Adding(c)' = Adding(c)
    BY <2>1, <2>2 DEF Adding, In, Threads
  <2>4. OneLoop'
    BY <1>1, <2>1, <2>2, <2>3 DEF IInv, OneLoop, InLoop, Threads
  <2>5. Scheduled'
    BY <1>1, <2>1, <2>2, <2>3 DEF IInv, Scheduled
  <2>6. Promises'
    BY <1>1, <2>1, <2>2 DEF IInv, Promises, Setting, In
  <2>7. TypeOK'
    BY <1>1, <1>2, <2>1 DEF IInv, TypeOK, ThreadPoolTypeOK
  <2> QED
    BY <1>2, <2>2, <2>4, <2>5, <2>6, <2>7 DEF IInv
<1>4. CASE ~is_scheduled
  <2> DEFINE x == At("add_task", NoTicket)
  <2>1. th \in Clients /\ frames[th] = <<>> /\ Enters(th, x)
    BY <1>1, <1>4, CallerFacts DEF ScheduleTicket
  <2>2. x \in Frame /\ x.at = "add_task"
    BY DEF At, Frame
  <2> HIDE DEF x
  <2>3. /\ InLoop = {} /\ pool_tasks = <<>>
        /\ \A c \in Clients : ~Adding(c)
    BY <1>4 DEF IInv, Scheduled
  <2>4. OthersStay(th) /\ frames'[th] # <<>> /\ Len(frames'[th]) = 1 /\ Top(th)' = x
    BY <2>1, <2>2, ClientEnters
  <2>5. /\ InLoop' = InLoop
        /\ \A w \in InLoop' : LoopFrames(w)'
        /\ \A d \in Clients : d # th => frames'[d] = frames[d] /\ Top(d)' = Top(d)
        /\ \A w \in Workers : frames'[w] = <<>> <=> worker'[w].at # "run"
        /\ InLoop' = {} => processing_thread_id' = NoThread /\ current_ticket_stack' = <<>>
    BY <1>1, <2>1, <2>4, ClientStep
  <2>6. ClientFrames'
    BY <2>2, <2>4, <2>5 DEF IInv, ClientFrames
  <2>7. \A c \in Clients : Adding(c)' <=> c = th
    BY <2>2, <2>3, <2>4, <2>5 DEF Adding, In
  <2>8. OneLoop'
    BY <1>1, <2>3, <2>5, <2>7 DEF OneLoop
  <2>9. Scheduled'
    BY <1>1, <2>1, <2>3, <2>5, <2>7 DEF Scheduled
  <2>10. Promises'
    BY <1>1, <2>2, <2>4, PromisesKept DEF Setting, In
  <2>11. TypeOK'
    BY <1>1, <1>2, <2>4 DEF IInv, TypeOK, ThreadPoolTypeOK, OthersStay, FramesType
  <2> QED
    BY <1>2, <2>5, <2>6, <2>8, <2>9, <2>10, <2>11 DEF IInv
<1> QED
  BY <1>3, <1>4

(* A discarded ticket leaves the registry and the queue. *)
LEMMA DiscardedPlaces ==
    ASSUME IInv, NEW t \in registry, ~InCurrentTicketStack(t),
           registry' = registry \ {t},
           processing_queue' = RemoveFirst(processing_queue, t),
           UNCHANGED <<was_scheduled, current_ticket_stack, created>>
    PROVE  /\ Places' /\ processing_queue' \in Seq(Tickets)
           /\ processing_queue' # <<>> => processing_queue # <<>>
<1> DEFINE q == processing_queue
           s == current_ticket_stack
<1>1. q \in Seq(Tickets) /\ DOMAIN q = 1 .. Len(q)
  BY DEF IInv, TypeOK
<1>2. /\ \A i \in 1 .. Len(q) : q[i] \in registry \cap was_scheduled
      /\ \A i \in DOMAIN s : s[i] \in registry \cap was_scheduled
      /\ \A i, j \in 1 .. Len(q) : q[i] = q[j] => i = j
      /\ \A i, j \in DOMAIN s : s[i] = s[j] => i = j
      /\ \A i \in 1 .. Len(q), j \in DOMAIN s : q[i] # s[j]
      /\ registry \cup was_scheduled \subseteq created
  BY <1>1 DEF IInv, Places
<1>3. /\ q' \in Seq(Tickets)
      /\ \A i \in 1 .. Len(q') : q'[i] # t /\ \E j \in 1 .. Len(q) : q'[i] = q[j]
      /\ \A i, j \in 1 .. Len(q') : q'[i] = q'[j] => i = j
  <2> HIDE DEF q
  <2>1. q' = RemoveFirst(q, t)
    BY DEF q
  <2> QED
    BY <1>1, <1>2, <2>1, RemoveFirstFacts
<1>4. DOMAIN q' = 1 .. Len(q')
  BY <1>3
<1>5. \A i \in DOMAIN s : s[i] # t
  BY DEF InCurrentTicketStack, Range
<1>6. s' = s /\ was_scheduled' = was_scheduled /\ created' = created
  OBVIOUS
<1>7. q' # <<>> => q # <<>>
  <2>1. ASSUME q = <<>> PROVE 1 .. Len(q') = {}
    BY <1>3, <2>1
  <2> QED
    BY <1>3, <2>1
<1> HIDE DEF q, s
<1>8. \A i \in DOMAIN q' : q'[i] \in registry' \cap was_scheduled
  BY <1>2, <1>3, <1>4
<1>9. \A i \in DOMAIN s : s[i] \in registry' \cap was_scheduled
  BY <1>2, <1>5
<1>10. \A i \in DOMAIN q', j \in DOMAIN s : q'[i] # s[j]
  BY <1>2, <1>3, <1>4
<1> QED
  BY <1>2, <1>3, <1>4, <1>6, <1>7, <1>8, <1>9, <1>10 DEF Places, q, s

(* discard_ticket takes a ticket out, or waits for one that executes.    *)
LEMMA DiscardTicketStep ==
    ASSUME IInv, NEW th \in Threads, NEW t \in Tickets, DiscardTicket(th, t) PROVE IInv'
<1>1. /\ MayCall(th) /\ t \in registry
      /\ UNCHANGED <<poolVars, was_scheduled, current_ticket_stack, stop_processing_requested,
                     is_scheduled, processing_thread_id, completed, created>>
      /\ UNCHANGED <<pool_tasks, pool_close, worker>>
  BY DEF DiscardTicket, poolVars
<1> DEFINE x == IF InCurrentTicketStack(t) THEN At("wait", t) ELSE At("resolve", t)
<1>2. /\ x \in Frame /\ x.ticket = t
      /\ x = At("wait", t) \/ x = At("resolve", t)
      /\ x.at \in {"wait", "resolve"}
      /\ InCurrentTicketStack(t) => x.at = "wait"
  BY DEF At, Frame
<1>3. Enters(th, x)
  BY DEF DiscardTicket
<1>4. /\ Places' /\ processing_queue' \in Seq(Tickets)
      /\ processing_queue' # <<>> => processing_queue # <<>>
  <2>1. CASE InCurrentTicketStack(t)
    <3>1. UNCHANGED <<registry, processing_queue>>
      BY <2>1 DEF DiscardTicket
    <3> QED
      BY <1>1, <3>1, PlacesStay DEF dataVars, IInv, TypeOK
  <2>2. CASE ~InCurrentTicketStack(t)
    <3>1. /\ registry' = registry \ {t}
          /\ processing_queue' = RemoveFirst(processing_queue, t)
      BY <2>2 DEF DiscardTicket
    <3> QED
      BY <1>1, <2>2, <3>1, DiscardedPlaces
  <2> QED
    BY <2>1, <2>2
<1> HIDE DEF x
<1>5. ASSUME OthersStay(th), frames'[th] # <<>>, Top(th)' = x PROVE Promises'
  <2>1. CASE InCurrentTicketStack(t)
    <3>1. registry' = registry /\ ~Setting(th)'
      BY <1>2, <1>5, <2>1 DEF DiscardTicket, Setting, In
    <3> QED
      BY <1>1, <1>5, <3>1, PromisesKept
  <2>2. CASE ~InCurrentTicketStack(t)
    <3>1. registry' = registry \ {t}
      BY <2>2 DEF DiscardTicket
    <3> QED
      BY <1>1, <1>2, <1>5, <3>1, PromiseMade
  <2> QED
    BY <2>1, <2>2
<1>6. ASSUME OthersStay(th) PROVE TypeOK'
  <2>1. registry' \subseteq registry
    BY DEF DiscardTicket
  <2> QED
    BY <1>1, <1>4, <1>6, <2>1 DEF IInv, TypeOK, ThreadPoolTypeOK, OthersStay, FramesType
<1>7. CASE th \in Clients /\ frames[th] = <<>>
  <2>1. OthersStay(th) /\ frames'[th] # <<>> /\ Len(frames'[th]) = 1 /\ Top(th)' = x
    BY <1>2, <1>3, <1>7, ClientEnters
  <2>2. ~Adding(th) /\ ~In(th, "idle")
    BY <1>7 DEF Adding, In
  <2>3. /\ \A w \in InLoop' : LoopFrames(w)'
        /\ ClientFrames' /\ OneLoop' /\ Scheduled'
    BY <1>1, <1>2, <1>4, <1>7, <2>1, <2>2, ClientKeepsLoop DEF CallsOfClients
  <2> QED
    BY <1>4, <1>5, <1>6, <2>1, <2>3 DEF IInv
<1>8. CASE th \in InLoop /\ Top(th).at = "run"
  <2>1. OthersStay(th) /\ frames'[th] # <<>> /\ Top(th)' = x /\ LoopFrames(th)'
    BY <1>1, <1>2, <1>3, <1>8, LoopEnters
  <2>2. InLoop' = {th} /\ ClientFrames' /\ OneLoop' /\ Scheduled'
    BY <1>1, <1>2, <1>8, <2>1, LoopStep
  <2> QED
    BY <1>4, <1>5, <1>6, <2>1, <2>2 DEF IInv
<1> QED
  BY <1>1, <1>7, <1>8, CallerFacts

(* wait_ticket is called.                                                *)
LEMMA CallWaitTicketStep ==
    ASSUME IInv, NEW th \in Threads, NEW t \in Tickets, CallWaitTicket(th, t) PROVE IInv'
<1> DEFINE x == At("wait", t)
<1>1. /\ MayCall(th) /\ Enters(th, x)
      /\ UNCHANGED <<poolVars, registry, processing_queue, was_scheduled, current_ticket_stack,
                     stop_processing_requested, is_scheduled, processing_thread_id, created,
                     completed>>
  BY DEF CallWaitTicket, ticketVars
<1>2. x \in Frame /\ x.at = "wait"
  BY DEF At, Frame
<1>3. CASE th \in Clients /\ frames[th] = <<>>
  <2>1. ~Adding(th) /\ ~In(th, "idle")
    BY <1>3 DEF Adding, In
  <2>2. OthersStay(th) /\ frames'[th] # <<>> /\ Len(frames'[th]) = 1 /\ Top(th)' = x
    BY <1>1, <1>2, <1>3, ClientEnters
  <2> HIDE DEF x
  <2> QED
    BY <1>1, <1>2, <1>3, <2>1, <2>2, ClientStepIInv DEF Setting, In, CallsOfClients
<1>4. CASE th \in InLoop /\ Top(th).at = "run"
  <2>1. OthersStay(th) /\ frames'[th] # <<>> /\ Top(th)' = x /\ LoopFrames(th)'
    BY <1>1, <1>2, <1>4, LoopEnters
  <2> HIDE DEF x
  <2> QED
    BY <1>1, <1>2, <1>4, <2>1, LoopStepIInv DEF Setting, In
<1> QED
  BY <1>1, <1>3, <1>4, CallerFacts

(* The destructor asks the queue to stop.                                *)
LEMMA StopProcessingStep ==
    ASSUME IInv, NEW c \in Clients, StopProcessing(c) PROVE IInv'
<1> DEFINE x == At("idle", NoTicket)
<1>1. /\ frames[c] = <<>> /\ stop_processing_requested' = TRUE /\ Enters(c, x)
      /\ UNCHANGED <<pool_tasks, pool_close, worker, registry, processing_queue,
                     was_scheduled, current_ticket_stack, is_scheduled,
                     processing_thread_id, completed, created>>
  BY DEF StopProcessing, poolVars
<1>2. x \in Frame /\ x.at = "idle"
  BY DEF At, Frame
<1> HIDE DEF x
<1>3. OthersStay(c) /\ frames'[c] # <<>> /\ Len(frames'[c]) = 1 /\ Top(c)' = x
  BY <1>1, <1>2, ClientEnters
<1>4. ~Adding(c) /\ In(c, "idle")' /\ ~Setting(c)'
  BY <1>1, <1>2, <1>3 DEF Adding, In, Setting
<1>5. /\ \A w \in InLoop' : LoopFrames(w)'
      /\ ClientFrames' /\ OneLoop' /\ Scheduled'
  BY <1>1, <1>2, <1>3, <1>4, ClientKeepsLoop DEF CallsOfClients
<1>6. Promises'
  BY <1>1, <1>3, <1>4, PromisesKept, ClientFacts
<1>7. Places'
  BY <1>1, PlacesStay DEF dataVars
<1>8. TypeOK'
  BY <1>1, <1>3 DEF IInv, TypeOK, ThreadPoolTypeOK, OthersStay, FramesType
<1> QED
  BY <1>5, <1>6, <1>7, <1>8 DEF IInv

(* The pool is shut down while the queue exists.                         *)
LEMMA ShutdownThreadPoolStep ==
    ASSUME IInv, NEW c \in Clients, ShutdownThreadPool(c) PROVE IInv'
<1> DEFINE x == At("join", NoTicket)
<1>1. /\ frames[c] = <<>> /\ pool_close' = TRUE /\ Enters(c, x)
      /\ UNCHANGED <<pool_tasks, worker, registry, processing_queue, was_scheduled,
                     current_ticket_stack, stop_processing_requested, is_scheduled,
                     processing_thread_id, completed, created>>
  BY DEF ShutdownThreadPool, CloseThreadPool, ticketVars
<1>2. x \in Frame /\ x.at = "join"
  BY DEF At, Frame
<1> HIDE DEF x
<1>3. OthersStay(c) /\ frames'[c] # <<>> /\ Len(frames'[c]) = 1 /\ Top(c)' = x
  BY <1>1, <1>2, ClientEnters
<1>4. ~Adding(c) /\ ~In(c, "idle") /\ ~Setting(c)'
  BY <1>1, <1>2, <1>3 DEF Adding, In, Setting
<1>5. /\ \A w \in InLoop' : LoopFrames(w)'
      /\ ClientFrames' /\ OneLoop' /\ Scheduled'
  BY <1>1, <1>2, <1>3, <1>4, ClientKeepsLoop DEF CallsOfClients
<1>6. Promises'
  BY <1>1, <1>3, <1>4, PromisesKept, ClientFacts
<1>7. Places'
  BY <1>1, PlacesStay DEF dataVars
<1>8. TypeOK'
  BY <1>1, <1>3 DEF IInv, TypeOK, ThreadPoolTypeOK, OthersStay, FramesType
<1> QED
  BY <1>5, <1>6, <1>7, <1>8 DEF IInv

(* Nothing changes.                                                      *)
LEMMA StutterStep == ASSUME IInv, UNCHANGED vars PROVE IInv'
<1>1. /\ UNCHANGED <<pool_tasks, pool_close, worker, registry, processing_queue,
                     was_scheduled, current_ticket_stack, stop_processing_requested,
                     is_scheduled, processing_thread_id, completed, created, frames>>
  BY DEF vars, poolVars, queueVars, ticketVars
<1>2. /\ InLoop' = InLoop /\ ClientFrames' /\ \A v \in InLoop' : LoopFrames(v)'
      /\ \A u \in Threads : Top(u)' = Top(u)
  BY <1>1, SameFrames
<1>3. \A c \in Clients : Adding(c)' = Adding(c) /\ In(c, "idle")' = In(c, "idle")
  BY <1>1, <1>2 DEF Adding, In, Threads
<1>4. OneLoop'
  BY <1>1, <1>2, <1>3 DEF IInv, OneLoop, InLoop, Threads
<1>5. Scheduled'
  BY <1>1, <1>2, <1>3 DEF IInv, Scheduled
<1>6. Promises'
  BY <1>1, <1>2 DEF IInv, Promises, Setting, In
<1>7. Places'
  BY <1>1, PlacesStay DEF dataVars
<1>8. TypeOK'
  BY <1>1 DEF IInv, TypeOK, ThreadPoolTypeOK
<1> QED
  BY <1>2, <1>4, <1>5, <1>6, <1>7, <1>8 DEF IInv

(* The invariant holds of the new queue, ...                             *)
LEMMA InitIInv == ASSUME Init PROVE IInv
<1> USE DEF Init, ThreadPoolInit
<1>1. InLoop = {}
  BY DEF InLoop, Threads
<1>2. \A th \in Threads : frames[th] = <<>>
  OBVIOUS
<1>3. ClientFrames
  BY <1>2 DEF ClientFrames, Threads
<1>4. OneLoop
  BY <1>1, <1>2 DEF OneLoop, Adding, In, Threads
<1>5. Scheduled
  BY <1>1, <1>2 DEF Scheduled, Adding, In, Threads
<1>6. Places
  BY DEF Places
<1>7. Promises
  BY <1>2 DEF Promises, Setting, In
<1>8. TypeOK
  <2>1. [at |-> "check", task |-> NoTask] \in WorkerState
    BY DEF WorkerState
  <2>2. worker \in [Workers -> WorkerState] /\ frames \in [Threads -> Seq(Frame)]
    BY <2>1, EmptySeq
  <2>3. pool_tasks \in Seq(PoolTasks) /\ processing_queue \in Seq(Tickets)
        /\ current_ticket_stack \in Seq(Tickets)
    OBVIOUS
  <2> QED
    BY <2>2, <2>3, Zenon DEF TypeOK, ThreadPoolTypeOK
<1> QED
  BY <1>1, <1>3, <1>4, <1>5, <1>6, <1>7, <1>8 DEF IInv

(* ... every step keeps it, ...                                          *)
LEMMA NextIInv == ASSUME IInv, [Next]_vars PROVE IInv'
<1>1. ASSUME NEW th \in Threads, Step(th) PROVE IInv'
  BY <1>1, ScheduleProcessingLoopStep, ResolveDiscardedStep, WaitTicketStep, FutureReadyStep,
     ClientReturnsStep, IdleWorkerStep, StartLoopStep, SetProcessingThreadStep,
     LoopConditionStep, FetchTicketStep, FetchStoppedStep, UnstackStep, CompleteStep,
     LeaveLoopStep DEF Step
<1>2. ASSUME NEW th \in Threads, Call(th) PROVE IInv'
  BY <1>2, CreateTicketStep, ScheduleTicketStep, DiscardTicketStep, CallWaitTicketStep,
     StopProcessingStep, ShutdownThreadPoolStep DEF Call
<1>3. ASSUME NEW w \in Workers, InvocableReturns(w) PROVE IInv'
  BY <1>3, InvocableReturnsStep
<1> QED
  BY <1>1, <1>2, <1>3, StutterStep DEF Next

(* ... and so it always holds: one loop, its frames, the tickets and the *)
(* promises agree in every state the queue reaches.                      *)
THEOREM Invariance == Spec => []IInv
  BY InitIInv, NextIInv, PTL DEF Spec

-----------------------------------------------------------------------------
(* What the invariant says *)

(* A number is even or odd: frames are a loop's or a ticket's by turns.  *)
LEMMA Halves == \A j \in Nat : \E k \in Nat : j = 2 * k \/ j = 2 * k + 1
<1>1. ASSUME NEW j \in Nat PROVE \E k \in Nat : j = 2 * k \/ j = 2 * k + 1
  <2>1. j \div 2 \in Nat /\ (j = 2 * (j \div 2) \/ j = 2 * (j \div 2) + 1)
    OBVIOUS
  <2> QED
    BY <2>1
<1> QED
  BY <1>1

(* The frames of the loop below its top frame. *)
LEMMA FrameKinds ==
    ASSUME IInv, NEW w \in InLoop, NEW j \in 1 .. Len(frames[w]) - 1
    PROVE  \/ frames[w][j].at = "check" /\ \A k \in 1 .. Depth : j # 2 * k
           \/ frames[w][j].at = "run" /\ \E k \in 1 .. Depth : j = 2 * k
<1> DEFINE n == Len(frames[w])
<1>1. /\ n \in Nat /\ n > 0 /\ Depth \in Nat /\ LoopTop(w)
      /\ Below(frames[w], n, current_ticket_stack, Depth)
  BY LoopFacts
<1>2. n <= 2 * Depth + 2
  BY <1>1 DEF LoopTop
<1> HIDE DEF n
<1>3. j \in Nat /\ j >= 1 /\ j < n
  BY <1>1 DEF n
<1>4. PICK k \in Nat : j = 2 * k \/ j = 2 * k + 1
  BY <1>3, Halves
<1>5. CASE j = 2 * k
  <2>1. k \in 1 .. Depth
    BY <1>1, <1>2, <1>3, <1>5
  <2>2. frames[w][2 * k].at = "run"
    BY <1>1, <1>3, <1>5, <2>1 DEF Below
  <2> QED
    BY <1>5, <2>1, <2>2
<1>6. CASE j = 2 * k + 1
  <2>1. k + 1 \in 1 .. Depth + 1 /\ j = 2 * (k + 1) - 1
    BY <1>1, <1>2, <1>3, <1>6
  <2>2. frames[w][2 * (k + 1) - 1].at = "check"
    BY <1>1, <1>3, <2>1 DEF Below
  <2>3. \A i \in 1 .. Depth : j # 2 * i
    BY <1>1, <1>6
  <2> QED
    BY <2>1, <2>2, <2>3
<1> QED
  BY <1>4, <1>5, <1>6

(* The tickets that have begun are those on the stack, in their order.   *)
LEMMA OneTicket == ASSUME IInv PROVE OneTicketExecutes
<1>1. ASSUME NEW w \in InLoop
      PROVE  /\ {i \in DOMAIN frames[w] : frames[w][i].at \in {"run", "unstack"}}
                    = {2 * i : i \in DOMAIN current_ticket_stack}
             /\ \A i \in DOMAIN current_ticket_stack :
                   frames[w][2 * i].ticket = current_ticket_stack[i]
  <2> DEFINE n == Len(frames[w])
             f == frames[w]
  <2>1. /\ n \in Nat /\ n > 0 /\ Depth \in Nat /\ LoopTop(w) /\ Top(w) = f[n]
        /\ Below(f, n, current_ticket_stack, Depth)
    BY LoopFacts
  <2>2. DOMAIN f = 1 .. n /\ DOMAIN current_ticket_stack = 1 .. Depth
    BY LoopFacts DEF IInv, TypeOK, Depth
  <2>3. \A j \in 1 .. n - 1 : f[j].at \in {"run", "unstack"} <=> \E k \in 1 .. Depth : j = 2 * k
    BY FrameKinds
  <2>4. f[n].at \in {"run", "unstack"} <=> \E k \in 1 .. Depth : n = 2 * k
    <3>1. CASE f[n].at \in {"run", "unstack"}
      <4>1. n = 2 * Depth /\ Depth \in 1 .. Depth
        BY <2>1, <3>1 DEF LoopTop
      <4> QED
        BY <3>1, <4>1
    <3>2. CASE f[n].at \notin {"run", "unstack"}
      <4>1. n = 2 * Depth + 1 \/ n = 2 * Depth + 2
        BY <2>1, <3>2 DEF LoopTop
      <4>2. \A k \in 1 .. Depth : n # 2 * k
        BY <2>1, <4>1
      <4> QED
        BY <3>2, <4>2
    <3> QED
      BY <3>1, <3>2
  <2>5. \A k \in 1 .. Depth : 2 * k \in 1 .. n
    BY <2>1 DEF LoopTop
  <2> HIDE DEF n, f
  <2>6. \A j \in 1 .. n : f[j].at \in {"run", "unstack"} <=> \E k \in 1 .. Depth : j = 2 * k
    <3>1. \A j \in 1 .. n : j = n \/ j \in 1 .. n - 1
      BY <2>1
    <3> QED
      BY <2>3, <2>4, <3>1
  <2>7. {i \in 1 .. n : f[i].at \in {"run", "unstack"}} = {2 * i : i \in 1 .. Depth}
    BY <2>5, <2>6
  <2> QED
    BY <2>1, <2>2, <2>7 DEF Below, f
<1> QED
  BY <1>1 DEF OneTicketExecutes, IInv, OneLoop

(* No promise is set twice.                                              *)
LEMMA OnePromise == ASSUME IInv PROVE PromiseIsSetOnce
<1> DEFINE setters == {th \in Threads : In(th, "resolve") \/ In(th, "unstack") \/ In(th, "complete")}
(* The ticket of a thread at "unstack" is still registered. *)
<1>1. ASSUME NEW th \in Threads, In(th, "unstack")
      PROVE  th \in InLoop /\ Top(th).ticket \in registry
  <2>1. th \in InLoop /\ Top(th).at = "unstack"
    BY <1>1, ClientFacts DEF In, InLoop, Threads
  <2>2. /\ Depth \in Nat /\ Depth > 0 /\ Len(frames[th]) = 2 * Depth
        /\ Top(th) = frames[th][2 * Depth]
        /\ Below(frames[th], Len(frames[th]), current_ticket_stack, Depth)
    BY <2>1, LoopFacts DEF LoopTop
  <2>3. Depth \in 1 .. Depth /\ Depth \in DOMAIN current_ticket_stack
    BY <2>2 DEF Depth, IInv, TypeOK
  <2>4. Top(th).ticket = current_ticket_stack[Depth]
    BY <2>2, <2>3 DEF Below
  <2> QED
    BY <2>1, <2>3, <2>4 DEF IInv, Places
<1>2. ASSUME NEW th \in setters
      PROVE  /\ Top(th).ticket \notin completed
             /\ Top(th).ticket \in registry => In(th, "unstack")
             /\ Top(th).ticket \notin registry => Setting(th)
  <2>1. CASE In(th, "unstack")
    BY <1>1, <2>1 DEF IInv, TypeOK
  <2>2. CASE Setting(th)
    BY <2>2 DEF IInv, Promises
  <2> QED
    BY <2>1, <2>2 DEF Setting
<1>3. ASSUME NEW th \in setters, NEW u \in setters, Top(th).ticket = Top(u).ticket
      PROVE  th = u
  <2>1. CASE Top(th).ticket \in registry
    BY <1>1, <1>2, <1>3, <2>1 DEF IInv, OneLoop
  <2>2. CASE Top(th).ticket \notin registry
    BY <1>2, <1>3, <2>2 DEF IInv, Promises
  <2> QED
    BY <2>1, <2>2
<1>4. ASSUME NEW t \in Tickets
      PROVE  Cardinality({th \in setters : Top(th).ticket = t})
                 + (IF t \in completed THEN 1 ELSE 0) <= 1
  <2> DEFINE S == {th \in setters : Top(th).ticket = t}
  <2>1. CASE S = {}
    <3>1. Cardinality(S) = 0
      BY <2>1, FS_EmptySet
    <3> HIDE DEF S
    <3>2. Cardinality(S) + (IF t \in completed THEN 1 ELSE 0) <= 1
      BY <3>1
    <3> QED
      BY <3>2 DEF S
  <2>2. CASE S # {}
    <3>1. PICK th \in S : TRUE
      BY <2>2
    <3>2. S = {th}
      BY <1>3, <3>1
    <3>3. t \notin completed
      BY <1>2, <3>1
    <3>4. Cardinality(S) = 1
      BY <3>2, FS_Singleton
    <3> HIDE DEF S
    <3>5. Cardinality(S) + (IF t \in completed THEN 1 ELSE 0) <= 1
      BY <3>3, <3>4
    <3> QED
      BY <3>5 DEF S
  <2> QED
    BY <2>1, <2>2
<1> QED
  BY <1>4 DEF PromiseIsSetOnce

(* A ticket is in one place of the queue, of its loop and of the threads   *)
(* that call it, whatever the tickets and the threads are.                 *)
THEOREM TicketsAreInOnePlace == Spec => []TicketIsInOnePlace
<1>1. ASSUME IInv PROVE OnlyRegisteredTicketsRun
  BY <1>1 DEF OnlyRegisteredTicketsRun, IInv, Places, Range, IsInjective
<1>2. IInv => TicketIsInOnePlace
  BY <1>1, OneTicket, OnePromise DEF TicketIsInOnePlace, IInv
<1> QED
  BY <1>2, Invariance, PTL

(* There is a loop while is_scheduled says so, and never a second one. *)
THEOREM OneLoopIsUnderWay == Spec => []OneLoopWhileScheduled
<1> DEFINE A == {th \in Threads : \E i \in DOMAIN frames[th] : frames[th][i].at = "add_task"}
<1>1. ASSUME IInv PROVE OneLoopWhileScheduled
  <2>1. A = {c \in Clients : Adding(c)}
    <3>1. ASSUME NEW w \in Workers, NEW i \in DOMAIN frames[w] PROVE frames[w][i].at # "add_task"
      <4>1. /\ w \in Threads /\ frames[w] \in Seq(Frame) /\ DOMAIN frames[w] = 1 .. Len(frames[w])
            /\ Len(frames[w]) \in Nat
        BY <1>1 DEF IInv, TypeOK, Threads
      <4>2. frames[w] # <<>>
        BY <3>1
      <4>3. w \in InLoop
        BY <4>2 DEF InLoop
      <4>4. CASE i = Len(frames[w])
        <5>1. LoopTop(w) /\ Top(w) = frames[w][i]
          BY <1>1, <4>3, <4>4, LoopFacts
        <5> QED
          BY <5>1 DEF LoopTop
      <4>5. CASE i # Len(frames[w])
        <5>1. i \in 1 .. Len(frames[w]) - 1
          BY <4>1, <4>5
        <5> QED
          BY <1>1, <4>3, <5>1, FrameKinds
      <4> QED
        BY <4>4, <4>5
    <3>2. ASSUME NEW c \in Clients
          PROVE  (\E i \in DOMAIN frames[c] : frames[c][i].at = "add_task") <=> Adding(c)
      <4>1. CASE frames[c] = <<>>
        BY <4>1 DEF Adding, In
      <4>2. CASE frames[c] # <<>>
        <5>1. c \in Threads /\ frames[c] \in Seq(Frame) /\ Len(frames[c]) = 1
          BY <1>1, <4>2, ClientFacts DEF IInv, TypeOK
        <5>2. DOMAIN frames[c] = {1} /\ Top(c) = frames[c][1]
          BY <5>1 DEF Top, Last
        <5> QED
          BY <4>2, <5>2 DEF Adding, In
      <4> QED
        BY <4>1, <4>2
    <3> QED
      BY <3>1, <3>2 DEF Threads
  <2>2. /\ A # {} => InLoop = {} /\ pool_tasks = <<>>
        /\ pool_tasks # <<>> => InLoop = {} /\ A = {} /\ Len(pool_tasks) = 1
        /\ InLoop # {} => A = {} /\ pool_tasks = <<>>
    BY <1>1, <2>1 DEF IInv, OneLoop
  <2>3. A = {} => Cardinality(A) = 0
    BY FS_EmptySet
  <2>4. A # {} => Cardinality(A) = 1
    <3>1. ASSUME NEW c \in A PROVE A = {c}
      BY <1>1, <2>1 DEF IInv, OneLoop
    <3> QED
      BY <3>1, FS_Singleton
  <2>5. InLoop = {} => Cardinality(InLoop) = 0
    BY FS_EmptySet
  <2>6. InLoop # {} => Cardinality(InLoop) = 1
    <3>1. ASSUME NEW w \in InLoop PROVE InLoop = {w}
      BY <1>1 DEF IInv, OneLoop
    <3> QED
      BY <3>1, FS_Singleton
  <2>7. pool_tasks = <<>> => Len(pool_tasks) = 0
    OBVIOUS
  <2>8. LoopsUnderWay = Cardinality(A) + Len(pool_tasks) + Cardinality(InLoop)
    BY DEF LoopsUnderWay
  <2>9. /\ is_scheduled /\ ~pool_close => InLoop # {} \/ pool_tasks # <<>> \/ A # {}
        /\ InLoop # {} \/ pool_tasks # <<>> \/ A # {} => is_scheduled
        /\ processing_queue # <<>> /\ ~stop_processing_requested => is_scheduled
    BY <1>1, <2>1 DEF IInv, Scheduled
  <2> HIDE DEF A
  <2>10. LoopsUnderWay = IF InLoop # {} \/ pool_tasks # <<>> \/ A # {} THEN 1 ELSE 0
    <3>1. CASE A # {}
      BY <2>2, <2>4, <2>5, <2>7, <2>8, <3>1
    <3>2. CASE pool_tasks # <<>>
      BY <2>2, <2>3, <2>5, <2>8, <3>2
    <3>3. CASE InLoop # {}
      BY <2>2, <2>3, <2>6, <2>7, <2>8, <3>3
    <3>4. CASE InLoop = {} /\ pool_tasks = <<>> /\ A = {}
      BY <2>3, <2>5, <2>7, <2>8, <3>4
    <3> QED
      BY <3>1, <3>2, <3>3, <3>4
  <2> QED
    BY <2>9, <2>10 DEF OneLoopWhileScheduled
<1> QED
  BY <1>1, Invariance, PTL

(* Once stop_processing has returned no ticket executes and no loop is     *)
(* left that could start one.                                              *)
THEOREM StoppingIsFinal == Spec => []StopIsFinal
<1>1. IInv => StopIsFinal
  BY DEF IInv, Scheduled, OneLoop, StopIsFinal
<1> QED
  BY <1>1, Invariance, PTL

-----------------------------------------------------------------------------
(* The queue implements TicketQueue *)

(* The tickets on the stack that wait for another: all of them, or all but *)
(* the one that executes.                                                  *)
Executes(w) == Top(w).at \in {"run", "unstack", "wait", "resolve"}
Suspended(w) == IF Executes(w) THEN Depth - 1 ELSE Depth

(* What is awaited is what the nested loops of the loop's worker wait    *)
(* for.                                                                  *)
LEMMA AwaitedFacts ==
    ASSUME IInv, NEW w \in InLoop
    PROVE  /\ Suspended(w) \in Nat
           /\ 2 * Suspended(w) + 1 <= Len(frames[w])
           /\ Awaited \in Seq(Tickets)
           /\ Len(Awaited) = Suspended(w)
           /\ \A i \in 1 .. Suspended(w) : Awaited[i] = frames[w][2 * i + 1].ticket
<1> DEFINE n == Len(frames[w])
           m == Suspended(w)
           k == n - (IF Top(w).at \in {"add_task", "resolve", "wait"} THEN 1 ELSE 0)
<1>1. /\ n \in Nat /\ n > 0 /\ Depth \in Nat /\ LoopTop(w) /\ w \in Threads
      /\ Below(frames[w], n, current_ticket_stack, Depth)
  BY LoopFacts
<1>2. m \in Nat /\ 2 * m + 1 <= n
  BY <1>1 DEF LoopTop, Suspended, Executes
<1>3. k = 2 * m + 1 \/ k = 2 * m + 2
  BY <1>1 DEF LoopTop, Suspended, Executes
<1> HIDE DEF n, m, k
<1>4. (k - 1) \div 2 = m
  BY <1>2, <1>3
<1>5. (CHOOSE v \in InLoop : TRUE) = w /\ InLoop # {}
  BY DEF IInv, OneLoop
<1>6. Awaited = [i \in 1 .. m |-> frames[w][2 * i + 1].ticket]
  BY <1>4, <1>5 DEF Awaited, AwaitedBy, k, n
<1>7. ASSUME NEW i \in 1 .. m PROVE frames[w][2 * i + 1].ticket \in Tickets
  <2>1. 2 * i + 1 \in 1 .. n /\ 2 * i + 1 # 1
    BY <1>1, <1>2
  <2>2. frames[w][2 * i + 1] \in Frame
    BY <1>1, <2>1 DEF IInv, TypeOK, n
  <2>3. frames[w][2 * i + 1].ticket # NoTicket
    BY <1>1, <2>1 DEF Below
  <2> QED
    BY <2>2, <2>3 DEF Frame
<1>8. Awaited \in Seq(Tickets) /\ Len(Awaited) = m
  BY <1>2, <1>6, <1>7
<1> QED
  BY <1>2, <1>6, <1>8 DEF n, m

(* Without a ticket on the stack none is awaited.                        *)
LEMMA NothingAwaited ==
    ASSUME IInv, Depth = 0
    PROVE  Awaited = <<>>
<1>1. CASE InLoop = {}
  BY <1>1 DEF Awaited
<1>2. CASE InLoop # {}
  <2>1. PICK w \in InLoop : TRUE
    BY <1>2
  <2>2. Awaited \in Seq(Tickets) /\ Len(Awaited) = 0
    BY AwaitedFacts DEF Suspended
  <2> QED
    BY <2>2
<1> QED
  BY <1>1, <1>2

(* What the loop, in its frames, and Awaited say of each other. *)
AwaitedIs ==
    /\ \A w \in InLoop :
          /\ Suspended(w) \in Nat
          /\ Len(Awaited) = Suspended(w)
          /\ \A i \in 1 .. Suspended(w) : Awaited[i] = frames[w][2 * i + 1].ticket
    /\ InLoop # {} => Awaited \in Seq(Tickets)
    /\ Depth = 0 => Awaited = <<>>
    /\ InLoop = {} => Awaited = <<>>

(* This holds in every state the queue reaches.                          *)
LEMMA AwaitedInv == IInv => AwaitedIs
  BY AwaitedFacts, NothingAwaited DEF AwaitedIs, Awaited

(* Two sequences of tickets are equal when their elements are. *)
LEMMA SameAwaited ==
    ASSUME NEW s \in Seq(Tickets), NEW r \in Seq(Tickets), Len(s) = Len(r),
           \A i \in 1 .. Len(s) : s[i] = r[i]
    PROVE  s = r
  BY SeqEqual

(* What is awaited stays when the frames that say so do, ... *)
LEMMA AwaitedStays ==
    ASSUME AwaitedIs, AwaitedIs', NEW w \in InLoop, w \in InLoop', Suspended(w)' = Suspended(w),
           \A i \in 1 .. Suspended(w) :
               frames'[w][2 * i + 1].ticket = frames[w][2 * i + 1].ticket
    PROVE  Awaited' = Awaited
<1>1. /\ Suspended(w) \in Nat /\ Awaited \in Seq(Tickets) /\ Len(Awaited) = Suspended(w)
      /\ \A i \in 1 .. Suspended(w) : Awaited[i] = frames[w][2 * i + 1].ticket
  BY DEF AwaitedIs
<1>2. /\ Awaited' \in Seq(Tickets) /\ Len(Awaited') = Suspended(w)
      /\ \A i \in 1 .. Suspended(w) : Awaited'[i] = frames'[w][2 * i + 1].ticket
  BY DEF AwaitedIs
<1>3. \A i \in 1 .. Suspended(w) : Awaited'[i] = Awaited[i]
  BY <1>1, <1>2
<1> HIDE DEF Suspended
<1> QED
  BY <1>1, <1>2, <1>3, SameAwaited

(* ... grows by the ticket of a nested loop, ... *)
LEMMA AwaitedGrows ==
    ASSUME AwaitedIs, AwaitedIs', NEW w \in InLoop, w \in InLoop',
           Suspended(w)' = Suspended(w) + 1,
           \A i \in 1 .. Suspended(w) :
               frames'[w][2 * i + 1].ticket = frames[w][2 * i + 1].ticket,
           NEW t \in Tickets, frames'[w][2 * (Suspended(w) + 1) + 1].ticket = t
    PROVE  Awaited' = Append(Awaited, t)
<1> DEFINE m == Suspended(w)
           r == Append(Awaited, t)
<1>1. /\ m \in Nat /\ Awaited \in Seq(Tickets) /\ Len(Awaited) = m
      /\ \A i \in 1 .. m : Awaited[i] = frames[w][2 * i + 1].ticket
  BY DEF AwaitedIs
<1>2. /\ Awaited' \in Seq(Tickets) /\ Len(Awaited') = m + 1
      /\ \A i \in 1 .. m + 1 : Awaited'[i] = frames'[w][2 * i + 1].ticket
  BY DEF AwaitedIs
<1>3. /\ r \in Seq(Tickets) /\ Len(r) = m + 1 /\ r[m + 1] = t
      /\ \A i \in 1 .. m : r[i] = Awaited[i]
  BY <1>1, AppendFacts
<1>4. Awaited'[m + 1] = t
  BY <1>1, <1>2
<1>5. \A i \in 1 .. m : frames'[w][2 * i + 1].ticket = frames[w][2 * i + 1].ticket
  OBVIOUS
<1> HIDE DEF m, r
<1>6. \A i \in 1 .. m : Awaited'[i] = Awaited[i]
  BY <1>5, <1>1, <1>2
<1>7. \A i \in 1 .. m + 1 : Awaited'[i] = r[i]
  BY <1>1, <1>3, <1>4, <1>6
<1>8. Awaited' = r
  BY <1>2, <1>3, <1>7, SameAwaited
<1> QED
  BY <1>8 DEF r

(* ... and loses it when that loop ends. *)
LEMMA AwaitedShrinks ==
    ASSUME AwaitedIs, AwaitedIs', NEW w \in InLoop, w \in InLoop',
           Suspended(w)' = Suspended(w) - 1,
           \A i \in 1 .. Suspended(w) - 1 :
               frames'[w][2 * i + 1].ticket = frames[w][2 * i + 1].ticket
    PROVE  /\ Awaited # <<>> /\ Awaited' = Front(Awaited)
           /\ Last(Awaited) = frames[w][2 * Suspended(w) + 1].ticket
<1> DEFINE m == Suspended(w)
           r == Front(Awaited)
<1>1. /\ m \in Nat /\ Awaited \in Seq(Tickets) /\ Len(Awaited) = m
      /\ \A i \in 1 .. m : Awaited[i] = frames[w][2 * i + 1].ticket
  BY DEF AwaitedIs
<1>2. /\ Awaited' \in Seq(Tickets) /\ Len(Awaited') = m - 1 /\ m - 1 \in Nat
      /\ \A i \in 1 .. m - 1 : Awaited'[i] = frames'[w][2 * i + 1].ticket
  BY DEF AwaitedIs
<1>3. m \in 1 .. m /\ Awaited # <<>>
  BY <1>1, <1>2
<1>4. /\ r \in Seq(Tickets) /\ Len(r) = m - 1 /\ Last(Awaited) = Awaited[m]
      /\ \A i \in 1 .. m - 1 : r[i] = Awaited[i]
  BY <1>1, <1>3, FrontFacts
<1>5. \A i \in 1 .. m - 1 : frames'[w][2 * i + 1].ticket = frames[w][2 * i + 1].ticket
  OBVIOUS
<1> HIDE DEF m, r
<1>6. ASSUME NEW i \in 1 .. m - 1 PROVE Awaited'[i] = Awaited[i]
  <2>1. i \in 1 .. m
    BY <1>1
  <2> QED
    BY <1>5, <1>1, <1>2, <2>1
<1>7. \A i \in 1 .. m - 1 : Awaited'[i] = r[i]
  BY <1>4, <1>6
<1>8. Awaited' = r
  BY <1>2, <1>4, <1>7, SameAwaited
<1> QED
  BY <1>1, <1>3, <1>4, <1>8 DEF r, m

(* A step that no frame of the loop notices. *)
LEMMA AwaitedElsewhere ==
    ASSUME AwaitedIs, AwaitedIs', InLoop' = InLoop, UNCHANGED current_ticket_stack,
           \A w \in InLoop : frames'[w] = frames[w]
    PROVE  Awaited' = Awaited
<1>1. CASE InLoop = {}
  BY <1>1 DEF AwaitedIs
<1>2. CASE InLoop # {}
  <2>1. PICK w \in InLoop : TRUE
    BY <1>2
  <2>2. Suspended(w)' = Suspended(w)
    BY DEF Suspended, Executes, Depth, Top
  <2> QED
    BY <2>1, <2>2, AwaitedStays
<1> QED
  BY <1>1, <1>2

(* The steps of the loop that leave what is awaited: its top frame goes    *)
(* on, a call ends or begins on it.                                        *)
LEMMA AwaitedGoesOn ==
    ASSUME IInv, AwaitedIs, AwaitedIs', NEW w \in InLoop, NEW x \in Frame, GoesTo(w, x),
           x.ticket = Top(w).ticket, Suspended(w)' = Suspended(w)
    PROVE  Awaited' = Awaited
<1>1. /\ LoopTop(w) /\ Len(frames[w]) \in Nat /\ w \in Threads /\ Depth \in Nat
      /\ Top(w) = frames[w][Len(frames[w])] /\ frames[w] # <<>>
  BY LoopFacts
<1>2. /\ frames'[w] # <<>>
      /\ \A i \in 1 .. Len(frames[w]) - 1 : frames'[w][i] = frames[w][i]
      /\ frames'[w][Len(frames[w])] = x
  BY <1>1, GoesToFacts DEF IInv, TypeOK, FramesType
<1>3. \A i \in 1 .. Suspended(w) :
          2 * i + 1 \in 1 .. Len(frames[w]) - 1 \/ 2 * i + 1 = Len(frames[w])
  BY <1>1 DEF LoopTop, Suspended, Executes
<1>4. w \in InLoop'
  BY <1>2 DEF InLoop
<1> QED
  BY <1>1, <1>2, <1>3, <1>4, AwaitedStays

(* A call of the ticket ends, or the promise of one that ended is set.   *)
LEMMA AwaitedReturns ==
    ASSUME IInv, AwaitedIs, AwaitedIs', NEW w \in InLoop, Returns(w),
           UNCHANGED current_ticket_stack,
           Top(w).at \in {"wait", "resolve", "complete"}
    PROVE  Awaited' = Awaited
<1>1. /\ LoopTop(w) /\ Len(frames[w]) \in Nat /\ w \in Threads /\ Depth \in Nat
      /\ frames[w] # <<>> /\ Top(w) \in Frame
  BY LoopFacts
<1>2. \A i \in 1 .. Len(frames[w]) - 1 : frames'[w][i] = frames[w][i]
  BY <1>1, ReturnsFacts DEF IInv, TypeOK, FramesType
<1>3. /\ frames'[w] # <<>>
      /\ Top(w)'.at = IF Top(w).at = "complete" THEN "check" ELSE "run"
  BY <1>1, FrameFacts, LoopReturns
<1>4. \A i \in 1 .. Suspended(w) : 2 * i + 1 \in 1 .. Len(frames[w]) - 1
  BY <1>1 DEF LoopTop, Suspended, Executes
<1>5. w \in InLoop' /\ Suspended(w)' = Suspended(w)
  BY <1>3 DEF InLoop, Suspended, Executes, Depth
<1> QED
  BY <1>2, <1>4, <1>5, AwaitedStays

(* The ticket calls wait_ticket or discard_ticket.                       *)
LEMMA AwaitedEnters ==
    ASSUME IInv, AwaitedIs, AwaitedIs', NEW w \in InLoop, NEW t \in Tickets, NEW x \in Frame,
           x = At("wait", t) \/ x = At("resolve", t),
           Enters(w, x), UNCHANGED current_ticket_stack, Top(w).at = "run"
    PROVE  Awaited' = Awaited
<1>1. /\ LoopTop(w) /\ Len(frames[w]) \in Nat /\ w \in Threads /\ Depth \in Nat
  BY LoopFacts
<1>2. /\ frames'[w] # <<>> /\ Top(w)' = x
      /\ \A i \in 1 .. Len(frames[w]) : frames'[w][i] = frames[w][i]
  BY <1>1, EntersFacts DEF IInv, TypeOK, FramesType
<1>3. \A i \in 1 .. Suspended(w) : 2 * i + 1 \in 1 .. Len(frames[w])
  BY <1>1 DEF LoopTop, Suspended, Executes
<1>4. w \in InLoop' /\ Suspended(w)' = Suspended(w)
  BY <1>2 DEF InLoop, Suspended, Executes, Depth, At
<1> QED
  BY <1>2, <1>3, <1>4, AwaitedStays

(* A ticket begins on top of the loop. *)
LEMMA AwaitedFetches ==
    ASSUME IInv, AwaitedIs, AwaitedIs', NEW w \in InLoop, NEW t \in Tickets,
           Top(w).at = "fetch",
           frames' = [frames EXCEPT ![w] =
               Front(@) \o <<At("check", Top(w).ticket), At("run", t)>>],
           current_ticket_stack' = Append(current_ticket_stack, t)
    PROVE  Awaited' = Awaited
<1> DEFINE n == Len(frames[w])
           x == At("check", Top(w).ticket)
           y == At("run", t)
<1>1. /\ LoopTop(w) /\ n \in Nat /\ w \in Threads /\ Depth \in Nat
      /\ Top(w) = frames[w][n] /\ frames[w] # <<>> /\ Top(w) \in Frame
  BY LoopFacts
<1>2. x \in Frame /\ y \in Frame /\ x.ticket = Top(w).ticket /\ y.at = "run"
  BY <1>1, FrameFacts DEF At, Frame
<1>3. /\ frames'[w] # <<>> /\ Top(w)' = y
      /\ \A i \in 1 .. n - 1 : frames'[w][i] = frames[w][i]
      /\ frames'[w][n] = x
  <2>1. FramesType /\ GoesOnAndEnters(w, x, y)
    BY TypeFacts DEF IInv, GoesOnAndEnters
  <2> HIDE DEF x, y
  <2> QED
    BY <1>1, <1>2, <2>1, FetchFacts
<1>4. Depth' = Depth + 1
  BY AppendFacts DEF IInv, TypeOK, Depth
<1>5. w \in InLoop' /\ Suspended(w)' = Suspended(w)
  BY <1>1, <1>2, <1>3, <1>4 DEF InLoop, Suspended, Executes
<1>6. n = 2 * Suspended(w) + 1 /\ Suspended(w) \in Nat
  BY <1>1 DEF LoopTop, Suspended, Executes
<1> HIDE DEF n, x, y
<1>7. \A i \in 1 .. Suspended(w) : 2 * i + 1 \in 1 .. n - 1 \/ 2 * i + 1 = n
  <2> DEFINE m == Suspended(w)
  <2>1. n = 2 * m + 1 /\ m \in Nat
    BY <1>6
  <2> HIDE DEF m
  <2>2. \A i \in 1 .. m : 2 * i + 1 \in 1 .. n - 1 \/ 2 * i + 1 = n
    BY <2>1
  <2> QED
    BY <2>2 DEF m
<1>8. \A i \in 1 .. Suspended(w) :
          frames'[w][2 * i + 1].ticket = frames[w][2 * i + 1].ticket
  BY <1>1, <1>2, <1>3, <1>7
<1> QED
  BY <1>5, <1>8, AwaitedStays

(* A nested loop begins. *)
LEMMA AwaitedNests ==
    ASSUME IInv, AwaitedIs, AwaitedIs', NEW w \in InLoop, Top(w).at = "wait",
           GoesTo(w, At("check", Top(w).ticket)), UNCHANGED current_ticket_stack
    PROVE  Awaited' = Append(Awaited, Top(w).ticket)
<1> DEFINE n == Len(frames[w])
           t == Top(w).ticket
           x == At("check", t)
<1>1. /\ LoopTop(w) /\ n \in Nat /\ w \in Threads /\ Depth \in Nat
      /\ frames[w] # <<>> /\ Top(w) \in Frame
  BY LoopFacts
<1>2. x \in Frame /\ x.ticket = t /\ x.at = "check" /\ t \in Tickets
  BY <1>1, FrameFacts DEF At, Frame
<1>3. /\ frames'[w] # <<>> /\ Top(w)' = x
      /\ \A i \in 1 .. n - 1 : frames'[w][i] = frames[w][i]
      /\ frames'[w][n] = x
  BY <1>1, <1>2, GoesToFacts DEF IInv, TypeOK, FramesType
<1>4. w \in InLoop' /\ Suspended(w)' = Suspended(w) + 1
  BY <1>1, <1>2, <1>3 DEF InLoop, Suspended, Executes, Depth
<1>5. n = 2 * (Suspended(w) + 1) + 1 /\ Suspended(w) \in Nat
  BY <1>1 DEF LoopTop, Suspended, Executes
<1>6. \A i \in 1 .. Suspended(w) : 2 * i + 1 \in 1 .. n - 1
  BY <1>1, <1>5
<1>7. frames'[w][2 * (Suspended(w) + 1) + 1].ticket = t
  BY <1>2, <1>3, <1>5
<1> HIDE DEF n, x, t
<1>8. Awaited' = Append(Awaited, t)
  BY <1>2, <1>3, <1>4, <1>6, <1>7, AwaitedGrows
<1> QED
  BY <1>8 DEF t

(* A nested loop ends. *)
LEMMA AwaitedUnnests ==
    ASSUME IInv, AwaitedIs, AwaitedIs', NEW w \in InLoop, Top(w).at \in {"check", "fetch"},
           Top(w).ticket # NoTicket, Returns(w), UNCHANGED current_ticket_stack
    PROVE  /\ Awaited # <<>> /\ Awaited' = Front(Awaited)
           /\ Last(Awaited) = Top(w).ticket
<1>1. /\ LoopTop(w) /\ Len(frames[w]) \in Nat /\ w \in Threads /\ Depth \in Nat
      /\ Top(w) = frames[w][Len(frames[w])] /\ frames[w] # <<>>
  BY LoopFacts
<1>2. \A i \in 1 .. Len(frames[w]) - 1 : frames'[w][i] = frames[w][i]
  BY <1>1, ReturnsFacts DEF IInv, TypeOK, FramesType
<1>3. frames'[w] # <<>> /\ Top(w)'.at = "run"
  BY LoopReturns
<1>4. w \in InLoop' /\ Suspended(w)' = Suspended(w) - 1
  BY <1>3 DEF InLoop, Suspended, Executes, Depth
<1>5. /\ Len(frames[w]) = 2 * Suspended(w) + 1
      /\ \A i \in 1 .. Suspended(w) - 1 : 2 * i + 1 \in 1 .. Len(frames[w]) - 1
  BY <1>1 DEF LoopTop, Suspended, Executes
<1>6. /\ Awaited # <<>> /\ Awaited' = Front(Awaited)
      /\ Last(Awaited) = frames[w][2 * Suspended(w) + 1].ticket
  BY <1>2, <1>4, <1>5, AwaitedShrinks
<1> QED
  BY <1>1, <1>5, <1>6

(* The frames of the loop say whether a ticket executes, in TicketQueue's  *)
(* sense.                                                                  *)
LEMMA ActiveFacts ==
    ASSUME IInv, AwaitedIs, NEW w \in InLoop
    PROVE  Queue!Active <=> Executes(w)
<1>1. Len(Awaited) = Suspended(w) /\ Depth \in Nat
  BY LoopFacts DEF AwaitedIs
<1> QED
  BY <1>1 DEF Queue!Active, Suspended, Depth

StepOfAbstractQueue == Queue!Next \/ UNCHANGED Queue!ticketQueueVars

(* A step of the queue that TicketQueue does not see. *)
LEMMA Unseen ==
    ASSUME Awaited' = Awaited,
           UNCHANGED <<registry, processing_queue, current_ticket_stack,
                       stop_processing_requested>>
    PROVE  StepOfAbstractQueue
  BY DEF StepOfAbstractQueue, Queue!ticketQueueVars

(* The top frame of the loop goes on, for the same ticket. *)
LEMMA GoesOnRefines ==
    ASSUME IInv, AwaitedIs, AwaitedIs', NEW w \in InLoop, NEW x \in Frame, GoesTo(w, x),
           x.ticket = Top(w).ticket,
           x.at \in {"run", "unstack", "wait", "resolve"} <=> Executes(w),
           UNCHANGED <<registry, processing_queue, current_ticket_stack,
                       stop_processing_requested>>
    PROVE  StepOfAbstractQueue
<1>1. Top(w)' = x
  BY LoopFacts, GoesToFacts DEF IInv, TypeOK, FramesType
<1>2. Suspended(w)' = Suspended(w)
  BY <1>1 DEF Suspended, Executes, Depth
<1>3. Awaited' = Awaited
  BY <1>2, AwaitedGoesOn
<1> QED
  BY <1>3, Unseen

(* TicketQueue knows of no processing thread.                            *)
LEMMA SetProcessingThreadRefines ==
    ASSUME IInv, AwaitedIs, AwaitedIs', NEW w \in Workers, SetProcessingThread(w)
    PROVE  StepOfAbstractQueue
<1> DEFINE x == At("check", NoTicket)
<1>1. w \in InLoop /\ Top(w).at = "loop" /\ Top(w).ticket = NoTicket
  BY InLoopFacts, FrameFacts DEF SetProcessingThread, In
<1>2. /\ x \in Frame /\ x.ticket = Top(w).ticket
      /\ x.at \in {"run", "unstack", "wait", "resolve"} <=> Executes(w)
  BY <1>1 DEF Frame, At, Executes
<1> QED
  BY <1>1, <1>2, GoesOnRefines DEF SetProcessingThread

(* The loop looks at its break condition: it goes on, leaves, or, nested,  *)
(* lets the suspended ticket resume.                                       *)
LEMMA LoopConditionRefines ==
    ASSUME IInv, AwaitedIs, AwaitedIs', NEW w \in Workers, LoopCondition(w)
    PROVE  StepOfAbstractQueue
<1> DEFINE t == Top(w).ticket
<1>1. /\ w \in InLoop /\ Top(w).at = "check" /\ t \in Tickets \cup {NoTicket}
      /\ ~Executes(w)
  BY InLoopFacts, FrameFacts DEF LoopCondition, In, Executes
<1>2. UNCHANGED <<registry, processing_queue, current_ticket_stack,
                  stop_processing_requested>>
  BY DEF LoopCondition, ticketVars
<1>3. CASE GoesTo(w, At("fetch", t))
  <2>1. At("fetch", t) \in Frame /\ At("fetch", t).ticket = t /\ At("fetch", t).at = "fetch"
    BY <1>1 DEF Frame, At
  <2> QED
    BY <1>1, <1>2, <1>3, <2>1, GoesOnRefines
<1>4. CASE t = NoTicket /\ GoesTo(w, At("leave", NoTicket))
  <2>1. /\ At("leave", NoTicket) \in Frame /\ At("leave", NoTicket).ticket = t
        /\ At("leave", NoTicket).at = "leave"
    BY <1>1, <1>4 DEF Frame, At
  <2> QED
    BY <1>1, <1>2, <1>4, <2>1, GoesOnRefines
<1>5. CASE t # NoTicket /\ t \notin registry /\ Returns(w)
  <2>1. Awaited # <<>> /\ Awaited' = Front(Awaited) /\ Last(Awaited) \notin registry
    BY <1>1, <1>2, <1>5, AwaitedUnnests
  <2>2. Queue!Resume
    BY <1>1, <1>2, <2>1, ActiveFacts
    DEF Queue!Resume, Queue!Front, Queue!Last, Front, Last
  <2> QED
    BY <2>2 DEF StepOfAbstractQueue, Queue!Next
<1> QED
  BY <1>3, <1>4, <1>5 DEF LoopCondition, RecursionBreakCondition

(* A loop ends because the queue stops: nested, its ticket resumes.      *)
LEMMA FetchStoppedRefines ==
    ASSUME IInv, AwaitedIs, AwaitedIs', NEW w \in Workers, FetchStopped(w)
    PROVE  StepOfAbstractQueue
<1> DEFINE t == Top(w).ticket
<1>1. /\ w \in InLoop /\ Top(w).at = "fetch" /\ t \in Tickets \cup {NoTicket}
      /\ ~Executes(w)
  BY InLoopFacts, FrameFacts DEF FetchStopped, In, Executes
<1>2. /\ stop_processing_requested
      /\ UNCHANGED <<registry, processing_queue, current_ticket_stack,
                     stop_processing_requested>>
  BY DEF FetchStopped, ticketVars
<1>3. CASE t = NoTicket /\ GoesTo(w, At("leave", NoTicket))
  <2>1. /\ At("leave", NoTicket) \in Frame /\ At("leave", NoTicket).ticket = t
        /\ At("leave", NoTicket).at = "leave"
    BY <1>1, <1>3 DEF Frame, At
  <2> QED
    BY <1>1, <1>2, <1>3, <2>1, GoesOnRefines
<1>4. CASE t # NoTicket /\ Returns(w)
  <2>1. Awaited # <<>> /\ Awaited' = Front(Awaited)
    BY <1>1, <1>2, <1>4, AwaitedUnnests
  <2>2. Queue!Resume
    BY <1>1, <1>2, <2>1, ActiveFacts
    DEF Queue!Resume, Queue!Front, Queue!Last, Front, Last
  <2> QED
    BY <2>2 DEF StepOfAbstractQueue, Queue!Next
<1> QED
  BY <1>3, <1>4 DEF FetchStopped

(* A ticket's function returns: it is not finished before it is          *)
(* unstacked.                                                            *)
LEMMA InvocableReturnsRefines ==
    ASSUME IInv, AwaitedIs, AwaitedIs', NEW w \in Workers, InvocableReturns(w)
    PROVE  StepOfAbstractQueue
<1> DEFINE x == At("unstack", Top(w).ticket)
<1>1. w \in InLoop /\ Top(w).at = "run" /\ Top(w).ticket \in Tickets
  BY InLoopFacts, FrameFacts DEF InvocableReturns, In
<1>2. /\ x \in Frame /\ x.ticket = Top(w).ticket
      /\ x.at \in {"run", "unstack", "wait", "resolve"} <=> Executes(w)
  BY <1>1 DEF Frame, At, Executes
<1> QED
  BY <1>1, <1>2, GoesOnRefines DEF InvocableReturns, ticketVars

(* The oldest ticket of the queue starts. *)
LEMMA FetchTicketRefines ==
    ASSUME IInv, AwaitedIs, AwaitedIs', NEW w \in Workers, FetchTicket(w)
    PROVE  StepOfAbstractQueue
<1> DEFINE t == Head(processing_queue)
<1>1. w \in InLoop /\ Top(w).at = "fetch" /\ ~Executes(w) /\ Top(w) = Last(frames[w])
  BY InLoopFacts DEF FetchTicket, In, Executes, Top
<1>2. /\ ~stop_processing_requested /\ processing_queue # <<>>
      /\ current_ticket_stack' = Append(current_ticket_stack, t)
      /\ processing_queue' = Tail(processing_queue)
      /\ frames' = [frames EXCEPT ![w] =
             Front(@) \o <<At("check", Last(@).ticket), At("run", t)>>]
      /\ UNCHANGED <<registry, stop_processing_requested>>
  BY DEF FetchTicket
<1>3. t \in Tickets
  BY <1>2 DEF IInv, TypeOK
<1>4. frames' = [frames EXCEPT ![w] =
             Front(@) \o <<At("check", Top(w).ticket), At("run", t)>>]
  BY <1>1, <1>2
<1> HIDE DEF t
<1>5. Awaited' = Awaited
  BY <1>1, <1>2, <1>3, <1>4, AwaitedFetches
<1>6. Queue!Start
  BY <1>1, <1>2, <1>5, ActiveFacts DEF Queue!Start, t
<1> QED
  BY <1>6 DEF StepOfAbstractQueue, Queue!Next

(* The ticket that ends is the last on the stack. *)
LEMMA UnstackRefines ==
    ASSUME IInv, AwaitedIs, AwaitedIs', NEW w \in Workers, Unstack(w)
    PROVE  StepOfAbstractQueue
<1> DEFINE t == Top(w).ticket
           x == At("complete", t)
           s == current_ticket_stack
<1>1. /\ w \in InLoop /\ Top(w).at = "unstack" /\ Executes(w) /\ t \in Tickets
  BY InLoopFacts, FrameFacts DEF Unstack, In, Executes
<1>2. /\ s' = Front(s) /\ registry' = registry \ {t} /\ GoesTo(w, x)
      /\ UNCHANGED <<processing_queue, stop_processing_requested>>
  BY DEF Unstack
<1>3. x \in Frame /\ x.ticket = t /\ x.at = "complete"
  BY <1>1 DEF Frame, At
<1>4. /\ LoopTop(w) /\ w \in Threads /\ frames[w] # <<>> /\ Depth \in Nat /\ Depth > 0
      /\ Top(w) = frames[w][2 * Depth]
      /\ Below(frames[w], Len(frames[w]), s, Depth)
  BY <1>1, LoopFacts DEF LoopTop
<1>5. s \in Seq(Tickets) /\ s # <<>> /\ Depth = Len(s) /\ Depth \in 1 .. Depth
  BY <1>4 DEF IInv, TypeOK, Depth
<1>6. Last(s) = s[Depth] /\ Depth' = Depth - 1
  BY <1>2, <1>5, FrontFacts DEF Depth
<1>7. t = Last(s)
  BY <1>4, <1>5, <1>6 DEF Below
<1>8. Top(w)' = x
  BY <1>2, <1>3, <1>4, GoesToFacts DEF IInv, TypeOK, FramesType
<1>9. Suspended(w)' = Suspended(w)
  BY <1>1, <1>3, <1>6, <1>8 DEF Suspended, Executes
<1>10. Awaited' = Awaited
  BY <1>1, <1>2, <1>3, <1>9, AwaitedGoesOn
<1>11. Queue!Active
  BY <1>1, ActiveFacts
<1>12. Queue!Finish
  BY <1>2, <1>7, <1>10, <1>11
  DEF Queue!Finish, Queue!Front, Queue!Last, Front, Last
<1> QED
  BY <1>12 DEF StepOfAbstractQueue, Queue!Next

(* TicketQueue knows of no promises.                                     *)
LEMMA CompleteRefines ==
    ASSUME IInv, AwaitedIs, AwaitedIs', NEW w \in Workers, Complete(w)
    PROVE  StepOfAbstractQueue
<1>1. w \in InLoop /\ Top(w).at = "complete"
  BY InLoopFacts DEF Complete, In
<1>2. /\ Returns(w)
      /\ UNCHANGED <<registry, processing_queue, current_ticket_stack,
                     stop_processing_requested>>
  BY DEF Complete
<1>3. Awaited' = Awaited
  BY <1>1, <1>2, AwaitedReturns
<1> QED
  BY <1>2, <1>3, Unseen

(* No loop: nothing is awaited, before it starts and after it has left. *)
LEMMA StartLoopRefines ==
    ASSUME IInv, AwaitedIs, AwaitedIs', NEW w \in Workers, StartLoop(w)
    PROVE  StepOfAbstractQueue
<1>1. /\ pool_tasks # <<>>
      /\ UNCHANGED <<registry, processing_queue, current_ticket_stack,
                     stop_processing_requested>>
  BY DEF StartLoop, TakeTask, ticketVars
<1>2. Depth = 0 /\ Depth' = 0
  BY <1>1 DEF IInv, OneLoop, Depth
<1> QED
  BY <1>1, <1>2, Unseen DEF AwaitedIs

(* The loop leaves, with nothing awaited.                                *)
LEMMA LeaveLoopRefines ==
    ASSUME IInv, AwaitedIs, AwaitedIs', NEW w \in Workers, LeaveLoop(w)
    PROVE  StepOfAbstractQueue
<1>1. /\ w \in InLoop /\ Top(w).at = "leave"
      /\ UNCHANGED <<registry, processing_queue, current_ticket_stack,
                     stop_processing_requested>>
  BY InLoopFacts DEF LeaveLoop, In
<1>2. Depth = 0 /\ Depth' = 0
  BY <1>1, LoopFacts DEF LoopTop, Depth
<1> QED
  BY <1>1, <1>2, Unseen DEF AwaitedIs

(* A step of a client leaves what is awaited. *)
LEMMA AwaitedOfClient ==
    ASSUME AwaitedIs, AwaitedIs', NEW c \in Clients, OthersStay(c),
           UNCHANGED current_ticket_stack
    PROVE  Awaited' = Awaited
<1>1. \A w \in Workers : w \in Threads /\ w # c
  BY ThreadsAssumption DEF Threads
<1>2. \A w \in Workers : frames'[w] = frames[w]
  BY <1>1 DEF OthersStay
<1>3. InLoop' = InLoop /\ \A w \in InLoop : frames'[w] = frames[w]
  BY <1>2 DEF InLoop
<1> QED
  BY <1>3, AwaitedElsewhere

(* A call of the queue, by a client or by a ticket. *)
LEMMA AwaitedCalls ==
    ASSUME IInv, AwaitedIs, AwaitedIs', NEW th \in Threads, MayCall(th), NEW t \in Tickets,
           Enters(th, At("wait", t)) \/ Enters(th, At("resolve", t)),
           UNCHANGED current_ticket_stack
    PROVE  Awaited' = Awaited
<1>1. At("wait", t) \in Frame /\ At("resolve", t) \in Frame /\ FramesType
  BY TypeFacts DEF Frame, At, IInv
<1>2. CASE th \in Clients
  <2>1. OthersStay(th)
    BY <1>1, EntersFacts
  <2> QED
    BY <1>2, <2>1, AwaitedOfClient
<1>3. CASE th \in InLoop /\ Top(th).at = "run"
  BY <1>1, <1>3, AwaitedEnters
<1> QED
  BY <1>2, <1>3, CallerFacts

(* A created ticket is pending, unless the queue stops.                  *)
LEMMA CreateTicketRefines ==
    ASSUME IInv, AwaitedIs, AwaitedIs', NEW th \in Threads, NEW t \in Tickets,
           CreateTicket(th, t)
    PROVE  StepOfAbstractQueue
<1>1. /\ t \notin created
      /\ registry' = IF stop_processing_requested THEN registry ELSE registry \cup {t}
      /\ UNCHANGED <<processing_queue, current_ticket_stack, stop_processing_requested,
                     frames>>
  BY DEF CreateTicket
<1>2. Awaited' = Awaited
  BY <1>1 DEF Awaited, AwaitedBy, InLoop, Top
<1>3. CASE stop_processing_requested
  BY <1>1, <1>2, <1>3, Unseen
<1>4. CASE ~stop_processing_requested
  <2>1. t \notin registry \cup Range(processing_queue) \cup Range(current_ticket_stack)
    BY <1>1 DEF IInv, Places, Range
  <2>2. Queue!Create(t)
    BY <1>1, <1>2, <1>4, <2>1 DEF Queue!Create, Queue!Range, Range
  <2> QED
    BY <2>2 DEF StepOfAbstractQueue, Queue!Next
<1> QED
  BY <1>3, <1>4

(* A scheduled ticket is the last of those waiting.                      *)
LEMMA ScheduleTicketRefines ==
    ASSUME IInv, AwaitedIs, AwaitedIs', NEW th \in Threads, NEW t \in Tickets,
           ScheduleTicket(th, t)
    PROVE  StepOfAbstractQueue
<1>1. /\ MayCall(th) /\ ~stop_processing_requested /\ t \in registry \ was_scheduled
      /\ processing_queue' = Append(processing_queue, t)
      /\ UNCHANGED <<registry, current_ticket_stack, stop_processing_requested>>
      /\ IF is_scheduled THEN UNCHANGED frames ELSE Enters(th, At("add_task", NoTicket))
  BY DEF ScheduleTicket
<1>2. Awaited' = Awaited
  <2>1. CASE is_scheduled
    BY <1>1, <2>1 DEF Awaited, AwaitedBy, InLoop, Top
  <2>2. CASE ~is_scheduled
    <3>1. th \in Clients
      BY <1>1, <2>2, CallerFacts
    <3>2. At("add_task", NoTicket) \in Frame /\ FramesType
      BY TypeFacts DEF Frame, At, IInv
    <3>3. OthersStay(th)
      BY <1>1, <2>2, <3>2, EntersFacts
    <3> QED
      BY <1>1, <3>1, <3>3, AwaitedOfClient
  <2> QED
    BY <2>1, <2>2
<1>3. t \notin Range(processing_queue) \cup Range(current_ticket_stack)
  BY <1>1 DEF IInv, Places, Range
<1>4. Queue!Schedule(t)
  BY <1>1, <1>2, <1>3 DEF Queue!Schedule, Queue!Range, Range
<1> QED
  BY <1>4 DEF StepOfAbstractQueue, Queue!Next

(* Both modules remove from a sequence alike. *)
LEMMA SameRemoveFirst ==
    ASSUME NEW s, NEW e PROVE Queue!RemoveFirst(s, e) = RemoveFirst(s, e)
  BY DEF Queue!RemoveFirst, Queue!RemoveAt, Queue!SelectInSeq, Queue!Min,
         RemoveFirst, RemoveAt, SelectInSeq, Min

(* A discarded ticket leaves the registry and the queue; one that executes *)
(* is waited for.                                                          *)
LEMMA DiscardTicketRefines ==
    ASSUME IInv, AwaitedIs, AwaitedIs', NEW th \in Threads, NEW t \in Tickets,
           DiscardTicket(th, t)
    PROVE  StepOfAbstractQueue
<1>1. /\ MayCall(th) /\ t \in registry
      /\ UNCHANGED <<current_ticket_stack, stop_processing_requested>>
      /\ IF InCurrentTicketStack(t)
         THEN Enters(th, At("wait", t)) /\ UNCHANGED <<registry, processing_queue>>
         ELSE /\ processing_queue' = RemoveFirst(processing_queue, t)
              /\ registry' = registry \ {t}
              /\ Enters(th, At("resolve", t))
  BY DEF DiscardTicket
<1>2. Awaited' = Awaited
  BY <1>1, AwaitedCalls
<1>3. CASE InCurrentTicketStack(t)
  BY <1>1, <1>2, <1>3, Unseen
<1>4. CASE ~InCurrentTicketStack(t)
  <2>1. Queue!Discard(t)
    BY <1>1, <1>2, <1>4, SameRemoveFirst
    DEF Queue!Discard, Queue!Range, Range, InCurrentTicketStack
  <2> QED
    BY <2>1 DEF StepOfAbstractQueue, Queue!Next
<1> QED
  BY <1>3, <1>4

(* The call of wait_ticket changes nothing yet.                          *)
LEMMA CallWaitTicketRefines ==
    ASSUME IInv, AwaitedIs, AwaitedIs', NEW th \in Threads, NEW t \in Tickets,
           CallWaitTicket(th, t)
    PROVE  StepOfAbstractQueue
<1>1. /\ MayCall(th) /\ Enters(th, At("wait", t))
      /\ UNCHANGED <<registry, processing_queue, current_ticket_stack,
                     stop_processing_requested>>
  BY DEF CallWaitTicket, ticketVars
<1>2. Awaited' = Awaited
  BY <1>1, AwaitedCalls
<1> QED
  BY <1>1, <1>2, Unseen

(* A ticket waits for another: it is suspended, unless that one is itself  *)
(* suspended below it, or gone.                                            *)
LEMMA WaitTicketRefines ==
    ASSUME IInv, AwaitedIs, AwaitedIs', NEW th \in Threads, WaitTicket(th)
    PROVE  StepOfAbstractQueue
<1> DEFINE t == Top(th).ticket
<1>1. /\ In(th, "wait")
      /\ UNCHANGED <<registry, processing_queue, current_ticket_stack,
                     stop_processing_requested>>
      /\ \/ th # processing_thread_id /\ GoesTo(th, At("future", t))
         \/ /\ t \in registry /\ th = processing_thread_id /\ ~InCurrentTicketStack(t)
            /\ GoesTo(th, At("check", t))
         \/ Returns(th)
  BY DEF WaitTicket, ticketVars
<1>2. frames[th] # <<>> /\ FramesType /\ Top(th).at = "wait" /\ Top(th) \in Frame
  BY <1>1, TypeFacts DEF In, IInv
<1>3. t \in Tickets /\ At("future", t) \in Frame
  BY <1>2, FrameFacts DEF Frame, At
<1>4. CASE th \in Clients
  <2>1. th # processing_thread_id
    BY <1>4, ClientFacts
  <2>2. OthersStay(th)
    BY <1>1, <1>2, <1>3, <2>1, GoesToFacts, ReturnsFacts
  <2>3. Awaited' = Awaited
    BY <1>1, <1>4, <2>2, AwaitedOfClient
  <2> QED
    BY <1>1, <2>3, Unseen
<1>5. CASE th \in Workers
  <2>1. th \in InLoop /\ processing_thread_id = th /\ Executes(th)
    BY <1>2, <1>5 DEF InLoop, IInv, OneLoop, Executes
  <2>2. CASE Returns(th)
    <3>1. Awaited' = Awaited
      BY <1>1, <1>2, <2>1, <2>2, AwaitedReturns
    <3> QED
      BY <1>1, <3>1, Unseen
  <2>3. CASE t \in registry /\ ~InCurrentTicketStack(t) /\ GoesTo(th, At("check", t))
    <3>1. Awaited' = Append(Awaited, t)
      BY <1>1, <1>2, <2>1, <2>3, AwaitedNests
    <3>2. Queue!Active
      BY <2>1, ActiveFacts
    <3>3. Queue!Suspend(t)
      BY <1>1, <2>3, <3>1, <3>2
      DEF Queue!Suspend, Queue!Range, Range, InCurrentTicketStack
    <3> QED
      BY <1>3, <3>3 DEF StepOfAbstractQueue, Queue!Next
  <2> QED
    BY <1>1, <2>1, <2>2, <2>3
<1> QED
  BY <1>4, <1>5 DEF Threads

(* The promise of a discarded ticket is set.                             *)
LEMMA ResolveDiscardedRefines ==
    ASSUME IInv, AwaitedIs, AwaitedIs', NEW th \in Threads, ResolveDiscarded(th)
    PROVE  StepOfAbstractQueue
<1>1. /\ In(th, "resolve") /\ Returns(th)
      /\ UNCHANGED <<registry, processing_queue, current_ticket_stack,
                     stop_processing_requested>>
  BY DEF ResolveDiscarded
<1>2. frames[th] # <<>> /\ FramesType /\ Top(th).at = "resolve"
  BY <1>1, TypeFacts DEF In, IInv
<1>3. CASE th \in Clients
  <2>1. OthersStay(th)
    BY <1>1, <1>2, ReturnsFacts
  <2>2. Awaited' = Awaited
    BY <1>1, <1>3, <2>1, AwaitedOfClient
  <2> QED
    BY <1>1, <2>2, Unseen
<1>4. CASE th \in Workers
  <2>1. th \in InLoop
    BY <1>2, <1>4 DEF InLoop
  <2>2. Awaited' = Awaited
    BY <1>1, <1>2, <2>1, AwaitedReturns
  <2> QED
    BY <1>1, <2>2, Unseen
<1> QED
  BY <1>3, <1>4 DEF Threads

(* The waits of a client end, and the task of the loop reaches the pool. *)
LEMMA ClientReturnsRefines ==
    ASSUME IInv, AwaitedIs, AwaitedIs', NEW th \in Threads,
           \/ ScheduleProcessingLoop(th) \/ FutureReady(th)
           \/ th \in Clients /\ (StopReturns(th) \/ JoinReturns(th))
    PROVE  StepOfAbstractQueue
<1>1. /\ frames[th] # <<>> /\ Returns(th)
      /\ th \in Clients \/ Top(th).at \in {"add_task", "future"}
      /\ UNCHANGED <<registry, processing_queue, current_ticket_stack,
                     stop_processing_requested>>
  BY DEF ScheduleProcessingLoop, FutureReady, StopReturns, JoinReturns, In, ticketVars
<1>2. th \in Clients
  BY <1>1, InLoopFacts DEF Threads
<1>3. OthersStay(th)
  BY <1>1, <1>2, ClientReturns
<1>4. Awaited' = Awaited
  BY <1>1, <1>2, <1>3, AwaitedOfClient
<1> QED
  BY <1>1, <1>4, Unseen

(* The queue is stopped.                                                 *)
LEMMA StopProcessingRefines ==
    ASSUME IInv, AwaitedIs, AwaitedIs', NEW c \in Clients, StopProcessing(c)
    PROVE  StepOfAbstractQueue
<1>1. /\ frames[c] = <<>> /\ ~stop_processing_requested /\ stop_processing_requested'
      /\ Enters(c, At("idle", NoTicket))
      /\ stop_processing_requested' = TRUE
      /\ UNCHANGED <<registry, processing_queue, current_ticket_stack>>
  BY DEF StopProcessing
<1>2. At("idle", NoTicket) \in Frame
  BY DEF Frame, At
<1>3. OthersStay(c)
  BY <1>1, <1>2, ClientEnters
<1>4. Awaited' = Awaited
  BY <1>1, <1>3, AwaitedOfClient
<1>5. Queue!Stop
  BY <1>1, <1>4 DEF Queue!Stop
<1> QED
  BY <1>5 DEF StepOfAbstractQueue, Queue!Next

(* TicketQueue knows of no pool.                                         *)
LEMMA ShutdownThreadPoolRefines ==
    ASSUME IInv, AwaitedIs, AwaitedIs', NEW c \in Clients, ShutdownThreadPool(c)
    PROVE  StepOfAbstractQueue
<1>1. /\ frames[c] = <<>> /\ Enters(c, At("join", NoTicket))
      /\ UNCHANGED <<registry, processing_queue, current_ticket_stack,
                     stop_processing_requested>>
  BY DEF ShutdownThreadPool, ticketVars
<1>2. At("join", NoTicket) \in Frame
  BY DEF Frame, At
<1>3. OthersStay(c)
  BY <1>1, <1>2, ClientEnters
<1>4. Awaited' = Awaited
  BY <1>1, <1>3, AwaitedOfClient
<1> QED
  BY <1>1, <1>4, Unseen

(* A worker without the loop goes to sleep, leaves, or wakes up; and steps *)
(* of the environment.                                                     *)
LEMMA SameFramesRefines ==
    ASSUME UNCHANGED <<registry, processing_queue, current_ticket_stack,
                       stop_processing_requested, frames>>
    PROVE  StepOfAbstractQueue
<1>1. Awaited' = Awaited
  BY DEF Awaited, AwaitedBy, InLoop, Top
<1> QED
  BY <1>1, Unseen

(* Every step of the queue is one of TicketQueue, or none.               *)
LEMMA NextRefines ==
    ASSUME IInv, AwaitedIs, AwaitedIs', [Next]_vars
    PROVE  StepOfAbstractQueue
<1>1. CASE UNCHANGED vars
  BY <1>1, SameFramesRefines DEF vars, queueVars, ticketVars
<1>2. ASSUME NEW w \in Workers, InvocableReturns(w) PROVE StepOfAbstractQueue
  BY <1>2, InvocableReturnsRefines
<1>3. ASSUME NEW th \in Threads, Call(th) PROVE StepOfAbstractQueue
  BY <1>3, CreateTicketRefines, ScheduleTicketRefines, DiscardTicketRefines,
     CallWaitTicketRefines, StopProcessingRefines, ShutdownThreadPoolRefines DEF Call
<1>4. ASSUME NEW th \in Threads, Step(th) PROVE StepOfAbstractQueue
  <2>1. CASE th \in Workers /\ IdleWorker(th)
    BY <2>1, SameFramesRefines DEF IdleWorker, queueVars, ticketVars
  <2>2. CASE \/ ScheduleProcessingLoop(th) \/ FutureReady(th)
             \/ th \in Clients /\ (StopReturns(th) \/ JoinReturns(th))
    BY <2>2, ClientReturnsRefines
  <2>3. CASE ResolveDiscarded(th) \/ WaitTicket(th)
    BY <2>3, ResolveDiscardedRefines, WaitTicketRefines
  <2>4. CASE th \in Workers /\ \/ StartLoop(th) \/ SetProcessingThread(th)
                               \/ LoopCondition(th) \/ FetchTicket(th)
                               \/ FetchStopped(th)
    BY <2>4, StartLoopRefines, SetProcessingThreadRefines, LoopConditionRefines,
       FetchTicketRefines, FetchStoppedRefines
  <2>5. CASE th \in Workers /\ (Unstack(th) \/ Complete(th) \/ LeaveLoop(th))
    BY <2>5, UnstackRefines, CompleteRefines, LeaveLoopRefines
  <2> QED
    BY <1>4, <2>1, <2>2, <2>3, <2>4, <2>5 DEF Step
<1> QED
  BY <1>1, <1>2, <1>3, <1>4 DEF Next

(* The operational queue implements TicketQueue: tickets start in the      *)
(* order in which they were scheduled, one at a time; one that waits for   *)
(* another is suspended, and goes on when that one is gone; and none       *)
(* starts after stop_processing.                                           *)
THEOREM ImplementsQueue == Spec => ImplementsTicketQueue
<1>1. Init => Queue!Init
  <2>1. ASSUME Init PROVE InLoop = {}
    BY <2>1 DEF Init, InLoop, Threads
  <2> QED
    BY <2>1 DEF Init, Queue!Init, Awaited
<1>2. IInv /\ AwaitedIs /\ AwaitedIs' /\ [Next]_vars => [Queue!Next]_(Queue!ticketQueueVars)
  BY NextRefines DEF StepOfAbstractQueue
<1> QED
  BY <1>1, <1>2, Invariance, AwaitedInv, PTL DEF Spec, ImplementsTicketQueue, Queue!Spec
===============================================================================
