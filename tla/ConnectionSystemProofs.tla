----------------------- MODULE ConnectionSystemProofs -----------------------
(***************************************************************************)
(* Of the connection flow and its collaborators, for every set of          *)
(* situations: each procedure of the client is bracketed, the flow never   *)
(* waits for something that is not coming, streaming starts only when      *)
(* asked for, and, for a client that waits for the end of its aborts, a    *)
(* search and a save are answered once and a new bridge is one that was    *)
(* searched for.                                                           *)
(*                                                                         *)
(* The handlers are composed of functions on a record w of the variables.  *)
(* So are the proofs: a function that does not end a handler preserves     *)
(* Mid, whatever the state; one that ends it (Finish, StartSaving, ...)    *)
(* leads from Mid to Good, the invariant; and Outcome says of all of them  *)
(* what they do to state, queue and requests.  What the bridges are, and   *)
(* which of them is active, is left open: nothing here depends on it.      *)
(***************************************************************************)
EXTENDS ConnectionSystem, FiniteSetTheorems, SequenceTheorems, TLAPS

Fields ==
    {"state", "request", "count", "procs", "data", "startState", "background",
     "heap", "queue", "search", "small", "full", "tasks", "file", "stream",
     "monitored", "check", "told"}

\* w has the fields of Now; its retriever, the session and what was told theirs.
Shaped(w) ==
    /\ w = [f \in Fields |-> w[f]]
    /\ w.full = [f \in {"kind", "busy", "pending", "asked", "connected",
                        "refreshing", "announce", "obj"} |-> w.full[f]]
    /\ w.told = [f \in {"open", "request", "said"} |-> w.told[f]]
    /\ w.stream = [f \in {"on", "id", "ip", "sel", "owner"} |-> w.stream[f]]

Searching == {"SearchingFirst", "SearchingRetry"}

IsList(s) == s \in Seq(Range(s))
Distinct(s) == IsList(s) /\ \A i, j \in DOMAIN s : s[i] = s[j] => i = j

(***************************************************************************)
(* What is in the queue.  Of a message its handler relies on the names of  *)
(* the continuation and of the event, and on results that are a list.      *)
(***************************************************************************)
Events1 == {"BRIDGE_CONNECTED", "BRIDGE_DISCONNECTED", "STREAMING_CONNECTED",
            "STREAMING_DISCONNECTED", "BRIDGE_CHANGED", "BRIDGE_REFRESHED",
            "INVALID_EVENTING_CONNECTION"}

MessageOK(x) ==
    CASE x.m = "LoadingCompleted" ->
             x.next.k \in {"Finish", "Search", "Resume", "Retrieve", "Adopt"}
      [] x.m = "BridgeSearchCompleted" -> IsList(x.bridges)
      [] x.m = "MonitorEvent" -> x.id \in Events1
      [] x.m = "DoReset" -> x.request \in {"RESET_BRIDGE", "RESET_ALL"}
      [] OTHER -> TRUE

QueueOK(w) ==
    /\ IsList(w.queue)
    /\ \A i \in DOMAIN w.queue : MessageOK(w.queue[i])

Holds(w, m) == \E i \in DOMAIN w.queue : w.queue[i].m = m

(* With the assumption PromptUnbusy a CLIP v1 retriever is busy only while *)
(* its answer, which it owes the flow, is under way.                       *)
RetrieverOK(w) ==
    PromptUnbusy /\ w.full.kind = "v1" /\ w.full.busy
        => w.full.pending /\ w.full.asked

\* Start and Finish: what is told is of the current request.
OpenOK(w) ==
    /\ w.told.open <=> w.state # "Idle" /\ w.request # "INTERNAL"
    /\ w.told.open => w.told.request = w.request
    /\ w.state = "Idle" => w.request = "INTERNAL"

(***************************************************************************)
(* The pushlink attempts of a bridge: one is queued, has been answered, or *)
(* is scheduled under the number of the bridge.  _ongoingAuthentication-   *)
(* Count is at most the number of the bridges, of those the search found,  *)
(* that are still attempted: when it is 1 and one gives up, all have.      *)
(***************************************************************************)
Attempted(w, o) ==
    \/ \E t \in w.tasks : t.o = o /\ t.n = w.procs[o].n
    \/ \E i \in DOMAIN w.queue :
          /\ w.queue[i].m \in {"AuthenticationCompleted", "PushLinkBridge"}
          /\ w.queue[i].o = o

InTurn(w) == {o \in DOMAIN w.procs : w.procs[o].n >= 0 /\ Attempted(w, o)}

AttemptsOK(w) ==
    w.state = "Authenticating" =>
        /\ w.procs = [o \in DOMAIN w.procs |-> w.procs[o]]
        /\ IsFiniteSet(DOMAIN w.procs)
        /\ \A o \in DOMAIN w.procs : w.procs[o] \in [n : Int, tries : Int]
        /\ \A o, p \in DOMAIN w.procs :
              w.procs[o].n >= 0 /\ w.procs[o].n = w.procs[p].n => o = p
        /\ w.count \in Nat \ {0}
        /\ w.count <= Cardinality(InTurn(w))

\* WaitingHasWakeup, but for Authenticating, where AttemptsOK says more.
Awaited(w) ==
    /\ w.state = "Loading" => Holds(w, "LoadingCompleted")
    /\ w.state \in Searching => w.search \/ Holds(w, "BridgeSearchCompleted")
    /\ w.state = "Retrieving" /\ PromptUnbusy =>
          \/ w.small # {} \/ Holds(w, "SmallConfigCompleted")
          \/ w.full.pending /\ w.full.asked
          \/ Holds(w, "FullConfigCompleted")
    /\ w.state = "Saving" => Holds(w, "SavingCompleted")

Base(w) ==
    Shaped(w) /\ QueueOK(w) /\ RetrieverOK(w) /\ Distinct(w.background)

\* The inductive invariant.
Good(w) == Base(w) /\ OpenOK(w) /\ AttemptsOK(w) /\ Awaited(w)

\* In the middle of a handler that works on a procedure.
Mid(w) ==
    /\ Base(w)
    /\ w.told.open <=> w.request # "INTERNAL"
    /\ w.told.open => w.told.request = w.request

(***************************************************************************)
(* v is w but for the bridges, the file, the stream, the monitor, what was *)
(* said, and the attempts.                                                 *)
(***************************************************************************)
SameRetriever(w, v) ==
    /\ v.full.kind = w.full.kind
    /\ v.full.busy = w.full.busy
    /\ v.full.pending = w.full.pending
    /\ v.full.asked = w.full.asked
    /\ v.full.refreshing = w.full.refreshing

\* A handler that may start the stream runs.
Starts == queue # <<>> /\ Msg.m = "SavingCompleted"

\* The client is told more, unless the procedure is the monitor's; no check of
\* a bridge is begun or ended, and the stream may stop.  Only SavingCompleted
\* starts it, and says that all is done.
Tells(w, v) ==
    /\ w.told.said \subseteq v.told.said
    /\ "DONE_COMPLETED" \in v.told.said => "DONE_COMPLETED" \in w.told.said \/ Starts
    /\ w.request = "INTERNAL" => v.told.said = w.told.said
    /\ v.told.request = w.told.request
    /\ v.check = w.check
    /\ v.stream.on => w.stream.on \/ Starts

Like(w, v) ==
    /\ Shaped(v)
    /\ v.request = w.request
    /\ v.told.open = w.told.open
    /\ v.queue = w.queue
    /\ v.search = w.search
    /\ v.small = w.small
    /\ v.background = w.background
    /\ SameRetriever(w, v)
    /\ Tells(w, v)

\* Nor do state, attempts and requests differ.
Same(w, v) ==
    /\ Like(w, v)
    /\ v.state = w.state
    /\ v.count = w.count
    /\ v.procs = w.procs
    /\ v.tasks = w.tasks

(***************************************************************************)
(* How a handler that begins with w may end: the procedure ends, or goes   *)
(* on with a request.                                                      *)
(***************************************************************************)
Ends(w, v) ==
    /\ v.state = "Idle" /\ v.request = "INTERNAL"
    /\ v.told.open <=> w.told.open /\ w.request = "INTERNAL"
    /\ v.queue = w.queue
    /\ SameRetriever(w, v)

Posts(w, v, s, m) ==
    /\ v.state = s
    /\ \E x : x.m = m /\ MessageOK(x) /\ v.queue = Append(w.queue, x)
    /\ SameRetriever(w, v)

AsksSmall(w, v) ==
    /\ v.state = "Retrieving" /\ v.small # {}
    /\ v.queue = w.queue
    /\ SameRetriever(w, v)

AsksFull(w, v) ==
    /\ v.state = "Retrieving"
    /\ \/ v.queue = w.queue /\ (PromptUnbusy => v.full.pending /\ v.full.asked)
       \/ \E x : x.m = "FullConfigCompleted" /\ v.queue = Append(w.queue, x)
    /\ ~w.full.pending /\ v.full.pending => v.full.asked /\ v.queue = w.queue
    /\ v.full.refreshing => w.full.refreshing
    /\ RetrieverOK(v)

Authenticates(w, v, os) ==
    /\ v.state = "Authenticating"
    /\ Distinct(os) /\ os # <<>>
    /\ v.count = Len(os)
    /\ v.procs = [o \in Range(os) |->
                    [n |-> (CHOOSE i \in DOMAIN os : os[i] = o) - 1, tries |-> 0]]
    /\ v.queue = w.queue \o [i \in DOMAIN os |->
                               [m |-> "AuthenticationCompleted", o |-> os[i]]]
    /\ SameRetriever(w, v)

Searches(w, v) ==
    /\ v.state \in Searching /\ v.search = TRUE
    /\ v.queue = w.queue
    /\ SameRetriever(w, v)

Outcome(w, v) ==
    /\ Shaped(v)
    /\ Distinct(v.background)
    /\ Tells(w, v)
    /\ v.search # w.search => Searches(w, v)
    /\ v.small # w.small => AsksSmall(w, v)
    /\ \/ Ends(w, v)
       \/ /\ v.request = w.request
          /\ v.told.open = w.told.open
          /\ \/ Posts(w, v, "Loading", "LoadingCompleted")
             \/ Posts(w, v, "Saving", "SavingCompleted")
             \/ Searches(w, v)
             \/ AsksSmall(w, v)
             \/ AsksFull(w, v)
             \/ \E os : Authenticates(w, v, os)

(***************************************************************************)
(* The invariant of OneAnswer, for a client that waits for the end         *)
(* of an abort.  A result of a load, a search or a save is queued only     *)
(* while the flow waits for it, or when it is Idle and will drop it before *)
(* it accepts another procedure.                                           *)
(***************************************************************************)
IsCall(x) == x.m \in ProcedureCalls

AtMostOne(w, m) ==
    \A i, j \in DOMAIN w.queue : w.queue[i].m = m /\ w.queue[j].m = m => i = j

DroppedFirst(w, i) ==
    w.state = "Idle" /\ \A j \in DOMAIN w.queue : j < i => ~IsCall(w.queue[j])

AbortComesLast(w) ==
    \A i, j \in DOMAIN w.queue :
        i < j /\ w.queue[i].m = "DoAbort" => ~IsCall(w.queue[j])

InPlace(w) ==
    /\ \A i \in DOMAIN w.queue :
          /\ w.queue[i].m = "LoadingCompleted" =>
                w.state = "Loading" \/ DroppedFirst(w, i)
          /\ w.queue[i].m = "BridgeSearchCompleted" =>
                (w.state \in Searching /\ ~w.search) \/ DroppedFirst(w, i)
          /\ w.queue[i].m = "SavingCompleted" =>
                w.state = "Saving" \/ DroppedFirst(w, i)
    /\ w.state = "Loading" => AtMostOne(w, "LoadingCompleted")
    /\ w.state \in Searching => AtMostOne(w, "BridgeSearchCompleted")
    /\ w.state = "Saving" => AtMostOne(w, "SavingCompleted")
    /\ w.search => w.state \in Searching
    /\ AbortComesLast(w)

\* In the middle of a handler: nothing is left that could answer.
Clean(w) ==
    /\ ~w.search
    /\ \A i \in DOMAIN w.queue :
          w.queue[i].m \notin {"LoadingCompleted", "BridgeSearchCompleted",
                               "SavingCompleted"}
    /\ AbortComesLast(w)

(***************************************************************************)
(* ConnectToNewBridge searches as soon as what is stored has been loaded,  *)
(* and nothing is completed before.                                        *)
(***************************************************************************)
Sought(w) ==
    w.told.request = "CONNECT_NEW" =>
        \/ "START_SEARCHING" \in w.told.said
        \/ /\ "DONE_COMPLETED" \notin w.told.said
           /\ w.request = "CONNECT_NEW" =>
                 /\ w.state = "Loading"
                 /\ \A i \in DOMAIN w.queue :
                       w.queue[i].m = "LoadingCompleted" => w.queue[i].next.k = "Search"

\* In the middle of a handler other than those two.
Found(w) ==
    w.told.request = "CONNECT_NEW" =>
        \/ "START_SEARCHING" \in w.told.said
        \/ "DONE_COMPLETED" \notin w.told.said /\ w.request = "INTERNAL"

(***************************************************************************)
(* The invariant of StreamStartsInProcedure: what the flow asked for is    *)
(* one thing at a time, and is over when a procedure is.                   *)
(***************************************************************************)
Undisturbed == MaxChecks = 0 /\ \A c \in FirstCalls \cup Calls : c.m # "DoAbort"

Retrieved(x) == x.m \in {"SmallConfigCompleted", "FullConfigCompleted"}

\* An event of the retriever comes with the completion, which is due.
OneRetrieval(w) ==
    /\ \A i \in DOMAIN w.queue : Retrieved(w.queue[i]) =>
          w.state = "Retrieving" /\ w.small = {} /\ ~w.full.pending
    /\ \A i, j \in DOMAIN w.queue :
          Retrieved(w.queue[i]) /\ Retrieved(w.queue[j]) => i = j
    /\ w.small # {} => w.state = "Retrieving" /\ ~w.full.pending
    /\ w.full.pending => w.state = "Retrieving" /\ w.full.asked
    /\ ~w.full.refreshing
    /\ \A i \in DOMAIN w.queue : w.queue[i].m = "MonitorEvent" =>
          \E j \in DOMAIN w.queue : i < j /\ w.queue[j].m = "FullConfigCompleted"

Ready(w) ==
    /\ w.check = NoCheck
    /\ w.state # "Idle" => w.request # "INTERNAL"
    /\ AtMostOne(w, "SavingCompleted")
    /\ \A i \in DOMAIN w.queue : /\ w.queue[i].m # "DoAbort"
                                 /\ w.queue[i].m = "SavingCompleted" => w.state = "Saving"
    /\ OneRetrieval(w)

\* In the middle of a handler.
Rests(w) ==
    /\ w.check = NoCheck
    /\ w.request # "INTERNAL"
    /\ w.small = {} /\ ~w.full.pending /\ ~w.full.refreshing
    /\ \A i \in DOMAIN w.queue :
          w.queue[i].m \notin {"SavingCompleted", "SmallConfigCompleted",
                               "FullConfigCompleted", "MonitorEvent", "DoAbort"}

(***************************************************************************)
(* No event with which the monitor begins something: a bridge that has     *)
(* come back is asked for its configuration, what was refreshed is saved.  *)
(***************************************************************************)
NothingBegun ==
    \A i \in DOMAIN queue : queue[i].m = "MonitorEvent" =>
        queue[i].id \notin {"BRIDGE_CONNECTED", "BRIDGE_REFRESHED"}

IInv == setup \in DOMAIN Setups /\ checks \in Nat /\ Good(Now)
-----------------------------------------------------------------------------
(* Lists. *)

(* A message is queued.                                                    *)
LEMMA ListAppend ==
    ASSUME NEW q, IsList(q), NEW x
    PROVE  /\ IsList(Append(q, x))
           /\ Len(q) \in Nat /\ DOMAIN q = 1 .. Len(q)
           /\ DOMAIN Append(q, x) = 1 .. Len(q) + 1
           /\ Append(q, x)[Len(q) + 1] = x
           /\ \A i \in DOMAIN q : Append(q, x)[i] = q[i]
<1> DEFINE S == Range(q) \cup {x}
<1>1. q \in Seq(S) /\ x \in S
  <2>1. q \in Seq(Range(q))
    BY DEF IsList
  <2> QED
    BY <2>1, SeqMonotonic
<1>2. /\ Append(q, x) \in Seq(S) /\ Len(Append(q, x)) = Len(q) + 1
      /\ \A i \in 1 .. Len(q) : Append(q, x)[i] = q[i]
      /\ Append(q, x)[Len(q) + 1] = x
  BY <1>1, AppendProperties
<1>3. Len(q) \in Nat /\ DOMAIN q = 1 .. Len(q) /\ DOMAIN Append(q, x) = 1 .. Len(q) + 1
  <2> HIDE DEF S
  <2> QED
    BY <1>1, <1>2, LenProperties
<1>4. IsList(Append(q, x))
  <2>1. Append(q, x) \in Seq(Range(Append(q, x)))
    BY <1>2, SeqOfRange
  <2> QED
    BY <2>1 DEF IsList
<1> QED
  BY <1>2, <1>3, <1>4

(* The head of the queue is taken.                                         *)
LEMMA ListTail ==
    ASSUME NEW q, IsList(q), q # <<>>
    PROVE  /\ IsList(Tail(q))
           /\ Len(q) \in Nat \ {0} /\ DOMAIN q = 1 .. Len(q)
           /\ Head(q) = q[1]
           /\ DOMAIN Tail(q) = 1 .. Len(q) - 1
           /\ \A i \in DOMAIN Tail(q) : Tail(q)[i] = q[i + 1]
<1>1. q \in Seq(Range(q))
  BY DEF IsList
<1>2. /\ Tail(q) \in Seq(Range(q)) /\ Len(Tail(q)) = Len(q) - 1
      /\ \A i \in 1 .. Len(Tail(q)) : Tail(q)[i] = q[i + 1]
  BY <1>1, HeadTailProperties
<1>3. /\ Len(q) \in Nat \ {0} /\ DOMAIN q = 1 .. Len(q)
      /\ DOMAIN Tail(q) = 1 .. Len(q) - 1
  BY <1>1, <1>2, LenProperties, EmptySeq
<1>4. Tail(q) \in Seq(Range(Tail(q)))
  BY <1>2, SeqOfRange
<1>5. Head(q) = q[1]
  BY <1>1
<1> QED
  BY <1>2, <1>3, <1>4, <1>5 DEF IsList

LEMMA ListConcat ==
    ASSUME NEW q, IsList(q), NEW s, IsList(s), NEW r, r = q \o s
    PROVE  /\ IsList(r)
           /\ Len(q) \in Nat /\ DOMAIN q = 1 .. Len(q)
           /\ Len(s) \in Nat /\ DOMAIN s = 1 .. Len(s)
           /\ DOMAIN r = 1 .. Len(q) + Len(s)
           /\ \A i \in DOMAIN q : r[i] = q[i]
           /\ \A i \in DOMAIN s : r[Len(q) + i] = s[i]
<1> DEFINE S == Range(q) \cup Range(s)
<1>1. q \in Seq(S) /\ s \in Seq(S)
  <2>1. q \in Seq(Range(q)) /\ s \in Seq(Range(s))
    BY DEF IsList
  <2> QED
    BY <2>1, SeqMonotonic
<1> HIDE DEF S
<1>2. Len(q) \in Nat /\ DOMAIN q = 1 .. Len(q) /\ Len(s) \in Nat /\ DOMAIN s = 1 .. Len(s)
  BY <1>1, LenProperties
<1>3. /\ r \in Seq(S) /\ Len(r) = Len(q) + Len(s)
      /\ \A i \in 1 .. Len(q) + Len(s) :
            r[i] = IF i <= Len(q) THEN q[i] ELSE s[i - Len(q)]
  BY <1>1, ConcatProperties
<1>4. DOMAIN r = 1 .. Len(q) + Len(s)
  BY <1>3, LenProperties
<1>5. IsList(r)
  BY <1>3, SeqOfRange DEF IsList
<1>6. \A i \in DOMAIN q : r[i] = q[i]
  BY <1>2, <1>3
<1>7. \A i \in DOMAIN s : r[Len(q) + i] = s[i]
  BY <1>2, <1>3
<1> QED
  BY <1>2, <1>4, <1>5, <1>6, <1>7

(* Any function on 1 .. n is a list.                                       *)
LEMMA ListOf ==
    ASSUME NEW n \in Nat, NEW s, DOMAIN s = 1 .. n, s = [i \in 1 .. n |-> s[i]]
    PROVE  IsList(s) /\ Len(s) = n
<1>1. \A i \in 1 .. n : s[i] \in Range(s)
  BY DEF Range
<1>2. s \in [1 .. n -> Range(s)]
  BY <1>1
<1>3. s \in Seq(Range(s))
  BY <1>2
<1> QED
  BY <1>2, <1>3, LenProperties DEF IsList

-----------------------------------------------------------------------------
(* The functions that do not end a handler. *)

LEMMA TellsTrans ==
    ASSUME NEW w, NEW v, NEW u, Tells(w, v), Tells(v, u), v.request = w.request
    PROVE  Tells(w, u)
BY DEF Tells

LEMMA SameRefl == ASSUME NEW w, Shaped(w) PROVE Same(w, w)
BY DEF Same, Like, SameRetriever, Tells

LEMMA LikeTrans ==
    ASSUME NEW w, NEW v, NEW u, Like(w, v), Like(v, u)
    PROVE  Like(w, u)
BY TellsTrans DEF Like, SameRetriever

LEMMA SameTrans ==
    ASSUME NEW w, NEW v, NEW u, Same(w, v), Same(v, u)
    PROVE  Same(w, u)
BY LikeTrans DEF Same

LEMMA SameIsLike ==
    ASSUME NEW w, NEW v, Same(w, v)
    PROVE  Like(w, v) /\ Shaped(v)
BY DEF Same, Like

(* OnBridgeDisconnect leaves the flags of the fetch alone.                 *)
LEMMA DisconnectedRetriever ==
    ASSUME NEW r,
           r = [f \in {"kind", "busy", "pending", "asked", "connected",
                       "refreshing", "announce", "obj"} |-> r[f]],
           NEW s, s = r \/ s = OnBridgeDisconnect(r)
    PROVE  /\ s = [f \in {"kind", "busy", "pending", "asked", "connected",
                          "refreshing", "announce", "obj"} |-> s[f]]
           /\ s.kind = r.kind /\ s.busy = r.busy
           /\ s.pending = r.pending /\ s.asked = r.asked
           /\ s.refreshing = r.refreshing
BY DEF OnBridgeDisconnect

(* A message that is neither the start nor the end of a procedure.         *)
LEMMA SayAsSame ==
    ASSUME NEW w, Shaped(w), NEW req \in {w.request, "INTERNAL"}, NEW id, NEW o,
           id \notin {"USERPROCEDURE_STARTED", "USERPROCEDURE_FINISHED"},
           id = "DONE_COMPLETED" => Starts
    PROVE  Same(w, SayAs(w, req, id, o))
<1> DEFINE r == IF id = "BRIDGE_DISCONNECTED" THEN OnBridgeDisconnect(w.full)
                ELSE w.full
           t == Heard(w.told, req, id)
           n == Watched(w, req, id, o)
<1>1. SayAs(w, req, id, o) = [w EXCEPT !.monitored = n, !.told = t, !.full = r]
  BY DEF SayAs
<1>2. /\ r = [f \in {"kind", "busy", "pending", "asked", "connected",
                     "refreshing", "announce", "obj"} |-> r[f]]
      /\ r.kind = w.full.kind /\ r.busy = w.full.busy
      /\ r.pending = w.full.pending /\ r.asked = w.full.asked
      /\ r.refreshing = w.full.refreshing
  BY DisconnectedRetriever DEF Shaped
<1>3. /\ t = [f \in {"open", "request", "said"} |-> t[f]] /\ t.open = w.told.open
      /\ t.request = w.told.request /\ w.told.said \subseteq t.said
      /\ w.request = "INTERNAL" => t.said = w.told.said
      /\ "DONE_COMPLETED" \in t.said => "DONE_COMPLETED" \in w.told.said \/ Starts
  BY DEF Heard, Shaped
<1> HIDE DEF r, t, n
<1>4. ASSUME NEW v, v = [w EXCEPT !.monitored = n, !.told = t, !.full = r]
      PROVE  Same(w, v)
  BY <1>2, <1>3, <1>4 DEF Same, Like, Shaped, SameRetriever, Tells, Fields
<1> QED
  BY <1>1, <1>4

LEMMA SaySame ==
    ASSUME NEW w, Shaped(w), NEW id,
           id \notin {"USERPROCEDURE_STARTED", "USERPROCEDURE_FINISHED"},
           id = "DONE_COMPLETED" => Starts
    PROVE  Same(w, Say(w, id))
BY SayAsSame DEF Say

(* A milestone of a user procedure is remembered.                          *)
LEMMA SaidAtLast ==
    ASSUME NEW w, Shaped(w), w.request # "INTERNAL", NEW id \in Milestones
    PROVE  Say(w, id).told.said = w.told.said \cup {id}
<1> DEFINE t == Heard(w.told, w.request, id)
<1>1. t.said = w.told.said \cup {id}
  BY DEF Heard, Milestones, Shaped
<1>2. Say(w, id).told = t
  BY DEF Say, SayAs, Shaped, Fields
<1> QED
  BY <1>1, <1>2

(* Only bridges are written.                                               *)
LEMMA HeapSame ==
    ASSUME NEW w, Shaped(w), NEW h
    PROVE  Same(w, [w EXCEPT !.heap = h])
BY DEF Same, Like, Shaped, SameRetriever, Tells, Fields

\* Like(w, v) does not speak of the attempts.
LEMMA AttemptsLike ==
    ASSUME NEW w, Shaped(w), NEW v, NEW x,
           \/ v = [w EXCEPT !.count = x]
           \/ v = [w EXCEPT !.procs = x]
           \/ v = [w EXCEPT !.tasks = x]
    PROVE  /\ Like(w, v) /\ Shaped(v) /\ v.state = w.state
           /\ v = [w EXCEPT !.count = x] =>
                 v.count = x /\ v.procs = w.procs /\ v.tasks = w.tasks
           /\ v = [w EXCEPT !.procs = x] =>
                 v.procs = x /\ v.count = w.count /\ v.tasks = w.tasks
           /\ v = [w EXCEPT !.tasks = x] =>
                 v.tasks = x /\ v.count = w.count /\ v.procs = w.procs
<1>1. /\ Shaped(v) /\ v.state = w.state /\ v.request = w.request /\ v.told = w.told
      /\ v.queue = w.queue /\ v.search = w.search /\ v.small = w.small
      /\ v.background = w.background /\ v.full = w.full
      /\ v.check = w.check /\ v.stream = w.stream
  BY DEF Shaped, Fields
<1>2. /\ v = [w EXCEPT !.count = x] =>
            v.count = x /\ v.procs = w.procs /\ v.tasks = w.tasks
      /\ v = [w EXCEPT !.procs = x] =>
            v.procs = x /\ v.count = w.count /\ v.tasks = w.tasks
      /\ v = [w EXCEPT !.tasks = x] =>
            v.tasks = x /\ v.count = w.count /\ v.procs = w.procs
  BY DEF Shaped, Fields
<1> QED
  BY <1>1, <1>2 DEF Like, SameRetriever, Tells

LEMMA DataSame ==
    ASSUME NEW w, Shaped(w), NEW d
    PROVE  Same(w, [w EXCEPT !.data = d])
BY DEF Same, Like, Shaped, SameRetriever, Tells, Fields

LEMMA CreateSame ==
    ASSUME NEW w, Shaped(w), NEW os, NEW bs
    PROVE  Same(w, Create(w, os, bs))
BY HeapSame DEF Create

LEMMA SetActiveSame ==
    ASSUME NEW w, Shaped(w), NEW o
    PROVE  Same(w, SetActive(w, o))
BY DataSame DEF SetActive

LEMMA StarterStopSame ==
    ASSUME NEW w, Shaped(w), NEW o, NEW answer
    PROVE  Same(w, StarterStop(w, o, answer))
<1> DEFINE b == AfterPut(w.heap[o], answer)
           h == [w.heap EXCEPT ![o] = IF answer = "ok" THEN [b EXCEPT !.mine = @ \ {b.sel}]
                                      ELSE b]
<1>1. StarterStop(w, o, answer) = [w EXCEPT !.heap = h]
  BY DEF StarterStop
<1> HIDE DEF h
<1> QED
  BY <1>1, HeapSame

LEMMA StarterStopCopySame ==
    ASSUME NEW w, Shaped(w), NEW answer
    PROVE  Same(w, StarterStopCopy(w, answer))
<1>1. CASE w.stream.owner # 0 /\ answer \in {"ok", "nogroup"}
  <2> DEFINE own == w.stream.owner
             h == [w.heap EXCEPT ![own].mine = @ \ {w.stream.sel}]
             u == [w EXCEPT !.heap = h]
             g == [u.heap EXCEPT ![own].groups =
                      IF answer = "ok" THEN @ ELSE @ \ {w.stream.sel}]
  <2>1. StarterStopCopy(w, answer) = [u EXCEPT !.heap = g]
    BY <1>1 DEF StarterStopCopy
  <2> HIDE DEF h
  <2>2. Same(w, u) /\ Shaped(u)
    BY HeapSame, SameIsLike
  <2> HIDE DEF u, g
  <2> QED
    BY <2>1, <2>2, HeapSame, SameTrans
<1>2. CASE ~(w.stream.owner # 0 /\ answer \in {"ok", "nogroup"})
  <2>1. StarterStopCopy(w, answer) = w
    BY <1>2 DEF StarterStopCopy
  <2> QED
    BY <2>1, SameRefl
<1> QED
  BY <1>1, <1>2

LEMMA StreamSame ==
    ASSUME NEW w, Shaped(w), NEW s,
           s = [f \in {"on", "id", "ip", "sel", "owner"} |-> s[f]],
           s.on => w.stream.on \/ Starts
    PROVE  Same(w, [w EXCEPT !.stream = s])
BY DEF Same, Like, Shaped, SameRetriever, Tells, Fields

LEMMA SessionEndsSame ==
    ASSUME NEW w, Shaped(w)
    PROVE  Same(w, [w EXCEPT !.stream.on = FALSE])
<1> DEFINE s == [w.stream EXCEPT !.on = FALSE]
<1>1. s = [f \in {"on", "id", "ip", "sel", "owner"} |-> s[f]] /\ s.on = FALSE
  BY DEF Shaped
<1> HIDE DEF s
<1>2. Same(w, [w EXCEPT !.stream = s])
  BY <1>1, StreamSame
<1> QED
  BY <1>2 DEF s

(* Stream::Stop and Stream::Start change bridges and the session.          *)
LEMMA StopSessionSame ==
    ASSUME NEW w, Shaped(w), NEW o, NEW answer
    PROVE  Same(w, StopSession(w, o, answer))
<1> DEFINE off == [w EXCEPT !.stream.on = FALSE]
           copy == IF IsSameBridgeAndGroup(w, o) THEN off
                   ELSE StarterStopCopy(off, answer)
<1>1. Same(w, off) /\ Shaped(off)
  BY SessionEndsSame, SameIsLike
<1> HIDE DEF off
<1>2. Same(w, copy) /\ Shaped(copy)
  BY <1>1, StarterStopCopySame, SameTrans, SameIsLike
<1>3. StopSession(w, o, answer) \in {w, copy, StarterStop(copy, o, answer)}
  BY DEF StopSession, off
<1> HIDE DEF copy
<1>4. Same(w, StarterStop(copy, o, answer))
  BY <1>2, StarterStopSame, SameTrans
<1> QED
  BY <1>2, <1>3, <1>4, SameRefl

LEMMA StopIfStreamingSame ==
    ASSUME NEW w, Shaped(w), NEW answer
    PROVE  Same(w, StopIfStreaming(w, answer))
BY StopSessionSame, SameRefl DEF StopIfStreaming

LEMMA StopOwnSessionSame ==
    ASSUME NEW w, Shaped(w), NEW answer
    PROVE  Same(w, StopOwnSession(w, answer))
<1> DEFINE off == [w EXCEPT !.stream.on = FALSE]
<1>1. Same(w, off) /\ Shaped(off)
  BY SessionEndsSame, SameIsLike
<1>2. StopOwnSession(w, answer) \in {off, StarterStopCopy(off, answer)}
  BY DEF StopOwnSession
<1> HIDE DEF off
<1>3. Same(w, StarterStopCopy(off, answer))
  BY <1>1, StarterStopCopySame, SameTrans
<1> QED
  BY <1>1, <1>2, <1>3

LEMMA StarterStartSame ==
    ASSUME NEW w, Shaped(w), NEW o, NEW answer
    PROVE  Same(w, StarterStart(w, o, answer))
<1> DEFINE b == AfterPut(w.heap[o], answer)
           h == [w.heap EXCEPT ![o] = IF answer = "ok"
                                      THEN [b EXCEPT !.mine = @ \cup {b.sel}]
                                      ELSE b]
<1>1. StarterStart(w, o, answer) = [w EXCEPT !.heap = h]
  BY DEF StarterStart
<1> HIDE DEF h
<1> QED
  BY <1>1, HeapSame

LEMMA StartStreamingSessionSame ==
    ASSUME NEW w, Shaped(w), Starts, NEW o, NEW go, NEW stop
    PROVE  Same(w, StartStreamingSession(w, o, go, stop).w)
<1> DEFINE s == StarterStart(w, o, IF go = "noport" THEN "ok" ELSE go)
           b == s.heap[o]
           x == [on |-> TRUE, id |-> b.id, ip |-> b.ip, sel |-> b.sel, owner |-> o]
           running == [s EXCEPT !.stream = x]
<1>1. Same(w, s) /\ Shaped(s)
  BY StarterStartSame, SameIsLike
<1>2. StartStreamingSession(w, o, go, stop).w
          \in {running, StopOwnSession(running, stop), s}
  BY DEF StartStreamingSession
<1> DEFINE y == x
<1>5. running = [s EXCEPT !.stream = y] /\ y = [f \in {"on", "id", "ip", "sel", "owner"} |-> y[f]]
  OBVIOUS
<1> HIDE DEF s, x, y
<1>3. Same(w, running) /\ Shaped(running)
  BY <1>1, <1>5, StreamSame, SameTrans, SameIsLike
<1> HIDE DEF running
<1>4. Same(w, StopOwnSession(running, stop))
  BY <1>3, StopOwnSessionSame, SameTrans
<1> QED
  BY <1>1, <1>2, <1>3, <1>4

LEMMA StartSessionSame ==
    ASSUME NEW w, Shaped(w), Starts, NEW o, NEW go, NEW stop
    PROVE  Same(w, StartSession(w, o, go, stop).w)
<1> DEFINE own == StopOwnSession(w, stop)
           ended == [own EXCEPT !.heap[o].busy = FALSE]
           released == IF IsStreaming(ended.heap[o]) THEN StarterStop(ended, o, stop)
                       ELSE ended
<1>1. Same(w, own) /\ Shaped(own)
  BY StopOwnSessionSame, SameIsLike
<1>2. StartSession(w, o, go, stop).w
          \in {w, released, StartStreamingSession(released, o, go, stop).w}
  BY DEF StartSession
<1> HIDE DEF own
<1>3. Same(w, ended) /\ Shaped(ended)
  BY <1>1, HeapSame, SameTrans, SameIsLike
<1> HIDE DEF ended
<1>4. Same(w, released) /\ Shaped(released)
  BY <1>3, StarterStopSame, SameTrans, SameIsLike
<1> HIDE DEF released
<1>5. Same(w, StartStreamingSession(released, o, go, stop).w)
  BY <1>4, StartStreamingSessionSame, SameTrans
<1> QED
  BY <1>2, <1>4, <1>5, SameRefl

LEMMA ActionRequiredMessage ==
    ASSUME NEW b
    PROVE  ActionRequired(GetStatus(b))
               \notin {"USERPROCEDURE_STARTED", "USERPROCEDURE_FINISHED",
                       "DONE_COMPLETED"}
BY DEF ActionRequired, GetStatus

LEMMA ReportActionRequiredSame ==
    ASSUME NEW w, Shaped(w)
    PROVE  Same(w, ReportActionRequired(w))
<1> DEFINE done == Say(w, "DONE_ACTION_REQUIRED")
           id == ActionRequired(GetStatus(ActiveBridge(done)))
<1>1. Same(w, done) /\ Shaped(done)
  BY SaySame, SameIsLike
<1>2. id \notin {"USERPROCEDURE_STARTED", "USERPROCEDURE_FINISHED", "DONE_COMPLETED"}
  BY ActionRequiredMessage
<1>3. ReportActionRequired(w) = Say(done, id)
  BY DEF ReportActionRequired
<1> HIDE DEF done, id
<1> QED
  BY <1>1, <1>2, <1>3, SaySame, SameTrans

LEMMA FullConfigStoredSame ==
    ASSUME NEW w, Shaped(w)
    PROVE  Same(w, FullConfigStored(w))
<1> DEFINE h == [w.heap EXCEPT ![Active(w.data)] = SelectOnlyGroup(ActiveBridge(w))]
<1>1. FullConfigStored(w) \in {w, ReportActionRequired(w), [w EXCEPT !.heap = h]}
  BY DEF FullConfigStored
<1> HIDE DEF h
<1> QED
  BY <1>1, SameRefl, ReportActionRequiredSame, HeapSame

-----------------------------------------------------------------------------
(* The beginning and the ends of a handler. *)

LEMMA LikeBase ==
    ASSUME NEW w, NEW v, Base(w), Like(w, v)
    PROVE  Base(v)
BY DEF Base, Like, QueueOK, RetrieverOK, SameRetriever

LEMMA LikeMid ==
    ASSUME NEW w, NEW v, Mid(w), Like(w, v)
    PROVE  Mid(v) /\ Shaped(v)
BY LikeBase DEF Mid, Like, Tells

LEMMA LikeClean ==
    ASSUME NEW w, NEW v, Clean(w), Like(w, v)
    PROVE  Clean(v)
BY DEF Clean, Like, AbortComesLast

LEMMA LikeFound ==
    ASSUME NEW w, NEW v, Found(w), Like(w, v)
    PROVE  Found(v)
BY DEF Found, Like, Tells

LEMMA LikeRests ==
    ASSUME NEW w, NEW v, Rests(w), Like(w, v)
    PROVE  Rests(v)
BY DEF Rests, Like, Tells, SameRetriever

(* The end of a composition.                                               *)
LEMMA LikeOutcome ==
    ASSUME NEW w, NEW v, NEW u, Like(w, v), Outcome(v, u)
    PROVE  Outcome(w, u)
<1>1. SameRetriever(v, u) => SameRetriever(w, u)
  BY DEF Like, SameRetriever
<1>2. Searches(v, u) => Searches(w, u)
  BY <1>1 DEF Like, Searches
<1>3. AsksSmall(v, u) => AsksSmall(w, u)
  BY <1>1 DEF Like, AsksSmall
<1>4. AsksFull(v, u) => AsksFull(w, u)
  BY DEF Like, AsksFull, SameRetriever
<1>5. \A s, m : Posts(v, u, s, m) => Posts(w, u, s, m)
  BY <1>1 DEF Like, Posts
<1>6. \A os : Authenticates(v, u, os) => Authenticates(w, u, os)
  BY <1>1 DEF Like, Authenticates
<1>7. Ends(v, u) => Ends(w, u)
  BY <1>1 DEF Like, Ends
<1>8. /\ v.search = w.search /\ v.request = w.request /\ v.told.open = w.told.open
      /\ v.small = w.small
  BY DEF Like
<1>9. Tells(w, u)
  BY TellsTrans DEF Like, Outcome
<1> QED
  BY <1>2, <1>3, <1>4, <1>5, <1>6, <1>7, <1>8, <1>9 DEF Outcome

LEMMA BaseShaped == ASSUME NEW w, Base(w) PROVE Shaped(w) /\ Distinct(w.background)
BY DEF Base

LEMMA MidShaped == ASSUME NEW w, Mid(w) PROVE Shaped(w) /\ Distinct(w.background)
BY DEF Mid, Base

(* Start: USERPROCEDURE_STARTED is told of every procedure of the client.  *)
LEMMA BeginMid ==
    ASSUME NEW w, Base(w), ~w.told.open, NEW req
    PROVE  /\ Mid(Begin(w, req)) /\ Shaped(Begin(w, req))
           /\ Begin(w, req).queue = w.queue
           /\ Begin(w, req).search = w.search
           /\ Begin(w, req).state = w.state
           /\ Begin(w, req).request = req
           /\ Begin(w, req).small = w.small
           /\ Begin(w, req).check = w.check
           /\ SameRetriever(w, Begin(w, req))
           /\ Begin(w, req).stream.on => w.stream.on \/ Starts
           /\ req = "INTERNAL" => Begin(w, req).told = w.told
           /\ ~Starts /\ req # "INTERNAL" =>
                 "DONE_COMPLETED" \notin Begin(w, req).told.said
<1> DEFINE asked == [w EXCEPT !.request = req]
           n == Watched(asked, req, "USERPROCEDURE_STARTED", Active(asked.data))
           t == [open |-> TRUE, request |-> req, said |-> {}]
           begun == [asked EXCEPT !.monitored = n, !.told = t]
           clone == Fresh(begun, 1)
           made == Create(begun, clone, <<ActiveBridge(begun)>>)
<1>1. Shaped(w) /\ Distinct(w.background)
  BY BaseShaped
<1>2. /\ Shaped(asked) /\ asked.request = req /\ asked.told = w.told
      /\ asked.queue = w.queue /\ asked.search = w.search /\ asked.state = w.state
      /\ asked.background = w.background /\ SameRetriever(w, asked)
      /\ asked.full = w.full /\ asked.small = w.small /\ asked.check = w.check
      /\ asked.stream = w.stream
  BY <1>1 DEF Shaped, Fields, SameRetriever
<1>3. Base(asked)
  BY <1>2 DEF Base, QueueOK, RetrieverOK, SameRetriever
<1>4. CASE req = "INTERNAL"
  <2>1. Begin(w, req) = asked
    BY <1>4 DEF Begin
  <2> HIDE DEF asked
  <2> QED
    BY <1>2, <1>3, <1>4, <2>1 DEF Mid
<1>5. CASE req # "INTERNAL"
  <2> HIDE DEF asked
  <2>1. Say(asked, "USERPROCEDURE_STARTED") = [asked EXCEPT !.monitored = n, !.told = t,
                                                            !.full = asked.full]
    <3> DEFINE h == Heard(asked.told, req, "USERPROCEDURE_STARTED")
    <3>1. Say(asked, "USERPROCEDURE_STARTED") = [asked EXCEPT !.monitored = n, !.told = h,
                                                              !.full = asked.full]
      <4>1. "USERPROCEDURE_STARTED" # "BRIDGE_DISCONNECTED"
        OBVIOUS
      <4> QED
        BY <1>2, <4>1, Zenon DEF Say, SayAs
    <3>2. h = t
      BY DEF Heard, Milestones
    <3> HIDE DEF h, t, n
    <3> QED
      BY <3>1, <3>2
  <2>2. [asked EXCEPT !.monitored = n, !.told = t, !.full = asked.full] = begun
    <3> HIDE DEF n, t
    <3> QED
      BY <1>2 DEF Shaped, Fields
  <2>3. Begin(w, req) = [made EXCEPT !.startState = clone[1]]
    BY <1>5, <2>1, <2>2 DEF Begin, asked
  <2>4. /\ Shaped(begun) /\ begun.told.open = TRUE /\ begun.request = req
        /\ begun.queue = w.queue /\ begun.search = w.search /\ begun.state = w.state
        /\ begun.background = w.background /\ begun.full = asked.full
        /\ begun.told.request = req /\ begun.told.said = {} /\ begun.small = w.small
        /\ begun.check = w.check /\ begun.stream = w.stream
    <3>1. /\ t = [f \in {"open", "request", "said"} |-> t[f]] /\ t.open = TRUE
          /\ t.request = req /\ t.said = {}
      OBVIOUS
    <3> HIDE DEF n, t
    <3> QED
      BY <1>2, <3>1 DEF Shaped, Fields
  <2> HIDE DEF begun
  <2>5. Base(begun)
    BY <1>2, <1>3, <2>4 DEF Base, QueueOK, RetrieverOK
  <2>6. Mid(begun)
    BY <1>5, <2>4, <2>5 DEF Mid
  <2>7. Same(begun, made) /\ Shaped(made)
    BY <2>4, CreateSame, SameIsLike
  <2> HIDE DEF made
  <2>8. Same(made, [made EXCEPT !.startState = clone[1]])
    <3> DEFINE c == clone[1]
    <3> HIDE DEF c
    <3> QED
      BY <2>7 DEF Same, Like, Shaped, SameRetriever, Tells, Fields
  <2> HIDE DEF clone
  <2>9. Same(begun, Begin(w, req))
    BY <2>3, <2>7, <2>8, SameTrans
  <2> HIDE DEF Begin
  <2> QED
    BY <1>2, <1>5, <2>4, <2>6, <2>9, LikeMid, SameIsLike
       DEF Same, Like, Tells, SameRetriever
<1> QED
  BY <1>4, <1>5

(* Finish: and USERPROCEDURE_FINISHED.                                     *)
LEMMA FinishFacts ==
    ASSUME NEW w, Shaped(w)
    PROVE  /\ Shaped(Finish(w))
           /\ Ends(w, Finish(w))
           /\ Finish(w).search = w.search
           /\ Finish(w).background = w.background
           /\ Finish(w).small = w.small
           /\ Finish(w).told.said = w.told.said
           /\ Tells(w, Finish(w))
<1> DEFINE idle == [w EXCEPT !.state = "Idle"]
           ids == CompareBridges(w.heap[w.startState], ActiveBridge(w))
           compared == SayChanges(idle, ids)
           r == IF "BRIDGE_DISCONNECTED" \in Range(ids)
                THEN OnBridgeDisconnect(idle.full) ELSE idle.full
           n == Watched(compared, compared.request, "USERPROCEDURE_FINISHED",
                        Active(compared.data))
           finished == Say(compared, "USERPROCEDURE_FINISHED")
<1>1. Finish(w) = [(IF w.request = "INTERNAL" THEN idle ELSE finished)
                     EXCEPT !.request = "INTERNAL"]
  BY DEF Finish
<1>2. /\ Shaped(idle) /\ idle.state = "Idle" /\ idle.queue = w.queue
      /\ idle.search = w.search /\ idle.background = w.background
      /\ idle.told = w.told /\ idle.full = w.full /\ SameRetriever(w, idle)
      /\ idle.small = w.small /\ idle.check = w.check /\ idle.stream = w.stream
  BY DEF Shaped, Fields, SameRetriever
<1>3. compared = [idle EXCEPT !.full = r]
  BY DEF SayChanges
<1>4. /\ r = [f \in {"kind", "busy", "pending", "asked", "connected",
                     "refreshing", "announce", "obj"} |-> r[f]]
      /\ r.kind = idle.full.kind /\ r.busy = idle.full.busy
      /\ r.pending = idle.full.pending /\ r.asked = idle.full.asked
      /\ r.refreshing = idle.full.refreshing
  <2> HIDE DEF idle, ids
  <2> QED
    BY <1>2, DisconnectedRetriever DEF Shaped
<1> HIDE DEF r, idle
<1>5. /\ Shaped(compared) /\ compared.state = "Idle" /\ compared.queue = w.queue
      /\ compared.search = w.search /\ compared.background = w.background
      /\ compared.told = w.told /\ SameRetriever(w, compared)
      /\ compared.small = w.small /\ compared.check = w.check
      /\ compared.stream = w.stream
  <2> HIDE DEF compared
  <2> QED
    BY <1>2, <1>3, <1>4 DEF Shaped, Fields, SameRetriever
<1> HIDE DEF compared
<1>6. finished = [compared EXCEPT !.monitored = n, !.told = [w.told EXCEPT !.open = FALSE],
                                  !.full = compared.full]
  <2> DEFINE h == Heard(compared.told, compared.request, "USERPROCEDURE_FINISHED")
  <2>1. finished = [compared EXCEPT !.monitored = n, !.told = h, !.full = compared.full]
    <3>1. "USERPROCEDURE_FINISHED" # "BRIDGE_DISCONNECTED"
      OBVIOUS
    <3> QED
      BY <1>5, <3>1, Zenon DEF Say, SayAs
  <2>2. h = [w.told EXCEPT !.open = FALSE]
    BY <1>5 DEF Heard, Milestones
  <2> HIDE DEF h, finished, n
  <2> QED
    BY <2>1, <2>2
<1> HIDE DEF finished, n
<1>7. /\ Shaped(finished) /\ finished.state = "Idle" /\ finished.queue = w.queue
      /\ finished.search = w.search /\ finished.background = w.background
      /\ finished.told.open = FALSE /\ SameRetriever(w, finished)
      /\ finished.told.said = w.told.said /\ finished.told.request = w.told.request
      /\ finished.small = w.small /\ finished.check = w.check
      /\ finished.stream = w.stream
  BY <1>5, <1>6 DEF Shaped, Fields, SameRetriever
(* In both cases the request is INTERNAL in the end. *)
<1>8. ASSUME NEW u, Shaped(u), NEW v, v = [u EXCEPT !.request = "INTERNAL"]
      PROVE  /\ Shaped(v) /\ v.request = "INTERNAL" /\ v.state = u.state
             /\ v.queue = u.queue /\ v.search = u.search
             /\ v.background = u.background /\ v.told = u.told /\ v.full = u.full
             /\ v.small = u.small /\ v.check = u.check /\ v.stream = u.stream
  BY <1>8 DEF Shaped, Fields
<1> DEFINE v == Finish(w)
<1>9. CASE w.request = "INTERNAL"
  <2>1. v = [idle EXCEPT !.request = "INTERNAL"]
    BY <1>1, <1>9
  <2> HIDE DEF v
  <2>2. /\ Shaped(v) /\ v.request = "INTERNAL" /\ v.state = "Idle"
        /\ v.queue = w.queue /\ v.search = w.search
        /\ v.background = w.background /\ v.told = w.told /\ v.full = w.full
        /\ v.small = w.small /\ v.check = w.check /\ v.stream = w.stream
    BY <1>2, <1>8, <2>1
  <2> QED
    BY <1>9, <2>2 DEF SameRetriever, Tells, Ends, v
<1>10. CASE w.request # "INTERNAL"
  <2>1. v = [finished EXCEPT !.request = "INTERNAL"]
    BY <1>1, <1>10
  <2> HIDE DEF v
  <2>2. /\ Shaped(v) /\ v.request = "INTERNAL" /\ v.state = "Idle"
        /\ v.queue = w.queue /\ v.search = w.search
        /\ v.background = w.background /\ v.told.open = FALSE
        /\ v.told.said = w.told.said /\ v.told.request = w.told.request
        /\ v.small = w.small /\ v.check = w.check /\ v.stream = w.stream
        /\ SameRetriever(w, v)
    BY <1>7, <1>8, <2>1 DEF SameRetriever
  <2> QED
    BY <1>10, <2>2 DEF Tells, Ends, v
<1> QED
  BY <1>9, <1>10

LEMMA FinishOutcome ==
    ASSUME NEW w, Shaped(w), Distinct(w.background)
    PROVE  Outcome(w, Finish(w))
BY FinishFacts DEF Outcome

-----------------------------------------------------------------------------
(* What the functions do that end a handler, or make a request. *)

LEMMA StateSame ==
    ASSUME NEW w, Shaped(w), NEW s
    PROVE  /\ Like(w, [w EXCEPT !.state = s]) /\ Shaped([w EXCEPT !.state = s])
           /\ [w EXCEPT !.state = s].state = s
BY DEF Like, Shaped, SameRetriever, Tells, Fields

LEMMA LikeBackground ==
    ASSUME NEW w, NEW v, Distinct(w.background), Like(w, v)
    PROVE  Distinct(v.background)
BY DEF Like

(* A message is queued, in state s.                                        *)
LEMMA PostOutcome ==
    ASSUME NEW w, NEW v, Like(w, v), Distinct(w.background),
           NEW x, MessageOK(x),
           \/ v.state = "Loading" /\ x.m = "LoadingCompleted"
           \/ v.state = "Saving" /\ x.m = "SavingCompleted"
    PROVE  Outcome(w, Post(v, x))
<1> DEFINE u == Post(v, x)
<1>1. /\ Shaped(u) /\ u.state = v.state /\ u.request = v.request
      /\ u.told = v.told /\ u.queue = Append(v.queue, x) /\ u.search = v.search
      /\ u.background = v.background /\ u.full = v.full
      /\ u.small = v.small /\ u.check = v.check /\ u.stream = v.stream
  BY DEF Like, Shaped, Fields, Post
<1> HIDE DEF u
<1>2. /\ Shaped(u) /\ Distinct(u.background) /\ u.search = w.search
      /\ u.request = w.request /\ u.told.open = w.told.open
      /\ u.queue = Append(w.queue, x) /\ SameRetriever(w, u)
      /\ u.small = w.small /\ Tells(w, u)
  BY <1>1 DEF Like, SameRetriever, Tells
<1>3. \/ Posts(w, u, "Loading", "LoadingCompleted")
      \/ Posts(w, u, "Saving", "SavingCompleted")
  BY <1>1, <1>2 DEF Posts
<1>4. Outcome(w, u)
  BY <1>2, <1>3 DEF Outcome
<1> QED
  BY <1>4 DEF u

LEMMA StartSavingOutcome ==
    ASSUME NEW w, Shaped(w), Distinct(w.background), NEW opens
    PROVE  Outcome(w, StartSaving(w, opens))
<1> DEFINE s == Say(w, "START_SAVING")
           f == IF opens THEN StoredBridges(w.heap, w.data) ELSE s.file
           v == [s EXCEPT !.state = "Saving", !.file = f]
           x == [m |-> "SavingCompleted", ok |-> opens]
<1>1. StartSaving(w, opens) = Post(v, x)
  BY DEF StartSaving
<1>2. Like(w, s)
  BY SaySame, SameIsLike
<1> HIDE DEF s, f
<1>3. Like(w, v) /\ v.state = "Saving"
  BY <1>2 DEF Like, Shaped, SameRetriever, Tells, Fields
<1> HIDE DEF v
<1>4. MessageOK(x) /\ x.m = "SavingCompleted"
  BY DEF MessageOK
<1> QED
  BY <1>1, <1>3, <1>4, PostOutcome

LEMMA StartLoadingOutcome ==
    ASSUME NEW w, Shaped(w), Distinct(w.background), NEW next, NEW opens,
           next.k \in {"Finish", "Search", "Resume", "Retrieve", "Adopt"}
    PROVE  LET v == StartLoading(w, next, opens)
           IN  /\ Outcome(w, v)
               /\ v.state = "Loading"
               /\ \E x : /\ x.m = "LoadingCompleted" /\ x.next = next
                         /\ v.queue = Append(w.queue, x)
<1> DEFINE loads == opens /\ w.file # NoFile
           stored == IF loads THEN w.file ELSE <<EmptyBridge>>
           s == Say(w, "START_LOADING")
           said == [s EXCEPT !.state = "Loading"]
           os == FreshBesides(said, next.o, Len(stored))
           made == Create(said, os, stored)
           x == [m |-> "LoadingCompleted", ok |-> loads, bridges |-> os,
                 next |-> next]
<1>1. StartLoading(w, next, opens) = Post(made, x)
  BY DEF StartLoading
<1>2. Like(w, s) /\ Shaped(s)
  BY SaySame, SameIsLike
<1> HIDE DEF s
<1>3. Like(w, said) /\ said.state = "Loading" /\ Shaped(said)
  <2>1. Like(s, said) /\ said.state = "Loading" /\ Shaped(said)
    BY <1>2, StateSame
  <2> QED
    BY <1>2, <2>1, LikeTrans
<1>4. MessageOK(x) /\ x.m = "LoadingCompleted" /\ x.next = next
  BY DEF MessageOK
<1> HIDE DEF said, os, stored, x
<1>5. Same(said, made)
  BY <1>3, CreateSame
<1> HIDE DEF made
<1>6. Like(w, made) /\ made.state = "Loading"
  BY <1>3, <1>5, SameIsLike, LikeTrans DEF Same
<1>7. Post(made, x).state = "Loading" /\ Post(made, x).queue = Append(w.queue, x)
  BY <1>6 DEF Post, Like, Shaped, Fields
<1> QED
  BY <1>1, <1>4, <1>6, <1>7, PostOutcome

LEMMA StartBridgeSearchOutcome ==
    ASSUME NEW w, Shaped(w), Distinct(w.background)
    PROVE  /\ Outcome(w, StartBridgeSearch(w))
           /\ Outcome(w, [StartBridgeSearch(w) EXCEPT !.tasks = {}])
           /\ StartBridgeSearch(w).state \in Searching
           /\ w.request # "INTERNAL" =>
                 "START_SEARCHING" \in StartBridgeSearch(w).told.said
<1> DEFINE s == Say(w, "START_SEARCHING")
           z == IF s.state = "SearchingFirst" THEN "SearchingRetry"
                ELSE "SearchingFirst"
           v == [s EXCEPT !.state = z, !.search = TRUE]
           u == [v EXCEPT !.tasks = {}]
<1>1. StartBridgeSearch(w) = v
  BY DEF StartBridgeSearch
<1>2. Like(w, s)
  BY SaySame, SameIsLike
<1>3. z \in Searching
  BY DEF Searching
<1>8. w.request # "INTERNAL" => "START_SEARCHING" \in s.told.said
  BY SaidAtLast DEF Milestones
<1> HIDE DEF s, z
<1>4. /\ Shaped(v) /\ v.state = z /\ v.search = TRUE /\ v.queue = w.queue
      /\ v.request = w.request /\ v.told = s.told /\ v.small = w.small
      /\ v.background = w.background /\ SameRetriever(w, v) /\ Tells(w, v)
  BY <1>2 DEF Like, Shaped, SameRetriever, Tells, Fields
<1> HIDE DEF v
<1>5. /\ Shaped(u) /\ u.state = z /\ u.search = TRUE /\ u.queue = w.queue
      /\ u.request = w.request /\ u.told = s.told /\ u.small = w.small
      /\ u.background = w.background /\ SameRetriever(w, u) /\ Tells(w, u)
  BY <1>4 DEF Shaped, SameRetriever, Tells, Fields
<1>9. s.told.open = w.told.open
  BY <1>2 DEF Like
<1> HIDE DEF u
<1>6. Searches(w, v) /\ Searches(w, u)
  BY <1>3, <1>4, <1>5 DEF Searches
<1>7. Outcome(w, v) /\ Outcome(w, u)
  BY <1>4, <1>5, <1>6, <1>9 DEF Outcome
<1> QED
  BY <1>1, <1>3, <1>4, <1>7, <1>8 DEF u

LEMMA StartRetrieveSmallConfigOutcome ==
    ASSUME NEW w, Shaped(w), Distinct(w.background), NEW o
    PROVE  Outcome(w, StartRetrieveSmallConfig(w, o))
<1> DEFINE s == [w EXCEPT !.state = "Retrieving"]
           t == Say(s, "START_RETRIEVING_SMALL")
           v == [t EXCEPT !.small = {o}]
<1>1. StartRetrieveSmallConfig(w, o) = v
  BY DEF StartRetrieveSmallConfig
<1>2. Like(w, s) /\ Shaped(s) /\ s.state = "Retrieving"
  BY StateSame
<1> HIDE DEF s
<1>3. Same(s, t)
  BY <1>2, SaySame
<1> HIDE DEF t
<1>4. Like(w, t) /\ t.state = "Retrieving"
  BY <1>2, <1>3, SameIsLike, LikeTrans DEF Same
<1>5. /\ Shaped(v) /\ v.state = "Retrieving" /\ v.small = {o} /\ v.queue = w.queue
      /\ v.request = w.request /\ v.told.open = w.told.open /\ v.search = w.search
      /\ v.background = w.background /\ SameRetriever(w, v) /\ Tells(w, v)
  BY <1>4 DEF Like, Shaped, SameRetriever, Tells, Fields
<1> HIDE DEF v
<1>6. AsksSmall(w, v)
  BY <1>5 DEF AsksSmall
<1> QED
  BY <1>1, <1>5, <1>6 DEF Outcome

LEMMA StartAuthenticationOutcome ==
    ASSUME NEW w, Shaped(w), Distinct(w.background),
           NEW os, Distinct(os), os # <<>>, NEW answers
    PROVE  Outcome(w, StartAuthentication(w, os, answers))
<1> DEFINE s1 == Say(w, "START_AUTHORIZING")
           s == Say(s1, "PRESS_PUSH_LINK")
           p == [o \in Range(os) |->
                    [n |-> (CHOOSE i \in DOMAIN os : os[i] = o) - 1, tries |-> 0]]
           h == [o \in Objects |->
                    IF o \in Range(os)
                    THEN PushLinked(s.heap[o], answers[CHOOSE i \in DOMAIN os : os[i] = o])
                    ELSE s.heap[o]]
           q == s.queue \o [i \in DOMAIN os |->
                              [m |-> "AuthenticationCompleted", o |-> os[i]]]
           c == Len(os)
           v == [s EXCEPT !.state = "Authenticating", !.count = c, !.procs = p,
                          !.heap = h, !.queue = q]
<1>1. StartAuthentication(w, os, answers) = v
  BY DEF StartAuthentication
<1>2. Same(w, s1) /\ Shaped(s1)
  BY SaySame, SameIsLike
<1> HIDE DEF s1
<1>3. Like(w, s)
  BY <1>2, SaySame, SameIsLike, LikeTrans
<1> HIDE DEF s, p, h, q, c
<1>4. /\ Shaped(v) /\ v.state = "Authenticating" /\ v.count = c /\ v.procs = p
      /\ v.queue = q /\ v.search = w.search /\ v.small = w.small
      /\ v.request = w.request /\ v.told.open = w.told.open
      /\ v.background = w.background /\ SameRetriever(w, v) /\ Tells(w, v)
  BY <1>3 DEF Like, Shaped, SameRetriever, Tells, Fields
<1> HIDE DEF v
<1>5. Authenticates(w, v, os)
  BY <1>3, <1>4 DEF Authenticates, Like, p, q, c
<1> QED
  BY <1>1, <1>4, <1>5 DEF Outcome

(* v is w but for its queue and its retriever, too.                        *)
Alike(w, v) ==
    /\ Shaped(v)
    /\ v.request = w.request
    /\ v.told.open = w.told.open
    /\ v.search = w.search
    /\ v.small = w.small
    /\ v.background = w.background
    /\ Tells(w, v)

LEMMA AlikeTrans ==
    ASSUME NEW w, NEW v, NEW u, Alike(w, v), Alike(v, u)
    PROVE  Alike(w, u)
BY TellsTrans DEF Alike

LEMMA LikeIsAlike ==
    ASSUME NEW w, NEW v, Like(w, v)
    PROVE  Alike(w, v)
BY DEF Like, Alike

(* Execute of a CLIP v1 retriever: it starts a fetch, or one is under way  *)
(* whose answer it owes the flow.                                          *)
LEMMA ExecuteV1Asks ==
    ASSUME NEW w, Shaped(w), RetrieverOK(w),
           w.state = "Retrieving", w.full.kind = "v1"
    PROVE  Alike(w, ExecuteV1(w)) /\ AsksFull(w, ExecuteV1(w))
<1>1. CASE w.full.busy
  <2>1. ExecuteV1(w) = w
    BY <1>1 DEF ExecuteV1
  <2>2. AsksFull(w, w)
    BY <1>1 DEF AsksFull, RetrieverOK
  <2> QED
    BY <2>1, <2>2 DEF Alike, Tells
<1>2. CASE ~w.full.busy
  <2> DEFINE a == Active(w.data)
             u == [w EXCEPT !.full.busy = TRUE, !.full.pending = TRUE,
                            !.full.asked = TRUE, !.full.obj = a]
             v == Say(u, "START_RETRIEVING")
  <2>1. ExecuteV1(w) = v
    BY <1>2 DEF ExecuteV1
  <2> HIDE DEF a
  <2>2. /\ Alike(w, u) /\ Shaped(u) /\ u.state = "Retrieving" /\ u.queue = w.queue
        /\ u.full.pending = TRUE /\ u.full.asked = TRUE
        /\ u.full.refreshing = w.full.refreshing
    BY DEF Alike, Tells, Shaped, Fields
  <2> HIDE DEF u
  <2>3. Same(u, v)
    BY <2>2, SaySame
  <2> HIDE DEF v
  <2>4. /\ v.state = "Retrieving" /\ v.queue = w.queue /\ v.full.pending = TRUE
        /\ v.full.asked = TRUE /\ v.full.refreshing = w.full.refreshing
    BY <2>2, <2>3 DEF Same, Like, SameRetriever
  <2>5. AsksFull(w, v)
    BY <2>4 DEF AsksFull, RetrieverOK
  <2>6. Alike(u, v)
    BY <2>3, SameIsLike, LikeIsAlike
  <2> QED
    BY <2>1, <2>2, <2>5, <2>6, AlikeTrans
<1> QED
  BY <1>1, <1>2

(* ... of a CLIP v2 retriever: or it completes at once.                    *)
LEMMA ExecuteV2Asks ==
    ASSUME NEW w, Shaped(w), w.state = "Retrieving", w.full.kind = "v2"
    PROVE  Alike(w, ExecuteV2(w)) /\ AsksFull(w, ExecuteV2(w))
<1> DEFINE ob == w.full.obj
           other == ob # 0 /\ w.heap[ob].id # ActiveBridge(w).id
           r == IF other THEN OnBridgeDisconnect(w.full) ELSE w.full
           clone == Fresh(w, 1)
           made == Create(w, clone, <<ActiveBridge(w)>>)
           z == [r EXCEPT !.busy = TRUE, !.pending = TRUE, !.asked = TRUE,
                          !.connected = TRUE, !.obj = clone[1]]
           fetching == [made EXCEPT !.full = z]
           said == Say(fetching, "START_RETRIEVING")
           x == [m |-> "FullConfigCompleted", ok |-> FALSE, o |-> Active(w.data)]
           y == [m |-> "FullConfigCompleted", o |-> ob,
                 ok |-> w.heap[ob].auth /\ w.heap[ob].validIp]
<1>1. ExecuteV2(w) \in {Post(w, x), Post(w, y), said}
  BY DEF ExecuteV2
<1>2. ASSUME NEW m, m.m = "FullConfigCompleted"
      PROVE  Alike(w, Post(w, m)) /\ AsksFull(w, Post(w, m))
  <2> DEFINE v == Post(w, m)
  <2>1. /\ Alike(w, v) /\ v.state = w.state /\ v.queue = Append(w.queue, m)
        /\ v.full = w.full
    BY DEF Alike, Tells, Shaped, Fields, Post
  <2> HIDE DEF v
  <2>2. AsksFull(w, v)
    BY <1>2, <2>1 DEF AsksFull, RetrieverOK
  <2> QED
    BY <2>1, <2>2 DEF v
<1>3. Alike(w, said) /\ AsksFull(w, said)
  <2>1. Same(w, made)
    BY CreateSame
  <2>2. /\ r = [f \in {"kind", "busy", "pending", "asked", "connected",
                       "refreshing", "announce", "obj"} |-> r[f]]
        /\ r.kind = w.full.kind /\ r.refreshing = w.full.refreshing
    BY DisconnectedRetriever DEF Shaped
  <2> DEFINE c == clone[1]
  <2> HIDE DEF r, c, made
  <2>3. /\ z = [f \in {"kind", "busy", "pending", "asked", "connected",
                       "refreshing", "announce", "obj"} |-> z[f]]
        /\ z.kind = "v2" /\ z.pending = TRUE /\ z.asked = TRUE
        /\ z.refreshing = w.full.refreshing
    BY <2>2 DEF c
  <2> HIDE DEF z
  <2>4. /\ Alike(w, fetching) /\ Shaped(fetching) /\ fetching.state = "Retrieving"
        /\ fetching.queue = w.queue /\ fetching.full = z
    BY <2>1, <2>3 DEF Same, Like, Alike, Tells, Shaped, Fields
  <2> HIDE DEF fetching
  <2>5. Same(fetching, said)
    BY <2>4, SaySame
  <2> HIDE DEF said
  <2>6. AsksFull(w, said)
    BY <2>3, <2>4, <2>5 DEF AsksFull, RetrieverOK, Same, Like, SameRetriever
  <2>7. Alike(fetching, said)
    BY <2>5, SameIsLike, LikeIsAlike
  <2> QED
    BY <2>4, <2>6, <2>7, AlikeTrans
<1>4. x.m = "FullConfigCompleted" /\ y.m = "FullConfigCompleted"
  OBVIOUS
<1> HIDE DEF x, y, said
<1> QED
  BY <1>1, <1>2, <1>3, <1>4

LEMMA StartRetrieveFullConfigOutcome ==
    ASSUME NEW w, Shaped(w), RetrieverOK(w), Distinct(w.background)
    PROVE  Outcome(w, StartRetrieveFullConfig(w))
<1> DEFINE kind == IF ActiveBridge(w).v2 THEN "v2" ELSE "v1"
           r == IF w.full.kind = kind THEN w.full
                ELSE [NoRetriever EXCEPT !.kind = kind]
           v == [w EXCEPT !.state = "Retrieving", !.full = r]
           u == IF kind = "v2" THEN ExecuteV2(v) ELSE ExecuteV1(v)
<1>1. StartRetrieveFullConfig(w) = u
  BY DEF StartRetrieveFullConfig
<1>2. kind \in {"v1", "v2"}
  OBVIOUS
<1> HIDE DEF kind
<1>3. /\ r = [f \in {"kind", "busy", "pending", "asked", "connected",
                     "refreshing", "announce", "obj"} |-> r[f]]
      /\ r.kind = kind
      /\ PromptUnbusy /\ kind = "v1" /\ r.busy => r.pending /\ r.asked
      /\ r.pending => w.full.pending
      /\ r.refreshing => w.full.refreshing
  BY <1>2 DEF Shaped, NoRetriever, RetrieverOK
<1> HIDE DEF r
<1>4. /\ Alike(w, v) /\ Shaped(v) /\ v.state = "Retrieving" /\ v.full = r
      /\ v.queue = w.queue
  BY <1>3 DEF Alike, Tells, Shaped, Fields
<1>5. RetrieverOK(v)
  BY <1>3, <1>4 DEF RetrieverOK
<1> HIDE DEF v
<1>6. Alike(v, u) /\ AsksFull(v, u)
  BY <1>2, <1>3, <1>4, <1>5, ExecuteV1Asks, ExecuteV2Asks
<1> HIDE DEF u
<1>7. AsksFull(w, u)
  BY <1>3, <1>4, <1>6 DEF AsksFull
<1>8. Alike(w, u)
  BY <1>4, <1>6, AlikeTrans
<1> QED
  BY <1>1, <1>7, <1>8 DEF Alike, Outcome

(* The monitor asks a CLIP v2 retriever to fetch again.                    *)
LEMMA RefreshMid ==
    ASSUME NEW w, Mid(w)
    PROVE  LET v == RefreshBridgeConnection(w)
           IN  Mid(v) /\ Alike(w, v) /\ v.queue = w.queue
<1> DEFINE clone == Fresh(w, 1)
           made == Create(w, clone, <<w.heap[w.full.obj]>>)
           c == clone[1]
           busy == [w EXCEPT !.full.busy = TRUE]
           z == [made.full EXCEPT !.busy = TRUE, !.pending = TRUE, !.asked = FALSE,
                                  !.refreshing = TRUE, !.announce = FALSE,
                                  !.obj = clone[1]]
           fetching == [made EXCEPT !.full = z]
           v == RefreshBridgeConnection(w)
<1>1. v = w \/ (w.full.kind = "v2" /\ v \in {busy, fetching})
  BY DEF RefreshBridgeConnection
<1>2. Shaped(w) /\ Base(w)
  BY MidShaped DEF Mid
<1>3. ASSUME NEW u, Alike(w, u), u.queue = w.queue, u.full.kind = "v2"
      PROVE  Mid(u)
  BY <1>2, <1>3 DEF Mid, Base, Alike, Tells, QueueOK, RetrieverOK
<1>4. Alike(w, busy) /\ busy.queue = w.queue /\ busy.full.kind = w.full.kind
  BY <1>2 DEF Alike, Tells, Shaped, Fields
<1>5. Alike(w, fetching) /\ fetching.queue = w.queue /\ fetching.full.kind = w.full.kind
  <2>1. Same(w, made)
    BY <1>2, CreateSame
  <2> HIDE DEF made, clone
  <2> DEFINE k == clone[1]
  <2> HIDE DEF k
  <2>2. /\ z = [f \in {"kind", "busy", "pending", "asked", "connected",
                       "refreshing", "announce", "obj"} |-> z[f]]
        /\ z.kind = w.full.kind
    BY <2>1 DEF Same, Like, Shaped, SameRetriever, k
  <2> HIDE DEF z
  <2> QED
    BY <2>1, <2>2 DEF Same, Like, Alike, Tells, Shaped, Fields
<1>6. Alike(w, w)
  BY <1>2 DEF Alike, Tells
<1> HIDE DEF v, busy, fetching
<1>7. Mid(v) /\ Alike(w, v) /\ v.queue = w.queue
  BY <1>1, <1>3, <1>4, <1>5, <1>6
<1> QED
  BY <1>7 DEF v

LEMMA RetrieveFailedOutcome ==
    ASSUME NEW w, Shaped(w), Distinct(w.background), NEW o, NEW answers, NEW opens
    PROVE  Outcome(w, RetrieveFailed(w, o, answers, opens))
<1> DEFINE said == SayAs(w, w.request, "FINISH_RETRIEVING_FAILED", o)
           found == Say(said, "DONE_BRIDGE_FOUND")
           lost == [said EXCEPT !.heap[o].validIp = FALSE, !.heap[o].auth = FALSE]
           reported == ReportActionRequired(lost)
<1>1. RetrieveFailed(w, o, answers, opens) \in
          {StartBridgeSearch(said), Finish(found),
           StartAuthentication(said, <<o>>, answers), StartSaving(reported, opens)}
  BY DEF RetrieveFailed
<1>2. Like(w, said) /\ Shaped(said)
  BY SayAsSame, SameIsLike
<1> HIDE DEF said
<1>3. Like(w, found) /\ Shaped(found)
  BY <1>2, SaySame, SameIsLike, LikeTrans
<1>4. Like(w, lost) /\ Shaped(lost)
  <2> DEFINE h1 == [said.heap EXCEPT ![o].validIp = FALSE]
             h2 == [h1 EXCEPT ![o].auth = FALSE]
  <2>1. lost = [[said EXCEPT !.heap = h1] EXCEPT !.heap = h2]
    <3>1. [said EXCEPT !.heap = h1].heap = h1
      <4> HIDE DEF h1
      <4> QED
        BY <1>2 DEF Shaped, Fields
    <3> DEFINE t == [said EXCEPT !.heap = h1]
    <3>2. lost = [t EXCEPT !.heap = [t.heap EXCEPT ![o].auth = FALSE]]
      OBVIOUS
    <3> QED
      BY <3>1, <3>2
  <2> HIDE DEF h1, h2, lost
  <2>2. Same(said, [said EXCEPT !.heap = h1]) /\ Shaped([said EXCEPT !.heap = h1])
    BY <1>2, HeapSame, SameIsLike
  <2>3. Same([said EXCEPT !.heap = h1], lost)
    BY <2>1, <2>2, HeapSame
  <2> QED
    BY <1>2, <2>2, <2>3, SameIsLike, LikeTrans
<1> HIDE DEF found, lost
<1>5. Like(w, reported) /\ Shaped(reported)
  BY <1>4, ReportActionRequiredSame, SameIsLike, LikeTrans
<1> HIDE DEF reported
<1>6. Distinct(<<o>>) /\ <<o>> # <<>>
  <2>1. <<o>> \in Seq({o}) /\ Range(<<o>>) = {o}
    BY DEF Range
  <2>2. DOMAIN <<o>> = {1}
    OBVIOUS
  <2> QED
    BY <2>1, <2>2 DEF Distinct, IsList
<1>7. Outcome(w, StartBridgeSearch(said)) /\ Outcome(w, StartAuthentication(said, <<o>>, answers))
  BY <1>2, <1>6, LikeBackground, LikeOutcome, StartBridgeSearchOutcome,
     StartAuthenticationOutcome
<1>8. Outcome(w, Finish(found))
  BY <1>3, LikeBackground, LikeOutcome, FinishOutcome
<1>9. Outcome(w, StartSaving(reported, opens))
  BY <1>5, LikeBackground, LikeOutcome, StartSavingOutcome
<1> QED
  BY <1>1, <1>7, <1>8, <1>9

LEMMA ContinueOutcome ==
    ASSUME NEW w, Shaped(w), Distinct(w.background), NEW next,
           next.k \in {"Finish", "Search", "Resume", "Retrieve", "Adopt"}
    PROVE  Outcome(w, Continue(w, next))
<1>1. Continue(w, next) \in
          {Finish(w), StartBridgeSearch(w),
           StartRetrieveSmallConfig(w, Active(w.data)),
           StartRetrieveSmallConfig(w, next.o),
           StartRetrieveSmallConfig(SetActive(w, next.o), next.o)}
  BY DEF Continue
<1>2. Like(w, SetActive(w, next.o)) /\ Shaped(SetActive(w, next.o))
  BY SetActiveSame, SameIsLike
<1>3. Outcome(w, StartRetrieveSmallConfig(SetActive(w, next.o), next.o))
  BY <1>2, LikeBackground, LikeOutcome, StartRetrieveSmallConfigOutcome
<1> QED
  BY <1>1, <1>3, FinishOutcome, StartBridgeSearchOutcome,
     StartRetrieveSmallConfigOutcome

-----------------------------------------------------------------------------
(* The bridges that a search has found. *)

(* Any finite set of numbers can be counted through in ascending order.    *)
LEMMA Counted ==
    ASSUME NEW n \in Nat, NEW K \in SUBSET (1 .. n)
    PROVE  /\ Cardinality(K) \in Nat
           /\ \A k \in 1 .. Cardinality(K) :
                 \E i \in K : Cardinality({j \in K : j < i}) = k - 1
<1> DEFINE Below(i) == {j \in K : j < i}
           T == 0 .. Cardinality(K) - 1
           f == [i \in K |-> Cardinality(Below(i))]
<1>1. IsFiniteSet(K) /\ Cardinality(K) \in Nat
  <2>1. IsFiniteSet(1 .. n)
    BY FS_Interval
  <2>2. IsFiniteSet(K)
    BY <2>1, FS_Subset
  <2> QED
    BY <2>2, FS_CardinalityType
<1>2. \A i \in K : IsFiniteSet(Below(i)) /\ Cardinality(Below(i)) \in T
  <2> SUFFICES ASSUME NEW i \in K
               PROVE  IsFiniteSet(Below(i)) /\ Cardinality(Below(i)) \in T
    OBVIOUS
  <2>1. Below(i) \in SUBSET K /\ Below(i) # K
    <3>1. i \notin Below(i)
      OBVIOUS
    <3> QED
      BY <3>1
  <2> HIDE DEF Below
  <2>2. /\ IsFiniteSet(Below(i)) /\ Cardinality(Below(i)) <= Cardinality(K)
        /\ Cardinality(Below(i)) # Cardinality(K)
    BY <1>1, <2>1, FS_Subset
  <2>3. Cardinality(Below(i)) \in Nat
    BY <2>2, FS_CardinalityType
  <2> QED
    BY <1>1, <2>2, <2>3
<1>3. \A i, j \in K : i < j => f[i] < f[j]
  <2> SUFFICES ASSUME NEW i \in K, NEW j \in K, i < j
               PROVE  f[i] < f[j]
    OBVIOUS
  <2>1. Below(i) \in SUBSET Below(j) /\ Below(i) # Below(j)
    <3>1. i \in Below(j) /\ i \notin Below(i)
      OBVIOUS
    <3>2. \A l \in K : l < i => l < j
      OBVIOUS
    <3> QED
      BY <3>1, <3>2
  <2>2. IsFiniteSet(Below(j)) /\ Cardinality(Below(i)) \in T /\ Cardinality(Below(j)) \in T
    BY <1>2
  <2> HIDE DEF Below
  <2>3. /\ Cardinality(Below(i)) <= Cardinality(Below(j))
        /\ Cardinality(Below(i)) # Cardinality(Below(j))
    BY <2>1, <2>2, FS_Subset
  <2> QED
    BY <1>1, <2>2, <2>3
<1>4. f \in [K -> T]
  BY <1>2
<1>5. \A i, j \in K : f[i] = f[j] => i = j
  <2> SUFFICES ASSUME NEW i \in K, NEW j \in K, f[i] = f[j], i # j
               PROVE  FALSE
    OBVIOUS
  <2>1. f[i] \in Int /\ f[j] \in Int
    BY <1>4
  <2> HIDE DEF f
  <2>2. i < j \/ j < i
    OBVIOUS
  <2> QED
    BY <1>3, <2>1, <2>2
<1>6. f \in Injection(K, T)
  BY <1>4, <1>5 DEF Injection, IsInjective
<1>7. IsFiniteSet(T) /\ Cardinality(T) = Cardinality(K)
  <2>1. Cardinality(K) - 1 \in Int /\ 0 \in Int
    BY <1>1
  <2>2. /\ IsFiniteSet(T)
        /\ Cardinality(T) = IF 0 > Cardinality(K) - 1 THEN 0
                            ELSE (Cardinality(K) - 1) - 0 + 1
    BY <2>1, FS_Interval
  <2> QED
    BY <1>1, <2>2
<1>8. f \in Surjection(K, T)
  BY <1>6, <1>7, FS_Injection
<1>9. \A t \in T : \E i \in K : f[i] = t
  BY <1>8 DEF Surjection
<1> QED
  <2> SUFFICES ASSUME NEW k \in 1 .. Cardinality(K)
               PROVE  \E i \in K : Cardinality({j \in K : j < i}) = k - 1
    BY <1>1
  <2>1. k - 1 \in T
    BY <1>1
  <2>2. PICK i \in K : f[i] = k - 1
    BY <1>9, <2>1
  <2> QED
    BY <2>2

(* What the search's results are filtered to names no bridge twice.        *)
LEMMA FilteredDistinct ==
    ASSUME NEW os, IsList(os)
    PROVE  Distinct(Filtered(os))
<1> DEFINE K == Kept(os)
           c == Cardinality(K)
           place(k) == CHOOSE i \in K : Cardinality({j \in K : j < i}) = k - 1
           s == Filtered(os)
<1>1. Len(os) \in Nat /\ DOMAIN os = 1 .. Len(os)
  BY LenProperties DEF IsList
<1>2. K \in SUBSET (1 .. Len(os))
  BY <1>1 DEF Kept
<1>3. \A i, j \in K : j < i => heap[os[j]].ip # heap[os[i]].ip
  BY <1>1 DEF Kept
<1>4. s = [k \in 1 .. c |-> os[place(k)]]
  BY DEF Filtered
<1> HIDE DEF K, s
<1>5. c \in Nat /\ \A k \in 1 .. c : \E i \in K : Cardinality({j \in K : j < i}) = k - 1
  BY <1>1, <1>2, Counted
<1>6. \A k \in 1 .. c : place(k) \in K /\ Cardinality({j \in K : j < place(k)}) = k - 1
  BY <1>5
<1> HIDE DEF c
<1>7. IsList(s) /\ DOMAIN s = 1 .. c
  <2>1. DOMAIN s = 1 .. c /\ s = [k \in 1 .. c |-> s[k]]
    BY <1>4
  <2> QED
    BY <1>5, <2>1, ListOf
<1>8. ASSUME NEW k \in 1 .. c, NEW l \in 1 .. c, s[k] = s[l]
      PROVE  k = l
  <2> DEFINE a == place(k)
             b == place(l)
  <2>1. a \in K /\ b \in K /\ os[a] = os[b]
    BY <1>4, <1>6, <1>8
  <2>2. Cardinality({j \in K : j < a}) = k - 1 /\ Cardinality({j \in K : j < b}) = l - 1
    BY <1>6
  <2> HIDE DEF a, b
  <2>3. a = b
    BY <1>2, <1>3, <2>1
  <2> QED
    BY <1>5, <2>2, <2>3
<1> QED
  BY <1>7, <1>8 DEF Distinct, s

LEMMA NothingFoundOutcome ==
    ASSUME NEW w, Shaped(w), Distinct(w.background), NEW opens
    PROVE  Outcome(w, NothingFound(w, opens))
<1> DEFINE none == Say(w, "DONE_NO_BRIDGE_FOUND")
           reported == ReportActionRequired(w)
<1>1. NothingFound(w, opens)
          \in {Finish(none), StartBridgeSearch(w), StartSaving(reported, opens)}
  BY DEF NothingFound
<1>2. Like(w, none) /\ Shaped(none) /\ Like(w, reported) /\ Shaped(reported)
  BY SaySame, ReportActionRequiredSame, SameIsLike
<1> HIDE DEF none, reported
<1>3. Outcome(w, Finish(none)) /\ Outcome(w, StartSaving(reported, opens))
  BY <1>2, LikeBackground, LikeOutcome, FinishOutcome, StartSavingOutcome
<1> QED
  BY <1>1, <1>3, StartBridgeSearchOutcome

LEMMA BridgesFoundOutcome ==
    ASSUME NEW w, Shaped(w), Distinct(w.background),
           NEW os, Distinct(os), os # <<>>, NEW answers
    PROVE  Outcome(w, BridgesFound(w, os, answers))
<1> DEFINE h == RediscoveredHeap(heap, data, os)
           known == [w EXCEPT !.heap = h]
           o == LastRediscovered(heap, data, os)
           active == SetActive(known, o)
           found == Say(w, "DONE_BRIDGE_FOUND")
           waiting == [found EXCEPT !.background = os]
<1>1. BridgesFound(w, os, answers)
          \in {StartRetrieveSmallConfig(active, o), Finish(waiting),
               StartAuthentication(w, os, answers)}
  BY DEF BridgesFound
<1>2. Like(w, found) /\ Shaped(found)
  BY SaySame, SameIsLike
<1> HIDE DEF found, h
<1>3. Like(w, known) /\ Shaped(known)
  BY HeapSame, SameIsLike
<1> HIDE DEF known
<1>4. Like(w, active) /\ Shaped(active)
  BY <1>3, SetActiveSame, SameIsLike, LikeTrans
<1> HIDE DEF active
<1>5. Outcome(w, StartRetrieveSmallConfig(active, o))
  BY <1>4, LikeBackground, LikeOutcome, StartRetrieveSmallConfigOutcome
<1>6. Outcome(w, Finish(waiting))
  <2>1. /\ Shaped(waiting) /\ waiting.background = os /\ waiting.queue = w.queue
        /\ waiting.search = w.search /\ waiting.told.open = w.told.open
        /\ waiting.request = w.request /\ SameRetriever(w, waiting)
        /\ waiting.small = w.small /\ Tells(w, waiting)
    BY <1>2 DEF Like, Shaped, Fields, SameRetriever, Tells
  <2> HIDE DEF waiting
  <2> DEFINE v == Finish(waiting)
  <2>2. /\ Shaped(v) /\ Ends(waiting, v) /\ v.search = w.search
        /\ Distinct(v.background) /\ v.small = w.small /\ Tells(waiting, v)
    BY <2>1, FinishFacts
  <2> HIDE DEF v
  <2>3. Ends(w, v)
    BY <2>1, <2>2 DEF Ends, SameRetriever
  <2>4. Tells(w, v)
    BY <2>1, <2>2, TellsTrans
  <2>5. Outcome(w, v)
    BY <2>2, <2>3, <2>4 DEF Outcome
  <2> QED
    BY <2>5 DEF v
<1> QED
  BY <1>1, <1>5, <1>6, StartAuthenticationOutcome

LEMMA InvalidBridgesFoundOutcome ==
    ASSUME NEW w, Shaped(w), Distinct(w.background),
           NEW os, Distinct(os), os # <<>>, NEW answers, NEW opens
    PROVE  Outcome(w, InvalidBridgesFound(w, os, answers, opens))
<1> DEFINE none == Say(w, "DONE_NO_BRIDGE_FOUND")
           reported == ReportActionRequired(w)
<1>1. InvalidBridgesFound(w, os, answers, opens)
          \in {Finish(none), StartAuthentication(w, os, answers), StartSaving(reported, opens)}
  BY DEF InvalidBridgesFound
<1>2. Like(w, none) /\ Shaped(none) /\ Like(w, reported) /\ Shaped(reported)
  BY SaySame, ReportActionRequiredSame, SameIsLike
<1> HIDE DEF none, reported
<1>3. Outcome(w, Finish(none)) /\ Outcome(w, StartSaving(reported, opens))
  BY <1>2, LikeBackground, LikeOutcome, FinishOutcome, StartSavingOutcome
<1> QED
  BY <1>1, <1>3, StartAuthenticationOutcome

(* ActivateStreaming ends the procedure, whatever comes of it.             *)
LEMMA ActivateStreamingEnds ==
    ASSUME NEW w, Shaped(w), Starts, NEW go, NEW stop
    PROVE  \E v : Like(w, v) /\ Shaped(v) /\ ActivateStreaming(w, go, stop) = Finish(v)
<1> DEFINE s == Say(w, "START_ACTIVATING")
           r == StartSession(s, Active(w.data), go, stop)
           rw == r.w
           on == Say(rw, "FINISH_ACTIVATING_ACTIVE")
           yes == Say(on, "DONE_COMPLETED")
           off == Say(rw, "FINISH_ACTIVATING_FAILED")
           no == ReportActionRequired(off)
<1>1. ActivateStreaming(w, go, stop) \in {Finish(yes), Finish(no)}
  BY DEF ActivateStreaming
<1>2. Same(w, s) /\ Shaped(s)
  BY SaySame, SameIsLike
<1> HIDE DEF s
<1>3. Same(w, rw) /\ Shaped(rw)
  BY <1>2, StartSessionSame, SameTrans, SameIsLike
<1> HIDE DEF rw
<1>4. Same(w, on) /\ Shaped(on) /\ Same(w, off) /\ Shaped(off)
  BY <1>3, SaySame, SameTrans, SameIsLike
<1> HIDE DEF on, off
<1>5. Like(w, yes) /\ Shaped(yes) /\ Like(w, no) /\ Shaped(no)
  BY <1>4, SaySame, ReportActionRequiredSame, SameTrans, SameIsLike
<1> QED
  BY <1>1, <1>5

(* The events that a comparison of two bridges can yield.                  *)
LEMMA ComparedEvents ==
    ASSUME NEW old, NEW new
    PROVE  CompareBridges(old, new) \in Seq(Events1)
<1> DEFINE When(c, id) == IF c THEN <<id>> ELSE <<>>
           a == When(~IsConnected(old) /\ IsConnected(new), "BRIDGE_CONNECTED")
           b == When(IsConnected(old) /\ ~IsConnected(new), "BRIDGE_DISCONNECTED")
           c == When(~IsStreaming(old) /\ IsStreaming(new), "STREAMING_CONNECTED")
           d == When(IsStreaming(old) /\ ~IsStreaming(new), "STREAMING_DISCONNECTED")
           e == When(\E f \in {"id", "ip", "model", "version", "cred", "groups",
                               "mine"} : old[f] # new[f],
                     "BRIDGE_CHANGED")
<1>1. CompareBridges(old, new) = a \o b \o c \o d \o e
  BY DEF CompareBridges
<1>2. /\ a \in Seq(Events1) /\ b \in Seq(Events1) /\ c \in Seq(Events1)
      /\ d \in Seq(Events1) /\ e \in Seq(Events1)
  <2>1. \A z \in Events1 : <<z>> \in Seq(Events1)
    OBVIOUS
  <2>2. <<>> \in Seq(Events1)
    OBVIOUS
  <2> QED
    BY <2>1, <2>2 DEF Events1
<1> HIDE DEF a, b, c, d, e
<1>3. a \o b \in Seq(Events1)
  BY <1>2, ConcatProperties
<1>4. a \o b \o c \in Seq(Events1)
  BY <1>2, <1>3, ConcatProperties
<1>5. a \o b \o c \o d \in Seq(Events1)
  BY <1>2, <1>4, ConcatProperties
<1> QED
  BY <1>1, <1>2, <1>5, ConcatProperties

-----------------------------------------------------------------------------
(* How a handler ends: the invariant holds again. *)

LEMMA NowShaped ==
    ASSUME Base(Now)
    PROVE  Shaped(Popped) /\ Popped.queue = Tail(queue)
BY DEF Base, Shaped, Fields, Popped, Now

LEMMA BecomeGood ==
    ASSUME NEW v, Good(v), Become(v)
    PROVE  Good(Now)'
<1>1. /\ state' = v.state /\ request' = v.request /\ count' = v.count
      /\ v.state = "Authenticating" => procs' = v.procs
      /\ background' = v.background /\ queue' = v.queue /\ search' = v.search
      /\ small' = v.small /\ full' = v.full /\ tasks' = v.tasks /\ told' = v.told
      /\ stream' = v.stream /\ setup' = setup
  <2>1. v.state = "Authenticating" => procs' = v.procs
    <3> SUFFICES ASSUME v.state = "Authenticating"
                 PROVE  procs' = v.procs
      OBVIOUS
    <3>1. procs' = [v EXCEPT !.procs = v.procs].procs
      BY DEF Become
    <3>2. Shaped(v)
      BY DEF Good, Base
    <3> QED
      BY <3>1, <3>2 DEF Shaped, Fields
  <2> QED
    BY <2>1 DEF Become
<1>2. PromptUnbusy' = PromptUnbusy
  BY <1>1 DEF PromptUnbusy
<1>3. Base(Now)'
  <2>1. Shaped(v) /\ QueueOK(v) /\ RetrieverOK(v) /\ Distinct(v.background)
    BY DEF Good, Base
  <2>2. Shaped(Now)'
    BY <1>1, <2>1 DEF Shaped, Fields, Now
  <2>3. QueueOK(Now)'
    BY <1>1, <2>1 DEF QueueOK, Now
  <2>4. RetrieverOK(Now)'
    BY <1>1, <1>2, <2>1 DEF RetrieverOK, Now
  <2>5. Distinct(Now.background)'
    BY <1>1, <2>1 DEF Now
  <2> QED
    BY <2>2, <2>3, <2>4, <2>5 DEF Base
<1>4. OpenOK(Now)'
  BY <1>1 DEF Good, OpenOK, Now
<1>5. AttemptsOK(Now)'
  <2> SUFFICES ASSUME v.state = "Authenticating"
               PROVE  AttemptsOK(Now)'
    BY <1>1 DEF AttemptsOK, Now
  <2>2. InTurn(Now)' = InTurn(v)
    BY <1>1 DEF InTurn, Attempted, Now
  <2>3. AttemptsOK(v)
    BY DEF Good
  <2> QED
    BY <1>1, <2>2, <2>3 DEF AttemptsOK, Now
<1>6. Awaited(Now)'
  BY <1>1, <1>2 DEF Good, Awaited, Holds, Now
<1> QED
  BY <1>3, <1>4, <1>5, <1>6 DEF Good

LEMMA BecomeInPlace ==
    ASSUME NEW v, InPlace(v), Become(v)
    PROVE  InPlace(Now)'
<1>1. state' = v.state /\ queue' = v.queue /\ search' = v.search
  BY DEF Become
<1>2. AbortComesLast(Now)'
  BY <1>1 DEF InPlace, AbortComesLast, Now
<1>3. \A i : DroppedFirst(Now, i)' <=> DroppedFirst(v, i)
  BY <1>1 DEF DroppedFirst, Now
<1> QED
  BY <1>1, <1>2, <1>3 DEF InPlace, AtMostOne, Now

LEMMA BecomeSought ==
    ASSUME NEW v, Sought(v), Become(v)
    PROVE  Sought(Now)'
BY DEF Become, Sought, Now

LEMMA BecomeReady ==
    ASSUME NEW v, Ready(v), Become(v)
    PROVE  Ready(Now)'
<1>1. /\ state' = v.state /\ request' = v.request /\ queue' = v.queue
      /\ small' = v.small /\ full' = v.full /\ check' = v.check
  BY DEF Become
<1>2. OneRetrieval(Now)'
  BY <1>1 DEF Ready, OneRetrieval, Retrieved, Now
<1> QED
  BY <1>1, <1>2 DEF Ready, AtMostOne, Now

LEMMA EndsGood ==
    ASSUME NEW w, Base(w), w.told.open => w.request # "INTERNAL",
           NEW v, Shaped(v), Distinct(v.background), Ends(w, v)
    PROVE  Good(v)
<1>1. Base(v)
  BY DEF Base, Ends, QueueOK, RetrieverOK, SameRetriever
<1>2. OpenOK(v) /\ AttemptsOK(v) /\ Awaited(v)
  BY DEF Ends, OpenOK, AttemptsOK, Awaited, Searching
<1> QED
  BY <1>1, <1>2 DEF Good

LEMMA AuthenticatesAttempts ==
    ASSUME NEW w, IsList(w.queue), NEW v, NEW os, Authenticates(w, v, os)
    PROVE  AttemptsOK(v) /\ IsList(v.queue) /\ (QueueOK(w) => QueueOK(v))
<1> DEFINE Place(o) == CHOOSE i \in DOMAIN os : os[i] = o
           posted == [i \in DOMAIN os |-> [m |-> "AuthenticationCompleted", o |-> os[i]]]
           n == Len(os)
<1>1. /\ Distinct(os) /\ IsList(os) /\ os # <<>> /\ v.count = n
      /\ v.procs = [o \in Range(os) |-> [n |-> Place(o) - 1, tries |-> 0]]
      /\ v.queue = w.queue \o posted
  BY DEF Authenticates, Distinct
<1>2. n \in Nat \ {0} /\ DOMAIN os = 1 .. n
  <2>1. os \in Seq(Range(os))
    BY <1>1 DEF IsList
  <2> QED
    BY <1>1, <2>1, LenProperties, EmptySeq
<1> HIDE DEF n
<1>3. IsList(posted) /\ DOMAIN posted = 1 .. n
  <2>1. DOMAIN posted = 1 .. n /\ posted = [i \in 1 .. n |-> posted[i]]
    BY <1>2
  <2> HIDE DEF posted
  <2> QED
    BY <1>2, <2>1, ListOf
<1>4. /\ IsList(v.queue) /\ Len(w.queue) \in Nat /\ Len(posted) = n
      /\ DOMAIN w.queue = 1 .. Len(w.queue)
      /\ DOMAIN v.queue = 1 .. Len(w.queue) + n
      /\ \A i \in 1 .. Len(w.queue) : v.queue[i] = w.queue[i]
      /\ \A i \in 1 .. n : v.queue[Len(w.queue) + i] = posted[i]
  <2>1. Len(posted) = n
    <3>1. posted \in Seq(Range(posted))
      BY <1>3 DEF IsList
    <3> HIDE DEF posted
    <3> QED
      BY <1>2, <1>3, <3>1, LenProperties
  <2> HIDE DEF posted
  <2> DEFINE q == w.queue
             r == v.queue
  <2>2. IsList(q) /\ IsList(posted) /\ r = q \o posted
    BY <1>1, <1>3
  <2> HIDE DEF q, r
  <2>3. /\ IsList(r) /\ Len(q) \in Nat /\ DOMAIN q = 1 .. Len(q)
        /\ DOMAIN r = 1 .. Len(q) + Len(posted)
        /\ \A i \in DOMAIN q : r[i] = q[i]
        /\ \A i \in DOMAIN posted : r[Len(q) + i] = posted[i]
    <3>1. IsList(r) /\ Len(q) \in Nat /\ DOMAIN q = 1 .. Len(q)
      BY <2>2, ListConcat
    <3>2. DOMAIN r = 1 .. Len(q) + Len(posted)
      BY <2>2, ListConcat
    <3>3. \A i \in DOMAIN q : r[i] = q[i]
      BY <2>2, ListConcat
    <3>4. \A i \in DOMAIN posted : r[Len(q) + i] = posted[i]
      BY <2>2, ListConcat
    <3> QED
      BY <3>1, <3>2, <3>3, <3>4
  <2> QED
    BY <1>3, <2>1, <2>3 DEF q, r
<1>5. \A o \in Range(os) : Place(o) \in 1 .. n /\ os[Place(o)] = o
  <2> SUFFICES ASSUME NEW o \in Range(os)
               PROVE  Place(o) \in 1 .. n /\ os[Place(o)] = o
    OBVIOUS
  <2>1. \E i \in DOMAIN os : os[i] = o
    BY DEF Range
  <2> QED
    BY <1>2, <2>1
<1> HIDE DEF Place
<1>6. InTurn(v) = Range(os)
  <2> SUFFICES ASSUME NEW o \in Range(os)
               PROVE  v.procs[o].n >= 0 /\ Attempted(v, o)
    BY <1>1 DEF InTurn
  <2>1. v.procs[o].n >= 0
    BY <1>1, <1>2, <1>5
  <2> DEFINE k == Len(w.queue) + Place(o)
  <2>2. k \in DOMAIN v.queue /\ v.queue[k] = posted[Place(o)]
    BY <1>2, <1>4, <1>5
  <2>3. posted[Place(o)] = [m |-> "AuthenticationCompleted", o |-> o]
    BY <1>2, <1>5
  <2> HIDE DEF k, posted
  <2> QED
    BY <2>1, <2>2, <2>3 DEF Attempted
<1>7. IsFiniteSet(Range(os)) /\ Cardinality(Range(os)) = n
  <2>1. os \in [1 .. n -> Range(os)]
    <3>1. os \in Seq(Range(os))
      BY <1>1 DEF IsList
    <3> QED
      BY <1>2, <3>1, LenProperties
  <2>2. \A i, j \in 1 .. n : os[i] = os[j] => i = j
    BY <1>1, <1>2 DEF Distinct
  <2>3. \A o \in Range(os) : \E i \in 1 .. n : os[i] = o
    BY <1>2 DEF Range
  <2>4. os \in Bijection(1 .. n, Range(os))
    BY <2>1, <2>2, <2>3 DEF Bijection, Injection, Surjection, IsInjective
  <2>5. IsFiniteSet(1 .. n) /\ Cardinality(1 .. n) = n
    BY <1>2, FS_Interval
  <2>6. ExistsBijection(1 .. n, Range(os))
    BY <2>4 DEF ExistsBijection
  <2> QED
    BY <2>5, <2>6, FS_Bijection
<1>8. AttemptsOK(v)
  <2>1. DOMAIN v.procs = Range(os) /\ v.procs = [o \in DOMAIN v.procs |-> v.procs[o]]
    BY <1>1
  <2>2. \A o \in DOMAIN v.procs : v.procs[o] \in [n : Int, tries : Int]
                                  /\ v.procs[o].n = Place(o) - 1
    BY <1>1, <1>2, <1>5
  <2>3. \A o, p \in DOMAIN v.procs : v.procs[o].n = v.procs[p].n => o = p
    <3> SUFFICES ASSUME NEW o \in Range(os), NEW p \in Range(os),
                        v.procs[o].n = v.procs[p].n
                 PROVE  o = p
      BY <2>1
    <3>1. Place(o) = Place(p)
      BY <1>2, <1>5, <2>1, <2>2
    <3> QED
      BY <1>5, <3>1
  <2>4. v.count \in Nat \ {0} /\ v.count <= Cardinality(InTurn(v))
    BY <1>1, <1>2, <1>6, <1>7
  <2> QED
    BY <1>7, <2>1, <2>2, <2>3, <2>4 DEF AttemptsOK
<1>9. QueueOK(w) => QueueOK(v)
  <2> SUFFICES ASSUME QueueOK(w), NEW i \in DOMAIN v.queue
               PROVE  MessageOK(v.queue[i])
    BY <1>4 DEF QueueOK
  <2>1. CASE i \in 1 .. Len(w.queue)
    BY <1>4, <2>1 DEF QueueOK
  <2>2. CASE i \notin 1 .. Len(w.queue)
    <3> DEFINE j == i - Len(w.queue)
    <3>1. j \in 1 .. n /\ i = Len(w.queue) + j
      BY <1>2, <1>4, <2>2
    <3>2. v.queue[i] = [m |-> "AuthenticationCompleted", o |-> os[j]]
      BY <1>2, <1>4, <3>1
    <3> QED
      BY <3>2 DEF MessageOK
  <2> QED
    BY <2>1, <2>2
<1> QED
  BY <1>4, <1>8, <1>9

(* A message that is added at the end.                                     *)
LEMMA Appended ==
    ASSUME NEW w, QueueOK(w), NEW v, NEW x, v.queue = Append(w.queue, x)
    PROVE  /\ MessageOK(x) => QueueOK(v)
           /\ Holds(v, x.m)
           /\ \A m : Holds(w, m) => Holds(v, m)
<1>1. /\ IsList(v.queue) /\ Len(w.queue) \in Nat /\ DOMAIN w.queue = 1 .. Len(w.queue)
      /\ DOMAIN v.queue = 1 .. Len(w.queue) + 1
      /\ v.queue[Len(w.queue) + 1] = x
      /\ \A i \in DOMAIN w.queue : v.queue[i] = w.queue[i]
  BY ListAppend DEF QueueOK
<1>2. MessageOK(x) => QueueOK(v)
  <2> SUFFICES ASSUME MessageOK(x), NEW i \in DOMAIN v.queue
               PROVE  MessageOK(v.queue[i])
    BY <1>1 DEF QueueOK
  <2>1. i \in DOMAIN w.queue \/ i = Len(w.queue) + 1
    BY <1>1
  <2> QED
    BY <1>1, <2>1 DEF QueueOK
<1>3. Holds(v, x.m)
  <2>1. Len(w.queue) + 1 \in DOMAIN v.queue
    BY <1>1
  <2> QED
    BY <1>1, <2>1 DEF Holds
<1>4. \A m : Holds(w, m) => Holds(v, m)
  <2>1. \A i \in DOMAIN w.queue : i \in DOMAIN v.queue
    BY <1>1
  <2> QED
    BY <1>1, <2>1 DEF Holds
<1> QED
  BY <1>2, <1>3, <1>4

LEMMA OutcomeGood ==
    ASSUME NEW w, Mid(w), NEW v, Outcome(w, v)
    PROVE  Good(v)
<1>1. /\ Base(w) /\ QueueOK(w) /\ IsList(w.queue) /\ RetrieverOK(w)
      /\ w.told.open <=> w.request # "INTERNAL"
      /\ w.told.open => w.told.request = w.request
  BY DEF Mid, Base, QueueOK
<1>2. Shaped(v) /\ Distinct(v.background)
  BY DEF Outcome
<1>3. CASE Ends(w, v)
  BY <1>1, <1>2, <1>3, EndsGood
<1>4. SameRetriever(w, v) => RetrieverOK(v)
  BY <1>1 DEF RetrieverOK, SameRetriever
<1>5. CASE v.request = w.request /\ v.told.open = w.told.open
  <2>1. v.state # "Idle" => OpenOK(v)
    BY <1>1, <1>5 DEF OpenOK, Outcome, Tells, Mid
  <2>2. ASSUME NEW x, MessageOK(x), v.queue = Append(w.queue, x), SameRetriever(w, v),
               \/ v.state = "Loading" /\ x.m = "LoadingCompleted"
               \/ v.state = "Saving" /\ x.m = "SavingCompleted"
        PROVE  Good(v)
    <3>1. QueueOK(v) /\ Holds(v, x.m)
      BY <1>1, <2>2, Appended
    <3> QED
      BY <1>2, <1>4, <2>1, <2>2, <3>1 DEF Good, Base, AttemptsOK, Awaited, Searching
  <2>3. CASE Posts(w, v, "Loading", "LoadingCompleted")
    BY <2>2, <2>3 DEF Posts
  <2>4. CASE Posts(w, v, "Saving", "SavingCompleted")
    BY <2>2, <2>4 DEF Posts
  <2>5. CASE Searches(w, v)
    BY <1>1, <1>2, <1>4, <2>1, <2>5
       DEF Searches, Searching, Good, Base, AttemptsOK, Awaited, QueueOK
  <2>6. CASE AsksSmall(w, v)
    BY <1>1, <1>2, <1>4, <2>1, <2>6
       DEF AsksSmall, Searching, Good, Base, AttemptsOK, Awaited, QueueOK
  <2>7. CASE AsksFull(w, v)
    <3>1. v.state = "Retrieving" /\ RetrieverOK(v)
      BY <2>7 DEF AsksFull
    <3>2. /\ QueueOK(v)
          /\ PromptUnbusy => \/ (v.full.pending /\ v.full.asked)
                              \/ Holds(v, "FullConfigCompleted")
      <4>1. CASE v.queue = w.queue /\ (PromptUnbusy => v.full.pending /\ v.full.asked)
        BY <1>1, <4>1 DEF QueueOK
      <4>2. ASSUME NEW x, x.m = "FullConfigCompleted", v.queue = Append(w.queue, x)
            PROVE  QueueOK(v) /\ Holds(v, "FullConfigCompleted")
        <5>1. MessageOK(x)
          BY <4>2 DEF MessageOK
        <5> QED
          BY <1>1, <4>2, <5>1, Appended
      <4> QED
        BY <2>7, <4>1, <4>2 DEF AsksFull
    <3> QED
      BY <1>2, <2>1, <3>1, <3>2 DEF Good, Base, AttemptsOK, Awaited, Searching
  <2>8. ASSUME NEW os, Authenticates(w, v, os)
        PROVE  Good(v)
    <3>1. v.state = "Authenticating" /\ SameRetriever(w, v)
      BY <2>8 DEF Authenticates
    <3>2. AttemptsOK(v) /\ QueueOK(v)
      BY <1>1, <2>8, AuthenticatesAttempts
    <3> QED
      BY <1>2, <1>4, <2>1, <3>1, <3>2 DEF Good, Base, Awaited, Searching
  <2> QED
    BY <1>3, <2>3, <2>4, <2>5, <2>6, <2>7, <2>8 DEF Outcome
<1> QED
  BY <1>3, <1>5 DEF Outcome

-----------------------------------------------------------------------------
(* Which results are queued. *)

\* The messages that InPlace does not speak of.
Others == {"AuthenticationCompleted", "PushLinkBridge", "SmallConfigCompleted",
           "FullConfigCompleted", "MonitorEvent"}

\* In v such messages have been added to the queue of w.
Grows(w, v) ==
    /\ \A i \in DOMAIN w.queue : i \in DOMAIN v.queue /\ v.queue[i] = w.queue[i]
    /\ \A i \in DOMAIN v.queue \ DOMAIN w.queue : v.queue[i].m \in Others

LEMMA OthersFacts ==
    ASSUME NEW x, x.m \in Others
    PROVE  /\ ~IsCall(x) /\ x.m # "DoAbort"
           /\ x.m \notin {"LoadingCompleted", "BridgeSearchCompleted",
                          "SavingCompleted"}
BY DEF Others, IsCall, ProcedureCalls

LEMMA AppendGrows ==
    ASSUME NEW w, QueueOK(w), NEW x, x.m \in Others, MessageOK(x),
           NEW v, v.queue = Append(w.queue, x)
    PROVE  /\ Grows(w, v) /\ QueueOK(v) /\ Holds(v, x.m)
           /\ \A m : Holds(w, m) => Holds(v, m)
           /\ \E i \in DOMAIN v.queue : v.queue[i] = x
<1>1. QueueOK(v) /\ Holds(v, x.m) /\ \A m : Holds(w, m) => Holds(v, m)
  BY Appended
<1>2. /\ Len(w.queue) \in Nat /\ DOMAIN w.queue = 1 .. Len(w.queue)
      /\ DOMAIN v.queue = 1 .. Len(w.queue) + 1
      /\ v.queue[Len(w.queue) + 1] = x
      /\ \A i \in DOMAIN w.queue : v.queue[i] = w.queue[i]
  BY ListAppend DEF QueueOK
<1>3. \A i \in DOMAIN v.queue \ DOMAIN w.queue : i = Len(w.queue) + 1
  BY <1>2
<1>4. \A i \in DOMAIN w.queue : i \in DOMAIN v.queue
  BY <1>2
<1>5. Len(w.queue) + 1 \in DOMAIN v.queue
  BY <1>2
<1> QED
  BY <1>1, <1>2, <1>3, <1>4, <1>5 DEF Grows

LEMMA ConcatGrows ==
    ASSUME NEW w, QueueOK(w), NEW s, IsList(s),
           \A i \in DOMAIN s : s[i].m \in Others /\ MessageOK(s[i]),
           NEW v, v.queue = w.queue \o s
    PROVE  /\ Grows(w, v) /\ QueueOK(v)
           /\ \A i \in DOMAIN s : Holds(v, s[i].m)
           /\ \A m : Holds(w, m) => Holds(v, m)
<1> DEFINE q == w.queue
           r == v.queue
<1>1. IsList(q) /\ IsList(s) /\ r = q \o s
  BY DEF QueueOK
<1> HIDE DEF q, r
<1>2. IsList(r) /\ Len(q) \in Nat /\ DOMAIN q = 1 .. Len(q)
  BY <1>1, ListConcat
<1>3. Len(s) \in Nat /\ DOMAIN s = 1 .. Len(s) /\ DOMAIN r = 1 .. Len(q) + Len(s)
  BY <1>1, ListConcat
<1>4. \A i \in DOMAIN q : r[i] = q[i]
  BY <1>1, ListConcat
<1>5. \A i \in DOMAIN s : r[Len(q) + i] = s[i]
  BY <1>1, ListConcat
<1>6. \A i \in DOMAIN q : i \in DOMAIN r
  BY <1>2, <1>3
<1>7. ASSUME NEW i \in DOMAIN r \ DOMAIN q
      PROVE  r[i].m \in Others /\ MessageOK(r[i])
  <2>1. i - Len(q) \in DOMAIN s /\ i = Len(q) + (i - Len(q))
    BY <1>2, <1>3
  <2>2. r[i] = s[i - Len(q)]
    BY <1>5, <2>1
  <2> QED
    BY <2>1, <2>2
<1>8. \A i \in DOMAIN r : MessageOK(r[i])
  BY <1>4, <1>7 DEF QueueOK, q
<1>9. Grows(w, v) /\ QueueOK(v)
  BY <1>2, <1>4, <1>6, <1>7, <1>8 DEF Grows, QueueOK, q, r
<1>10. \A i \in DOMAIN s : Holds(v, s[i].m)
  <2>1. \A i \in DOMAIN s : Len(q) + i \in DOMAIN r
    BY <1>2, <1>3
  <2> QED
    BY <1>5, <2>1 DEF Holds, r
<1>11. \A m : Holds(w, m) => Holds(v, m)
  BY <1>4, <1>6 DEF Holds, q, r
<1> QED
  BY <1>9, <1>10, <1>11

LEMMA GrowsAbort ==
    ASSUME NEW w, AbortComesLast(w), NEW v, Grows(w, v)
    PROVE  AbortComesLast(v)
<1> SUFFICES ASSUME NEW i \in DOMAIN v.queue, NEW j \in DOMAIN v.queue,
                    i < j, v.queue[i].m = "DoAbort"
             PROVE  ~IsCall(v.queue[j])
  BY DEF AbortComesLast
<1>1. i \in DOMAIN w.queue /\ w.queue[i].m = "DoAbort"
  BY OthersFacts DEF Grows
<1>2. CASE j \in DOMAIN w.queue
  BY <1>1, <1>2 DEF Grows, AbortComesLast
<1>3. CASE j \notin DOMAIN w.queue
  BY <1>3, OthersFacts DEF Grows
<1> QED
  BY <1>2, <1>3

LEMMA CleanGrows ==
    ASSUME NEW w, Clean(w), NEW v, Grows(w, v), v.search => v.state \in Searching
    PROVE  InPlace(v)
<1>1. \A i \in DOMAIN v.queue :
         v.queue[i].m \notin {"LoadingCompleted", "BridgeSearchCompleted",
                              "SavingCompleted"}
  BY OthersFacts DEF Clean, Grows
<1>2. AbortComesLast(v)
  BY GrowsAbort DEF Clean
<1> QED
  BY <1>1, <1>2 DEF InPlace, AtMostOne

(* A step that goes on with the same state.                                *)
LEMMA GrowsInPlace ==
    ASSUME NEW w, InPlace(w), NEW v, Grows(w, v),
           v.state = w.state, v.search = w.search
    PROVE  InPlace(v)
<1>1. \A i \in DOMAIN v.queue :
         v.queue[i].m \in {"LoadingCompleted", "BridgeSearchCompleted",
                           "SavingCompleted"} =>
             i \in DOMAIN w.queue /\ v.queue[i] = w.queue[i]
  BY OthersFacts DEF Grows
<1>2. \A i \in DOMAIN w.queue : DroppedFirst(w, i) => DroppedFirst(v, i)
  <2> SUFFICES ASSUME NEW i \in DOMAIN w.queue, DroppedFirst(w, i),
                      NEW j \in DOMAIN v.queue, j < i
               PROVE  ~IsCall(v.queue[j])
    BY DEF DroppedFirst
  <2>1. CASE j \in DOMAIN w.queue
    BY <2>1 DEF Grows, DroppedFirst
  <2>2. CASE j \notin DOMAIN w.queue
    BY <2>2, OthersFacts DEF Grows
  <2> QED
    BY <2>1, <2>2
<1>3. \A i \in DOMAIN v.queue :
          /\ v.queue[i].m = "LoadingCompleted" =>
                v.state = "Loading" \/ DroppedFirst(v, i)
          /\ v.queue[i].m = "BridgeSearchCompleted" =>
                (v.state \in Searching /\ ~v.search) \/ DroppedFirst(v, i)
          /\ v.queue[i].m = "SavingCompleted" =>
                v.state = "Saving" \/ DroppedFirst(v, i)
  BY <1>1, <1>2 DEF InPlace
<1>4. /\ v.state = "Loading" => AtMostOne(v, "LoadingCompleted")
      /\ v.state \in Searching => AtMostOne(v, "BridgeSearchCompleted")
      /\ v.state = "Saving" => AtMostOne(v, "SavingCompleted")
  BY <1>1 DEF InPlace, AtMostOne
<1>5. AbortComesLast(v)
  BY GrowsAbort DEF InPlace
<1> QED
  BY <1>3, <1>4, <1>5 DEF InPlace

LEMMA OutcomeInPlace ==
    ASSUME NEW w, QueueOK(w), Clean(w), NEW v, Outcome(w, v)
    PROVE  InPlace(v)
<1>1. v.search => v.state \in Searching
  BY DEF Outcome, Clean, Searches
<1>2. v.queue = w.queue => Grows(w, v)
  BY DEF Grows
<1>3. ASSUME NEW x, MessageOK(x), x.m \in Others, v.queue = Append(w.queue, x)
      PROVE  Grows(w, v)
  BY <1>3, AppendGrows
<1>4. ASSUME NEW m, NEW z, Posts(w, v, z, m),
             \/ m = "SavingCompleted" /\ z = "Saving"
             \/ m = "LoadingCompleted" /\ z = "Loading"
      PROVE  InPlace(v)
  <2>1. PICK x : /\ x.m = m /\ v.queue = Append(w.queue, x)
                 /\ v.state = z
    BY <1>4 DEF Posts
  <2> DEFINE n == Len(w.queue) + 1
  <2>2. /\ n \in Nat /\ DOMAIN w.queue = 1 .. n - 1 /\ DOMAIN v.queue = 1 .. n
        /\ v.queue[n] = x /\ \A i \in DOMAIN w.queue : v.queue[i] = w.queue[i]
    BY <2>1, ListAppend DEF QueueOK
  <2> HIDE DEF n
  <2>3. \A i \in DOMAIN v.queue : i = n \/ i \in DOMAIN w.queue
    BY <2>2
  <2>4. \A i \in DOMAIN v.queue :
           /\ v.queue[i].m # "BridgeSearchCompleted"
           /\ v.queue[i].m = "SavingCompleted" => i = n /\ m = "SavingCompleted"
           /\ v.queue[i].m = "LoadingCompleted" => i = n /\ m = "LoadingCompleted"
    BY <1>4, <2>1, <2>2, <2>3 DEF Clean
  <2>5. AbortComesLast(v)
    <3> SUFFICES ASSUME NEW i \in DOMAIN v.queue, NEW j \in DOMAIN v.queue,
                        i < j, v.queue[i].m = "DoAbort"
                 PROVE  ~IsCall(v.queue[j])
      BY DEF AbortComesLast
    <3>1. i \in DOMAIN w.queue
      BY <1>4, <2>1, <2>2, <2>3
    <3>2. CASE j = n
      BY <1>4, <2>1, <2>2, <3>2 DEF IsCall, ProcedureCalls
    <3>3. CASE j \in DOMAIN w.queue
      BY <2>2, <3>1, <3>3 DEF Clean, AbortComesLast
    <3> QED
      BY <2>3, <3>2, <3>3
  <2>6. z \notin Searching
    BY <1>4 DEF Searching
  <2> QED
    BY <1>1, <1>4, <2>1, <2>4, <2>5, <2>6 DEF InPlace, AtMostOne
<1>5. CASE Posts(w, v, "Saving", "SavingCompleted") \/ Posts(w, v, "Loading", "LoadingCompleted")
  BY <1>4, <1>5
<1>6. CASE AsksFull(w, v)
  <2>1. ASSUME NEW x, x.m = "FullConfigCompleted" PROVE MessageOK(x) /\ x.m \in Others
    BY <2>1 DEF MessageOK, Others
  <2> QED
    BY <1>1, <1>2, <1>3, <1>6, <2>1, CleanGrows DEF AsksFull
<1>7. ASSUME NEW os, Authenticates(w, v, os)
      PROVE  InPlace(v)
  <2> DEFINE s == [i \in DOMAIN os |-> [m |-> "AuthenticationCompleted", o |-> os[i]]]
  <2>1. IsList(os) /\ v.queue = w.queue \o s
    BY <1>7 DEF Authenticates, Distinct
  <2>2. IsList(s)
    <3>1. Len(os) \in Nat /\ DOMAIN os = 1 .. Len(os)
      BY <2>1, LenProperties DEF IsList
    <3>2. DOMAIN s = 1 .. Len(os) /\ s = [i \in 1 .. Len(os) |-> s[i]]
      BY <3>1
    <3> HIDE DEF s
    <3> QED
      BY <3>1, <3>2, ListOf
  <2>3. \A i \in DOMAIN s : s[i].m \in Others /\ MessageOK(s[i])
    BY DEF Others, MessageOK
  <2> HIDE DEF s
  <2>4. Grows(w, v)
    BY <2>1, <2>2, <2>3, ConcatGrows
  <2> QED
    BY <1>1, <2>4, CleanGrows
<1>8. CASE Ends(w, v) \/ Searches(w, v) \/ AsksSmall(w, v)
  BY <1>1, <1>2, <1>8, CleanGrows DEF Ends, Searches, AsksSmall
<1> QED
  BY <1>5, <1>6, <1>7, <1>8 DEF Outcome

(* A bridge that was searched for stays so, and INTERNAL procedures tell   *)
(* the client nothing.                                                     *)
LEMMA OutcomeSought ==
    ASSUME NEW w, Found(w), NEW v, Outcome(w, v)
    PROVE  Sought(v)
<1>1. v.request \in {w.request, "INTERNAL"} /\ Tells(w, v)
  BY DEF Outcome, Ends
<1>2. w.request = "INTERNAL" => v.request = "INTERNAL" /\ v.told.said = w.told.said
  BY <1>1 DEF Tells
<1> QED
  BY <1>1, <1>2 DEF Tells, Found, Sought

LEMMA QuietReady ==
    ASSUME NEW w, Rests(w), NEW v, v.small = w.small, SameRetriever(w, v),
           v.check = w.check, v.state # "Idle" => v.request = w.request,
           \A i \in DOMAIN v.queue :
              \/ i \in DOMAIN w.queue /\ v.queue[i] = w.queue[i]
              \/ v.queue[i].m \in {"LoadingCompleted", "AuthenticationCompleted"}
    PROVE  Ready(v)
<1>1. \A i \in DOMAIN v.queue :
          v.queue[i].m \notin {"SavingCompleted", "SmallConfigCompleted",
                               "FullConfigCompleted", "MonitorEvent", "DoAbort"}
  BY DEF Rests
<1>2. OneRetrieval(v)
  BY <1>1 DEF Rests, SameRetriever, OneRetrieval, Retrieved
<1> QED
  BY <1>1, <1>2 DEF Rests, Ready, AtMostOne

LEMMA OutcomeReady ==
    ASSUME NEW w, QueueOK(w), Rests(w), NEW v, Outcome(w, v)
    PROVE  Ready(v)
<1>1. /\ v.check = NoCheck /\ w.request # "INTERNAL"
      /\ w.small = {} /\ ~w.full.pending /\ ~w.full.refreshing
      /\ v.small # w.small => AsksSmall(w, v)
      /\ v.state # "Idle" => v.request = w.request
      /\ v.check = w.check
  BY DEF Outcome, Tells, Rests, Ends
<1>2. \A i \in DOMAIN w.queue :
          w.queue[i].m \notin {"SavingCompleted", "SmallConfigCompleted",
                               "FullConfigCompleted", "MonitorEvent", "DoAbort"}
  BY DEF Rests
<1>3. CASE AsksSmall(w, v)
  BY <1>1, <1>2, <1>3
     DEF AsksSmall, SameRetriever, Ready, AtMostOne, OneRetrieval, Retrieved
<1>4. ASSUME NEW x, v.queue = Append(w.queue, x)
      PROVE  \E n : /\ n \notin DOMAIN w.queue
                    /\ DOMAIN v.queue = DOMAIN w.queue \cup {n} /\ v.queue[n] = x
                    /\ \A i \in DOMAIN w.queue : v.queue[i] = w.queue[i]
  <2> DEFINE n == Len(w.queue) + 1
  <2>1. /\ Len(w.queue) \in Nat /\ DOMAIN w.queue = 1 .. Len(w.queue)
        /\ DOMAIN v.queue = 1 .. Len(w.queue) + 1 /\ v.queue[n] = x
        /\ \A i \in DOMAIN w.queue : v.queue[i] = w.queue[i]
    BY <1>4, ListAppend DEF QueueOK
  <2>2. n \notin DOMAIN w.queue /\ DOMAIN v.queue = DOMAIN w.queue \cup {n}
    BY <2>1
  <2> QED
    BY <2>1, <2>2
<1>5. CASE v.small = w.small
  <2>1. CASE Ends(w, v) \/ Searches(w, v)
    BY <1>1, <1>5, <2>1, QuietReady DEF Ends, Searches
  <2>2. CASE Posts(w, v, "Loading", "LoadingCompleted")
    <3>1. PICK x : x.m = "LoadingCompleted" /\ v.queue = Append(w.queue, x)
      BY <2>2 DEF Posts
    <3>2. PICK n : /\ DOMAIN v.queue = DOMAIN w.queue \cup {n} /\ v.queue[n] = x
                   /\ \A i \in DOMAIN w.queue : v.queue[i] = w.queue[i]
      BY <1>4, <3>1
    <3> QED
      BY <1>1, <1>5, <2>2, <3>1, <3>2, QuietReady DEF Posts
  <2>3. CASE Posts(w, v, "Saving", "SavingCompleted")
    <3>1. PICK x : x.m = "SavingCompleted" /\ v.queue = Append(w.queue, x)
      BY <2>3 DEF Posts
    <3>2. PICK n : /\ n \notin DOMAIN w.queue
                   /\ DOMAIN v.queue = DOMAIN w.queue \cup {n} /\ v.queue[n] = x
                   /\ \A i \in DOMAIN w.queue : v.queue[i] = w.queue[i]
      BY <1>4, <3>1
    <3>3. \A i \in DOMAIN v.queue :
             /\ v.queue[i].m \notin {"SmallConfigCompleted", "FullConfigCompleted",
                                     "MonitorEvent", "DoAbort"}
             /\ v.queue[i].m = "SavingCompleted" => i = n
      BY <1>2, <3>1, <3>2
    <3> QED
      BY <1>1, <1>5, <2>3, <3>3
         DEF Posts, SameRetriever, Ready, AtMostOne, OneRetrieval, Retrieved
  <2>4. ASSUME NEW os, Authenticates(w, v, os)
        PROVE  Ready(v)
    <3> DEFINE s == [i \in DOMAIN os |-> [m |-> "AuthenticationCompleted", o |-> os[i]]]
    <3>1. IsList(os) /\ v.queue = w.queue \o s
      BY <2>4 DEF Authenticates, Distinct
    <3>2. IsList(s)
      <4>1. Len(os) \in Nat /\ DOMAIN os = 1 .. Len(os)
        BY <3>1, LenProperties DEF IsList
      <4>2. DOMAIN s = 1 .. Len(os) /\ s = [i \in 1 .. Len(os) |-> s[i]]
        BY <4>1
      <4> HIDE DEF s
      <4> QED
        BY <4>1, <4>2, ListOf
    <3>3. \A i \in DOMAIN s : s[i].m = "AuthenticationCompleted"
      OBVIOUS
    <3> HIDE DEF s
    <3>4. \A i \in DOMAIN v.queue :
             \/ i \in DOMAIN w.queue /\ v.queue[i] = w.queue[i]
             \/ v.queue[i].m = "AuthenticationCompleted"
      <4> DEFINE n == Len(w.queue)
             q == w.queue
             r == v.queue
      <4>0. IsList(q) /\ IsList(s) /\ r = q \o s
        BY <3>1, <3>2 DEF QueueOK
      <4> HIDE DEF q, r
      <4>1. /\ n \in Nat /\ DOMAIN q = 1 .. n
            /\ Len(s) \in Nat /\ DOMAIN s = 1 .. Len(s)
            /\ DOMAIN r = 1 .. n + Len(s)
            /\ \A i \in DOMAIN q : r[i] = q[i]
            /\ \A i \in DOMAIN s : r[n + i] = s[i]
        BY <4>0, ListConcat DEF q
      <4> HIDE DEF n
      <4> USE DEF q, r
      <4>2. ASSUME NEW i \in DOMAIN v.queue, i \notin DOMAIN w.queue
            PROVE  i - n \in DOMAIN s /\ i = n + (i - n)
        BY <4>1, <4>2
      <4> QED
        BY <3>3, <4>1, <4>2
    <3> QED
      BY <1>1, <1>5, <2>4, <3>4, QuietReady DEF Authenticates
  <2>5. CASE AsksFull(w, v)
    <3>1. /\ v.state = "Retrieving" /\ ~v.full.refreshing
          /\ v.full.pending => v.full.asked /\ v.queue = w.queue
      BY <1>1, <2>5 DEF AsksFull
    <3>2. CASE v.queue = w.queue
      BY <1>1, <1>2, <1>5, <3>1, <3>2 DEF Ready, AtMostOne, OneRetrieval, Retrieved
    <3>3. ASSUME NEW x, x.m = "FullConfigCompleted", v.queue = Append(w.queue, x)
          PROVE  Ready(v)
      <4>1. PICK n : /\ n \notin DOMAIN w.queue
                     /\ DOMAIN v.queue = DOMAIN w.queue \cup {n} /\ v.queue[n] = x
                     /\ \A i \in DOMAIN w.queue : v.queue[i] = w.queue[i]
        BY <1>4, <3>3
      <4>2. ~v.full.pending
        BY <3>1, <4>1
      <4>3. \A i \in DOMAIN v.queue :
               /\ v.queue[i].m \notin {"SavingCompleted", "SmallConfigCompleted",
                                       "MonitorEvent", "DoAbort"}
               /\ v.queue[i].m = "FullConfigCompleted" => i = n
        BY <1>2, <3>3, <4>1
      <4> QED
        BY <1>1, <1>5, <3>1, <4>2, <4>3 DEF Ready, AtMostOne, OneRetrieval, Retrieved
    <3> QED
      BY <2>5, <3>2, <3>3 DEF AsksFull
  <2> QED
    BY <1>3, <2>1, <2>2, <2>3, <2>4, <2>5 DEF Outcome
<1> QED
  BY <1>1, <1>3, <1>5

-----------------------------------------------------------------------------
(* What every step shows. *)

Keeps ==
    /\ setup' = setup
    /\ Good(Now)'
    /\ AbortsWait /\ NothingBegun /\ InPlace(Now) => InPlace(Now)'
    /\ AbortsWait /\ NothingBegun /\ InPlace(Now) /\ Sought(Now) => Sought(Now)'
    /\ Undisturbed /\ Ready(Now) => Ready(Now)'
    /\ stream'.on => stream.on \/ Starts

\* The record that a step leads to, and one in the middle of a handler, as far
\* as the last three are concerned.
Preserves(v) ==
    /\ AbortsWait /\ NothingBegun /\ InPlace(Now) /\ Sought(Now) => Sought(v)
    /\ Undisturbed /\ Ready(Now) => Ready(v)
    /\ v.stream.on => stream.on \/ Starts

Prepares(w) ==
    /\ AbortsWait /\ NothingBegun /\ InPlace(Now) /\ Sought(Now) => Found(w)
    /\ Undisturbed /\ Ready(Now) => Rests(w)
    /\ w.stream.on => stream.on \/ Starts

LEMMA LikePrepares ==
    ASSUME NEW w, NEW v, Prepares(w), Like(w, v)
    PROVE  Prepares(v)
BY LikeFound, LikeRests DEF Prepares, Like, Tells

LEMMA OutcomePreserves ==
    ASSUME NEW w, QueueOK(w), Prepares(w), NEW v, Outcome(w, v)
    PROVE  Preserves(v)
<1>1. v.stream.on => w.stream.on \/ Starts
  BY DEF Outcome, Tells
<1> QED
  BY <1>1, OutcomeSought, OutcomeReady DEF Prepares, Preserves

\* A step that leaves the procedure where it is.
LEMMA StaysGood ==
    ASSUME NEW w, Good(w), NEW v, Base(v), v.state = w.state,
           v.request = w.request, v.told.open = w.told.open,
           v.told.request = w.told.request,
           v.count = w.count, v.procs = w.procs, Awaited(v),
           v.state = "Authenticating" => \A o : Attempted(w, o) => Attempted(v, o)
    PROVE  Good(v)
<1>1. OpenOK(v)
  BY DEF Good, OpenOK
<1>2. AttemptsOK(v)
  <2> SUFFICES ASSUME v.state = "Authenticating"
               PROVE  AttemptsOK(v)
    BY DEF AttemptsOK
  <2>1. AttemptsOK(w) /\ w.state = "Authenticating"
    BY DEF Good
  <2>2. /\ IsFiniteSet(DOMAIN w.procs) /\ w.count \in Nat \ {0}
        /\ w.count <= Cardinality(InTurn(w))
    BY <2>1 DEF AttemptsOK
  <2>3. InTurn(w) \in SUBSET InTurn(v) /\ InTurn(v) \in SUBSET DOMAIN w.procs
    BY DEF InTurn
  <2>4. IsFiniteSet(InTurn(v))
    BY <2>2, <2>3, FS_Subset
  <2>5. Cardinality(InTurn(w)) <= Cardinality(InTurn(v)) /\ IsFiniteSet(InTurn(w))
    BY <2>3, <2>4, FS_Subset
  <2>6. Cardinality(InTurn(w)) \in Nat /\ Cardinality(InTurn(v)) \in Nat
    BY <2>4, <2>5, FS_CardinalityType
  <2>7. w.count <= Cardinality(InTurn(v))
    BY <2>2, <2>5, <2>6
  <2> QED
    BY <2>1, <2>2, <2>7 DEF AttemptsOK
<1> QED
  BY <1>1, <1>2 DEF Good

LEMMA GrowsAttempted ==
    ASSUME NEW w, NEW v, Grows(w, v), v.tasks = w.tasks, v.procs = w.procs
    PROVE  \A o : Attempted(w, o) => Attempted(v, o)
BY DEF Grows, Attempted

LEMMA SameGood ==
    ASSUME NEW w, Good(w), NEW v, Same(w, v)
    PROVE  Good(v)
<1>1. Base(v)
  BY LikeBase DEF Good, Same
<1>2. Awaited(v)
  BY DEF Good, Awaited, Same, Like, SameRetriever, Holds
<1>3. \A o : Attempted(w, o) => Attempted(v, o)
  BY DEF Attempted, Same, Like
<1> QED
  BY <1>1, <1>2, <1>3, StaysGood DEF Same, Like, Tells

LEMMA GoodKeeps ==
    ASSUME NEW v, Become(v), Good(v),
           AbortsWait /\ NothingBegun /\ InPlace(Now) => InPlace(v),
           Preserves(v)
    PROVE  Keeps
<1>1. setup' = setup /\ stream' = v.stream
  BY DEF Become
<1> QED
  BY <1>1, BecomeGood, BecomeInPlace, BecomeSought, BecomeReady DEF Keeps, Preserves

\* A handler that works on its procedure.
LEMMA OutcomeKeeps ==
    ASSUME NEW w, Mid(w), NEW v, Outcome(w, v), Become(v),
           AbortsWait /\ NothingBegun /\ InPlace(Now) => Clean(w),
           Prepares(w)
    PROVE  Keeps
<1>1. Good(v)
  BY OutcomeGood
<1>2. QueueOK(w)
  BY DEF Mid, Base
<1> QED
  BY <1>1, <1>2, OutcomeInPlace, OutcomePreserves, GoodKeeps

(* The message that is handled leaves the queue.                           *)
LEMMA PoppedQueue ==
    ASSUME Base(Now), queue # <<>>
    PROVE  /\ Shaped(Popped) /\ Popped.queue = Tail(queue)
           /\ Len(queue) \in Nat \ {0} /\ DOMAIN queue = 1 .. Len(queue)
           /\ Msg = queue[1] /\ MessageOK(Msg)
           /\ \A i \in DOMAIN Popped.queue :
                 /\ i + 1 \in DOMAIN queue /\ i \in Nat \ {0}
                 /\ Popped.queue[i] = queue[i + 1]
           /\ \A i \in DOMAIN queue :
                 i = 1 \/ (i - 1 \in DOMAIN Popped.queue
                             /\ Popped.queue[i - 1] = queue[i])
           /\ Base(Popped)
<1>1. Shaped(Popped) /\ Popped.queue = Tail(queue)
  BY NowShaped
<1>2. IsList(queue) /\ \A i \in DOMAIN queue : MessageOK(queue[i])
  BY DEF Base, QueueOK, Now
<1>3. /\ IsList(Tail(queue))
      /\ Len(queue) \in Nat \ {0} /\ DOMAIN queue = 1 .. Len(queue)
      /\ Msg = queue[1] /\ DOMAIN Tail(queue) = 1 .. Len(queue) - 1
      /\ \A i \in DOMAIN Tail(queue) : Tail(queue)[i] = queue[i + 1]
  BY <1>2, ListTail DEF Msg
<1>4. \A i \in DOMAIN Tail(queue) : i + 1 \in DOMAIN queue /\ i \in Nat \ {0}
  BY <1>3
<1>5. \A i \in DOMAIN queue : i = 1 \/ i - 1 \in DOMAIN Tail(queue)
  BY <1>3
<1>6. \A i \in DOMAIN queue : i - 1 + 1 = i /\ 1 \in DOMAIN queue
  BY <1>3
<1>7. Base(Popped)
  <2>1. QueueOK(Popped)
    BY <1>1, <1>2, <1>3, <1>4 DEF QueueOK
  <2>2. Popped.full = full /\ Popped.background = background
    BY DEF Popped, Now
  <2>3. RetrieverOK(Popped) /\ Distinct(Popped.background)
    BY <2>2 DEF Base, RetrieverOK, Now
  <2> QED
    BY <1>1, <2>1, <2>3 DEF Base
<1>8. MessageOK(Msg)
  <2>1. 1 \in DOMAIN queue
    BY <1>3
  <2> QED
    BY <1>2, <1>3, <2>1
<1> QED
  BY <1>1, <1>3, <1>4, <1>5, <1>6, <1>7, <1>8

PoppedFields ==
    /\ Popped.state = state /\ Popped.request = request /\ Popped.count = count
    /\ Popped.procs = procs /\ Popped.search = search /\ Popped.small = small
    /\ Popped.full = full /\ Popped.tasks = tasks /\ Popped.told = told
    /\ Popped.background = background /\ Popped.stream = stream
    /\ Popped.check = check

LEMMA PoppedIsNow == PoppedFields
BY DEF PoppedFields, Popped, Now

\* While a procedure runs, its handlers begin in the middle of it.
LEMMA PoppedMid ==
    ASSUME Good(Now), queue # <<>>, state # "Idle"
    PROVE  Mid(Popped)
<1>1. Base(Popped)
  BY PoppedQueue DEF Good
<1>2. (told.open <=> request # "INTERNAL") /\ (told.open => told.request = request)
  BY DEF Good, OpenOK, Now
<1> QED
  BY <1>1, <1>2, PoppedIsNow DEF Mid, PoppedFields

LEMMA PoppedAbort ==
    ASSUME Base(Now), queue # <<>>, AbortComesLast(Now)
    PROVE  AbortComesLast(Popped)
<1> SUFFICES ASSUME NEW i \in DOMAIN Popped.queue, NEW j \in DOMAIN Popped.queue,
                    i < j, Popped.queue[i].m = "DoAbort"
             PROVE  ~IsCall(Popped.queue[j])
  BY DEF AbortComesLast
<1>1. /\ i \in Nat /\ j \in Nat /\ i + 1 \in DOMAIN queue /\ j + 1 \in DOMAIN queue
      /\ Popped.queue[i] = queue[i + 1] /\ Popped.queue[j] = queue[j + 1]
  BY PoppedQueue
<1>2. i + 1 < j + 1
  BY <1>1
<1> QED
  BY <1>1, <1>2 DEF AbortComesLast, Now

(* Nothing is left that could answer, when a procedure is accepted, ...    *)
LEMMA AcceptedClean ==
    ASSUME Base(Now), queue # <<>>, InPlace(Now), state = "Idle", IsCall(Msg)
    PROVE  Clean(Popped)
<1>1. ASSUME NEW i \in DOMAIN Popped.queue
      PROVE  Popped.queue[i].m \notin {"LoadingCompleted", "BridgeSearchCompleted",
                                       "SavingCompleted"}
  <2>1. /\ i + 1 \in DOMAIN queue /\ i \in Nat \ {0} /\ Msg = queue[1]
        /\ 1 \in DOMAIN queue
        /\ Popped.queue[i] = queue[i + 1]
    BY PoppedQueue
  <2>2. ~DroppedFirst(Now, i + 1)
    <3>1. 1 < i + 1
      BY <2>1
    <3> QED
      BY <2>1, <3>1 DEF DroppedFirst, Now
  <2> QED
    BY <2>1, <2>2 DEF InPlace, Now, Searching
<1>2. ~search
  BY DEF InPlace, Now, Searching
<1>3. AbortComesLast(Popped)
  BY PoppedAbort DEF InPlace
<1> QED
  BY <1>1, <1>2, <1>3, PoppedIsNow DEF Clean, PoppedFields

\* ... while it does something else, and when the one answer is handled.
LEMMA WorkingClean ==
    ASSUME Base(Now), queue # <<>>, InPlace(Now), state # "Idle",
           \/ state \notin Searching \cup {"Loading", "Saving"}
           \/ state = "Loading" /\ Msg.m = "LoadingCompleted"
           \/ state \in Searching /\ Msg.m = "BridgeSearchCompleted"
           \/ state = "Saving" /\ Msg.m = "SavingCompleted"
    PROVE  Clean(Popped)
<1>1. \A i \in DOMAIN queue : ~DroppedFirst(Now, i)
  BY DEF DroppedFirst, Now
<1>2. ASSUME NEW i \in DOMAIN Popped.queue
      PROVE  Popped.queue[i].m \notin {"LoadingCompleted", "BridgeSearchCompleted",
                                       "SavingCompleted"}
  <2>1. /\ i + 1 \in DOMAIN queue /\ i \in Nat \ {0} /\ Msg = queue[1]
        /\ 1 \in DOMAIN queue
        /\ Popped.queue[i] = queue[i + 1]
    BY PoppedQueue
  <2>2. i + 1 # 1
    BY <2>1
  <2>3. queue[i + 1].m = "BridgeSearchCompleted" => state \in Searching
    BY <1>1, <2>1 DEF InPlace, Now
  <2>4. /\ queue[i + 1].m = "SavingCompleted" => state = "Saving"
        /\ queue[i + 1].m = "LoadingCompleted" => state = "Loading"
    BY <1>1, <2>1 DEF InPlace, Now
  <2>5. state \in Searching => AtMostOne(Now, "BridgeSearchCompleted")
    BY DEF InPlace, Now
  <2>6. /\ state = "Saving" => AtMostOne(Now, "SavingCompleted")
        /\ state = "Loading" => AtMostOne(Now, "LoadingCompleted")
    BY DEF InPlace, Now
  <2>7. ~(queue[i + 1].m = "BridgeSearchCompleted" /\ Msg.m = "BridgeSearchCompleted"
          /\ state \in Searching)
    BY <2>1, <2>2, <2>5 DEF AtMostOne, Now
  <2>8. ~(queue[i + 1].m = "SavingCompleted" /\ Msg.m = "SavingCompleted"
          /\ state = "Saving")
    BY <2>1, <2>2, <2>6 DEF AtMostOne, Now
  <2>9. ~(queue[i + 1].m = "LoadingCompleted" /\ Msg.m = "LoadingCompleted"
          /\ state = "Loading")
    BY <2>1, <2>2, <2>6 DEF AtMostOne, Now
  <2>10. "Saving" \notin Searching /\ "Loading" \notin Searching
    BY DEF Searching
  <2> QED
    BY <2>1, <2>3, <2>4, <2>7, <2>8, <2>9, <2>10
<1>3. ~search
  <2>1. search => state \in Searching
    BY DEF InPlace, Now
  <2>2. Msg.m = "BridgeSearchCompleted" /\ state \in Searching => ~search
    <3>1. 1 \in DOMAIN queue /\ Msg = queue[1]
      BY PoppedQueue
    <3> QED
      BY <1>1, <3>1 DEF InPlace, Now
  <2> QED
    BY <2>1, <2>2 DEF Searching
<1>4. AbortComesLast(Popped)
  BY PoppedAbort DEF InPlace
<1> QED
  BY <1>2, <1>3, <1>4, PoppedIsNow DEF Clean, PoppedFields

\* A message is dropped, or an event is handled.
LEMMA PoppedInPlace ==
    ASSUME Base(Now), queue # <<>>, InPlace(Now),
           NEW v, v.state = state, v.search = search, v.queue = Popped.queue
    PROVE  InPlace(v)
<1>1. \A i \in DOMAIN v.queue :
          i + 1 \in DOMAIN queue /\ i \in Nat /\ v.queue[i] = queue[i + 1]
  BY PoppedQueue
<1>2. \A i \in DOMAIN v.queue : DroppedFirst(Now, i + 1) => DroppedFirst(v, i)
  <2> SUFFICES ASSUME NEW i \in DOMAIN v.queue, DroppedFirst(Now, i + 1),
                      NEW j \in DOMAIN v.queue, j < i
               PROVE  ~IsCall(v.queue[j]) /\ v.state = "Idle"
    BY DEF DroppedFirst, Now
  <2>1. j + 1 < i + 1
    BY <1>1
  <2> QED
    BY <1>1, <2>1 DEF DroppedFirst, Now
<1>3. ASSUME NEW m, AtMostOne(Now, m) PROVE AtMostOne(v, m)
  <2> SUFFICES ASSUME NEW i \in DOMAIN v.queue, NEW j \in DOMAIN v.queue,
                      v.queue[i].m = m, v.queue[j].m = m
               PROVE  i = j
    BY DEF AtMostOne
  <2>1. i + 1 = j + 1
    BY <1>1, <1>3 DEF AtMostOne, Now
  <2> QED
    BY <1>1, <2>1
<1>4. AbortComesLast(v)
  BY PoppedAbort DEF InPlace, AbortComesLast
<1>5. \A i \in DOMAIN v.queue :
          /\ v.queue[i].m = "LoadingCompleted" =>
                v.state = "Loading" \/ DroppedFirst(v, i)
          /\ v.queue[i].m = "BridgeSearchCompleted" =>
                (v.state \in Searching /\ ~v.search) \/ DroppedFirst(v, i)
          /\ v.queue[i].m = "SavingCompleted" =>
                v.state = "Saving" \/ DroppedFirst(v, i)
  BY <1>1, <1>2 DEF InPlace, Now
<1>6. /\ v.state = "Loading" => AtMostOne(v, "LoadingCompleted")
      /\ v.state \in Searching => AtMostOne(v, "BridgeSearchCompleted")
      /\ v.state = "Saving" => AtMostOne(v, "SavingCompleted")
      /\ v.search => v.state \in Searching
  BY <1>3 DEF InPlace, Now
<1> QED
  BY <1>4, <1>5, <1>6 DEF InPlace

LEMMA PoppedReady ==
    ASSUME Base(Now), queue # <<>>, Ready(Now), ~Retrieved(Msg),
           NEW v, v.state = state, v.request = request, v.small = small,
           v.check = check, SameRetriever(Now, v), v.queue = Popped.queue
    PROVE  Ready(v)
<1>1. \A i \in DOMAIN v.queue :
          i + 1 \in DOMAIN queue /\ i \in Nat \ {0} /\ v.queue[i] = queue[i + 1]
  BY PoppedQueue
<1>2. AtMostOne(v, "SavingCompleted")
  <2> SUFFICES ASSUME NEW i \in DOMAIN v.queue, NEW j \in DOMAIN v.queue,
                      v.queue[i].m = "SavingCompleted", v.queue[j].m = "SavingCompleted"
               PROVE  i = j
    BY DEF AtMostOne
  <2>1. i + 1 = j + 1
    BY <1>1 DEF Ready, AtMostOne, Now
  <2> QED
    BY <1>1, <2>1
<1>3. /\ v.check = NoCheck /\ (v.state # "Idle" => v.request # "INTERNAL")
      /\ \A i \in DOMAIN v.queue :
            /\ v.queue[i].m # "DoAbort"
            /\ v.queue[i].m = "SavingCompleted" => v.state = "Saving"
  BY <1>1 DEF Ready, Now
<1>4. OneRetrieval(v)
  <2>1. OneRetrieval(Now)
    BY DEF Ready
  <2>2. /\ \A i \in DOMAIN v.queue : Retrieved(v.queue[i]) =>
              v.state = "Retrieving" /\ v.small = {} /\ ~v.full.pending
        /\ v.small # {} => v.state = "Retrieving" /\ ~v.full.pending
        /\ v.full.pending => v.state = "Retrieving" /\ v.full.asked
        /\ ~v.full.refreshing
    BY <1>1, <2>1 DEF OneRetrieval, SameRetriever, Now
  <2>3. ASSUME NEW i \in DOMAIN v.queue, NEW j \in DOMAIN v.queue,
               Retrieved(v.queue[i]), Retrieved(v.queue[j])
        PROVE  i = j
    <3>1. i + 1 = j + 1
      BY <1>1, <2>1, <2>3 DEF OneRetrieval, Now
    <3> QED
      BY <1>1, <3>1
  <2>4. ASSUME NEW i \in DOMAIN v.queue, v.queue[i].m = "MonitorEvent"
        PROVE  \E j \in DOMAIN v.queue : i < j /\ v.queue[j].m = "FullConfigCompleted"
    <3>1. PICK k \in DOMAIN queue : i + 1 < k /\ queue[k].m = "FullConfigCompleted"
      BY <1>1, <2>1, <2>4 DEF OneRetrieval, Now
    <3>2. i \in Nat /\ k \in Nat /\ k # 1
      <4>1. DOMAIN queue = 1 .. Len(queue) /\ Len(queue) \in Nat
        BY PoppedQueue
      <4> QED
        BY <1>1, <3>1, <4>1
    <3>3. k - 1 \in DOMAIN v.queue /\ v.queue[k - 1] = queue[k]
      BY <3>2, PoppedQueue
    <3>4. i < k - 1
      BY <3>1, <3>2
    <3> QED
      BY <3>1, <3>3, <3>4
  <2> QED
    BY <2>2, <2>3, <2>4 DEF OneRetrieval
<1> QED
  BY <1>2, <1>3, <1>4 DEF Ready

\* When the flow is Idle, nothing that it asked for is outstanding, ...
LEMMA IdleRests ==
    ASSUME Base(Now), queue # <<>>, Ready(Now), state = "Idle"
    PROVE  /\ check = NoCheck /\ small = {} /\ ~full.pending /\ ~full.refreshing
           /\ \A i \in DOMAIN queue :
                 queue[i].m \notin {"SavingCompleted", "SmallConfigCompleted",
                                    "FullConfigCompleted", "MonitorEvent", "DoAbort"}
           /\ \A i \in DOMAIN Popped.queue :
                 Popped.queue[i].m \notin {"SavingCompleted", "SmallConfigCompleted",
                                           "FullConfigCompleted", "MonitorEvent", "DoAbort"}
<1>1. /\ check = NoCheck /\ small = {} /\ ~full.pending /\ ~full.refreshing
      /\ \A i \in DOMAIN queue : ~Retrieved(queue[i]) /\ queue[i].m # "DoAbort"
                                /\ queue[i].m # "SavingCompleted"
  BY DEF Ready, OneRetrieval, Now
<1>2. \A i \in DOMAIN queue : queue[i].m # "MonitorEvent"
  <2>1. \A i \in DOMAIN queue : queue[i].m = "MonitorEvent" =>
          \E j \in DOMAIN queue : i < j /\ queue[j].m = "FullConfigCompleted"
    BY DEF Ready, OneRetrieval, Now
  <2> QED
    BY <1>1, <2>1 DEF Retrieved
<1>3. \A i \in DOMAIN Popped.queue :
          i + 1 \in DOMAIN queue /\ Popped.queue[i] = queue[i + 1]
  BY PoppedQueue
<1> QED
  BY <1>1, <1>2, <1>3 DEF Retrieved

\* ... nor when the answer that a procedure waits for is handled.
LEMMA WorkingRests ==
    ASSUME Base(Now), queue # <<>>, Ready(Now), state # "Idle",
           \/ state \notin {"Retrieving", "Saving"}
           \/ Retrieved(Msg)
           \/ Msg.m = "SavingCompleted"
    PROVE  Rests(Popped)
<1>1. \A i \in DOMAIN Popped.queue :
          i + 1 \in DOMAIN queue /\ i \in Nat \ {0} /\ Popped.queue[i] = queue[i + 1]
  BY PoppedQueue
<1>2. 1 \in DOMAIN queue /\ Msg = queue[1] /\ \A i \in DOMAIN Popped.queue : i + 1 # 1
  BY <1>1, PoppedQueue
<1>3. OneRetrieval(Now)
  BY DEF Ready
<1>4. \A i \in DOMAIN Popped.queue :
          ~Retrieved(Popped.queue[i]) /\ Popped.queue[i].m # "SavingCompleted"
  <2> SUFFICES ASSUME NEW i \in DOMAIN Popped.queue
               PROVE  ~Retrieved(Popped.queue[i]) /\ Popped.queue[i].m # "SavingCompleted"
    OBVIOUS
  <2>1. Retrieved(queue[i + 1]) => state = "Retrieving" /\ ~Retrieved(Msg)
    BY <1>1, <1>2, <1>3 DEF OneRetrieval, Now
  <2>2. queue[i + 1].m = "SavingCompleted" => state = "Saving" /\ Msg.m # "SavingCompleted"
    BY <1>1, <1>2 DEF Ready, AtMostOne, Now
  <2>3. Retrieved(Msg) => state = "Retrieving"
    BY <1>2, <1>3 DEF OneRetrieval, Now
  <2>4. Msg.m = "SavingCompleted" => state = "Saving"
    BY <1>2 DEF Ready, Now
  <2> QED
    BY <1>1, <2>1, <2>2, <2>3, <2>4
<1>5. \A i \in DOMAIN Popped.queue : Popped.queue[i].m # "MonitorEvent"
  <2> SUFFICES ASSUME NEW i \in DOMAIN Popped.queue, Popped.queue[i].m = "MonitorEvent"
               PROVE  FALSE
    OBVIOUS
  <2>1. PICK k \in DOMAIN queue : i + 1 < k /\ queue[k].m = "FullConfigCompleted"
    BY <1>1, <1>3 DEF OneRetrieval, Now
  <2>2. k # 1
    <3>1. DOMAIN queue = 1 .. Len(queue) /\ Len(queue) \in Nat
      BY PoppedQueue
    <3> QED
      BY <1>1, <2>1, <3>1
  <2>3. k - 1 \in DOMAIN Popped.queue /\ Popped.queue[k - 1] = queue[k]
    BY <2>2, PoppedQueue
  <2> QED
    BY <1>4, <2>1, <2>3 DEF Retrieved
<1>6. /\ check = NoCheck /\ request # "INTERNAL" /\ ~full.refreshing
      /\ \A i \in DOMAIN queue : queue[i].m # "DoAbort"
  BY DEF Ready, OneRetrieval, Now
<1>7. small = {} /\ ~full.pending
  <2>1. CASE Retrieved(Msg)
    <3>1. Retrieved(Now.queue[1]) /\ 1 \in DOMAIN Now.queue
      BY <1>2, <2>1 DEF Now
    <3>2. Now.small = {} /\ ~Now.full.pending
      BY <1>3, <3>1 DEF OneRetrieval
    <3> QED
      BY <3>2 DEF Now
  <2>2. CASE state # "Retrieving"
    BY <1>3, <2>2 DEF OneRetrieval, Now
  <2>3. Msg.m = "SavingCompleted" => state = "Saving"
    BY <1>2 DEF Ready, Now
  <2> QED
    BY <2>1, <2>2, <2>3
<1> QED
  BY <1>1, <1>4, <1>5, <1>6, <1>7, PoppedIsNow DEF Rests, PoppedFields, Retrieved

LEMMA WorkingPrepares ==
    ASSUME Good(Now), queue # <<>>, state \notin {"Idle", "Loading"},
           \/ state \notin {"Retrieving", "Saving"}
           \/ Retrieved(Msg)
           \/ Msg.m = "SavingCompleted"
    PROVE  Prepares(Popped)
<1>1. Sought(Now) => Found(Popped)
  <2>1. request = "INTERNAL" \/ told.request = request
    BY DEF Good, OpenOK, Now
  <2>2. Sought(Now) /\ told.request = "CONNECT_NEW" =>
           \/ "START_SEARCHING" \in told.said
           \/ "DONE_COMPLETED" \notin told.said /\ request # "CONNECT_NEW"
    BY DEF Sought, Now
  <2> QED
    BY <2>1, <2>2, PoppedIsNow DEF PoppedFields, Found
<1> QED
  BY <1>1, WorkingRests, PoppedIsNow DEF PoppedFields, Prepares, Good

-----------------------------------------------------------------------------
(* The procedures. *)

\* A procedure, or the handling of an event, begins.
Takes(u) ==
    /\ u.queue = Popped.queue
    /\ u.search = search
    /\ u.small = small
    /\ u.check = check
    /\ SameRetriever(Now, u)
    /\ u.stream.on => stream.on \/ Starts

LEMMA LikeTakes ==
    ASSUME NEW b, Takes(b), NEW u, Like(b, u)
    PROVE  Takes(u)
BY DEF Takes, Like, Tells, SameRetriever

LEMMA BeginAccepted ==
    ASSUME Good(Now), queue # <<>>, state = "Idle", NEW req
    PROVE  /\ req = "INTERNAL" => Begin(Popped, req).told = told
           /\ ~Starts /\ req # "INTERNAL" =>
                 "DONE_COMPLETED" \notin Begin(Popped, req).told.said
           /\ \A u : u = Begin(Popped, req) \/ Like(Begin(Popped, req), u) =>
                 /\ Mid(u) /\ Shaped(u) /\ Distinct(u.background)
                 /\ Takes(u) /\ u.request = req
<1> DEFINE b == Begin(Popped, req)
<1>1. Base(Popped) /\ ~Popped.told.open
  <2>1. Base(Popped)
    BY PoppedQueue DEF Good
  <2>2. ~told.open
    BY DEF Good, OpenOK, Now
  <2> QED
    BY <2>1, <2>2, PoppedIsNow DEF PoppedFields
<1>2. /\ Mid(b) /\ Shaped(b) /\ b.queue = Popped.queue /\ b.search = search
      /\ b.request = req /\ b.small = small /\ b.check = check
      /\ SameRetriever(Popped, b) /\ (b.stream.on => stream.on \/ Starts)
      /\ req = "INTERNAL" => b.told = told
      /\ ~Starts /\ req # "INTERNAL" => "DONE_COMPLETED" \notin b.told.said
  BY <1>1, BeginMid, PoppedIsNow DEF PoppedFields
<1> HIDE DEF b
<1>3. Takes(b)
  <2>1. Popped.full = Now.full
    BY PoppedIsNow DEF PoppedFields, Now
  <2> QED
    BY <1>2, <2>1 DEF Takes, SameRetriever
<1>4. \A u : Like(b, u) => Mid(u) /\ u.request = req /\ Takes(u)
  BY <1>2, <1>3, LikeMid, LikeTakes DEF Like
<1>5. \A u : u = b \/ Like(b, u) =>
          /\ Mid(u) /\ Shaped(u) /\ Distinct(u.background)
          /\ Takes(u) /\ u.request = req
  BY <1>2, <1>3, <1>4, MidShaped
<1> QED
  BY <1>2, <1>5 DEF b

LEMMA TakesClean ==
    ASSUME Good(Now), queue # <<>>, state = "Idle", IsCall(Msg), InPlace(Now),
           NEW w, Takes(w)
    PROVE  Clean(w)
<1>1. Clean(Popped)
  BY AcceptedClean DEF Good
<1> QED
  BY <1>1, PoppedIsNow DEF PoppedFields, Clean, AbortComesLast, Takes

LEMMA TakesRests ==
    ASSUME Good(Now), queue # <<>>, state = "Idle", Ready(Now),
           NEW w, Takes(w), w.request # "INTERNAL"
    PROVE  Rests(w)
<1>1. SameRetriever(Now, w) /\ Now.full = full
  BY DEF Takes, Now
<1> QED
  BY <1>1, IdleRests DEF Takes, Rests, SameRetriever, Good

LEMMA AcceptedKeeps ==
    ASSUME Good(Now), queue # <<>>, state = "Idle", IsCall(Msg),
           NEW w, Mid(w), Takes(w), w.request \notin {"INTERNAL", "CONNECT_NEW"},
           NEW v, Outcome(w, v), Become(v)
    PROVE  Keeps
<1>1. Found(w)
  BY DEF Mid, Found
<1>2. Prepares(w)
  BY <1>1, TakesRests DEF Prepares, Takes
<1> QED
  BY <1>2, TakesClean, OutcomeKeeps

\* The same, from the action's guard.
LEMMA AcceptsFacts ==
    ASSUME NEW m \in ProcedureCalls, Accepts(m)
    PROVE  queue # <<>> /\ state = "Idle" /\ IsCall(Msg) /\ Msg.m = m
BY DEF Accepts, Runs, IsCall, Msg

LEMMA DoLoadKeeps == ASSUME Good(Now), DoLoad PROVE Keeps
<1> DEFINE w == Begin(Popped, "LOAD_BRIDGE")
           next == [k |-> "Finish", o |-> 0]
<1>1. queue # <<>> /\ state = "Idle" /\ IsCall(Msg)
  BY AcceptsFacts DEF DoLoad, ProcedureCalls
<1>2. PICK opens : Become(StartLoading(w, next, opens))
  BY DEF DoLoad
<1>3. /\ Mid(w) /\ Shaped(w) /\ Distinct(w.background)
      /\ Takes(w) /\ w.request = "LOAD_BRIDGE"
  BY <1>1, BeginAccepted
<1> HIDE DEF w
<1>4. Outcome(w, StartLoading(w, next, opens))
  BY <1>3, StartLoadingOutcome
<1> QED
  BY <1>1, <1>2, <1>3, <1>4, AcceptedKeeps

LEMMA DoConnectToBridgeKeeps == ASSUME Good(Now), DoConnectToBridge PROVE Keeps
<1> DEFINE w == Begin(Popped, "CONNECT")
           next == [k |-> "Resume", o |-> 0]
           v == [w EXCEPT !.background = <<>>]
<1>1. queue # <<>> /\ state = "Idle" /\ IsCall(Msg)
  BY AcceptsFacts DEF DoConnectToBridge, ProcedureCalls
<1>2. \/ background # <<>> /\ \E answers : Become(StartAuthentication(v, background, answers))
      \/ \E opens : Become(StartLoading(w, next, opens))
  BY DEF DoConnectToBridge
<1>3. /\ Mid(w) /\ Shaped(w) /\ Distinct(w.background)
      /\ Takes(w) /\ w.request = "CONNECT"
  BY <1>1, BeginAccepted
<1> HIDE DEF w
<1>4. ASSUME NEW opens, Become(StartLoading(w, next, opens)) PROVE Keeps
  <2>1. Outcome(w, StartLoading(w, next, opens))
    BY <1>3, StartLoadingOutcome
  <2> QED
    BY <1>1, <1>3, <1>4, <2>1, AcceptedKeeps
<1>5. ASSUME background # <<>>,
             NEW answers, Become(StartAuthentication(v, background, answers))
      PROVE  Keeps
  <2>1. Distinct(background)
    BY DEF Good, Base, Now
  <2>2. Distinct(<<>>)
    <3>1. IsList(<<>>)
      BY DEF IsList
    <3> QED
      BY <3>1 DEF Distinct
  <2>3. /\ Shaped(v) /\ v.background = <<>> /\ v.queue = w.queue /\ v.search = w.search
        /\ v.told = w.told /\ v.request = w.request /\ v.full = w.full
        /\ v.small = w.small /\ v.check = w.check /\ v.stream = w.stream
    BY <1>3 DEF Shaped, Fields
  <2> HIDE DEF v
  <2>4. Mid(v)
    BY <1>3, <2>2, <2>3 DEF Mid, Base, QueueOK, RetrieverOK
  <2>6. Takes(v)
    BY <1>3, <2>3 DEF Takes, SameRetriever
  <2>5. Outcome(v, StartAuthentication(v, background, answers))
    BY <1>5, <2>1, <2>2, <2>3, StartAuthenticationOutcome
  <2> QED
    BY <1>1, <1>3, <1>5, <2>3, <2>4, <2>5, <2>6, AcceptedKeeps
<1> QED
  BY <1>2, <1>4, <1>5

LEMMA DoConnectToBridgeBackgroundKeeps ==
    ASSUME Good(Now), DoConnectToBridgeBackground
    PROVE  Keeps
<1> DEFINE w == Begin(Popped, "CONNECT_BACKGROUND")
           next == [k |-> "Resume", o |-> 0]
<1>1. queue # <<>> /\ state = "Idle" /\ IsCall(Msg)
  BY AcceptsFacts DEF DoConnectToBridgeBackground, ProcedureCalls
<1>2. PICK opens : Become(StartLoading(w, next, opens))
  BY DEF DoConnectToBridgeBackground
<1>3. /\ Mid(w) /\ Shaped(w) /\ Distinct(w.background)
      /\ Takes(w) /\ w.request = "CONNECT_BACKGROUND"
  BY <1>1, BeginAccepted
<1> HIDE DEF w
<1>4. Outcome(w, StartLoading(w, next, opens))
  BY <1>3, StartLoadingOutcome
<1> QED
  BY <1>1, <1>2, <1>3, <1>4, AcceptedKeeps

LEMMA LoadingWithOutcome ==
    ASSUME NEW w, Shaped(w), Distinct(w.background), NEW b, NEW k, NEW opens,
           k \in {"Finish", "Search", "Resume", "Retrieve", "Adopt"}
    PROVE  Outcome(w, LoadingWith(w, b, k, opens))
<1> DEFINE o == Fresh(w, 1)
           made == Create(w, o, <<b>>)
           next == [k |-> k, o |-> o[1]]
<1>1. LoadingWith(w, b, k, opens) = StartLoading(made, next, opens)
  BY DEF LoadingWith
<1>2. Like(w, made) /\ Shaped(made)
  BY CreateSame, SameIsLike
<1>3. next.k \in {"Finish", "Search", "Resume", "Retrieve", "Adopt"}
  OBVIOUS
<1> HIDE DEF made, next
<1>4. Outcome(made, StartLoading(made, next, opens))
  BY <1>2, <1>3, LikeBackground, StartLoadingOutcome
<1> QED
  BY <1>1, <1>2, <1>4, LikeOutcome

LEMMA DoConnectToBridgeWithIpKeeps ==
    ASSUME Good(Now), DoConnectToBridgeWithIp
    PROVE  Keeps
<1> DEFINE w == Begin(Popped, "CONNECT_IP")
           b == [EmptyBridge EXCEPT !.ip = Msg.ip, !.validIp = TRUE]
<1>1. queue # <<>> /\ state = "Idle" /\ IsCall(Msg)
  BY AcceptsFacts DEF DoConnectToBridgeWithIp, ProcedureCalls
<1>2. PICK opens : Become(LoadingWith(w, b, "Retrieve", opens))
  BY DEF DoConnectToBridgeWithIp
<1>3. /\ Mid(w) /\ Shaped(w) /\ Distinct(w.background)
      /\ Takes(w) /\ w.request = "CONNECT_IP"
  BY <1>1, BeginAccepted
<1> HIDE DEF w, b
<1>4. Outcome(w, LoadingWith(w, b, "Retrieve", opens))
  BY <1>3, LoadingWithOutcome
<1> QED
  BY <1>1, <1>2, <1>3, <1>4, AcceptedKeeps

LEMMA DoConnectToNewBridgeKeeps ==
    ASSUME Good(Now), DoConnectToNewBridge
    PROVE  Keeps
<1>1. /\ queue # <<>> /\ state = "Idle" /\ IsCall(Msg)
      /\ Msg.m = "DoConnectToNewBridge"
  BY AcceptsFacts DEF DoConnectToNewBridge, ProcedureCalls
<1> DEFINE b == Begin(Popped, "CONNECT_NEW")
           next == [k |-> "Search", o |-> 0]
           W(stop) == StopIfStreaming(b, stop)
           O(stop) == Fresh(W(stop), 1)
           M(stop) == Create(W(stop), O(stop), <<EmptyBridge>>)
           V(stop) == SetActive(M(stop), O(stop)[1])
<1>2. PICK stop, opens : Become(StartLoading(V(stop), next, opens))
  BY DEF DoConnectToNewBridge
<1>3. Shaped(b) /\ \A u : Like(b, u) =>
          /\ Mid(u) /\ Shaped(u) /\ Distinct(u.background)
          /\ Takes(u) /\ u.request = "CONNECT_NEW"
  BY <1>1, BeginAccepted
<1> HIDE DEF b
<1>4. Same(b, W(stop)) /\ Shaped(W(stop))
  BY <1>3, StopIfStreamingSame, SameIsLike
<1> HIDE DEF W
<1>5. Same(b, M(stop)) /\ Shaped(M(stop))
  BY <1>4, CreateSame, SameTrans, SameIsLike
<1> HIDE DEF M
<1>6. Like(b, V(stop))
  BY <1>5, SetActiveSame, SameTrans, SameIsLike
<1> HIDE DEF V
<1> DEFINE w == V(stop)
           v == StartLoading(w, next, opens)
<1>7. /\ Outcome(w, v) /\ v.state = "Loading"
      /\ \E x : /\ x.m = "LoadingCompleted" /\ x.next = next
                /\ v.queue = Append(w.queue, x)
  BY <1>3, <1>6, StartLoadingOutcome
<1>8. Mid(w) /\ Takes(w) /\ w.request = "CONNECT_NEW" /\ Base(w)
  BY <1>3, <1>6 DEF Mid
<1>9. "DONE_COMPLETED" \notin v.told.said
  <2>1. ~Starts
    BY <1>1 DEF Starts
  <2>2. "DONE_COMPLETED" \notin b.told.said
    BY <1>1, <2>1, BeginAccepted DEF b
  <2>3. Tells(b, w) /\ Tells(w, v)
    BY <1>6, <1>7 DEF Like, Outcome
  <2> QED
    BY <2>1, <2>2, <2>3 DEF Tells
<1>10. Become(v)
  BY <1>2
<1> HIDE DEF w, v
<1>11. Good(v)
  BY <1>7, <1>8, OutcomeGood
<1>12. ASSUME InPlace(Now)
       PROVE  InPlace(v) /\ Sought(v)
  <2>1. Clean(w) /\ QueueOK(w)
    BY <1>1, <1>8, <1>12, TakesClean DEF Base
  <2>2. InPlace(v)
    BY <1>7, <2>1, OutcomeInPlace
  <2>3. PICK x : x.m = "LoadingCompleted" /\ x.next = next /\ v.queue = Append(w.queue, x)
    BY <1>7
  <2>4. ASSUME NEW i \in DOMAIN v.queue, v.queue[i].m = "LoadingCompleted"
        PROVE  v.queue[i].next.k = "Search"
    <3>1. i \in DOMAIN w.queue \/ v.queue[i] = x
      BY <2>1, <2>3, ListAppend DEF QueueOK
    <3>2. i \in DOMAIN w.queue => v.queue[i] = w.queue[i]
      BY <2>1, <2>3, ListAppend DEF QueueOK
    <3> QED
      BY <2>1, <2>3, <2>4, <3>1, <3>2 DEF Clean
  <2> QED
    BY <1>7, <1>9, <2>2, <2>4 DEF Sought
<1>13. Ready(Now) => Ready(v)
  BY <1>1, <1>7, <1>8, TakesRests, OutcomeReady DEF Base
<1>14. v.stream.on => stream.on \/ Starts
  BY <1>7, <1>8 DEF Outcome, Tells, Takes
<1> QED
  BY <1>10, <1>11, <1>12, <1>13, <1>14, GoodKeeps DEF Preserves

\* A bridge object is made for the procedure, after a session was ended.
LEMMA StoppedLoadingKeeps ==
    ASSUME Good(Now), queue # <<>>, state = "Idle", IsCall(Msg),
           NEW req, req \notin {"INTERNAL", "CONNECT_NEW"},
           NEW stop, NEW b, NEW k, NEW opens,
           k \in {"Finish", "Search", "Resume", "Retrieve", "Adopt"},
           Become(LoadingWith(StopIfStreaming(Begin(Popped, req), stop), b, k, opens))
    PROVE  Keeps
<1> DEFINE w == Begin(Popped, req)
           v == StopIfStreaming(w, stop)
<1>1. Shaped(w) /\ \A u : Like(w, u) =>
          /\ Mid(u) /\ Shaped(u) /\ Distinct(u.background)
          /\ Takes(u) /\ u.request = req
  BY BeginAccepted
<1> HIDE DEF w
<1>2. Like(w, v)
  BY <1>1, StopIfStreamingSame, SameIsLike
<1>3. Become(LoadingWith(v, b, k, opens))
  BY DEF w
<1> HIDE DEF v
<1>4. Outcome(v, LoadingWith(v, b, k, opens))
  BY <1>1, <1>2, LoadingWithOutcome
<1> QED
  BY <1>1, <1>2, <1>3, <1>4, AcceptedKeeps

LEMMA DoSetManualKeeps == ASSUME Good(Now), DoSetManual PROVE Keeps
<1>1. queue # <<>> /\ state = "Idle" /\ IsCall(Msg)
  BY AcceptsFacts DEF DoSetManual, ProcedureCalls
<1> DEFINE b == [EmptyBridge EXCEPT !.ip = Msg.ip, !.cred = "full",
                                    !.validIp = TRUE, !.auth = TRUE]
<1>2. PICK stop, opens :
          Become(LoadingWith(StopIfStreaming(Begin(Popped, "SET_MANUAL_BRIDGE"), stop),
                             b, "Retrieve", opens))
  BY DEF DoSetManual
<1> HIDE DEF b
<1> QED
  BY <1>1, <1>2, StoppedLoadingKeeps

LEMMA DoConnectToBridgeWithIdKeyKeeps ==
    ASSUME Good(Now), DoConnectToBridgeWithIdKey
    PROVE  Keeps
<1>1. queue # <<>> /\ state = "Idle" /\ IsCall(Msg)
  BY AcceptsFacts DEF DoConnectToBridgeWithIdKey, ProcedureCalls
<1> DEFINE b == [EmptyBridge EXCEPT !.id = Msg.id, !.ip = Loopback, !.cred = "full",
                                    !.model = TRUE, !.validIp = TRUE, !.auth = TRUE]
<1>2. PICK stop, opens :
          Become(LoadingWith(StopIfStreaming(Begin(Popped, "CONNECT_ID_KEY"), stop),
                             b, "Adopt", opens))
  BY DEF DoConnectToBridgeWithIdKey
<1> HIDE DEF b
<1> QED
  BY <1>1, <1>2, StoppedLoadingKeeps

LEMMA DoResetKeeps == ASSUME Good(Now), DoReset PROVE Keeps
<1>1. /\ queue # <<>> /\ state = "Idle" /\ IsCall(Msg)
      /\ Msg.request \in {"RESET_BRIDGE", "RESET_ALL"}
  <2>1. queue # <<>> /\ state = "Idle" /\ IsCall(Msg) /\ Msg.m = "DoReset"
    BY AcceptsFacts DEF DoReset, ProcedureCalls
  <2>2. MessageOK(Msg)
    BY <2>1, PoppedQueue DEF Good
  <2> QED
    BY <2>1, <2>2 DEF MessageOK
<1> DEFINE b == Begin(Popped, Msg.request)
           W(stop) == StopIfStreaming(b, stop)
           O(stop) == Fresh(W(stop), 1)
           M(stop) == Create(W(stop), O(stop), <<EmptyBridge>>)
           D(stop) == IF Msg.request = "RESET_BRIDGE"
                      THEN ClearActiveBridge(M(stop).data, O(stop)[1])
                      ELSE ClearBridges(O(stop)[1])
           C(stop) == [M(stop) EXCEPT !.data = D(stop)]
           V(stop) == Say(C(stop), "DONE_RESET")
<1>2. PICK stop, opens : Become(StartSaving(V(stop), opens))
  BY DEF DoReset
<1>3. Shaped(b) /\ \A u : Like(b, u) =>
          /\ Mid(u) /\ Shaped(u) /\ Distinct(u.background)
          /\ Takes(u) /\ u.request = Msg.request
  BY <1>1, BeginAccepted
<1> HIDE DEF b
<1>4. Same(b, W(stop)) /\ Shaped(W(stop))
  BY <1>3, StopIfStreamingSame, SameIsLike
<1> HIDE DEF W
<1>5. Same(b, M(stop)) /\ Shaped(M(stop))
  BY <1>4, CreateSame, SameTrans, SameIsLike
<1> HIDE DEF M, D
<1>6. Same(b, C(stop)) /\ Shaped(C(stop))
  BY <1>5, DataSame, SameTrans, SameIsLike
<1> HIDE DEF C
<1>7. Like(b, V(stop))
  BY <1>6, SaySame, SameTrans, SameIsLike
<1> HIDE DEF V
<1>8. Outcome(V(stop), StartSaving(V(stop), opens))
  BY <1>3, <1>7, StartSavingOutcome
<1> QED
  BY <1>1, <1>2, <1>3, <1>7, <1>8, AcceptedKeeps

LEMMA DoSelectGroupKeeps == ASSUME Good(Now), DoSelectGroup PROVE Keeps
<1>1. queue # <<>> /\ state = "Idle" /\ IsCall(Msg)
  BY AcceptsFacts DEF DoSelectGroup, ProcedureCalls
<1> DEFINE w == Begin(Popped, "SELECT")
           selects == Msg.group \in ActiveBridge(w).groups
           h == [w.heap EXCEPT ![Active(data)].sel = Msg.group]
           chosen == [w EXCEPT !.heap = h]
           v == IF selects THEN chosen ELSE w
           reported == IF IsValidGroupSelected(ActiveBridge(v)) THEN v
                       ELSE ReportActionRequired(v)
<1>2. PICK opens : Become(IF selects THEN StartSaving(reported, opens)
                          ELSE Finish(reported))
  BY DEF DoSelectGroup
<1>3. Shaped(w) /\ \A u : Like(w, u) =>
          /\ Mid(u) /\ Shaped(u) /\ Distinct(u.background)
          /\ Takes(u) /\ u.request = "SELECT"
  BY <1>1, BeginAccepted
<1> HIDE DEF w, selects, h
<1>4. Same(w, v) /\ Shaped(v)
  BY <1>3, HeapSame, SameRefl, SameIsLike
<1> HIDE DEF v
<1>5. Like(w, reported)
  BY <1>4, ReportActionRequiredSame, SameTrans, SameIsLike
<1> HIDE DEF reported
<1>6. Outcome(reported, StartSaving(reported, opens)) /\ Outcome(reported, Finish(reported))
  BY <1>3, <1>5, StartSavingOutcome, FinishOutcome
<1> QED
  BY <1>1, <1>2, <1>3, <1>5, <1>6, AcceptedKeeps

LEMMA DoStartStreamKeeps == ASSUME Good(Now), DoStartStream PROVE Keeps
<1>1. queue # <<>> /\ state = "Idle" /\ IsCall(Msg)
  BY AcceptsFacts DEF DoStartStream, ProcedureCalls
<1> DEFINE w == Begin(Popped, "ACTIVATE")
<1>2. Become(StartRetrieveFullConfig(w))
  BY DEF DoStartStream
<1>3. /\ Mid(w) /\ Shaped(w) /\ Distinct(w.background)
      /\ Takes(w) /\ w.request = "ACTIVATE"
  BY <1>1, BeginAccepted
<1> HIDE DEF w
<1>4. Outcome(w, StartRetrieveFullConfig(w))
  BY <1>3, StartRetrieveFullConfigOutcome DEF Mid, Base
<1> QED
  BY <1>1, <1>2, <1>3, <1>4, AcceptedKeeps

LEMMA DoStopStreamKeeps == ASSUME Good(Now), DoStopStream PROVE Keeps
<1>1. queue # <<>> /\ state = "Idle" /\ IsCall(Msg)
  BY AcceptsFacts DEF DoStopStream, ProcedureCalls
<1> DEFINE w == Begin(Popped, "DEACTIVATE")
           V(stop) == StopSession(w, Active(data), stop)
<1>2. PICK stop : Become(Finish(V(stop)))
  BY DEF DoStopStream
<1>3. Shaped(w) /\ \A u : Like(w, u) =>
          /\ Mid(u) /\ Shaped(u) /\ Distinct(u.background)
          /\ Takes(u) /\ u.request = "DEACTIVATE"
  BY <1>1, BeginAccepted
<1> HIDE DEF w
<1>4. Like(w, V(stop))
  BY <1>3, StopSessionSame, SameIsLike
<1> HIDE DEF V
<1>5. Outcome(V(stop), Finish(V(stop)))
  BY <1>3, <1>4, FinishOutcome
<1> QED
  BY <1>1, <1>2, <1>3, <1>4, <1>5, AcceptedKeeps

-----------------------------------------------------------------------------
(* The answers. *)

\* The procedure ends, or an event has been handled.
LEMMA FinishedGood ==
    ASSUME NEW u, Base(u), u.told.open => u.request # "INTERNAL"
    PROVE  Good(Finish(u))
<1>1. Shaped(u) /\ Distinct(u.background)
  BY DEF Base
<1>2. /\ Shaped(Finish(u)) /\ Ends(u, Finish(u))
      /\ Finish(u).background = u.background
  BY <1>1, FinishFacts
<1> QED
  BY <1>1, <1>2, EndsGood

LEMMA FinishedKeeps ==
    ASSUME Good(Now), queue # <<>>,
           NEW u, Base(u), u.told.open => u.request # "INTERNAL",
           Become(Finish(u)),
           AbortsWait /\ NothingBegun /\ InPlace(Now) =>
               /\ u.queue = Popped.queue /\ u.search = search
               /\ state = "Idle" \/ Clean(u),
           Prepares(u)
    PROVE  Keeps
<1> DEFINE v == Finish(u)
<1>1. Shaped(u) /\ Distinct(u.background) /\ QueueOK(u)
  BY DEF Base
<1>2. /\ v.state = "Idle" /\ v.queue = u.queue /\ v.search = u.search
      /\ Outcome(u, v) /\ Good(v)
  BY <1>1, FinishFacts, FinishOutcome, FinishedGood DEF Ends
<1> HIDE DEF v
<1>3. ASSUME u.queue = Popped.queue, u.search = search, InPlace(Now),
             state = "Idle" \/ Clean(u)
      PROVE  InPlace(v)
  <2>1. CASE state = "Idle"
    BY <1>2, <1>3, <2>1, PoppedInPlace DEF Good
  <2>2. CASE Clean(u)
    BY <1>1, <1>2, <2>2, OutcomeInPlace
  <2> QED
    BY <1>3, <2>1, <2>2
<1>4. Become(v)
  BY DEF v
<1>5. Preserves(v)
  BY <1>1, <1>2, OutcomePreserves
<1> QED
  BY <1>2, <1>3, <1>4, <1>5, GoodKeeps

(* A search that is stopped: nothing else changes, but that an empty       *)
(* result may have been queued.                                            *)
LEMMA SearchStoppedFacts ==
    ASSUME NEW w, Shaped(w), QueueOK(w), NEW delivers
    PROVE  LET v == SearchStopped(w, delivers)
           IN  /\ Shaped(v) /\ QueueOK(v) /\ ~v.search
               /\ v.state = w.state /\ v.request = w.request /\ v.count = w.count
               /\ v.told = w.told /\ v.full = w.full /\ v.small = w.small
               /\ v.stream = w.stream /\ v.background = w.background
               /\ v.check = w.check
               /\ ~w.search => v.queue = w.queue
               /\ \A i \in DOMAIN v.queue :
                     \/ v.queue[i].m = "BridgeSearchCompleted"
                     \/ i \in DOMAIN w.queue /\ v.queue[i] = w.queue[i]
<1> DEFINE x == [m |-> "BridgeSearchCompleted", bridges |-> <<>>]
           e == [w EXCEPT !.search = FALSE]
           p == Post(e, x)
           v == SearchStopped(w, delivers)
           Untouched(u) == /\ Shaped(u) /\ ~u.search
                        /\ u.state = w.state /\ u.request = w.request
                        /\ u.count = w.count /\ u.told = w.told
                        /\ u.full = w.full /\ u.small = w.small
                        /\ u.stream = w.stream /\ u.background = w.background
                        /\ u.check = w.check
<1>1. Untouched(e) /\ e.queue = w.queue
  BY DEF Shaped, Fields
<1>2. v = IF w.search /\ delivers THEN p ELSE e
  BY DEF SearchStopped
<1>3. x.m = "BridgeSearchCompleted" /\ MessageOK(x)
  <2>1. IsList(<<>>)
    BY DEF IsList
  <2> QED
    BY <2>1 DEF MessageOK
<1> HIDE DEF x, e, v
<1>4. Untouched(p) /\ p.queue = Append(w.queue, x)
  BY <1>1 DEF Post, Shaped, Fields
<1> HIDE DEF p
<1>5. CASE v = e
  BY <1>1, <1>5 DEF QueueOK, v
<1>6. CASE v = p /\ w.search
  <2>1. IsList(w.queue)
    BY DEF QueueOK
  <2>2. /\ Len(w.queue) \in Nat /\ DOMAIN w.queue = 1 .. Len(w.queue)
        /\ DOMAIN p.queue = 1 .. Len(w.queue) + 1
        /\ p.queue[Len(w.queue) + 1] = x
        /\ \A i \in DOMAIN w.queue : p.queue[i] = w.queue[i]
    BY <1>4, <2>1, ListAppend
  <2>3. \A i \in DOMAIN p.queue : i = Len(w.queue) + 1 \/ i \in DOMAIN w.queue
    BY <2>2
  <2>4. QueueOK(p)
    BY <1>3, <1>4, Appended
  <2> QED
    BY <1>3, <1>4, <1>6, <2>2, <2>3, <2>4 DEF v
<1> QED
  BY <1>2, <1>5, <1>6

LEMMA DoAbortKeeps == ASSUME Good(Now), DoAbort PROVE Keeps
<1> DEFINE stops == state \in {"SearchingFirst", "SearchingRetry"}
           S(delivers) == IF stops THEN SearchStopped(Popped, delivers) ELSE Popped
           W(delivers) == [S(delivers) EXCEPT
                             !.count = IF state = "Authenticating" THEN 0 ELSE @]
           U(delivers) == Say(SetActive(W(delivers), startState), "DONE_ABORTED")
<1>1. queue # <<>> /\ Msg.m = "DoAbort" /\ state # "Idle"
  BY DEF DoAbort, Runs, Msg
<1>2. /\ Shaped(Popped) /\ Base(Popped) /\ Base(Now) /\ QueueOK(Popped)
      /\ Popped.queue = Tail(queue) /\ PoppedFields
  BY <1>1, PoppedQueue, PoppedIsNow DEF Good, Base
<1>3. PICK delivers \in BOOLEAN : Become(Finish(U(delivers)))
  BY DEF DoAbort
<1> DEFINE s == S(delivers)
           w == W(delivers)
           a == SetActive(w, startState)
           u == U(delivers)
<1>4. /\ Shaped(s) /\ QueueOK(s) /\ s.request = request /\ s.told = told
      /\ s.full = full /\ s.stream = stream /\ s.background = background
      /\ s.search => search /\ ~stops
      /\ \A i \in DOMAIN s.queue :
            \/ s.queue[i].m = "BridgeSearchCompleted"
            \/ i \in DOMAIN Popped.queue /\ s.queue[i] = Popped.queue[i]
  <2>1. CASE stops
    BY <1>2, <2>1, SearchStoppedFacts DEF PoppedFields
  <2>2. CASE ~stops
    BY <1>2, <2>2 DEF PoppedFields
  <2> QED
    BY <2>1, <2>2
<1>5. w = [s EXCEPT !.count = IF state = "Authenticating" THEN 0 ELSE @]
  OBVIOUS
<1> HIDE DEF s, S, w, W
<1>6. /\ Shaped(w) /\ w.request = request /\ w.told = told /\ w.full = full
      /\ w.stream = stream /\ w.background = background
      /\ w.search = s.search /\ w.queue = s.queue
  BY <1>4, <1>5 DEF Shaped, Fields
<1>7. Base(w)
  BY <1>2, <1>4, <1>6 DEF Base, QueueOK, RetrieverOK, PoppedFields
<1>8. Like(w, u)
  <2>1. Same(w, a) /\ Shaped(a)
    BY <1>6, SetActiveSame, SameIsLike
  <2> HIDE DEF a
  <2>2. Like(w, Say(a, "DONE_ABORTED"))
    BY <2>1, SaySame, SameTrans, SameIsLike
  <2> QED
    BY <2>2 DEF a, w
<1> HIDE DEF u, U
<1>9. Base(u) /\ (u.told.open => u.request # "INTERNAL")
  <2>1. told.open => request # "INTERNAL"
    BY DEF Good, OpenOK, Now
  <2> QED
    BY <1>6, <1>7, <1>8, <2>1, LikeBase DEF Like
<1> DEFINE v == Finish(u)
<1>10. /\ v.state = "Idle" /\ v.queue = w.queue /\ v.search = s.search /\ Good(v) /\ Become(v)
       /\ v.request = "INTERNAL" /\ Tells(u, v)
  <2>1. Shaped(u)
    BY <1>9 DEF Base
  <2>2. Become(v)
    BY <1>3 DEF u
  <2>3. u.queue = w.queue /\ u.search = s.search
    BY <1>6, <1>8 DEF Like
  <2> QED
    BY <1>9, <2>1, <2>2, <2>3, FinishFacts, FinishedGood DEF Ends
<1> HIDE DEF v
<1>11. ASSUME InPlace(Now) PROVE InPlace(v)
  <2>1. \A i \in DOMAIN Popped.queue : ~IsCall(Popped.queue[i])
    <3> SUFFICES ASSUME NEW i \in DOMAIN Popped.queue
                 PROVE  ~IsCall(Popped.queue[i])
      OBVIOUS
    <3>1. /\ i + 1 \in DOMAIN queue /\ i \in Nat \ {0} /\ Msg = queue[1]
          /\ 1 \in DOMAIN queue /\ Popped.queue[i] = queue[i + 1]
      BY <1>1, <1>2, PoppedQueue
    <3>2. 1 < i + 1
      BY <3>1
    <3> QED
      BY <1>1, <1>11, <3>1, <3>2 DEF InPlace, AbortComesLast, Now
  <2>2. \A i \in DOMAIN v.queue : ~IsCall(v.queue[i])
    <3>1. \A i \in DOMAIN v.queue : v.queue[i].m = "BridgeSearchCompleted"
                                     => ~IsCall(v.queue[i])
      BY DEF IsCall, ProcedureCalls
    <3> QED
      BY <1>4, <1>6, <1>10, <2>1, <3>1
  <2>3. ~v.search
    BY <1>4, <1>10, <1>11 DEF InPlace, Now, Searching
  <2> QED
    BY <1>10, <2>2, <2>3 DEF InPlace, DroppedFirst, AbortComesLast, Searching
<1>12. /\ told.said \subseteq v.told.said /\ v.told.request = told.request
       /\ "DONE_COMPLETED" \in v.told.said => "DONE_COMPLETED" \in told.said
       /\ v.stream.on => stream.on \/ Starts
  <2>1. Tells(w, v)
    BY <1>8, <1>10, TellsTrans DEF Like
  <2>2. ~Starts
    BY <1>1 DEF Starts
  <2> QED
    BY <1>6, <2>1, <2>2 DEF Tells
<1>13. Sought(Now) => Sought(v)
  BY <1>10, <1>12 DEF Sought, Now
<1>14. ~Ready(Now)
  <2>1. 1 \in DOMAIN queue /\ Msg = queue[1]
    BY <1>1, <1>2, PoppedQueue
  <2> QED
    BY <1>1, <2>1 DEF Ready, Now
<1> QED
  BY <1>10, <1>11, <1>12, <1>13, <1>14, GoodKeeps DEF Preserves

LEMMA LoadingCompletedKeeps == ASSUME Good(Now), LoadingCompleted PROVE Keeps
<1> DEFINE w == [Popped EXCEPT !.data = Msg.bridges]
           s == Say(w, "FINISH_LOADING_BRIDGE_CONFIGURED")
           n == Say(w, "FINISH_LOADING_NO_BRIDGE_CONFIGURED")
           h == [n.heap EXCEPT ![Active(Msg.bridges)] = EmptyBridge]
           e == [n EXCEPT !.heap = h]
           v == IF Msg.ok THEN s ELSE e
           k == Msg.next
<1>1. queue # <<>> /\ Msg.m = "LoadingCompleted" /\ state = "Loading"
  BY DEF LoadingCompleted, Runs, Msg
<1>2. Mid(Popped) /\ Shaped(Popped) /\ Distinct(Popped.background) /\ MessageOK(Msg)
  BY <1>1, PoppedMid, MidShaped, PoppedQueue DEF Good
<1>3. k.k \in {"Finish", "Search", "Resume", "Retrieve", "Adopt"}
  BY <1>1, <1>2 DEF MessageOK
<1>4. Become(Continue(v, k))
  BY DEF LoadingCompleted
<1>5. Same(Popped, w) /\ Shaped(w)
  BY <1>2, DataSame, SameIsLike
<1> HIDE DEF w
<1>6. Same(Popped, s) /\ Same(Popped, n) /\ Shaped(n)
  BY <1>5, SaySame, SameTrans, SameIsLike
<1> HIDE DEF s, n, h
<1>7. Same(Popped, e)
  BY <1>6, HeapSame, SameTrans
<1>8. Like(Popped, v) /\ Shaped(v)
  BY <1>6, <1>7, SameIsLike
<1> HIDE DEF v, k
<1>9. Outcome(Popped, Continue(v, k))
  BY <1>2, <1>3, <1>8, LikeBackground, LikeOutcome, ContinueOutcome
<1>10. InPlace(Now) => Clean(Popped)
  BY <1>1, WorkingClean DEF Good, Searching
<1> DEFINE u == Continue(v, k)
<1>11. k.k = "Search" => u = StartBridgeSearch(v)
  BY DEF Continue
<1> HIDE DEF u
<1>12. ASSUME Sought(Now) PROVE Sought(u)
  <2>1. Tells(Popped, u) /\ Popped.told = told /\ Popped.request = request
    BY <1>9, PoppedIsNow DEF Outcome, PoppedFields, u
  <2>2. CASE told.request # "CONNECT_NEW" \/ "START_SEARCHING" \in told.said
    BY <2>1, <2>2 DEF Tells, Sought
  <2>3. CASE /\ told.request = "CONNECT_NEW" /\ "DONE_COMPLETED" \notin told.said
             /\ request = "CONNECT_NEW" /\ "START_SEARCHING" \notin told.said
    <3>1. k.k = "Search"
      <4>1. 1 \in DOMAIN queue /\ Msg = queue[1]
        BY <1>1, PoppedQueue DEF Good
      <4>2. \/ "START_SEARCHING" \in told.said
            \/ \A i \in DOMAIN queue :
                  queue[i].m = "LoadingCompleted" => queue[i].next.k = "Search"
        BY <1>12, <2>3 DEF Sought, Now
      <4>3. "START_SEARCHING" \in told.said \/ Msg.next.k = "Search"
        BY <1>1, <4>1, <4>2
      <4> QED
        BY <2>3, <4>3 DEF k
    <3>2. "START_SEARCHING" \in u.told.said
      <4>1. v.request # "INTERNAL" /\ Distinct(v.background)
        BY <1>2, <1>8, <2>1, <2>3, LikeBackground DEF Like
      <4> QED
        BY <1>8, <1>11, <3>1, <4>1, StartBridgeSearchOutcome
    <3> QED
      BY <3>2 DEF Sought
  <2>4. CASE "DONE_COMPLETED" \notin told.said /\ request # "CONNECT_NEW"
             /\ told.request = "CONNECT_NEW"
    <3>1. request = "INTERNAL"
      BY <1>1, <2>4 DEF Good, OpenOK, Now
    <3>2. Found(Popped)
      BY <2>1, <2>4, <3>1 DEF Found
    <3> QED
      BY <1>9, <3>2, OutcomeSought DEF u
  <2>5. told.request = "CONNECT_NEW" =>
           "START_SEARCHING" \in told.said \/ "DONE_COMPLETED" \notin told.said
    BY <1>12 DEF Sought, Now
  <2> QED
    BY <2>2, <2>3, <2>4, <2>5
<1>13. Preserves(u)
  <2>1. QueueOK(Popped)
    BY <1>2 DEF Mid, Base
  <2>2. Ready(Now) => Ready(u)
    BY <1>1, <1>9, <2>1, WorkingRests, OutcomeReady DEF Good, u
  <2>3. u.stream.on => stream.on \/ Starts
    BY <1>9, PoppedIsNow DEF Outcome, Tells, PoppedFields, u
  <2> QED
    BY <1>12, <2>2, <2>3 DEF Preserves
<1>14. Good(u) /\ (InPlace(Now) => InPlace(u)) /\ Become(u)
  <2>1. QueueOK(Popped)
    BY <1>2 DEF Mid, Base
  <2> QED
    BY <1>2, <1>4, <1>9, <1>10, <2>1, OutcomeGood, OutcomeInPlace DEF u
<1> QED
  BY <1>13, <1>14, GoodKeeps

(* The searcher is destroyed: nothing of the search is left, but perhaps   *)
(* one more result, if the one that is handled was not its own.            *)
LEMMA BridgeSearchCompletedKeeps ==
    ASSUME Good(Now), BridgeSearchCompleted
    PROVE  Keeps
<1> DEFINE os == Filtered(Msg.bridges)
           W(delivers) == SearchStopped(Popped, delivers)
<1>1. /\ queue # <<>> /\ Msg.m = "BridgeSearchCompleted"
      /\ state \in Searching /\ state # "Idle"
  BY DEF BridgeSearchCompleted, Runs, Msg, Searching
<1>2. /\ Mid(Popped) /\ Shaped(Popped) /\ QueueOK(Popped) /\ MessageOK(Msg)
      /\ Base(Now) /\ PoppedFields
  BY <1>1, PoppedMid, MidShaped, PoppedQueue, PoppedIsNow DEF Good, Mid, Base
<1>3. Distinct(os)
  BY <1>1, <1>2, FilteredDistinct DEF MessageOK
<1>4. PICK delivers \in BOOLEAN :
         \/ \E opens : Become(NothingFound(W(delivers), opens))
         \/ /\ os # <<>>
            /\ \E answers, opens :
                  \/ Become(BridgesFound(W(delivers), os, answers))
                  \/ Become(InvalidBridgesFound(W(delivers), os, answers, opens))
  BY DEF BridgeSearchCompleted
<1> HIDE DEF os
<1> DEFINE w == W(delivers)
<1>5. /\ Shaped(w) /\ QueueOK(w) /\ ~w.search
      /\ w.request = request /\ w.told = told /\ w.full = full
      /\ w.small = small /\ w.stream = stream /\ w.background = background
      /\ w.check = Popped.check
      /\ ~search => w.queue = Popped.queue
      /\ \A i \in DOMAIN w.queue :
            \/ w.queue[i].m = "BridgeSearchCompleted"
            \/ i \in DOMAIN Popped.queue /\ w.queue[i] = Popped.queue[i]
  BY <1>2, SearchStoppedFacts DEF PoppedFields
<1> HIDE DEF w, W
<1>6. Mid(w) /\ Distinct(w.background)
  BY <1>2, <1>5 DEF Mid, Base, RetrieverOK, PoppedFields
<1>7. InPlace(Now) => Clean(w)
  <2> SUFFICES ASSUME InPlace(Now)
               PROVE  Clean(w)
    OBVIOUS
  <2>1. Clean(Popped)
    BY <1>1, WorkingClean DEF Good
  <2>2. ~search
    BY <1>2, <2>1 DEF Clean, PoppedFields
  <2> QED
    BY <1>5, <2>1, <2>2 DEF Clean, AbortComesLast
<1>8. Prepares(w)
  <2>1. Prepares(Popped)
    BY <1>1, WorkingPrepares DEF Searching
  <2>2. Found(Popped) => Found(w)
    BY <1>2, <1>5 DEF Found, PoppedFields
  <2>3. Rests(Popped) => Rests(w)
    BY <1>2, <1>5 DEF Rests, PoppedFields
  <2> QED
    BY <1>2, <1>5, <2>1, <2>2, <2>3 DEF Prepares, PoppedFields
<1>9. ASSUME NEW v, Outcome(w, v), Become(v) PROVE Keeps
  BY <1>6, <1>7, <1>8, <1>9, OutcomeKeeps
<1> QED
  BY <1>3, <1>4, <1>5, <1>6, <1>9, NothingFoundOutcome, BridgesFoundOutcome,
     InvalidBridgesFoundOutcome DEF w

LEMMA SmallConfigCompletedKeeps ==
    ASSUME Good(Now), SmallConfigCompleted
    PROVE  Keeps
<1> DEFINE o == Msg.o
           s == SayAs(Popped, request, "FINISH_RETRIEVING_SMALL", o)
           w == SetActive(s, o)
<1>1. queue # <<>> /\ state = "Retrieving" /\ Retrieved(Msg)
  BY DEF SmallConfigCompleted, Runs, Retrieved, Msg
<1>2. Mid(Popped) /\ Shaped(Popped) /\ Distinct(Popped.background)
  BY <1>1, PoppedMid, MidShaped
<1>3. \E answers, opens : \/ Become(RetrieveFailed(Popped, o, answers, opens))
                          \/ Become(StartBridgeSearch(w))
                          \/ Become(StartRetrieveFullConfig(w))
                          \/ Become(StartAuthentication(w, <<o>>, answers))
  BY DEF SmallConfigCompleted
<1>4. Same(Popped, s) /\ Shaped(s)
  <2>1. Popped.request = request
    BY PoppedIsNow DEF PoppedFields
  <2> QED
    BY <1>2, <2>1, SayAsSame, SameIsLike
<1> HIDE DEF s
<1>5. Like(Popped, w) /\ Shaped(w)
  BY <1>4, SetActiveSame, SameTrans, SameIsLike
<1> HIDE DEF w, o
<1>6. Distinct(w.background) /\ RetrieverOK(w)
  BY <1>2, <1>5, LikeBackground, LikeMid DEF Mid, Base
<1>7. Distinct(<<o>>) /\ <<o>> # <<>>
  <2>1. <<o>> \in Seq({o}) /\ Range(<<o>>) = {o} /\ DOMAIN <<o>> = {1}
    BY DEF Range
  <2> QED
    BY <2>1 DEF Distinct, IsList
<1>8. InPlace(Now) => Clean(Popped)
  BY <1>1, WorkingClean DEF Good, Searching
<1>11. Prepares(Popped)
  BY <1>1, WorkingPrepares
<1>9. ASSUME NEW v, Outcome(Popped, v), Become(v) PROVE Keeps
  BY <1>2, <1>8, <1>9, <1>11, OutcomeKeeps
<1>10. ASSUME NEW v, Outcome(w, v), Become(v) PROVE Keeps
  BY <1>5, <1>9, <1>10, LikeOutcome
<1> QED
  BY <1>2, <1>3, <1>5, <1>6, <1>7, <1>9, <1>10, RetrieveFailedOutcome,
     StartBridgeSearchOutcome, StartRetrieveFullConfigOutcome, StartAuthenticationOutcome

LEMMA FullConfigCompletedKeeps ==
    ASSUME Good(Now), FullConfigCompleted
    PROVE  Keeps
<1> DEFINE o == Msg.o
           w == SetActive(Popped, o)
           f == FullConfigStored(w)
<1>1. queue # <<>> /\ state = "Retrieving" /\ Retrieved(Msg)
  BY DEF FullConfigCompleted, Runs, Retrieved, Msg
<1>2. Mid(Popped) /\ Shaped(Popped) /\ Distinct(Popped.background)
  BY <1>1, PoppedMid, MidShaped
<1>3. \E answers, opens : \/ Become(StartSaving(f, opens))
                          \/ Become(RetrieveFailed(w, o, answers, opens))
  BY DEF FullConfigCompleted
<1>4. Same(Popped, w) /\ Shaped(w)
  BY <1>2, SetActiveSame, SameIsLike
<1> HIDE DEF w, o
<1>5. Like(Popped, f) /\ Shaped(f) /\ Like(Popped, w)
  BY <1>4, FullConfigStoredSame, SameTrans, SameIsLike
<1> HIDE DEF f
<1>6. Distinct(w.background) /\ Distinct(f.background)
  BY <1>2, <1>5, LikeBackground
<1>7. InPlace(Now) => Clean(Popped)
  BY <1>1, WorkingClean DEF Good, Searching
<1>9. Prepares(Popped)
  BY <1>1, WorkingPrepares
<1>8. ASSUME NEW u, Like(Popped, u), NEW v, Outcome(u, v), Become(v) PROVE Keeps
  BY <1>2, <1>7, <1>8, <1>9, OutcomeKeeps, LikeOutcome
<1> QED
  BY <1>3, <1>4, <1>5, <1>6, <1>8, RetrieveFailedOutcome, StartSavingOutcome

(* SavingCompleted runs in every state, and ends whatever is under way.    *)
LEMMA SavingCompletedKeeps == ASSUME Good(Now), SavingCompleted PROVE Keeps
<1> DEFINE s == Say(Popped, IF Msg.ok THEN "FINISH_SAVING_SAVED" ELSE "FINISH_SAVING_FAILED")
           h == [s.heap EXCEPT ![Active(data)].busy = FALSE]
           w == [s EXCEPT !.heap = h]
           done == Say(w, "DONE_COMPLETED")
<1>1. queue # <<>> /\ Msg.m = "SavingCompleted" /\ Starts
  BY DEF SavingCompleted, Runs, Msg, Starts
<1>2. Shaped(Popped) /\ Base(Popped)
  BY <1>1, PoppedQueue DEF Good
<1>3. \E go, stop : \/ Become(ActivateStreaming(w, go, stop))
                    \/ Become(Finish(done))
                    \/ Become(Finish(w))
  BY DEF SavingCompleted
<1>4. Same(Popped, s) /\ Shaped(s)
  BY <1>2, SaySame, SameIsLike
<1> HIDE DEF s, h
<1>5. Same(Popped, w) /\ Shaped(w)
  BY <1>4, HeapSame, SameTrans, SameIsLike
<1> HIDE DEF w
<1>6. Like(Popped, w) /\ Like(Popped, done)
  BY <1>1, <1>5, SaySame, SameTrans, SameIsLike
<1>7. PICK u : Like(Popped, u) /\ Become(Finish(u))
  <2>1. ASSUME NEW go, NEW stop, Become(ActivateStreaming(w, go, stop))
        PROVE  \E u : Like(Popped, u) /\ Become(Finish(u))
    <3>1. PICK u : Like(w, u) /\ ActivateStreaming(w, go, stop) = Finish(u)
      BY <1>1, <1>5, ActivateStreamingEnds
    <3> QED
      BY <1>6, <2>1, <3>1, LikeTrans
  <2> QED
    BY <1>3, <1>6, <2>1
<1>8. Base(u) /\ (u.told.open => u.request # "INTERNAL")
  <2>1. told.open => request # "INTERNAL"
    BY DEF Good, OpenOK, Now
  <2> QED
    BY <1>2, <1>7, <2>1, LikeBase, PoppedIsNow DEF PoppedFields, Like
<1>9. ASSUME InPlace(Now)
      PROVE  /\ u.queue = Popped.queue /\ u.search = search
             /\ state = "Idle" \/ Clean(u)
  <2>1. u.queue = Popped.queue /\ u.search = search
    BY <1>7, PoppedIsNow DEF Like, PoppedFields
  <2>2. state \in {"Idle", "Saving"}
    <3>1. 1 \in DOMAIN queue /\ Msg = queue[1]
      BY <1>1, PoppedQueue DEF Good
    <3> QED
      BY <1>1, <1>9, <3>1 DEF InPlace, DroppedFirst, Now
  <2>3. state = "Saving" => Clean(Popped)
    BY <1>1, <1>9, WorkingClean DEF Good
  <2> QED
    BY <1>7, <2>1, <2>2, <2>3, LikeClean
<1>10. Prepares(Popped)
  <2>1. 1 \in DOMAIN queue /\ Msg = queue[1]
    BY <1>1, PoppedQueue DEF Good
  <2>2. ASSUME InPlace(Now), Sought(Now) PROVE Found(Popped)
    <3>1. state \in {"Idle", "Saving"}
      BY <1>1, <2>1, <2>2 DEF InPlace, DroppedFirst, Now
    <3>2. request = "INTERNAL" \/ told.request = request
      BY DEF Good, OpenOK, Now
    <3>3. state = "Idle" => request = "INTERNAL"
      BY DEF Good, OpenOK, Now
    <3> QED
      BY <2>2, <3>1, <3>2, <3>3, PoppedIsNow DEF Sought, Found, PoppedFields, Now
  <2>3. Ready(Now) => Rests(Popped)
    <3>1. Ready(Now) => state = "Saving"
      BY <1>1, <2>1 DEF Ready, Now
    <3> QED
      BY <1>1, <3>1, WorkingRests DEF Good
  <2> QED
    BY <2>2, <2>3, PoppedIsNow DEF Prepares, PoppedFields
<1>11. Prepares(u)
  BY <1>7, <1>10, LikePrepares
<1> QED
  BY <1>1, <1>7, <1>8, <1>9, <1>11, FinishedKeeps

\* A message that nobody waits for is dropped.
LEMMA PoppedGood ==
    ASSUME Good(Now), queue # <<>>,
           state = "Loading" => Msg.m # "LoadingCompleted",
           state \in Searching => Msg.m # "BridgeSearchCompleted",
           state = "Retrieving" => Msg.m \notin {"SmallConfigCompleted",
                                                "FullConfigCompleted"},
           state = "Saving" => Msg.m # "SavingCompleted",
           state = "Authenticating" => Msg.m \notin {"AuthenticationCompleted",
                                                    "PushLinkBridge"}
    PROVE  Good(Popped)
<1>1. Base(Popped)
  BY PoppedQueue DEF Good
<1>2. \A i \in DOMAIN queue :
         \/ queue[i] = Msg
         \/ i - 1 \in DOMAIN Popped.queue /\ Popped.queue[i - 1] = queue[i]
  BY PoppedQueue DEF Good
<1>3. \A m : Holds(Now, m) /\ Msg.m # m => Holds(Popped, m)
  BY <1>2 DEF Holds, Now
<1>4. Awaited(Popped)
  <2>1. Awaited(Now)
    BY DEF Good
  <2>2. state = "Loading" => Holds(Popped, "LoadingCompleted")
    BY <1>3, <2>1 DEF Awaited, Now
  <2>3. state \in Searching => search \/ Holds(Popped, "BridgeSearchCompleted")
    BY <1>3, <2>1 DEF Awaited, Now
  <2>4. state = "Retrieving" /\ PromptUnbusy =>
           \/ small # {} \/ Holds(Popped, "SmallConfigCompleted")
           \/ full.pending /\ full.asked
           \/ Holds(Popped, "FullConfigCompleted")
    BY <1>3, <2>1 DEF Awaited, Now
  <2>5. state = "Saving" => Holds(Popped, "SavingCompleted")
    BY <1>3, <2>1 DEF Awaited, Now
  <2> QED
    BY <2>2, <2>3, <2>4, <2>5, PoppedIsNow DEF Awaited, PoppedFields
<1>5. state = "Authenticating" => \A o : Attempted(Now, o) => Attempted(Popped, o)
  BY <1>2, PoppedIsNow DEF Attempted, PoppedFields, Now
<1>6. /\ Popped.state = Now.state /\ Popped.request = Now.request
      /\ Popped.told = Now.told /\ Popped.count = Now.count
      /\ Popped.procs = Now.procs
  BY PoppedIsNow DEF PoppedFields, Now
<1> QED
  BY <1>1, <1>4, <1>5, <1>6, StaysGood DEF Now

LEMMA PoppedPreserves ==
    ASSUME Good(Now), queue # <<>>, Msg.m # "SavingCompleted",
           Retrieved(Msg) => state # "Retrieving",
           NEW v, v.state = state, v.request = request, v.small = small,
           SameRetriever(Now, v), Tells(Popped, v), v.queue = Popped.queue
    PROVE  Preserves(v)
<1>1. \A i \in DOMAIN v.queue : i + 1 \in DOMAIN queue /\ v.queue[i] = queue[i + 1]
  BY PoppedQueue DEF Good
<1>2. 1 \in DOMAIN queue /\ Msg = queue[1]
  BY PoppedQueue DEF Good
<1>3. /\ told.said \subseteq v.told.said /\ v.told.request = told.request
      /\ "DONE_COMPLETED" \in v.told.said => "DONE_COMPLETED" \in told.said
      /\ v.check = check /\ (v.stream.on => stream.on)
  BY PoppedIsNow DEF PoppedFields, Tells, Starts
<1>4. Sought(Now) => Sought(v)
  <2> SUFFICES ASSUME Sought(Now), v.told.request = "CONNECT_NEW",
                      "START_SEARCHING" \notin v.told.said
               PROVE  /\ "DONE_COMPLETED" \notin v.told.said
                      /\ v.request = "CONNECT_NEW" =>
                            /\ v.state = "Loading"
                            /\ \A i \in DOMAIN v.queue :
                                  v.queue[i].m = "LoadingCompleted" =>
                                      v.queue[i].next.k = "Search"
    BY DEF Sought
  <2>1. /\ "DONE_COMPLETED" \notin told.said
        /\ request = "CONNECT_NEW" =>
              /\ state = "Loading"
              /\ \A i \in DOMAIN queue : queue[i].m = "LoadingCompleted" =>
                     queue[i].next.k = "Search"
    <3>1. told.request = "CONNECT_NEW" /\ "START_SEARCHING" \notin told.said
      BY <1>3
    <3> QED
      BY <3>1 DEF Sought, Now
  <2>2. "DONE_COMPLETED" \notin v.told.said
    BY <1>3, <2>1
  <2>3. v.request = "CONNECT_NEW" => v.state = "Loading"
    BY <2>1
  <2>4. ASSUME v.request = "CONNECT_NEW", NEW i \in DOMAIN v.queue,
               v.queue[i].m = "LoadingCompleted"
        PROVE  v.queue[i].next.k = "Search"
    BY <1>1, <2>1, <2>4
  <2> QED
    BY <2>2, <2>3, <2>4
<1>5. Ready(Now) => Ready(v)
  <2> SUFFICES ASSUME Ready(Now) PROVE Ready(v)
    OBVIOUS
  <2>1. ~Retrieved(Msg)
    BY <1>2 DEF Ready, OneRetrieval, Now
  <2> QED
    BY <1>3, <2>1, PoppedReady DEF Good
<1> QED
  BY <1>3, <1>4, <1>5 DEF Preserves

\* More has been queued, but for results of a load, a retrieval or a save.
LEMMA GrowsSought ==
    ASSUME NEW w, Sought(w), NEW v, Grows(w, v), v.state = w.state,
           v.request = w.request, v.told = w.told
    PROVE  Sought(v)
<1>1. \A i \in DOMAIN v.queue : v.queue[i].m = "LoadingCompleted" =>
         i \in DOMAIN w.queue /\ v.queue[i] = w.queue[i]
  BY DEF Grows, Others
<1> QED
  BY <1>1 DEF Sought

LEMMA AddedReady ==
    ASSUME NEW w, Ready(w), NEW v, v.state = w.state, v.request = w.request,
           v.small = w.small, v.check = w.check, v.full.pending = w.full.pending,
           v.full.asked = w.full.asked, v.full.refreshing = w.full.refreshing,
           \A i \in DOMAIN w.queue : i \in DOMAIN v.queue /\ v.queue[i] = w.queue[i],
           \A i \in DOMAIN v.queue \ DOMAIN w.queue :
              v.queue[i].m \notin {"SavingCompleted", "SmallConfigCompleted",
                                  "FullConfigCompleted", "MonitorEvent", "DoAbort"}
    PROVE  Ready(v)
<1>1. \A i \in DOMAIN v.queue :
         \/ i \in DOMAIN w.queue /\ v.queue[i] = w.queue[i]
         \/ v.queue[i].m \notin {"SavingCompleted", "SmallConfigCompleted",
                                "FullConfigCompleted", "MonitorEvent", "DoAbort"}
  OBVIOUS
<1>2. OneRetrieval(w)
  BY DEF Ready
<1>3. /\ \A i \in DOMAIN v.queue : Retrieved(v.queue[i]) =>
            v.state = "Retrieving" /\ v.small = {} /\ ~v.full.pending
      /\ \A i, j \in DOMAIN v.queue :
            Retrieved(v.queue[i]) /\ Retrieved(v.queue[j]) => i = j
      /\ v.small # {} => v.state = "Retrieving" /\ ~v.full.pending
      /\ v.full.pending => v.state = "Retrieving" /\ v.full.asked
      /\ ~v.full.refreshing
  BY <1>1, <1>2 DEF OneRetrieval, Retrieved
<1>4. ASSUME NEW i \in DOMAIN v.queue, v.queue[i].m = "MonitorEvent"
      PROVE  \E j \in DOMAIN v.queue : i < j /\ v.queue[j].m = "FullConfigCompleted"
  BY <1>1, <1>2, <1>4 DEF OneRetrieval
<1>5. AtMostOne(v, "SavingCompleted")
  BY <1>1 DEF Ready, AtMostOne
<1>6. /\ v.check = NoCheck /\ (v.state # "Idle" => v.request # "INTERNAL")
      /\ \A i \in DOMAIN v.queue :
            /\ v.queue[i].m # "DoAbort"
            /\ v.queue[i].m = "SavingCompleted" => v.state = "Saving"
  BY <1>1 DEF Ready
<1> QED
  BY <1>3, <1>4, <1>5, <1>6 DEF Ready, OneRetrieval

\* What was asked for is answered; behind an event of the retriever the
\* completion.
LEMMA AnsweredReady ==
    ASSUME NEW w, Ready(w), w.small # {} \/ w.full.pending,
           NEW v, v.state = w.state, v.request = w.request, v.check = w.check,
           v.small = {}, ~v.full.pending, ~v.full.refreshing,
           \A i \in DOMAIN w.queue : i \in DOMAIN v.queue /\ v.queue[i] = w.queue[i],
           NEW n \in DOMAIN v.queue, Retrieved(v.queue[n]),
           \A i \in DOMAIN v.queue \ DOMAIN w.queue :
              \/ i = n
              \/ i < n /\ v.queue[i].m = "MonitorEvent"
                 /\ v.queue[n].m = "FullConfigCompleted"
    PROVE  Ready(v)
<1>1. OneRetrieval(w)
  BY DEF Ready
<1>2. /\ \A i \in DOMAIN w.queue :
            ~Retrieved(w.queue[i]) /\ w.queue[i].m # "SavingCompleted"
      /\ w.state = "Retrieving"
  <2>1. w.state = "Retrieving" /\ \A i \in DOMAIN w.queue : ~Retrieved(w.queue[i])
    BY <1>1 DEF OneRetrieval
  <2> QED
    BY <2>1 DEF Ready
<1>3. \A i \in DOMAIN w.queue : w.queue[i].m # "MonitorEvent"
  BY <1>1, <1>2 DEF OneRetrieval, Retrieved
<1>4. \A i \in DOMAIN v.queue :
         \/ i \in DOMAIN w.queue /\ v.queue[i] = w.queue[i]
         \/ i = n
         \/ i < n /\ v.queue[i].m = "MonitorEvent"
            /\ v.queue[n].m = "FullConfigCompleted"
  OBVIOUS
<1>5. \A i \in DOMAIN v.queue : v.queue[i].m # "SavingCompleted" /\ v.queue[i].m # "DoAbort"
  BY <1>2, <1>4 DEF Ready, Retrieved
<1>6. \A i \in DOMAIN v.queue : Retrieved(v.queue[i]) => i = n
  BY <1>2, <1>4 DEF Retrieved
<1>7. \A i \in DOMAIN v.queue : v.queue[i].m = "MonitorEvent" =>
         \E j \in DOMAIN v.queue : i < j /\ v.queue[j].m = "FullConfigCompleted"
  BY <1>3, <1>4 DEF Retrieved
<1>8. OneRetrieval(v)
  BY <1>2, <1>6, <1>7 DEF OneRetrieval
<1> QED
  BY <1>5, <1>8 DEF Ready, AtMostOne

LEMMA DroppedKeeps ==
    ASSUME Good(Now), queue # <<>>, Good(Popped), NEW v, Same(Popped, v), Become(v),
           Msg.m # "SavingCompleted", Retrieved(Msg) => state # "Retrieving"
    PROVE  Keeps
<1>1. Good(v)
  BY SameGood
<1>2. /\ v.state = state /\ v.search = search /\ v.queue = Popped.queue
      /\ v.request = request /\ v.small = small
      /\ Tells(Popped, v) /\ SameRetriever(Now, v)
  BY PoppedIsNow DEF PoppedFields, Same, Like, SameRetriever, Now
<1>3. Preserves(v)
  BY <1>2, PoppedPreserves
<1> QED
  BY <1>1, <1>2, <1>3, PoppedInPlace, GoodKeeps DEF Good

LEMMA CallRefusedKeeps == ASSUME Good(Now), CallRefused PROVE Keeps
<1>1. queue # <<>> /\ Msg.m \in ProcedureCalls /\ Become(Popped)
  BY DEF CallRefused, Runs, Msg
<1>2. Good(Popped)
  BY <1>1, PoppedGood DEF ProcedureCalls
<1>3. Msg.m # "SavingCompleted" /\ ~Retrieved(Msg)
  BY <1>1 DEF ProcedureCalls, Retrieved
<1> QED
  BY <1>1, <1>2, <1>3, DroppedKeeps, SameRefl DEF Good, Base

LEMMA StaleDroppedKeeps == ASSUME Good(Now), StaleDropped PROVE Keeps
<1>1. queue # <<>> /\ Become(Popped)
  BY DEF StaleDropped, Runs
<1>2. Good(Popped)
  BY <1>1, PoppedGood DEF StaleDropped, Runs, Msg, Searching
<1>3. Msg.m # "SavingCompleted" /\ (Retrieved(Msg) => state # "Retrieving")
  BY DEF StaleDropped, Runs, Msg, Retrieved
<1> QED
  BY <1>1, <1>2, <1>3, DroppedKeeps, SameRefl DEF Good, Base

LEMMA MonitorEventRefusedKeeps == ASSUME Good(Now), MonitorEventRefused PROVE Keeps
<1> DEFINE v == SayAs(Popped, "INTERNAL", Msg.id, Msg.o)
<1>1. queue # <<>> /\ Msg.m = "MonitorEvent" /\ (Become(v) \/ Become(Popped))
  BY DEF MonitorEventRefused, Runs, Msg
<1>2. Good(Popped)
  BY <1>1, PoppedGood
<1>3. Shaped(Popped)
  BY <1>2 DEF Good, Base
<1>4. Msg.id \in Events1
  <2>1. MessageOK(Msg)
    BY <1>1, PoppedQueue DEF Good
  <2> QED
    BY <1>1, <2>1 DEF MessageOK
<1>5. Same(Popped, v)
  BY <1>3, <1>4, SayAsSame DEF Events1
<1> HIDE DEF v
<1>6. Msg.m # "SavingCompleted" /\ ~Retrieved(Msg)
  BY <1>1 DEF Retrieved
<1> QED
  BY <1>1, <1>2, <1>3, <1>5, <1>6, DroppedKeeps, SameRefl

(* An event begins an INTERNAL procedure, which ends in the handler unless *)
(* a CLIP v2 bridge has come back.                                         *)
LEMMA MonitorEventKeeps == ASSUME Good(Now), MonitorEvent PROVE Keeps
<1> DEFINE b == Begin(Popped, "INTERNAL")
           w == SetActive(b, Msg.o)
           V(stop) == IF Msg.id = "STREAMING_DISCONNECTED"
                      THEN StopSession(w, Msg.o, stop) ELSE w
<1>1. queue # <<>> /\ Msg.m = "MonitorEvent" /\ state = "Idle"
  BY DEF MonitorEvent, Accepts, Runs, Msg
<1>2. PICK stop, opens : \/ Reconnects(Msg) /\ Become(StartRetrieveFullConfig(V(stop)))
                         \/ Become(MonitorEventHandled(V(stop), Msg, opens))
  BY DEF MonitorEvent
<1>3. /\ Shaped(b) /\ b.told = told
      /\ \A u : Like(b, u) =>
             /\ Mid(u) /\ Shaped(u) /\ Distinct(u.background)
             /\ Takes(u) /\ u.request = "INTERNAL"
  BY <1>1, BeginAccepted
<1>14. b.request = "INTERNAL"
  BY <1>1, BeginAccepted
<1>4. /\ MessageOK(Msg) /\ Msg.id \in Events1
      /\ 1 \in DOMAIN queue /\ Msg = queue[1]
  <2>1. MessageOK(Msg) /\ 1 \in DOMAIN queue /\ Msg = queue[1]
    BY <1>1, PoppedQueue DEF Good
  <2> QED
    BY <1>1, <2>1 DEF MessageOK
<1> HIDE DEF b
<1>5. Same(b, w) /\ Shaped(w)
  BY <1>3, SetActiveSame, SameIsLike
<1> HIDE DEF w
<1>6. Like(b, V(stop))
  BY <1>5, StopSessionSame, SameTrans, SameIsLike
<1> DEFINE v == V(stop)
<1> HIDE DEF V
<1>7. /\ Mid(v) /\ Shaped(v) /\ Distinct(v.background)
      /\ v.queue = Popped.queue /\ v.search = search
      /\ v.request = "INTERNAL" /\ (v.stream.on => stream.on \/ Starts)
      /\ v.told.request = told.request /\ v.told.said = told.said
  BY <1>3, <1>6, <1>14 DEF Takes, Like, Tells
<1>8. NothingBegun => Msg.id \notin {"BRIDGE_CONNECTED", "BRIDGE_REFRESHED"}
  BY <1>1, <1>4 DEF NothingBegun
<1> HIDE DEF v
<1>11. ~Ready(Now)
  BY <1>1, <1>4, IdleRests DEF Good
<1>9. CASE Reconnects(Msg) /\ Become(StartRetrieveFullConfig(v))
  <2>1. ~NothingBegun
    BY <1>8, <1>9 DEF Reconnects
  <2>2. /\ Good(StartRetrieveFullConfig(v))
        /\ Outcome(v, StartRetrieveFullConfig(v))
    BY <1>7, StartRetrieveFullConfigOutcome, OutcomeGood DEF Mid, Base
  <2>3. Preserves(StartRetrieveFullConfig(v))
    BY <1>7, <1>11, <2>1, <2>2 DEF Preserves, Outcome, Tells
  <2> QED
    BY <1>9, <2>1, <2>2, <2>3, GoodKeeps
<1>10. CASE Become(MonitorEventHandled(v, Msg, opens))
  <2> DEFINE r == IF Msg.id = "INVALID_EVENTING_CONNECTION"
                  THEN RefreshBridgeConnection(v) ELSE v
             saved == StartSaving(r, opens)
             said == SayAs(r, "INTERNAL", Msg.id, Msg.o)
  <2>1. \/ Msg.id = "BRIDGE_REFRESHED" /\ Become(Finish(saved))
        \/ Become(Finish(said))
    BY <1>10 DEF MonitorEventHandled
  <2>2. Mid(r) /\ Shaped(r) /\ r.queue = Popped.queue /\ r.search = search
    BY <1>7, RefreshMid DEF Alike
  <2>8. /\ r.request = "INTERNAL" /\ (r.stream.on => stream.on \/ Starts)
        /\ r.told.request = told.request /\ r.told.said = told.said
    BY <1>7, RefreshMid DEF Alike, Tells
  <2> HIDE DEF r
  <2>3. Base(saved) /\ (saved.told.open => saved.request # "INTERNAL")
    <3>1. Good(saved)
      BY <2>2, MidShaped, StartSavingOutcome, OutcomeGood
    <3> QED
      BY <3>1 DEF Good, OpenOK
  <2>4. Like(r, said)
    BY <1>4, <2>2, SayAsSame, SameIsLike DEF Events1
  <2>5. Mid(said) /\ said.queue = Popped.queue /\ said.search = search
    BY <2>2, <2>4, LikeMid DEF Like
  <2>9. Prepares(said)
    <3>1. /\ said.request = "INTERNAL" /\ (said.stream.on => stream.on \/ Starts)
          /\ said.told.request = told.request /\ said.told.said = told.said
      BY <2>4, <2>8 DEF Like, Tells
    <3>2. Sought(Now) => Found(said)
      BY <3>1 DEF Sought, Found, Now
    <3> QED
      BY <1>11, <3>1, <3>2 DEF Prepares
  <2>10. saved.stream.on => stream.on \/ Starts
    BY <2>2, <2>8, MidShaped, StartSavingOutcome DEF Outcome, Tells
  <2> HIDE DEF saved, said
  <2>6. CASE Become(Finish(said))
    BY <1>1, <2>5, <2>6, <2>9, FinishedKeeps DEF Mid
  <2>7. CASE Msg.id = "BRIDGE_REFRESHED" /\ Become(Finish(saved))
    <3>1. Prepares(saved) /\ ~NothingBegun
      BY <1>8, <1>11, <2>7, <2>10 DEF Prepares
    <3> QED
      BY <1>1, <2>3, <2>7, <3>1, FinishedKeeps
  <2> QED
    BY <2>1, <2>6, <2>7
<1> QED
  BY <1>2, <1>9, <1>10 DEF v

(* A pushlink request that is repeated, and answered in the handler.       *)
LEMMA RepeatPushLinkKeeps == ASSUME Good(Now), RepeatPushLink PROVE Keeps
<1> DEFINE o == Msg.o
           x == [m |-> "AuthenticationCompleted", o |-> o]
           H(answer) == [Popped.heap EXCEPT ![o] = PushLinked(@, answer)]
           U(answer) == [Popped EXCEPT !.heap = H(answer)]
           V(answer) == Post(U(answer), x)
<1>1. queue # <<>> /\ Msg.m = "PushLinkBridge"
  BY DEF RepeatPushLink, Runs, Msg
<1>2. PICK answer : Become(V(answer))
  BY DEF RepeatPushLink, PushLinkBridge
<1>3. Shaped(Popped) /\ Base(Popped)
  BY <1>1, PoppedQueue DEF Good
<1> DEFINE h == H(answer)
           u == U(answer)
           v == V(answer)
<1> HIDE DEF H, x
<1>4. /\ Same(Popped, u) /\ Shaped(u)
      /\ u.told = Popped.told /\ u.stream = Popped.stream
  BY <1>3, HeapSame, SameIsLike DEF Shaped, Fields
<1> HIDE DEF U
<1>5. /\ Shaped(v) /\ v.state = u.state /\ v.request = u.request /\ v.count = u.count
      /\ v.procs = u.procs /\ v.background = u.background /\ v.search = u.search
      /\ v.small = u.small /\ v.full = u.full /\ v.tasks = u.tasks /\ v.told = u.told
      /\ v.stream = u.stream /\ v.check = u.check
      /\ v.queue = Append(u.queue, x)
  BY <1>4 DEF Post, Shaped, Fields
<1> HIDE DEF V
<1>6. /\ v.queue = Append(Popped.queue, x)
      /\ v.state = state /\ v.request = request /\ v.count = count
      /\ v.procs = procs /\ v.background = background /\ v.search = search
      /\ v.small = small /\ SameRetriever(Now, v) /\ v.tasks = tasks
      /\ v.told = told /\ v.stream = stream /\ v.check = check
  BY <1>4, <1>5, PoppedIsNow DEF Same, Like, SameRetriever, Tells, PoppedFields, Now
<1>7. x.m = "AuthenticationCompleted" /\ x.o = o /\ x.m \in Others /\ MessageOK(x)
  BY DEF x, Others, MessageOK
<1>8. /\ Grows(Popped, v) /\ QueueOK(v) /\ Holds(v, "AuthenticationCompleted")
      /\ \A m : Holds(Popped, m) => Holds(v, m)
      /\ \E i \in DOMAIN v.queue : v.queue[i] = x
  BY <1>3, <1>6, <1>7, AppendGrows DEF Base
<1>9. \A i \in DOMAIN queue :
         \/ queue[i] = Msg
         \/ i - 1 \in DOMAIN Popped.queue /\ Popped.queue[i - 1] = queue[i]
  BY <1>1, PoppedQueue DEF Good
<1>10. \A m : Holds(Now, m) /\ m # "PushLinkBridge" => Holds(v, m)
  BY <1>1, <1>8, <1>9 DEF Holds, Now
<1> HIDE DEF v
<1>11. Base(v)
  <2>1. RetrieverOK(v)
    BY <1>6 DEF Good, Base, RetrieverOK, SameRetriever, Now
  <2>2. Distinct(v.background)
    BY <1>6 DEF Good, Base, Now
  <2> QED
    BY <1>5, <1>8, <2>1, <2>2 DEF Base
<1>12. Awaited(v)
  BY <1>6, <1>10 DEF Good, Awaited, SameRetriever, Now
<1>13. ASSUME NEW p, Attempted(Now, p) PROVE Attempted(v, p)
  <2>1. CASE \E t \in tasks : t.o = p /\ t.n = procs[p].n
    BY <1>6, <2>1 DEF Attempted
  <2>2. ASSUME NEW i \in DOMAIN queue,
               queue[i].m \in {"AuthenticationCompleted", "PushLinkBridge"},
               queue[i].o = p
        PROVE  Attempted(v, p)
    <3>1. CASE queue[i] = Msg
      BY <1>7, <1>8, <2>2, <3>1 DEF Attempted, o
    <3>2. CASE i - 1 \in DOMAIN Popped.queue /\ Popped.queue[i - 1] = queue[i]
      BY <1>8, <2>2, <3>2 DEF Attempted, Grows
    <3> QED
      BY <1>9, <3>1, <3>2
  <2> QED
    BY <1>13, <2>1, <2>2 DEF Attempted, Now
<1>14. Good(v)
  BY <1>6, <1>11, <1>12, <1>13, StaysGood DEF Now
<1>15. InPlace(Now) => InPlace(v)
  <2>1. InPlace(Now) => InPlace(Popped)
    BY <1>1, PoppedInPlace, PoppedIsNow DEF Good, PoppedFields
  <2> QED
    BY <1>6, <1>8, <2>1, GrowsInPlace, PoppedIsNow DEF PoppedFields
<1>16. Preserves(v)
  <2>1. Preserves(Popped)
    <3>1. /\ Popped.state = state /\ Popped.request = request /\ Popped.small = small
          /\ SameRetriever(Now, Popped) /\ Tells(Popped, Popped)
      BY PoppedIsNow DEF PoppedFields, SameRetriever, Tells, Now
    <3> QED
      BY <1>1, <3>1, PoppedPreserves DEF Retrieved
  <2>2. /\ v.state = Popped.state /\ v.request = Popped.request
        /\ v.told = Popped.told /\ v.small = Popped.small /\ v.check = Popped.check
        /\ SameRetriever(Popped, v)
    BY <1>6, PoppedIsNow DEF PoppedFields, SameRetriever, Now
  <2>3. Sought(Popped) => Sought(v)
    BY <1>8, <2>2, GrowsSought
  <2>4. Ready(Popped) => Ready(v)
    <3>1. \A i \in DOMAIN v.queue \ DOMAIN Popped.queue : v.queue[i] = x
      <4>1. /\ DOMAIN Popped.queue = 1 .. Len(Popped.queue) /\ Len(Popped.queue) \in Nat
            /\ DOMAIN v.queue = 1 .. Len(Popped.queue) + 1
            /\ v.queue[Len(Popped.queue) + 1] = x
        BY <1>3, <1>6, ListAppend DEF Base, QueueOK
      <4>2. \A i \in DOMAIN v.queue \ DOMAIN Popped.queue : i = Len(Popped.queue) + 1
        BY <4>1
      <4> QED
        BY <4>1, <4>2
    <3> QED
      BY <1>7, <1>8, <2>2, <3>1, AddedReady DEF Grows, SameRetriever
  <2> QED
    BY <1>6, <2>1, <2>3, <2>4 DEF Preserves
<1> QED
  BY <1>2, <1>14, <1>15, <1>16, GoodKeeps DEF v

(* In p, the attempts of bridge o are counted, and no other's. *)
Counts(o, a, p) ==
    /\ p = [q \in DOMAIN p |-> p[q]]
    /\ IsFiniteSet(DOMAIN p)
    /\ \A q \in DOMAIN p : p[q] \in [n : Int, tries : Int]
    /\ \A q, r \in DOMAIN p : p[q].n >= 0 /\ p[q].n = p[r].n => q = r
    /\ o \in DOMAIN p /\ p[o].n = a.n
    /\ \A q \in InTurn(Now) : q \in DOMAIN p /\ p[q].n = procs[q].n
    /\ \A q \in DOMAIN p \ {o} : q \in DOMAIN procs /\ p[q] = procs[q]
    /\ \A q \in InTurn(Now) \ {o} :
          \/ \E t \in tasks : t.o = q /\ t.n = procs[q].n
          \/ \E i \in DOMAIN Popped.queue :
                /\ Popped.queue[i].m \in {"AuthenticationCompleted",
                                          "PushLinkBridge"}
                /\ Popped.queue[i].o = q
    /\ IsFiniteSet(InTurn(Now)) /\ count <= Cardinality(InTurn(Now))
    /\ count \in Nat \ {0}

(* A pushlink answer for bridge o.  In p, its tries are counted; it leaves *)
(* the queue.                                                              *)
LEMMA CountedAttempts ==
    ASSUME Good(Now), queue # <<>>, Msg.m = "AuthenticationCompleted",
           state = "Authenticating",
           NEW o, o = Msg.o, NEW a, a = Attempts(Popped, o),
           NEW k \in {0, 1},
           NEW e, e = [a EXCEPT !.tries = a.tries + k],
           NEW p, p = [q \in {o} \cup DOMAIN procs |-> IF q = o THEN e ELSE procs[q]]
    PROVE  Counts(o, a, p)
<1>1. /\ IsFiniteSet(DOMAIN procs)
      /\ \A q \in DOMAIN procs : procs[q] \in [n : Int, tries : Int]
      /\ \A q, r \in DOMAIN procs : procs[q].n >= 0 /\ procs[q].n = procs[r].n => q = r
      /\ count \in Nat \ {0} /\ count <= Cardinality(InTurn(Now))
  BY DEF Good, AttemptsOK, Now
<1>2. a = IF o \in DOMAIN procs THEN procs[o] ELSE [n |-> -1, tries |-> 0]
  BY PoppedIsNow DEF Attempts, PoppedFields
<1>3. a \in [n : Int, tries : Int]
  BY <1>1, <1>2
<1>4. e \in [n : Int, tries : Int] /\ e.n = a.n
  BY <1>3
<1>5. /\ p = [q \in {o} \cup DOMAIN procs |-> IF q = o THEN e ELSE procs[q]]
      /\ DOMAIN p = {o} \cup DOMAIN procs
  OBVIOUS
<1>6. p[o] = e /\ \A q \in DOMAIN procs : q # o => p[q] = procs[q]
  BY <1>5
<1>7. IsFiniteSet(DOMAIN p)
  <2>1. DOMAIN p = DOMAIN procs \cup {o}
    BY <1>5
  <2>2. IsFiniteSet(DOMAIN procs \cup {o})
    BY <1>1, FS_AddElement
  <2> QED
    BY <2>1, <2>2
<1>8. \A q \in DOMAIN p : p[q] \in [n : Int, tries : Int]
  BY <1>1, <1>4, <1>5, <1>6
<1>9. \A q \in DOMAIN procs : q \in DOMAIN p /\ p[q].n = procs[q].n
  BY <1>2, <1>4, <1>5, <1>6
<1>10. ASSUME NEW q \in DOMAIN p, NEW r \in DOMAIN p, p[q].n >= 0, p[q].n = p[r].n
       PROVE  q = r
  <2>1. o \notin DOMAIN procs => p[o].n = -1
    BY <1>2, <1>4, <1>6
  <2>2. q \in DOMAIN procs /\ r \in DOMAIN procs
    <3>1. CASE o \in DOMAIN procs
      BY <1>5, <3>1
    <3>2. CASE o \notin DOMAIN procs
      <4>1. q # o /\ r # o
        <5>1. p[q].n >= 0 /\ p[r].n >= 0
          BY <1>10
        <5>2. p[o].n = -1
          BY <2>1, <3>2
        <5>3. ~(-1 >= 0)
          OBVIOUS
        <5> QED
          BY <5>1, <5>2, <5>3, Zenon
      <4> QED
        BY <1>5, <4>1
    <3> QED
      BY <3>1, <3>2
  <2>3. p[q].n = procs[q].n /\ p[r].n = procs[r].n
    BY <1>9, <2>2
  <2> QED
    BY <1>1, <1>10, <2>2, <2>3
<1>11. \A q \in InTurn(Now) : q \in DOMAIN procs /\ Attempted(Now, q)
  BY DEF InTurn, Now
<1>12. IsFiniteSet(InTurn(Now))
  <2>1. InTurn(Now) \in SUBSET DOMAIN procs
    BY <1>11
  <2> QED
    BY <1>1, <2>1, FS_Subset
<1>13. ASSUME NEW q \in InTurn(Now), q # o
       PROVE  \/ \E t \in tasks : t.o = q /\ t.n = procs[q].n
              \/ \E i \in DOMAIN Popped.queue :
                    /\ Popped.queue[i].m \in {"AuthenticationCompleted",
                                              "PushLinkBridge"}
                    /\ Popped.queue[i].o = q
  <2>1. \A i \in DOMAIN queue :
           \/ queue[i] = Msg
           \/ i - 1 \in DOMAIN Popped.queue /\ Popped.queue[i - 1] = queue[i]
    BY PoppedQueue DEF Good
  <2>2. Attempted(Now, q)
    BY <1>11, <1>13
  <2> QED
    BY <1>13, <2>1, <2>2 DEF Attempted, Now
<1>14. \A q \in DOMAIN p \ {o} : q \in DOMAIN procs /\ p[q] = procs[q]
  BY <1>5, <1>6
<1> QED
  <2>1. o \in DOMAIN p /\ p[o].n = a.n
    BY <1>4, <1>5, <1>6
  <2>2. p = [q \in DOMAIN p |-> p[q]]
    BY <1>5
  <2>3. \A q \in InTurn(Now) : q \in DOMAIN p /\ p[q].n = procs[q].n
    BY <1>9, <1>11
  <2> QED
    BY <1>1, <1>7, <1>8, <1>10, <1>12, <1>13, <1>14, <2>1, <2>2, <2>3 DEF Counts

LEMMA AuthenticationCompletedKeeps ==
    ASSUME Good(Now), AuthenticationCompleted
    PROVE  Keeps
<1> DEFINE o == Msg.o
           a == Attempts(Popped, o)
           k == IF heap[o].validIp THEN 0 ELSE 1
           tries == a.tries + k
           e == [a EXCEPT !.tries = tries]
           p == [q \in {o} \cup DOMAIN procs |-> IF q = o THEN e ELSE procs[q]]
           w == [Popped EXCEPT !.procs = p]
           h == [w.heap EXCEPT ![o].validIp = TRUE]
           retried == [w EXCEPT !.heap = h]
<1>1. queue # <<>> /\ Msg.m = "AuthenticationCompleted" /\ state = "Authenticating"
  BY DEF AuthenticationCompleted, Runs, Msg
<1>2. /\ Mid(Popped) /\ Shaped(Popped) /\ Distinct(Popped.background) /\ PoppedFields
      /\ Base(Popped)
  BY <1>1, PoppedMid, MidShaped, PoppedIsNow DEF Mid
<1>3. \/ Become(AttemptsEnded(w))
      \/ Become(Authorized(retried, o))
      \/ Become(AddTask(retried, a.n, o))
  BY <1>2 DEF AuthenticationCompleted, PoppedFields
<1>4. Counts(o, a, p)
  <2>1. k \in {0, 1}
    OBVIOUS
  <2>2. e = [a EXCEPT !.tries = a.tries + k]
    OBVIOUS
  <2> HIDE DEF e
  <2>3. p = [q \in {o} \cup DOMAIN procs |-> IF q = o THEN e ELSE procs[q]]
    OBVIOUS
  <2> HIDE DEF p, k
  <2>4. o = Msg.o /\ a = Attempts(Popped, o)
    OBVIOUS
  <2> HIDE DEF o, a
  <2> QED
    BY <1>1, <2>1, <2>2, <2>3, <2>4, CountedAttempts
<1> HIDE DEF p, e, a
<1>5. /\ Like(Popped, w) /\ Shaped(w) /\ w.state = "Authenticating"
      /\ w.count = count /\ w.procs = p /\ w.tasks = tasks
  BY <1>1, <1>2, AttemptsLike DEF PoppedFields
<1> HIDE DEF w, h
<1>6. Same(w, retried) /\ Shaped(retried)
  BY <1>5, HeapSame, SameIsLike
<1> HIDE DEF retried
<1>7. InPlace(Now) => Clean(Popped)
  BY <1>1, WorkingClean DEF Good, Searching
<1>14. Prepares(Popped)
  BY <1>1, WorkingPrepares
<1>8. ASSUME NEW v, Outcome(w, v), Become(v) PROVE Keeps
  BY <1>2, <1>5, <1>7, <1>8, <1>14, LikeOutcome, OutcomeKeeps
(* The procedure goes on, with n attempts of which some were made for the  *)
(* bridges in S.                                                           *)
<1>9. ASSUME NEW v, Like(w, v), Become(v), v.state = "Authenticating", v.procs = p,
             v.count \in Nat \ {0},
             NEW S, S \in SUBSET InTurn(v), v.count <= Cardinality(S)
      PROVE  Keeps
  <2>1. Base(v)
    BY <1>2, <1>5, <1>9, LikeBase
  <2>2. AttemptsOK(v)
    <3>1. InTurn(v) \in SUBSET DOMAIN p
      BY <1>9 DEF InTurn
    <3>2. IsFiniteSet(InTurn(v)) /\ IsFiniteSet(S)
      <4>1. IsFiniteSet(InTurn(v))
        BY <1>4, <3>1, FS_Subset DEF Counts
      <4> QED
        BY <1>9, <4>1, FS_Subset
    <3>3. Cardinality(S) <= Cardinality(InTurn(v))
      BY <1>9, <3>2, FS_Subset
    <3>4. Cardinality(S) \in Nat /\ Cardinality(InTurn(v)) \in Nat
      BY <3>2, FS_CardinalityType
    <3>5. v.count <= Cardinality(InTurn(v))
      BY <1>9, <3>3, <3>4
    <3> QED
      BY <1>4, <1>9, <3>5 DEF AttemptsOK, Counts
  <2>3. OpenOK(v)
    <3>1. /\ w.request = request /\ w.told.open = told.open
          /\ w.told.request = told.request
      BY <1>2, <1>5 DEF Like, Tells, PoppedFields
    <3> QED
      BY <1>1, <1>9, <3>1 DEF Good, OpenOK, Now, Like, Tells
  <2>4. Awaited(v)
    BY <1>9 DEF Awaited, Searching
  <2>5. v.search = search /\ v.queue = Popped.queue
    BY <1>2, <1>5, <1>9 DEF Like, PoppedFields
  <2>6. InPlace(Now) => InPlace(v)
    BY <1>1, <1>9, <2>5, PoppedInPlace DEF Good
  <2>7. Preserves(v)
    <3>1. /\ v.state = state /\ v.request = request /\ v.small = small
          /\ SameRetriever(Now, v) /\ Tells(Popped, v) /\ v.queue = Popped.queue
      <4>1. Like(Popped, v)
        BY <1>5, <1>9, LikeTrans
      <4> QED
        BY <1>1, <1>2, <1>9, <4>1 DEF Like, PoppedFields, SameRetriever, Now
    <3> QED
      BY <1>1, <3>1, PoppedPreserves DEF Retrieved
  <2> QED
    BY <1>9, <2>1, <2>2, <2>3, <2>4, <2>6, <2>7, GoodKeeps DEF Good
<1>10. CASE Become(AttemptsEnded(w)) /\ count # 1
  <2> DEFINE v == [w EXCEPT !.count = count - 1]
             S == InTurn(Now) \ {o}
  <2>1. Become(v)
    BY <1>5, <1>10 DEF AttemptsEnded
  <2>2. /\ Like(w, v) /\ v.state = "Authenticating" /\ v.procs = p
        /\ v.count = count - 1 /\ v.tasks = tasks /\ v.queue = Popped.queue
    <3>1. /\ Like(w, v) /\ v.state = w.state
          /\ v.procs = w.procs /\ v.count = count - 1 /\ v.tasks = w.tasks
      BY <1>5, AttemptsLike
    <3> QED
      BY <1>5, <3>1 DEF Like
  <2> HIDE DEF v
  <2>3. v.count \in Nat \ {0}
    BY <1>4, <1>10, <2>2 DEF Counts
  <2>4. S \in SUBSET InTurn(v)
    <3> SUFFICES ASSUME NEW q \in InTurn(Now), q # o
                 PROVE  q \in InTurn(v)
      OBVIOUS
    <3>1. q \in DOMAIN p /\ p[q].n = procs[q].n /\ procs[q].n >= 0
      BY <1>4 DEF InTurn, Now, Counts
    <3>2. Attempted(v, q)
      BY <1>4, <2>2, <3>1 DEF Attempted, Counts
    <3> QED
      BY <2>2, <3>1, <3>2 DEF InTurn
  <2>5. v.count <= Cardinality(S)
    <3>1. Cardinality(S) = IF o \in InTurn(Now) THEN Cardinality(InTurn(Now)) - 1
                           ELSE Cardinality(InTurn(Now))
      BY <1>4, FS_RemoveElement DEF Counts
    <3>2. Cardinality(InTurn(Now)) \in Nat
      BY <1>4, FS_CardinalityType DEF Counts
    <3> HIDE DEF S
    <3> QED
      BY <1>4, <2>2, <3>1, <3>2 DEF Counts
  <2> HIDE DEF S
  <2> QED
    BY <1>9, <2>1, <2>2, <2>3, <2>4, <2>5
<1>11. CASE Become(AttemptsEnded(w)) /\ count = 1
  <2> DEFINE u == [w EXCEPT !.count = 0]
             v == [StartBridgeSearch(u) EXCEPT !.tasks = {}]
  <2>1. Become(v)
    BY <1>5, <1>11 DEF AttemptsEnded
  <2>2. Like(w, u) /\ Shaped(u)
    BY <1>5, AttemptsLike
  <2> HIDE DEF u
  <2>3. Outcome(u, v)
    <3>1. Distinct(u.background)
      BY <1>2, <1>5, <2>2, LikeBackground
    <3> QED
      BY <2>2, <3>1, StartBridgeSearchOutcome
  <2> HIDE DEF v
  <2> QED
    BY <1>8, <2>1, <2>2, <2>3, LikeOutcome
<1>12. CASE Become(Authorized(retried, o))
  <2> DEFINE n == retried.count - 1
             c == [retried EXCEPT !.count = n]
             t == SetActive(c, o)
             s == Say(t, "FINISH_AUTHORIZING_AUTHORIZED")
             u == [s EXCEPT !.tasks = {}]
  <2>1. Become(StartRetrieveFullConfig(u))
    BY <1>12 DEF Authorized
  <2> HIDE DEF n
  <2>2. Like(retried, c) /\ Shaped(c)
    BY <1>6, AttemptsLike
  <2> HIDE DEF c
  <2>3. Same(c, t) /\ Shaped(t)
    BY <2>2, SetActiveSame, SameIsLike
  <2> HIDE DEF t
  <2>4. Same(c, s) /\ Shaped(s)
    BY <2>3, SaySame, SameTrans, SameIsLike
  <2> HIDE DEF s
  <2>5. Like(s, u) /\ Shaped(u)
    BY <2>4, AttemptsLike
  <2> HIDE DEF u
  <2>6. Like(w, u)
    BY <1>6, <2>2, <2>4, <2>5, SameIsLike, LikeTrans
  <2>7. Base(u)
    BY <1>2, <1>5, <2>6, LikeBase
  <2>8. Outcome(u, StartRetrieveFullConfig(u))
    BY <2>7, StartRetrieveFullConfigOutcome DEF Base
  <2> QED
    BY <1>8, <2>1, <2>6, <2>8, LikeOutcome
<1>13. CASE Become(AddTask(retried, a.n, o))
  <2> DEFINE task == [n |-> a.n, o |-> o]
             T == {t \in retried.tasks : t.n # a.n} \cup {task}
             v == [retried EXCEPT !.tasks = T]
             S == InTurn(Now)
  <2>1. Become(v)
    BY <1>13 DEF AddTask
  <2>2. task \in T /\ \A t \in tasks : t.n # a.n => t \in T
    BY <1>5, <1>6 DEF Same
  <2> HIDE DEF T
  <2>3. /\ Like(w, v) /\ v.state = "Authenticating" /\ v.procs = p
        /\ v.count = count /\ v.tasks = T /\ v.queue = Popped.queue
    <3>1. Like(retried, v) /\ v.state = retried.state
          /\ v.procs = retried.procs /\ v.count = retried.count /\ v.tasks = T
      BY <1>6, AttemptsLike
    <3>2. Like(w, v)
      BY <1>6, <3>1, SameIsLike, LikeTrans
    <3> QED
      BY <1>5, <1>6, <3>1, <3>2 DEF Same, Like
  <2> HIDE DEF v
  <2>4. S \in SUBSET InTurn(v)
    <3> SUFFICES ASSUME NEW q \in InTurn(Now)
                 PROVE  q \in InTurn(v)
      OBVIOUS
    <3>1. q \in DOMAIN p /\ p[q].n = procs[q].n /\ procs[q].n >= 0
      BY <1>4 DEF InTurn, Now, Counts
    <3>2. CASE q = o
      <4>1. task.o = q /\ task.n = p[q].n
        BY <1>4, <3>2 DEF Counts
      <4> QED
        BY <2>2, <2>3, <3>1, <4>1 DEF InTurn, Attempted
    <3>3. CASE q # o
      <4>1. p[q].n # a.n
        BY <1>4, <3>1, <3>3 DEF Counts
      <4>2. Attempted(v, q)
        BY <1>4, <2>2, <2>3, <3>1, <3>3, <4>1 DEF Attempted, Counts
      <4> QED
        BY <2>3, <3>1, <4>2 DEF InTurn
    <3> QED
      BY <3>2, <3>3
  <2>5. v.count \in Nat \ {0} /\ v.count <= Cardinality(S)
    BY <1>4, <2>3 DEF Counts
  <2> HIDE DEF S
  <2> QED
    BY <1>9, <2>1, <2>3, <2>4, <2>5
<1> QED
  BY <1>3, <1>10, <1>11, <1>12, <1>13

-----------------------------------------------------------------------------
(* What happens outside the dispatcher's thread. *)

(* The procedure stays where it is; the attempts that were due or queued   *)
(* still are.                                                              *)
LEMMA AnswerGood ==
    ASSUME Good(Now), NEW v, Shaped(v), QueueOK(v), RetrieverOK(v), Awaited(v),
           v.background = background, v.state = state, v.request = request,
           v.told = told, v.count = count, v.procs = procs,
           \A i \in DOMAIN queue : i \in DOMAIN v.queue /\ v.queue[i] = queue[i],
           \A t \in tasks :
              \/ t \in v.tasks
              \/ \E i \in DOMAIN v.queue :
                    v.queue[i].m = "PushLinkBridge" /\ v.queue[i].o = t.o
    PROVE  Good(v)
<1>1. Base(v)
  BY DEF Good, Base, Now
<1>2. ASSUME NEW o, Attempted(Now, o) PROVE Attempted(v, o)
  <2>1. CASE \E t \in tasks : t.o = o /\ t.n = procs[o].n
    BY <2>1 DEF Attempted
  <2>2. CASE \E i \in DOMAIN queue :
                /\ queue[i].m \in {"AuthenticationCompleted", "PushLinkBridge"}
                /\ queue[i].o = o
    BY <2>2 DEF Attempted
  <2> QED
    BY <1>2, <2>1, <2>2 DEF Attempted, Now
<1> QED
  BY <1>1, <1>2, StaysGood DEF Now

LEMMA AnswerKeeps ==
    ASSUME Good(Now), NEW v, Become(v), Good(v), Grows(Now, v),
           v.state = state, v.search = search, v.request = request,
           v.told = told, v.stream.on => stream.on,
           Undisturbed /\ Ready(Now) => Ready(v)
    PROVE  Keeps
<1>1. InPlace(Now) => InPlace(v)
  BY GrowsInPlace DEF Now
<1>2. Sought(Now) => Sought(v)
  BY GrowsSought DEF Now
<1> QED
  BY <1>1, <1>2, GoodKeeps DEF Preserves

LEMMA NowIsShaped ==
    ASSUME Good(Now)
    PROVE  /\ Shaped(Now) /\ QueueOK(Now) /\ RetrieverOK(Now) /\ Awaited(Now)
           /\ Distinct(background)
BY DEF Good, Base, Now

LEMMA ShapedFields ==
    ASSUME Shaped(Now), NEW v, v = [f \in Fields |-> v[f]],
           v.told = told, v.full = full, v.stream = stream
    PROVE  Shaped(v)
<1>1. /\ told = [f \in {"open", "request", "said"} |-> told[f]]
      /\ stream = [f \in {"on", "id", "ip", "sel", "owner"} |-> stream[f]]
      /\ full = [f \in {"kind", "busy", "pending", "asked", "connected",
                        "refreshing", "announce", "obj"} |-> full[f]]
  BY DEF Shaped, Now
<1> QED
  BY <1>1 DEF Shaped

LEMMA PostedFields ==
    ASSUME NEW u, Shaped(u), NEW x, NEW v, v = Post(u, x)
    PROVE  /\ v.queue = Append(u.queue, x) /\ Shaped(v)
           /\ v.state = u.state /\ v.request = u.request /\ v.count = u.count
           /\ v.procs = u.procs /\ v.background = u.background
           /\ v.tasks = u.tasks /\ v.search = u.search /\ v.full = u.full
           /\ v.told = u.told /\ v.small = u.small
           /\ v.stream = u.stream /\ v.check = u.check
BY DEF Post, Shaped, Fields

LEMMA CreateLeaves ==
    ASSUME NEW w, Shaped(w), NEW os, NEW bs, NEW v, v = Create(w, os, bs)
    PROVE  v.told = w.told /\ v.stream = w.stream /\ v.check = w.check
BY DEF Create, Shaped, Fields

(* An optional message.                                                    *)
LEMMA ShortLists ==
    ASSUME NEW x, NEW s, s = <<x>> \/ s = <<>>
    PROVE  /\ IsList(s) /\ \A i \in DOMAIN s : s[i] = x
           /\ s = <<x>> => 1 \in DOMAIN s /\ s[1] = x
<1>1. s \in Seq({x})
  <2>1. <<x>> \in Seq({x})
    OBVIOUS
  <2>2. <<>> \in Seq({x})
    BY EmptySeq
  <2> QED
    BY <2>1, <2>2
<1>2. /\ s = <<x>> => DOMAIN s = {1} /\ s[1] = x
      /\ s = <<>> => DOMAIN s = {}
  OBVIOUS
<1>3. IsList(s)
  BY <1>1, SeqOfRange DEF IsList
<1> QED
  BY <1>2, <1>3

LEMMA GrowsTrans ==
    \A w, v, u : Grows(w, v) /\ Grows(v, u) => Grows(w, u)
<1> SUFFICES ASSUME NEW w, NEW v, NEW u, Grows(w, v), Grows(v, u)
             PROVE  Grows(w, u)
  OBVIOUS
<1>1. ASSUME NEW i \in DOMAIN u.queue \ DOMAIN w.queue
      PROVE  u.queue[i].m \in Others
  <2>1. CASE i \in DOMAIN v.queue
    BY <2>1 DEF Grows
  <2>2. CASE i \notin DOMAIN v.queue
    BY <2>2 DEF Grows
  <2> QED
    BY <2>1, <2>2
<1> QED
  BY <1>1 DEF Grows

(* The client calls.  Behind an abort that it waits for it calls nothing.  *)
LEMMA ClientCallsKeeps ==
    ASSUME SetupsAssumption, setup \in DOMAIN Setups, Good(Now), ClientCalls
    PROVE  Keeps
<1>1. PICK c \in FirstCalls \cup Calls : Become(Post(Now, c))
  BY DEF ClientCalls
<1>2. /\ c.m \in ProcedureCalls \cup {"DoAbort"}
      /\ c.m = "DoReset" => c.request \in {"RESET_BRIDGE", "RESET_ALL"}
  BY <1>1 DEF SetupsAssumption, FirstCalls, Calls
<1>3. MessageOK(c) /\ c.m \notin {"LoadingCompleted", "BridgeSearchCompleted",
                                 "SavingCompleted"}
  BY <1>2 DEF MessageOK, ProcedureCalls
<1>4. AbortsWait => ~InQueue("DoAbort")
  BY DEF ClientCalls
<1> DEFINE v == Post(Now, c)
<1>5. /\ v.queue = Append(queue, c) /\ Shaped(v)
      /\ v.state = state /\ v.request = request /\ v.count = count
      /\ v.procs = procs /\ v.background = background /\ v.search = search
      /\ v.small = small /\ v.full = full /\ v.tasks = tasks /\ v.told = told
      /\ v.stream = stream /\ v.check = check
  <2> HIDE DEF v
  <2>1. v = Post(Now, c) /\ Shaped(Now)
    BY NowIsShaped DEF v
  <2>2. /\ v.queue = Append(Now.queue, c) /\ Shaped(v)
        /\ v.state = Now.state /\ v.request = Now.request /\ v.count = Now.count
        /\ v.procs = Now.procs /\ v.background = Now.background
        /\ v.tasks = Now.tasks /\ v.search = Now.search /\ v.full = Now.full
        /\ v.told = Now.told /\ v.small = Now.small
        /\ v.stream = Now.stream /\ v.check = Now.check
    BY <2>1, PostedFields
  <2>3. /\ Now.queue = queue /\ Now.state = state /\ Now.request = request
        /\ Now.count = count /\ Now.procs = procs /\ Now.background = background
        /\ Now.tasks = tasks /\ Now.search = search /\ Now.full = full
        /\ Now.told = told /\ Now.small = small
        /\ Now.stream = stream /\ Now.check = check
    BY DEF Now
  <2> QED
    BY <2>1, <2>2, <2>3
<1> HIDE DEF v
<1>6. QueueOK(v) /\ \A m : Holds(Now, m) => Holds(v, m)
  <2>1. v.queue = Append(Now.queue, c)
    BY <1>5 DEF Now
  <2> QED
    BY <1>3, <2>1, NowIsShaped, Appended
<1>7. /\ Len(queue) \in Nat /\ DOMAIN queue = 1 .. Len(queue)
      /\ DOMAIN v.queue = 1 .. Len(queue) + 1
      /\ v.queue[Len(queue) + 1] = c
      /\ \A i \in DOMAIN queue : v.queue[i] = queue[i]
  BY <1>5, NowIsShaped, ListAppend DEF QueueOK, Now
<1>8. \A i \in DOMAIN queue : i \in DOMAIN v.queue
  BY <1>7
<1>9. \A i \in DOMAIN v.queue :
         i \in DOMAIN queue \/ (v.queue[i] = c /\ i = Len(queue) + 1)
  BY <1>7
<1>10. Awaited(v) /\ RetrieverOK(v)
  BY <1>5, <1>6, NowIsShaped DEF Awaited, RetrieverOK, Now
<1>11. Good(v)
  BY <1>5, <1>6, <1>7, <1>8, <1>10, AnswerGood
<1>12. ASSUME AbortsWait, InPlace(Now) PROVE InPlace(v)
  <2>1. ASSUME NEW i \in DOMAIN queue, DroppedFirst(Now, i) PROVE DroppedFirst(v, i)
    <3>1. \A j \in DOMAIN v.queue : j < i => j \in DOMAIN queue
      BY <1>7
    <3> QED
      BY <1>5, <1>7, <2>1, <3>1 DEF DroppedFirst, Now
  <2>2. \A i \in DOMAIN v.queue :
           v.queue[i].m \in {"LoadingCompleted", "BridgeSearchCompleted",
                             "SavingCompleted"} =>
               i \in DOMAIN queue /\ v.queue[i] = queue[i]
    BY <1>3, <1>7, <1>9
  <2>3. \A i \in DOMAIN v.queue :
            /\ v.queue[i].m = "LoadingCompleted" =>
                  v.state = "Loading" \/ DroppedFirst(v, i)
            /\ v.queue[i].m = "BridgeSearchCompleted" =>
                  (v.state \in Searching /\ ~v.search) \/ DroppedFirst(v, i)
            /\ v.queue[i].m = "SavingCompleted" =>
                  v.state = "Saving" \/ DroppedFirst(v, i)
    BY <1>5, <1>12, <2>1, <2>2 DEF InPlace, Now
  <2>4. /\ v.state \in Searching => AtMostOne(v, "BridgeSearchCompleted")
        /\ v.state = "Saving" => AtMostOne(v, "SavingCompleted")
        /\ v.state = "Loading" => AtMostOne(v, "LoadingCompleted")
        /\ v.search => v.state \in Searching
    BY <1>5, <1>12, <2>2 DEF InPlace, AtMostOne, Now
  <2>5. AbortComesLast(v)
    <3> SUFFICES ASSUME NEW i \in DOMAIN v.queue, NEW j \in DOMAIN v.queue,
                        i < j, v.queue[i].m = "DoAbort"
                 PROVE  ~IsCall(v.queue[j])
      BY DEF AbortComesLast
    <3>1. i \notin DOMAIN queue
      BY <1>4, <1>7, <1>12 DEF InQueue
    <3> QED
      BY <1>7, <3>1
  <2> QED
    BY <2>3, <2>4, <2>5 DEF InPlace
<1>13. Sought(Now) => Sought(v)
  <2>1. \A i \in DOMAIN v.queue : v.queue[i].m = "LoadingCompleted" =>
           i \in DOMAIN queue /\ v.queue[i] = queue[i]
    BY <1>3, <1>7, <1>9
  <2> QED
    BY <1>5, <2>1 DEF Sought, Now
<1>14. Undisturbed /\ Ready(Now) => Ready(v)
  <2> SUFFICES ASSUME Undisturbed, Ready(Now) PROVE Ready(v)
    OBVIOUS
  <2>1. c.m # "DoAbort"
    BY <1>1 DEF Undisturbed
  <2>2. \A i \in DOMAIN v.queue \ DOMAIN queue :
           v.queue[i].m \notin {"SavingCompleted", "SmallConfigCompleted",
                               "FullConfigCompleted", "MonitorEvent", "DoAbort"}
    BY <1>2, <1>9, <2>1 DEF ProcedureCalls
  <2> QED
    BY <1>5, <1>7, <1>8, <2>2, AddedReady DEF Now
<1>15. Preserves(v)
  BY <1>5, <1>13, <1>14 DEF Preserves
<1> QED
  BY <1>1, <1>11, <1>12, <1>15, GoodKeeps DEF v

(* A search ends: the flow waits for its result, and no other is queued.   *)
LEMMA SearchEndsKeeps ==
    ASSUME SetupsAssumption, setup \in DOMAIN Setups, Good(Now), SearchEnds
    PROVE  Keeps
<1>1. search = TRUE \/ search
  BY DEF SearchEnds
<1>2. PICK bs \in SearchAnswers :
         Become(Post([Create(Now, Fresh(Now, Len(bs)), bs) EXCEPT !.search = FALSE],
                     [m |-> "BridgeSearchCompleted",
                      bridges |-> Fresh(Now, Len(bs))]))
  BY DEF SearchEnds
<1> DEFINE os == Fresh(Now, Len(bs))
           x == [m |-> "BridgeSearchCompleted", bridges |-> os]
           w == Create(Now, os, bs)
           u == [w EXCEPT !.search = FALSE]
           v == Post(u, x)
<1>3. IsList(os)
  <2>1. bs \in Seq(Bridges)
    BY DEF SetupsAssumption, SearchAnswers
  <2>2. Len(bs) \in Nat
    BY <2>1, LenProperties
  <2>3. DOMAIN os = 1 .. Len(bs) /\ os = [i \in 1 .. Len(bs) |-> os[i]]
    <3> DEFINE free == Objects \ (Live(Now) \cup Live(Now) \cup {0})
               C(i) == CHOOSE p \in free : Cardinality({q \in free : q < p}) = i - 1
    <3>1. os = [i \in 1 .. Len(bs) |-> C(i)]
      BY Zenon DEF Fresh, FreshBesides
    <3> HIDE DEF C, os
    <3> QED
      BY <3>1
  <2> HIDE DEF os
  <2> QED
    BY <2>2, <2>3, ListOf
<1> HIDE DEF os
<1>4. Same(Now, w) /\ Shaped(w) /\ w.told = told /\ w.stream = stream /\ w.check = check
  <2>1. Now.told = told /\ Now.stream = stream /\ Now.check = check
    BY DEF Now
  <2> QED
    BY <2>1, NowIsShaped, CreateSame, SameIsLike, CreateLeaves
<1> HIDE DEF w
<1>5. /\ v.queue = Append(w.queue, x) /\ Shaped(v) /\ ~v.search
      /\ v.state = w.state /\ v.request = w.request /\ v.count = w.count
      /\ v.procs = w.procs /\ v.background = w.background
      /\ v.small = w.small /\ v.full = w.full /\ v.tasks = w.tasks /\ v.told = w.told
      /\ v.stream = w.stream /\ v.check = w.check
  <2> HIDE DEF x
  <2> QED
    BY <1>4 DEF Post, Shaped, Fields
<1>6. /\ v.queue = Append(queue, x) /\ Shaped(v) /\ ~v.search
      /\ v.state = state /\ v.request = request /\ v.count = count
      /\ v.procs = procs /\ v.background = background /\ v.tasks = tasks
      /\ v.small = small /\ SameRetriever(Now, v)
      /\ v.told = told /\ v.stream = stream /\ v.check = check
  BY <1>4, <1>5 DEF Same, Like, SameRetriever, Now
<1>7. MessageOK(x) /\ x.m = "BridgeSearchCompleted"
  BY <1>3 DEF MessageOK
<1> HIDE DEF v, x
<1>8. /\ QueueOK(v) /\ Holds(v, "BridgeSearchCompleted")
      /\ \A m : Holds(Now, m) => Holds(v, m)
  <2>1. v.queue = Append(Now.queue, x)
    BY <1>6 DEF Now
  <2>2. QueueOK(v) /\ Holds(v, x.m) /\ \A m : Holds(Now, m) => Holds(v, m)
    BY <1>7, <2>1, NowIsShaped, Appended
  <2> QED
    BY <1>7, <2>2
<1>9. /\ Len(queue) \in Nat /\ DOMAIN queue = 1 .. Len(queue)
      /\ DOMAIN v.queue = 1 .. Len(queue) + 1
      /\ v.queue[Len(queue) + 1] = x
      /\ \A i \in DOMAIN queue : v.queue[i] = queue[i]
  BY <1>6, NowIsShaped, ListAppend DEF QueueOK, Now
<1>10. \A i \in DOMAIN queue : i \in DOMAIN v.queue
  BY <1>9
<1>11. \A i \in DOMAIN v.queue :
          i \in DOMAIN queue \/ (v.queue[i] = x /\ i = Len(queue) + 1)
  BY <1>9
<1>12. Awaited(v) /\ RetrieverOK(v)
  BY <1>6, <1>8, NowIsShaped DEF Awaited, RetrieverOK, SameRetriever, Now
<1>13. Good(v)
  BY <1>6, <1>8, <1>9, <1>10, <1>12, AnswerGood
<1>14. ASSUME InPlace(Now) PROVE InPlace(v)
  <2>1. state \in Searching /\ state \notin {"Idle", "Loading", "Saving"}
    BY <1>1, <1>14 DEF InPlace, Now, Searching
  <2>2. \A i \in DOMAIN queue :
           queue[i].m \notin {"LoadingCompleted", "BridgeSearchCompleted",
                             "SavingCompleted"}
    BY <1>1, <1>14, <2>1 DEF InPlace, DroppedFirst, Now
  <2>3. \A i \in DOMAIN v.queue :
           /\ v.queue[i].m = "BridgeSearchCompleted" => i = Len(queue) + 1
           /\ v.queue[i].m \notin {"LoadingCompleted", "SavingCompleted"}
    BY <1>7, <1>9, <1>11, <2>2
  <2>4. AtMostOne(v, "BridgeSearchCompleted") /\ AtMostOne(v, "SavingCompleted")
    BY <2>3 DEF AtMostOne
  <2>5. AbortComesLast(v)
    <3> SUFFICES ASSUME NEW i \in DOMAIN v.queue, NEW j \in DOMAIN v.queue,
                        i < j, v.queue[i].m = "DoAbort"
                 PROVE  ~IsCall(v.queue[j])
      BY DEF AbortComesLast
    <3>1. CASE j \in DOMAIN queue
      <4>1. i \in DOMAIN queue
        BY <1>9, <3>1
      <4> QED
        BY <1>9, <1>14, <3>1, <4>1 DEF InPlace, AbortComesLast, Now
    <3>2. CASE v.queue[j] = x
      BY <1>7, <3>2 DEF IsCall, ProcedureCalls
    <3> QED
      BY <1>11, <3>1, <3>2
  <2> QED
    BY <1>6, <2>1, <2>3, <2>4, <2>5 DEF InPlace
<1>15. Sought(Now) => Sought(v)
  <2>1. \A i \in DOMAIN v.queue : v.queue[i].m = "LoadingCompleted" =>
           i \in DOMAIN queue /\ v.queue[i] = queue[i]
    BY <1>7, <1>9, <1>11
  <2> QED
    BY <1>6, <2>1 DEF Sought, Now
<1>16. Ready(Now) => Ready(v)
  <2>1. \A i \in DOMAIN v.queue \ DOMAIN queue :
           v.queue[i].m \notin {"SavingCompleted", "SmallConfigCompleted",
                               "FullConfigCompleted", "MonitorEvent", "DoAbort"}
    BY <1>7, <1>11
  <2> QED
    BY <1>6, <1>9, <1>10, <2>1, AddedReady DEF SameRetriever, Now
<1>17. Preserves(v)
  BY <1>6, <1>15, <1>16 DEF Preserves
<1> QED
  BY <1>2, <1>13, <1>14, <1>17, GoodKeeps DEF v, u, x, w, os

LEMMA ConcatOne ==
    ASSUME NEW q, IsList(q), NEW x
    PROVE  q \o <<x>> = Append(q, x)
<1>1. q \in Seq(Range(q) \cup {x}) /\ x \in Range(q) \cup {x}
  <2>1. q \in Seq(Range(q))
    BY DEF IsList
  <2> QED
    BY <2>1, SeqMonotonic
<1> QED
  BY <1>1, AppendIsConcat

LEMMA ConcatNothing == ASSUME NEW q, IsList(q) PROVE q \o <<>> = q
<1>1. q \in Seq(Range(q))
  BY DEF IsList
<1> QED
  BY <1>1, ConcatEmptySeq

\* The place of what was queued.
LEMMA AppendedAt ==
    ASSUME NEW w, QueueOK(w), NEW x, NEW v, v.queue = Append(w.queue, x)
    PROVE  \E n \in DOMAIN v.queue :
              v.queue[n] = x /\ \A i \in DOMAIN v.queue \ DOMAIN w.queue : i = n
<1>1. /\ Len(w.queue) \in Nat /\ DOMAIN w.queue = 1 .. Len(w.queue)
      /\ DOMAIN v.queue = 1 .. Len(w.queue) + 1
      /\ v.queue[Len(w.queue) + 1] = x
  BY ListAppend DEF QueueOK
<1>2. /\ Len(w.queue) + 1 \in DOMAIN v.queue
      /\ \A i \in DOMAIN v.queue \ DOMAIN w.queue : i = Len(w.queue) + 1
  BY <1>1
<1> QED
  BY <1>1, <1>2

(* The bridge answers the request for its small configuration.             *)
LEMMA SmallConfigEndsKeeps == ASSUME Good(Now), SmallConfigEnds PROVE Keeps
<1> DEFINE H(o, a) == [Now.heap EXCEPT ![o] = SmallConfigured(@, a)]
           X(o, a) == [m |-> "SmallConfigCompleted", ok |-> a.kind = "ok", o |-> o]
           U(o, a) == [Now EXCEPT !.heap = H(o, a), !.small = {}]
           V(o, a) == Post(U(o, a), X(o, a))
<1>1. PICK o \in small : \E a : Become(V(o, a))
  BY DEF SmallConfigEnds
<1>8. PICK a : Become(V(o, a))
  BY <1>1
<1> DEFINE x == X(o, a)
           u == U(o, a)
           v == V(o, a)
<1>2. x.m = "SmallConfigCompleted" /\ MessageOK(x) /\ x.m \in Others
  BY DEF MessageOK, Others
<1> HIDE DEF H, X
<1>3. /\ v.queue = Append(Now.queue, x) /\ Shaped(v)
      /\ v.state = state /\ v.request = request /\ v.count = count
      /\ v.procs = procs /\ v.background = background /\ v.tasks = tasks
      /\ v.search = search /\ v.full = full /\ v.told = told
      /\ v.small = {} /\ v.stream = stream /\ v.check = check
  <2>1. /\ Shaped(u) /\ u.queue = queue
        /\ u.state = state /\ u.request = request /\ u.count = count
        /\ u.procs = procs /\ u.background = background /\ u.tasks = tasks
        /\ u.search = search /\ u.full = full /\ u.told = told
        /\ u.small = {} /\ u.stream = stream /\ u.check = check
    <3> DEFINE h == H(o, a)
    <3>1. u = [Now EXCEPT !.heap = h, !.small = {}]
      OBVIOUS
    <3> HIDE DEF h, U
    <3>2. /\ u.queue = queue /\ u.state = state /\ u.request = request
          /\ u.count = count /\ u.procs = procs /\ u.background = background
          /\ u.tasks = tasks /\ u.search = search /\ u.full = full
          /\ u.told = told /\ u.small = {} /\ u.stream = stream /\ u.check = check
      BY <3>1 DEF Now
    <3>3. u = [f \in Fields |-> u[f]]
      BY <3>1, NowIsShaped DEF Shaped, Fields
    <3>4. Shaped(u)
      BY <3>2, <3>3, NowIsShaped, ShapedFields
    <3> QED
      BY <3>2, <3>4
  <2> HIDE DEF U
  <2>2. v = Post(u, x)
    OBVIOUS
  <2> HIDE DEF V
  <2> QED
    BY <2>1, <2>2, PostedFields DEF Now
<1> HIDE DEF V
<1>4. /\ Grows(Now, v) /\ QueueOK(v) /\ Holds(v, "SmallConfigCompleted")
      /\ \A m : Holds(Now, m) => Holds(v, m)
  BY <1>2, <1>3, NowIsShaped, AppendGrows
<1>5. Awaited(v) /\ RetrieverOK(v)
  BY <1>3, <1>4, NowIsShaped DEF Awaited, RetrieverOK, Now
<1>6. Good(v)
  BY <1>3, <1>4, <1>5, AnswerGood DEF Grows, Now
<1>7. Ready(Now) => Ready(v)
  <2> SUFFICES ASSUME Ready(Now) PROVE Ready(v)
    OBVIOUS
  <2>1. small # {} /\ ~full.pending /\ ~full.refreshing
    BY DEF Ready, OneRetrieval, Now
  <2>2. PICK n \in DOMAIN v.queue :
           v.queue[n] = x /\ \A i \in DOMAIN v.queue \ DOMAIN Now.queue : i = n
    BY <1>3, NowIsShaped, AppendedAt
  <2>3. Retrieved(v.queue[n])
    BY <1>2, <2>2 DEF Retrieved
  <2> QED
    BY <1>3, <1>4, <2>1, <2>2, <2>3, AnsweredReady DEF Grows, Now
<1> QED
  BY <1>3, <1>4, <1>6, <1>7, <1>8, AnswerKeeps

(* A CLIP v1 bridge answers the requests for its full configuration.       *)
LEMMA FullConfigEndsV1Keeps == ASSUME Good(Now), FullConfigEndsV1 PROVE Keeps
<1> DEFINE R == [Now.full EXCEPT !.pending = FALSE, !.asked = FALSE,
                                 !.busy = ~PromptUnbusy]
           H(a) == [Now.heap EXCEPT ![full.obj] = FullConfigured(@, a)]
           S(a) == [Now.stream EXCEPT !.owner =
                        IF @ = full.obj /\ a.kind = "ok" THEN 0 ELSE @]
           X(a) == [m |-> "FullConfigCompleted", ok |-> a.kind = "ok",
                    o |-> full.obj]
           U(a) == [Now EXCEPT !.heap = H(a), !.full = R, !.stream = S(a)]
           V(a) == Post(U(a), X(a))
<1>1. PICK a : Become(Post([Now EXCEPT
                        !.heap[full.obj] = FullConfigured(@, a),
                        !.full = [@ EXCEPT !.pending = FALSE, !.asked = FALSE,
                                           !.busy = ~PromptUnbusy],
                        !.stream.owner =
                            IF @ = full.obj /\ a.kind = "ok" THEN 0 ELSE @],
                     [m |-> "FullConfigCompleted", ok |-> a.kind = "ok",
                      o |-> full.obj]))
  BY DEF FullConfigEndsV1
<1> DEFINE x == X(a)
           u == U(a)
           v == V(a)
<1>2. x.m = "FullConfigCompleted" /\ MessageOK(x) /\ x.m \in Others
  BY DEF MessageOK, Others
<1>3. /\ R = [f \in {"kind", "busy", "pending", "asked", "connected", "refreshing",
                     "announce", "obj"} |-> R[f]]
      /\ R.busy = ~PromptUnbusy /\ ~R.pending /\ R.refreshing = full.refreshing
  BY NowIsShaped DEF Shaped, Now
<1>4. Become(v)
  BY <1>1
<1>11. /\ S(a) = [f \in {"on", "id", "ip", "sel", "owner"} |-> S(a)[f]]
       /\ S(a).on = stream.on
  <2>1. stream = [f \in {"on", "id", "ip", "sel", "owner"} |-> stream[f]]
    BY NowIsShaped DEF Shaped, Now
  <2>2. Now.stream = stream
    BY DEF Now
  <2> DEFINE w == IF stream.owner = full.obj /\ a.kind = "ok" THEN 0 ELSE stream.owner
  <2>3. S(a) = [stream EXCEPT !.owner = w]
    BY <2>2
  <2> HIDE DEF w, S
  <2> QED
    BY <2>1, <2>3
<1> HIDE DEF H, X, R, S
<1>5. /\ v.queue = Append(Now.queue, x) /\ Shaped(v)
      /\ v.state = state /\ v.request = request /\ v.count = count
      /\ v.procs = procs /\ v.background = background /\ v.tasks = tasks
      /\ v.search = search /\ v.full = R /\ v.told = told /\ v.small = small
      /\ v.stream = S(a) /\ v.check = check
  <2>1. /\ Shaped(u) /\ u.queue = queue
        /\ u.state = state /\ u.request = request /\ u.count = count
        /\ u.procs = procs /\ u.background = background /\ u.tasks = tasks
        /\ u.search = search /\ u.full = R /\ u.told = told /\ u.small = small
        /\ u.stream = S(a) /\ u.check = check
    <3> DEFINE h == H(a)
               t == S(a)
    <3>1. u = [Now EXCEPT !.heap = h, !.full = R, !.stream = t]
      OBVIOUS
    <3> HIDE DEF h, t, U
    <3>2. /\ u.queue = queue /\ u.state = state /\ u.request = request
          /\ u.count = count /\ u.procs = procs /\ u.background = background
          /\ u.tasks = tasks /\ u.search = search /\ u.full = R
          /\ u.told = told /\ u.small = small
          /\ u.stream = t /\ u.check = check
      BY <3>1 DEF Now
    <3>6. u = [f \in Fields |-> u[f]]
      BY <3>1, NowIsShaped DEF Shaped, Fields
    <3>3. told = [f \in {"open", "request", "said"} |-> told[f]]
      BY NowIsShaped DEF Shaped, Now
    <3>4. Shaped(u)
      BY <1>3, <1>11, <3>2, <3>3, <3>6 DEF Shaped, t
    <3> QED
      BY <3>2, <3>4 DEF t
  <2> HIDE DEF U
  <2>2. v = Post(u, x)
    OBVIOUS
  <2> HIDE DEF V
  <2> QED
    BY <2>1, <2>2, PostedFields DEF Now
<1> HIDE DEF V
<1>6. /\ Grows(Now, v) /\ QueueOK(v) /\ Holds(v, "FullConfigCompleted")
      /\ \A m : Holds(Now, m) => Holds(v, m)
  BY <1>2, <1>5, NowIsShaped, AppendGrows
<1>7. Awaited(v)
  BY <1>5, <1>6, NowIsShaped DEF Awaited, Now
<1>8. RetrieverOK(v)
  BY <1>3, <1>5 DEF RetrieverOK
<1>9. Good(v)
  BY <1>5, <1>6, <1>7, <1>8, AnswerGood DEF Grows, Now
<1>10. Ready(Now) => Ready(v)
  <2> SUFFICES ASSUME Ready(Now) PROVE Ready(v)
    OBVIOUS
  <2>1. full.pending
    BY DEF FullConfigEndsV1
  <2>2. small = {} /\ ~full.refreshing
    BY <2>1 DEF Ready, OneRetrieval, Now
  <2>3. PICK n \in DOMAIN v.queue :
           v.queue[n] = x /\ \A i \in DOMAIN v.queue \ DOMAIN Now.queue : i = n
    BY <1>5, NowIsShaped, AppendedAt
  <2>4. Retrieved(v.queue[n])
    BY <1>2, <2>3 DEF Retrieved
  <2> QED
    BY <1>3, <1>5, <1>6, <2>1, <2>2, <2>3, <2>4, AnsweredReady DEF Grows, Now
<1> QED
  BY <1>4, <1>5, <1>6, <1>9, <1>10, <1>11, AnswerKeeps

LEMMA FullConfigUnbusyKeeps == ASSUME Good(Now), FullConfigUnbusy PROVE Keeps
<1> DEFINE R == [full EXCEPT !.busy = FALSE]
           v == [Now EXCEPT !.full = R]
<1>1. Become(v)
  BY DEF FullConfigUnbusy, Now
<1>2. /\ R = [f \in {"kind", "busy", "pending", "asked", "connected", "refreshing",
                     "announce", "obj"} |-> R[f]]
      /\ R.busy = FALSE /\ R.pending = full.pending /\ R.asked = full.asked
      /\ R.refreshing = full.refreshing
  BY NowIsShaped DEF Shaped, Now
<1> HIDE DEF R
<1>3. /\ v.queue = queue /\ Shaped(v)
      /\ v.state = state /\ v.request = request /\ v.count = count
      /\ v.procs = procs /\ v.background = background /\ v.tasks = tasks
      /\ v.search = search /\ v.full = R /\ v.told = told /\ v.small = small
      /\ v.stream = stream /\ v.check = check
  BY <1>2, NowIsShaped DEF Shaped, Fields, Now
<1> HIDE DEF v
<1>4. Grows(Now, v) /\ QueueOK(v)
  BY <1>3, NowIsShaped DEF Grows, QueueOK, Now
<1>5. Awaited(v) /\ RetrieverOK(v)
  BY <1>2, <1>3, NowIsShaped DEF Awaited, Holds, RetrieverOK, Now
<1>6. Good(v)
  BY <1>3, <1>4, <1>5, AnswerGood
<1>7. Ready(Now) => Ready(v)
  BY <1>2, <1>3, AddedReady DEF Now
<1> QED
  BY <1>1, <1>3, <1>4, <1>6, <1>7, AnswerKeeps

(* A CLIP v2 bridge answers: the completion is queued if one is owed, and  *)
(* what there is to tell about the connection.                             *)
LEMMA FullConfigEndsV2Keeps == ASSUME Good(Now), FullConfigEndsV2 PROVE Keeps
<1> DEFINE ok(a) == a.kind = "ok"
           o == full.obj
           connected(a) == full.connected /\ (ok(a) \/ ~full.asked)
           Tell(c, id) == IF c THEN <<[m |-> "MonitorEvent", id |-> id, o |-> o]>>
                          ELSE <<>>
           H(a) == [Now.heap EXCEPT ![o] = V2Configured(@, a)]
           R(a) == [Now.full EXCEPT !.pending = FALSE, !.asked = FALSE,
                                    !.busy = FALSE, !.refreshing = FALSE,
                                    !.connected = connected(a),
                                    !.announce = full.announce /\ ~connected(a)]
           x(a) == [m |-> "FullConfigCompleted", ok |-> ok(a), o |-> o]
           first(a) == Tell(full.announce /\ connected(a), "BRIDGE_CONNECTED")
           owed(a) == IF full.asked THEN <<x(a)>> ELSE <<>>
           third(a) == Tell(full.refreshing /\ ok(a), "BRIDGE_REFRESHED")
           fourth(a) == Tell(full.refreshing /\ ok(a), "BRIDGE_CHANGED")
           Q(a) == Now.queue \o first(a) \o owed(a) \o third(a) \o fourth(a)
           V(a) == [Now EXCEPT !.heap = H(a), !.full = R(a), !.queue = Q(a)]
<1>0. PICK a : Become(V(a))
  BY DEF FullConfigEndsV2
<1> DEFINE r == R(a)
           q == Q(a)
           h == H(a)
           v == V(a)
<1>2. /\ r = [f \in {"kind", "busy", "pending", "asked", "connected", "refreshing",
                     "announce", "obj"} |-> r[f]]
      /\ r.busy = FALSE /\ r.pending = FALSE /\ r.refreshing = FALSE
  <2> DEFINE c == connected(a)
  <2> HIDE DEF connected
  <2> QED
    BY NowIsShaped DEF Shaped
<1>3. v = [Now EXCEPT !.heap = h, !.full = r, !.queue = q]
  OBVIOUS
<1>4. ASSUME NEW c, NEW id \in Events1
      PROVE  /\ IsList(Tell(c, id))
             /\ \A i \in DOMAIN Tell(c, id) :
                    Tell(c, id)[i].m \in Others /\ MessageOK(Tell(c, id)[i])
  <2> DEFINE e == [m |-> "MonitorEvent", id |-> id, o |-> o]
  <2>1. e.m = "MonitorEvent" /\ e.id \in Events1
    OBVIOUS
  <2>2. e.m \in Others /\ MessageOK(e)
    BY <2>1 DEF Others, MessageOK
  <2>3. Tell(c, id) = <<e>> \/ Tell(c, id) = <<>>
    OBVIOUS
  <2> DEFINE s == Tell(c, id)
  <2> HIDE DEF e, Tell, s
  <2>4. s = <<e>> \/ s = <<>>
    BY <2>3 DEF s
  <2>5. IsList(s) /\ \A i \in DOMAIN s : s[i] = e
    BY <2>4, ShortLists
  <2>6. \A i \in DOMAIN s : s[i].m \in Others /\ MessageOK(s[i])
    BY <2>2, <2>5
  <2> QED
    BY <2>5, <2>6 DEF s
<1>5. /\ IsList(owed(a))
      /\ \A i \in DOMAIN owed(a) :
             owed(a)[i].m \in Others /\ MessageOK(owed(a)[i])
      /\ full.asked => 1 \in DOMAIN owed(a) /\ owed(a)[1].m = "FullConfigCompleted"
      /\ full.asked => owed(a) = <<x(a)>>
  <2>1. x(a).m = "FullConfigCompleted"
    OBVIOUS
  <2>2. x(a).m \in Others /\ MessageOK(x(a))
    BY <2>1 DEF Others, MessageOK
  <2>3. /\ owed(a) = <<x(a)>> \/ owed(a) = <<>>
        /\ full.asked => owed(a) = <<x(a)>>
    OBVIOUS
  <2> DEFINE s == owed(a)
             e == x(a)
  <2> HIDE DEF x, owed, s, e
  <2>4. /\ s = <<e>> \/ s = <<>>
        /\ full.asked => s = <<e>>
        /\ e.m = "FullConfigCompleted" /\ e.m \in Others /\ MessageOK(e)
    BY <2>1, <2>2, <2>3 DEF s, e
  <2>5. /\ IsList(s) /\ \A i \in DOMAIN s : s[i] = e
        /\ s = <<e>> => 1 \in DOMAIN s /\ s[1] = e
    BY <2>4, ShortLists
  <2>6. \A i \in DOMAIN s : s[i].m \in Others /\ MessageOK(s[i])
    BY <2>4, <2>5
  <2>7. full.asked => 1 \in DOMAIN s /\ s[1].m = "FullConfigCompleted"
    BY <2>4, <2>5
  <2> QED
    BY <2>3, <2>5, <2>6, <2>7 DEF s
<1> DEFINE u == [Now EXCEPT !.queue = q]
           s1 == first(a)
           s2 == owed(a)
           s3 == third(a)
           s4 == fourth(a)
           At(p) == [Now EXCEPT !.queue = p]
           q1 == Now.queue \o s1
           q2 == q1 \o s2
           q3 == q2 \o s3
<1>6. q = q3 \o s4
  OBVIOUS
<1>7. /\ IsList(s1) /\ \A i \in DOMAIN s1 : s1[i].m \in Others /\ MessageOK(s1[i])
      /\ IsList(s3) /\ \A i \in DOMAIN s3 : s3[i].m \in Others /\ MessageOK(s3[i])
      /\ IsList(s4) /\ \A i \in DOMAIN s4 : s4[i].m \in Others /\ MessageOK(s4[i])
  <2>1. "BRIDGE_CONNECTED" \in Events1 /\ "BRIDGE_REFRESHED" \in Events1
        /\ "BRIDGE_CHANGED" \in Events1
    BY DEF Events1
  <2> HIDE DEF Tell
  <2> QED
    BY <1>4, <2>1
<1>19. ~full.refreshing => s3 = <<>> /\ s4 = <<>>
  OBVIOUS
<1>20. \A i \in DOMAIN s1 : s1[i].m = "MonitorEvent"
  <2> DEFINE e == [m |-> "MonitorEvent", id |-> "BRIDGE_CONNECTED", o |-> o]
  <2>1. s1 = <<e>> \/ s1 = <<>>
    OBVIOUS
  <2>2. e.m = "MonitorEvent"
    OBVIOUS
  <2> HIDE DEF e, s1
  <2> QED
    BY <2>1, <2>2, ShortLists
<1> HIDE DEF s1, s2, s3, s4
<1>8. \A p : At(p).queue = p
  BY DEF Now
<1> HIDE DEF At, V, R, H, Q
<1>9. /\ QueueOK(At(Now.queue))
      /\ At(Now.queue).queue = queue
  BY <1>8, NowIsShaped DEF QueueOK, Now
<1>10. /\ Grows(Now, At(q1)) /\ QueueOK(At(q1))
       /\ \A m : Holds(Now, m) => Holds(At(q1), m)
  <2>1. At(q1).queue = Now.queue \o s1
    BY <1>8
  <2>2. QueueOK(Now) /\ IsList(s1)
    BY <1>7, NowIsShaped
  <2>3. \A i \in DOMAIN s1 : s1[i].m \in Others /\ MessageOK(s1[i])
    BY <1>7
  <2> HIDE DEF q1
  <2> QED
    BY <2>1, <2>2, <2>3, ConcatGrows
<1> HIDE DEF q1
<1>11. /\ Grows(At(q1), At(q2)) /\ QueueOK(At(q2))
       /\ full.asked => Holds(At(q2), "FullConfigCompleted")
       /\ \A m : Holds(At(q1), m) => Holds(At(q2), m)
  <2>1. At(q2).queue = At(q1).queue \o s2
    BY <1>8 DEF q2
  <2>2. IsList(s2) /\ \A i \in DOMAIN s2 : s2[i].m \in Others /\ MessageOK(s2[i])
    BY <1>5 DEF s2
  <2>3. /\ Grows(At(q1), At(q2)) /\ QueueOK(At(q2))
        /\ \A i \in DOMAIN s2 : Holds(At(q2), s2[i].m)
        /\ \A m : Holds(At(q1), m) => Holds(At(q2), m)
    BY <1>10, <2>1, <2>2, ConcatGrows
  <2>4. full.asked => 1 \in DOMAIN s2 /\ s2[1].m = "FullConfigCompleted"
    BY <1>5 DEF s2
  <2> QED
    BY <2>3, <2>4
<1> HIDE DEF q2
<1>12. /\ Grows(At(q2), At(q3)) /\ QueueOK(At(q3))
       /\ \A m : Holds(At(q2), m) => Holds(At(q3), m)
  <2>1. At(q3).queue = At(q2).queue \o s3
    BY <1>8 DEF q3
  <2> QED
    BY <1>7, <1>11, <2>1, ConcatGrows
<1> HIDE DEF q3, q
<1>13. /\ Grows(At(q3), At(q)) /\ QueueOK(At(q))
       /\ \A m : Holds(At(q3), m) => Holds(At(q), m)
  <2>1. At(q).queue = At(q3).queue \o s4
    BY <1>6, <1>8
  <2> QED
    BY <1>7, <1>12, <2>1, ConcatGrows
<1> HIDE DEF r, h, v
<1>14. /\ v.queue = q /\ v.state = state /\ v.request = request
       /\ v.count = count /\ v.procs = procs /\ v.background = background
       /\ v.tasks = tasks /\ v.search = search /\ v.full = r
       /\ v.told = told /\ v.small = small /\ v.stream = stream /\ v.check = check
       /\ v = [f \in Fields |-> v[f]]
  BY <1>3 DEF Fields, Now
<1>15. Shaped(v)
  <2>1. /\ told = [f \in {"open", "request", "said"} |-> told[f]]
        /\ stream = [f \in {"on", "id", "ip", "sel", "owner"} |-> stream[f]]
    BY NowIsShaped DEF Shaped, Now
  <2> QED
    BY <1>2, <1>14, <2>1 DEF Shaped
<1>16. /\ Grows(Now, v) /\ QueueOK(v)
       /\ full.asked => Holds(v, "FullConfigCompleted")
       /\ \A m : Holds(Now, m) => Holds(v, m)
  <2>1. v.queue = At(q).queue
    BY <1>8, <1>14
  <2>2. Grows(Now, At(q))
    BY <1>10, <1>11, <1>12, <1>13, GrowsTrans
  <2>3. \A m : Holds(Now, m) => Holds(At(q), m)
    BY <1>10, <1>11, <1>12, <1>13
  <2>4. full.asked => Holds(At(q), "FullConfigCompleted")
    BY <1>11, <1>12, <1>13
  <2> QED
    BY <1>13, <2>1, <2>2, <2>3, <2>4 DEF Grows, QueueOK, Holds
<1>17. Awaited(v) /\ RetrieverOK(v)
  BY <1>2, <1>14, <1>16, NowIsShaped DEF Awaited, RetrieverOK, Now
<1>18. Good(v)
  BY <1>14, <1>15, <1>16, <1>17, AnswerGood DEF Grows, Now
<1>21. Ready(Now) => Ready(v)
  <2> SUFFICES ASSUME Ready(Now) PROVE Ready(v)
    OBVIOUS
  <2>1. full.pending
    BY DEF FullConfigEndsV2
  <2>2. small = {} /\ ~full.refreshing /\ full.asked
    BY <2>1 DEF Ready, OneRetrieval, Now
  <2>3. IsList(q1) /\ s2 = <<x(a)>>
    BY <1>5, <1>8, <1>10, <2>2 DEF QueueOK, s2
  <2>4. q = Append(q1, x(a)) /\ x(a).m = "FullConfigCompleted"
    <3>1. q2 = Append(q1, x(a))
      BY <2>3, ConcatOne DEF q2
    <3>2. IsList(q2)
      BY <1>8, <1>11 DEF QueueOK
    <3>3. q3 = q2 /\ q = q2
      BY <1>6, <1>19, <2>2, <3>2, ConcatNothing DEF q3
    <3> QED
      BY <3>1, <3>3
  <2> HIDE DEF x
  <2>5. /\ Len(q1) \in Nat /\ DOMAIN q1 = 1 .. Len(q1)
        /\ DOMAIN q = 1 .. Len(q1) + 1 /\ q[Len(q1) + 1] = x(a)
        /\ \A i \in DOMAIN q1 : q[i] = q1[i]
    BY <2>3, <2>4, ListAppend
  <2>6. \A i \in DOMAIN q1 \ DOMAIN queue : q1[i].m = "MonitorEvent"
    <3>1. IsList(queue)
      BY NowIsShaped DEF QueueOK, Now
    <3>2. /\ Len(queue) \in Nat /\ DOMAIN queue = 1 .. Len(queue)
          /\ Len(s1) \in Nat /\ DOMAIN s1 = 1 .. Len(s1)
          /\ DOMAIN q1 = 1 .. Len(queue) + Len(s1)
          /\ \A i \in DOMAIN s1 : q1[Len(queue) + i] = s1[i]
      <4>1. q1 = queue \o s1
        BY DEF q1, Now
      <4> QED
        BY <1>7, <3>1, <4>1, ListConcat
    <3> SUFFICES ASSUME NEW i \in DOMAIN q1 \ DOMAIN queue
                 PROVE  q1[i].m = "MonitorEvent"
      OBVIOUS
    <3>3. i - Len(queue) \in DOMAIN s1 /\ Len(queue) + (i - Len(queue)) = i
      BY <3>2
    <3> QED
      BY <1>20, <3>2, <3>3
  <2> DEFINE n == Len(q1) + 1
  <2>7. /\ n \in DOMAIN q /\ q[n] = x(a)
        /\ \A i \in DOMAIN q : i = n \/ (i \in DOMAIN q1 /\ i < n)
    BY <2>5
  <2> HIDE DEF n
  <2>8. \A i \in DOMAIN q \ DOMAIN queue :
           \/ i = n
           \/ i < n /\ q[i].m = "MonitorEvent" /\ q[n].m = "FullConfigCompleted"
    BY <2>4, <2>5, <2>6, <2>7
  <2>9. Retrieved(q[n])
    BY <2>4, <2>7 DEF Retrieved
  <2> QED
    BY <1>2, <1>14, <1>16, <2>1, <2>2, <2>7, <2>8, <2>9, AnsweredReady DEF Grows, Now
<1> QED
  BY <1>0, <1>14, <1>16, <1>18, <1>21, AnswerKeeps DEF v

(* A pushlink attempt is due: now it is queued.                            *)
LEMMA TaskFiresKeeps == ASSUME Good(Now), TaskFires PROVE Keeps
<1> DEFINE X(t) == [m |-> "PushLinkBridge", o |-> t.o]
           U(t) == [Now EXCEPT !.tasks = tasks \ {t}]
           V(t) == Post(U(t), X(t))
<1>1. PICK t \in tasks : Become(V(t))
  BY DEF TaskFires, Now
<1> DEFINE x == X(t)
           u == U(t)
           v == V(t)
<1>2. x.m = "PushLinkBridge" /\ x.o = t.o /\ MessageOK(x) /\ x.m \in Others
  BY DEF MessageOK, Others
<1> HIDE DEF X
<1>3. /\ v.queue = Append(Now.queue, x) /\ Shaped(v)
      /\ v.state = state /\ v.request = request /\ v.count = count
      /\ v.procs = procs /\ v.background = background /\ v.tasks = tasks \ {t}
      /\ v.search = search /\ v.full = full /\ v.told = told /\ v.small = small
      /\ v.stream = stream /\ v.check = check
  <2>1. /\ Shaped(u) /\ u.queue = queue
        /\ u.state = state /\ u.request = request /\ u.count = count
        /\ u.procs = procs /\ u.background = background /\ u.tasks = tasks \ {t}
        /\ u.search = search /\ u.full = full /\ u.told = told /\ u.small = small
        /\ u.stream = stream /\ u.check = check
    BY NowIsShaped DEF Shaped, Fields, Now
  <2> HIDE DEF U
  <2>2. v = Post(u, x)
    OBVIOUS
  <2> HIDE DEF V
  <2> QED
    BY <2>1, <2>2, PostedFields DEF Now
<1> HIDE DEF V
<1>4. /\ Grows(Now, v) /\ QueueOK(v) /\ \A m : Holds(Now, m) => Holds(v, m)
      /\ \E i \in DOMAIN v.queue : v.queue[i] = x
  BY <1>2, <1>3, NowIsShaped, AppendGrows
<1>5. Awaited(v) /\ RetrieverOK(v)
  BY <1>3, <1>4, NowIsShaped DEF Awaited, RetrieverOK, Now
<1>6. \A s \in tasks :
         \/ s \in v.tasks
         \/ \E i \in DOMAIN v.queue :
               v.queue[i].m = "PushLinkBridge" /\ v.queue[i].o = s.o
  BY <1>2, <1>3, <1>4
<1>7. Good(v)
  BY <1>3, <1>4, <1>5, <1>6, AnswerGood DEF Grows, Now
<1>8. Ready(Now) => Ready(v)
  <2> SUFFICES ASSUME Ready(Now) PROVE Ready(v)
    OBVIOUS
  <2>1. PICK n \in DOMAIN v.queue :
           v.queue[n] = x /\ \A i \in DOMAIN v.queue \ DOMAIN Now.queue : i = n
    BY <1>3, NowIsShaped, AppendedAt
  <2>2. \A i \in DOMAIN v.queue \ DOMAIN Now.queue :
           v.queue[i].m \notin {"SavingCompleted", "SmallConfigCompleted",
                               "FullConfigCompleted", "MonitorEvent", "DoAbort"}
    BY <1>2, <2>1
  <2> QED
    BY <1>3, <1>4, <2>2, AddedReady DEF Grows, Now
<1> QED
  BY <1>1, <1>3, <1>4, <1>7, <1>8, AnswerKeeps

(* A check starts.                                                         *)
LEMMA CheckStartsKeeps ==
    ASSUME checks \in Nat, Good(Now), CheckStarts
    PROVE  Keeps
<1> DEFINE clone == Fresh(Now, 1)
           made == Create(Now, clone, <<heap[monitored]>>)
<1>1. PICK w \in {Now, made} : \E c : Become([w EXCEPT !.check = c])
  <2> HIDE DEF made, clone
  <2> QED
    BY DEF CheckStarts, made, clone
<1>2. PICK c : Become([w EXCEPT !.check = c])
  BY <1>1
<1>3. /\ Same(Now, Now) /\ Shaped(Now) /\ Now.told = told /\ Now.stream = stream
      /\ Same(Now, made) /\ Shaped(made) /\ made.told = told /\ made.stream = stream
  <2>1. Now.told = told /\ Now.stream = stream
    BY DEF Now
  <2> QED
    BY <2>1, NowIsShaped, SameRefl, CreateSame, CreateLeaves, SameIsLike
<1> HIDE DEF made
<1>4. Same(Now, w) /\ Shaped(w) /\ w.told = told /\ w.stream = stream
  BY <1>1, <1>3
<1> DEFINE v == [w EXCEPT !.check = c]
<1>5. /\ Shaped(v) /\ v.state = w.state /\ v.request = w.request /\ v.count = w.count
      /\ v.procs = w.procs /\ v.background = w.background /\ v.search = w.search
      /\ v.small = w.small /\ v.full = w.full /\ v.tasks = w.tasks
      /\ v.told = w.told /\ v.stream = w.stream /\ v.queue = w.queue
  BY <1>4 DEF Shaped, Fields
<1> HIDE DEF v
<1>6. /\ v.state = state /\ v.request = request /\ v.count = count
      /\ v.procs = procs /\ v.background = background /\ v.search = search
      /\ v.small = small /\ SameRetriever(Now, v) /\ v.tasks = tasks
      /\ v.told = told /\ v.stream = stream /\ v.queue = queue
  BY <1>4, <1>5 DEF Same, Like, SameRetriever, Now
<1>7. QueueOK(v) /\ Grows(Now, v)
  BY <1>6, NowIsShaped DEF QueueOK, Grows, Now
<1>8. Awaited(v) /\ RetrieverOK(v)
  BY <1>6, NowIsShaped DEF Awaited, Holds, RetrieverOK, SameRetriever, Now
<1>9. Good(v)
  BY <1>5, <1>6, <1>7, <1>8, AnswerGood
<1>10. ~Undisturbed
  BY DEF CheckStarts, Undisturbed
<1> QED
  BY <1>2, <1>6, <1>7, <1>9, <1>10, AnswerKeeps DEF v

LEMMA EventsList ==
    ASSUME NEW ids \in Seq(Events1), NEW o, NEW s, s = Events(ids, o)
    PROVE  /\ IsList(s)
           /\ \A i \in DOMAIN s : s[i].m \in Others /\ MessageOK(s[i])
<1>1. Len(ids) \in Nat /\ DOMAIN ids = 1 .. Len(ids) /\ \A i \in DOMAIN ids : ids[i] \in Events1
  BY LenProperties, ElementOfSeq
<1>2. DOMAIN s = 1 .. Len(ids) /\ s = [i \in 1 .. Len(ids) |-> s[i]]
  BY <1>1 DEF Events
<1>3. IsList(s)
  BY <1>1, <1>2, ListOf
<1>4. \A i \in DOMAIN s : s[i].m = "MonitorEvent" /\ s[i].id \in Events1
  BY <1>1, <1>2 DEF Events
<1>5. \A i \in DOMAIN s : s[i].m \in Others /\ MessageOK(s[i])
  BY <1>4 DEF Others, MessageOK
<1> QED
  BY <1>3, <1>5

(* A check ends, which queues the events in s.                             *)
Checked(v, q) ==
    /\ v.queue = q /\ v.state = state /\ v.request = request
    /\ v.count = count /\ v.procs = procs /\ v.background = background
    /\ v.tasks = tasks /\ v.search = search /\ v.full = full
    /\ v.told = told /\ v.small = small /\ v.stream = stream
    /\ v = [f \in Fields |-> v[f]]

LEMMA CheckedFields ==
    ASSUME NEW q, NEW h, NEW c,
           NEW v, v = [Now EXCEPT !.heap = h, !.check = c, !.queue = q]
    PROVE  Checked(v, q)
<1>1. v = [f \in Fields |-> v[f]]
  BY DEF Fields, Now
<1> QED
  BY <1>1 DEF Checked, Now

LEMMA EventsKeep ==
    ASSUME Good(Now), NEW s, IsList(s),
           \A i \in DOMAIN s : s[i].m \in Others /\ MessageOK(s[i]),
           NEW v, Checked(v, Now.queue \o s), Become(v), check # NoCheck
    PROVE  Keeps
<1>1. /\ v.state = state /\ v.request = request
      /\ v.count = count /\ v.procs = procs /\ v.background = background
      /\ v.tasks = tasks /\ v.search = search /\ v.full = full
      /\ v.told = told /\ v.small = small /\ v.stream = stream
      /\ v = [f \in Fields |-> v[f]]
  BY DEF Checked
<1>2. Shaped(v)
  BY <1>1, NowIsShaped, ShapedFields
<1>3. Grows(Now, v) /\ QueueOK(v) /\ \A m : Holds(Now, m) => Holds(v, m)
  <2>1. v.queue = Now.queue \o s
    BY DEF Checked
  <2>2. QueueOK(Now)
    BY NowIsShaped
  <2>3. Grows(Now, v)
    BY <2>1, <2>2, ConcatGrows
  <2>4. QueueOK(v)
    BY <2>1, <2>2, ConcatGrows
  <2>5. \A m : Holds(Now, m) => Holds(v, m)
    BY <2>1, <2>2, ConcatGrows
  <2> QED
    BY <2>3, <2>4, <2>5
<1>4. Awaited(v) /\ RetrieverOK(v)
  BY <1>1, <1>3, NowIsShaped DEF Awaited, RetrieverOK, Now
<1>5. Good(v)
  BY <1>1, <1>2, <1>3, <1>4, AnswerGood DEF Grows, Now
<1>6. ~Ready(Now)
  BY DEF Ready, Now
<1> QED
  BY <1>1, <1>3, <1>5, <1>6, AnswerKeeps

LEMMA CheckEndsV1Keeps == ASSUME Good(Now), CheckEndsV1 PROVE Keeps
<1> DEFINE old == heap[check.old]
           New(a) == FullConfigured(heap[check.new], a)
           ids(a) == CompareBridges(old, New(a))
           S(a) == IF ~IsConnected(old) /\ ~IsConnected(New(a)) THEN <<>>
                   ELSE Events(ids(a), check.new)
           H(a) == [Now.heap EXCEPT ![check.new] = New(a)]
           Q(a) == Now.queue \o S(a)
           V(a) == [Now EXCEPT !.heap = H(a), !.check = NoCheck, !.queue = Q(a)]
<1>1. PICK a : Become(V(a))
  BY DEF CheckEndsV1
<1> DEFINE s == S(a)
           q == Q(a)
           h == H(a)
           v == V(a)
<1>2. /\ IsList(s)
      /\ \A i \in DOMAIN s : s[i].m \in Others /\ MessageOK(s[i])
  <2> DEFINE n == New(a)
             e == ids(a)
             t == Events(e, check.new)
  <2>1. e \in Seq(Events1)
    BY ComparedEvents
  <2>2. s = t \/ s = <<>>
    OBVIOUS
  <2> HIDE DEF ids, e
  <2>3. IsList(t) /\ \A i \in DOMAIN t : t[i].m \in Others /\ MessageOK(t[i])
    BY <2>1, EventsList
  <2>4. IsList(<<>>) /\ DOMAIN <<>> = {}
    BY EmptySeq DEF IsList
  <2> HIDE DEF t, s, S
  <2> QED
    BY <2>2, <2>3, <2>4
<1>3. q = Now.queue \o s /\ v = [Now EXCEPT !.heap = h, !.check = NoCheck, !.queue = q]
  OBVIOUS
<1> HIDE DEF S, H, Q, V
<1>4. Checked(v, Now.queue \o s)
  BY <1>3, CheckedFields
<1>5. check # NoCheck
  BY DEF CheckEndsV1
<1> QED
  BY <1>1, <1>2, <1>4, <1>5, EventsKeep

LEMMA CheckEndsV2Keeps == ASSUME Good(Now), CheckEndsV2 PROVE Keeps
<1> DEFINE o == check.new
           b == heap[o]
           streams == IsStreaming(b)
           ids(answer) ==
              CASE answer = "ok" /\ ~IsConnected(b) -> <<"BRIDGE_CONNECTED">>
                [] answer = "moved" /\ IsConnected(b) ->
                       <<"INVALID_EVENTING_CONNECTION">>
                [] answer = "dead" /\ IsConnected(b) ->
                       (IF streams THEN <<"STREAMING_DISCONNECTED">>
                        ELSE <<>>) \o <<"BRIDGE_DISCONNECTED">>
                [] OTHER -> <<>>
           B(answer) ==
              CASE answer = "ok"   -> [b EXCEPT !.validIp = TRUE]
                [] answer = "dead" ->
                     [b EXCEPT !.validIp = IF IsConnected(b) THEN FALSE
                                           ELSE @,
                               !.mine = IF streams THEN @ \ {b.sel} ELSE @]
                [] OTHER -> b
           H(answer) == [Now.heap EXCEPT ![o] = B(answer)]
           Q(answer) == Now.queue \o Events(ids(answer), o)
           V(answer) == [Now EXCEPT !.heap = H(answer), !.check = NoCheck,
                                    !.queue = Q(answer)]
<1>1. PICK a \in {"ok", "dead", "moved"} : Become(V(a))
  BY DEF CheckEndsV2
<1> DEFINE e == ids(a)
           s == Events(e, o)
           q == Q(a)
           h == H(a)
           v == V(a)
<1>2. e \in Seq(Events1)
  <2>1. /\ "BRIDGE_CONNECTED" \in Events1 /\ "INVALID_EVENTING_CONNECTION" \in Events1
        /\ "STREAMING_DISCONNECTED" \in Events1 /\ "BRIDGE_DISCONNECTED" \in Events1
    BY DEF Events1
  <2>2. /\ <<>> \in Seq(Events1)
        /\ <<"BRIDGE_CONNECTED">> \in Seq(Events1)
        /\ <<"INVALID_EVENTING_CONNECTION">> \in Seq(Events1)
        /\ <<"STREAMING_DISCONNECTED">> \in Seq(Events1)
        /\ <<"BRIDGE_DISCONNECTED">> \in Seq(Events1)
    BY <2>1
  <2>3. \A t \in Seq(Events1) : t \o <<"BRIDGE_DISCONNECTED">> \in Seq(Events1)
    BY <2>2, ConcatProperties
  <2> DEFINE lost == (IF streams THEN <<"STREAMING_DISCONNECTED">> ELSE <<>>)
                     \o <<"BRIDGE_DISCONNECTED">>
  <2>4. lost \in Seq(Events1)
    <3> HIDE DEF streams
    <3>1. (IF streams THEN <<"STREAMING_DISCONNECTED">> ELSE <<>>) \in Seq(Events1)
      BY <2>2
    <3> QED
      BY <2>3, <3>1
  <2>5. e \in {<<>>, <<"BRIDGE_CONNECTED">>, <<"INVALID_EVENTING_CONNECTION">>, lost}
    <3> HIDE DEF lost
    <3> QED
      BY DEF lost
  <2> QED
    BY <2>2, <2>4, <2>5
<1>3. q = Now.queue \o s /\ v = [Now EXCEPT !.heap = h, !.check = NoCheck, !.queue = q]
  OBVIOUS
<1> HIDE DEF ids, H, Q, V, e
<1>4. IsList(s) /\ \A i \in DOMAIN s : s[i].m \in Others /\ MessageOK(s[i])
  BY <1>2, EventsList
<1>5. Checked(v, Now.queue \o s)
  BY <1>3, CheckedFields
<1> HIDE DEF s
<1>6. check # NoCheck
  BY DEF CheckEndsV2
<1> QED
  BY <1>1, <1>4, <1>5, <1>6, EventsKeep
-----------------------------------------------------------------------------
(* The invariant. *)

(* Nothing is asked of anybody.                                            *)
LEMMA InitGood ==
    ASSUME Init
    PROVE  IInv /\ InPlace(Now) /\ Sought(Now) /\ Ready(Now)
<1>1. /\ state = "Idle" /\ request = "INTERNAL" /\ queue = <<>> /\ background = <<>>
      /\ search = FALSE /\ full = NoRetriever /\ setup \in DOMAIN Setups
      /\ told = [open |-> FALSE, request |-> "INTERNAL", said |-> {}]
      /\ stream = [on |-> FALSE, id |-> NoId, ip |-> NoIp, sel |-> NoGroup,
                   owner |-> 0]
      /\ small = {} /\ check = NoCheck /\ checks \in Nat
  BY DEF Init
<1>2. IsList(<<>>) /\ DOMAIN <<>> = {}
  BY EmptySeq DEF IsList
<1>3. Shaped(Now)
  BY <1>1 DEF Shaped, Fields, Now, NoRetriever
<1>4. QueueOK(Now) /\ Distinct(Now.background)
  BY <1>1, <1>2 DEF QueueOK, Distinct, Now
<1>5. RetrieverOK(Now)
  BY <1>1 DEF RetrieverOK, NoRetriever, Now
<1>6. OpenOK(Now) /\ AttemptsOK(Now) /\ Awaited(Now)
  BY <1>1 DEF OpenOK, AttemptsOK, Awaited, Searching, Now
<1>7. InPlace(Now)
  BY <1>1, <1>2 DEF InPlace, AtMostOne, AbortComesLast, Searching, Now
<1>8. Sought(Now)
  BY <1>1 DEF Sought, Now
<1>9. Ready(Now)
  BY <1>1, <1>2 DEF Ready, OneRetrieval, AtMostOne, NoRetriever, Now
<1> QED
  BY <1>1, <1>3, <1>4, <1>5, <1>6, <1>7, <1>8, <1>9 DEF IInv, Good, Base

(* Every step, the environment's included.                                 *)
LEMMA HandlesKeeps == ASSUME Good(Now), Handles PROVE Keeps
BY DoLoadKeeps, DoConnectToBridgeKeeps, DoConnectToBridgeBackgroundKeeps,
   DoConnectToBridgeWithIpKeeps, DoConnectToNewBridgeKeeps, DoSetManualKeeps,
   DoConnectToBridgeWithIdKeyKeeps, DoResetKeeps, DoSelectGroupKeeps,
   DoStartStreamKeeps, DoStopStreamKeeps, CallRefusedKeeps, DoAbortKeeps,
   LoadingCompletedKeeps, BridgeSearchCompletedKeeps, AuthenticationCompletedKeeps,
   RepeatPushLinkKeeps, SmallConfigCompletedKeeps, FullConfigCompletedKeeps,
   SavingCompletedKeeps, MonitorEventKeeps, MonitorEventRefusedKeeps,
   StaleDroppedKeeps
   DEF Handles

LEMMA NextKeeps ==
    ASSUME IInv, [Next]_vars
    PROVE  Keeps /\ IInv'
<1>1. setup \in DOMAIN Setups /\ checks \in Nat /\ Good(Now)
  BY DEF IInv
<1>7. checks' \in Nat
  <2>1. Handles => checks' = checks
    BY DEF Handles, DoLoad, DoConnectToBridge, DoConnectToBridgeBackground,
       DoConnectToBridgeWithIp, DoConnectToNewBridge, DoSetManual,
       DoConnectToBridgeWithIdKey, DoReset, DoSelectGroup, DoStartStream,
       DoStopStream, CallRefused, DoAbort, LoadingCompleted,
       BridgeSearchCompleted, AuthenticationCompleted, RepeatPushLink,
       SmallConfigCompleted, FullConfigCompleted, SavingCompleted, MonitorEvent,
       MonitorEventRefused, StaleDropped, Accepts, Runs
  <2>2. Answers \/ ClientCalls \/ CheckEndsV1 \/ CheckEndsV2 => checks' = checks
    BY DEF Answers, ClientCalls, SearchEnds, SmallConfigEnds, FullConfigEndsV1,
       FullConfigUnbusy, FullConfigEndsV2, TaskFires, CheckEndsV1, CheckEndsV2,
       Elsewhere
  <2>3. CheckStarts => checks' = checks + 1
    BY DEF CheckStarts
  <2>4. UNCHANGED vars => checks' = checks
    BY DEF vars
  <2> QED
    BY <1>1, <2>1, <2>2, <2>3, <2>4 DEF Next
<1> SUFFICES Keeps
  BY <1>1, <1>7 DEF Keeps, IInv
<1>2. CASE Handles
  BY <1>1, <1>2, HandlesKeeps
<1>3. CASE Answers
  BY <1>1, <1>3, SetupsAssumption, SearchEndsKeeps, SmallConfigEndsKeeps,
     FullConfigEndsV1Keeps, FullConfigUnbusyKeeps, FullConfigEndsV2Keeps,
     TaskFiresKeeps DEF Answers
<1>4. CASE ClientCalls
  BY <1>1, <1>4, SetupsAssumption, ClientCallsKeeps
<1>5. CASE CheckStarts \/ CheckEndsV1 \/ CheckEndsV2
  BY <1>1, <1>5, CheckStartsKeeps, CheckEndsV1Keeps, CheckEndsV2Keeps
<1>6. CASE UNCHANGED vars
  <2>1. /\ state' = state /\ request' = request /\ count' = count
        /\ procs' = procs /\ background' = background /\ queue' = queue
        /\ search' = search /\ small' = small /\ full' = full /\ tasks' = tasks
        /\ told' = told /\ setup' = setup /\ data' = data /\ heap' = heap
        /\ startState' = startState /\ file' = file /\ stream' = stream
        /\ monitored' = monitored /\ check' = check
    BY <1>6 DEF vars
  <2>2. PromptUnbusy' = PromptUnbusy
    BY <2>1 DEF PromptUnbusy
  <2>3. Base(Now)' <=> Base(Now)
    BY <2>1, <2>2 DEF Base, Shaped, QueueOK, RetrieverOK, Now
  <2>4. AttemptsOK(Now)' <=> AttemptsOK(Now)
    BY <2>1 DEF AttemptsOK, InTurn, Attempted, Now
  <2>5. (OpenOK(Now)' <=> OpenOK(Now)) /\ (Awaited(Now)' <=> Awaited(Now))
    BY <2>1, <2>2 DEF OpenOK, Awaited, Holds, Now
  <2>6. InPlace(Now)' <=> InPlace(Now)
    BY <2>1 DEF InPlace, AtMostOne, DroppedFirst, AbortComesLast, Now
  <2>7. Sought(Now)' <=> Sought(Now)
    BY <2>1 DEF Sought, Now
  <2>8. Ready(Now)' <=> Ready(Now)
    BY <2>1 DEF Ready, OneRetrieval, Retrieved, AtMostOne, Now
  <2> QED
    BY <1>1, <2>1, <2>3, <2>4, <2>5, <2>6, <2>7, <2>8 DEF Good, Keeps
<1> QED
  BY <1>2, <1>3, <1>4, <1>5, <1>6 DEF Next

LEMMA Invariance == Spec => []IInv
<1>1. Init => IInv
  BY InitGood
<1>2. IInv /\ [Next]_vars => IInv'
  BY NextKeeps
<1> QED
  BY <1>1, <1>2, PTL DEF Spec

(* Start and Finish bracket every procedure, however it is aborted,        *)
(* refused or overtaken (ConnectionFlow.cpp, Start and Finish).            *)
THEOREM ProceduresAreBracketed == Spec => []ProcedureIsOpenWhileBusy
<1>1. IInv => ProcedureIsOpenWhileBusy
  BY DEF IInv, Good, OpenOK, ProcedureIsOpenWhileBusy, Now
<1> QED
  BY <1>1, Invariance, PTL

(* The flow never waits for something that is not coming: every state of   *)
(* ConnectionFlow's machine has its result queued, under way or due.       *)
THEOREM NothingWaitsInVain == Spec => []WaitingHasWakeup
<1>1. IInv => WaitingHasWakeup
  <2> SUFFICES ASSUME IInv, PromptUnbusy
               PROVE  WaitingHasWakeup
    BY DEF WaitingHasWakeup
  <2>1. /\ state = "Loading" => InQueue("LoadingCompleted")
        /\ state \in Searching => search \/ InQueue("BridgeSearchCompleted")
        /\ state = "Retrieving" =>
              \/ small # {} \/ InQueue("SmallConfigCompleted")
              \/ full.pending /\ full.asked
              \/ InQueue("FullConfigCompleted")
        /\ state = "Saving" => InQueue("SavingCompleted")
    BY DEF IInv, Good, Awaited, Holds, InQueue, Now
  <2>2. state = "Authenticating" =>
           \/ tasks # {}
           \/ InQueue("AuthenticationCompleted") \/ InQueue("PushLinkBridge")
    <3> SUFFICES ASSUME state = "Authenticating"
                 PROVE  \/ tasks # {}
                        \/ InQueue("AuthenticationCompleted")
                        \/ InQueue("PushLinkBridge")
      OBVIOUS
    <3>1. count \in Nat \ {0} /\ count <= Cardinality(InTurn(Now))
      BY DEF IInv, Good, AttemptsOK, Now
    <3>2. InTurn(Now) # {}
      BY <3>1, FS_EmptySet
    <3>3. PICK o : Attempted(Now, o)
      BY <3>2 DEF InTurn
    <3> QED
      BY <3>3 DEF Attempted, InQueue, Now
  <2> QED
    BY <2>1, <2>2 DEF WaitingHasWakeup, Searching
<1> QED
  BY <1>1, Invariance, PTL

(* What an aborted procedure left in the queue is dropped before another   *)
(* is accepted.                                                            *)
LEMMA WaitingKeepsPlace == Spec /\ []NothingBegun => [](AbortsWait => InPlace(Now))
<1>1. Init => (AbortsWait => InPlace(Now))
  BY InitGood
<1>2. IInv /\ NothingBegun /\ (AbortsWait => InPlace(Now)) /\ [Next]_vars
      => (AbortsWait => InPlace(Now))'
  <2> SUFFICES ASSUME IInv, NothingBegun, AbortsWait => InPlace(Now), [Next]_vars
               PROVE  (AbortsWait => InPlace(Now))'
    OBVIOUS
  <2>1. Keeps
    BY NextKeeps
  <2>2. AbortsWait' <=> AbortsWait
    BY <2>1 DEF Keeps, AbortsWait
  <2> QED
    BY <2>1, <2>2 DEF Keeps
<1> QED
  BY <1>1, <1>2, Invariance, PTL DEF Spec

(* A search that was aborted never answers the next one: for a client that *)
(* waits for its aborts, and as long as no event makes the flow begin      *)
(* something by itself (ConnectionFlow.cpp, StartBridgeSearch and DoAbort).*)
LEMMA SearchesAreAnsweredOnce == Spec /\ []NothingBegun => []OneSearchAnswer
<1>1. IInv /\ (AbortsWait => InPlace(Now)) => OneSearchAnswer
  <2> SUFFICES ASSUME IInv, InPlace(Now), state \in Searching
               PROVE  IF search THEN SearchAnswersQueued = {}
                      ELSE \E i \in DOMAIN queue : SearchAnswersQueued = {i}
    BY DEF OneSearchAnswer, Searching
  <2>1. /\ \A i \in DOMAIN queue : ~DroppedFirst(Now, i)
        /\ AtMostOne(Now, "BridgeSearchCompleted")
    BY DEF DroppedFirst, InPlace, Searching, Now
  <2>2. search \/ \E i \in DOMAIN queue : queue[i].m = "BridgeSearchCompleted"
    BY DEF IInv, Good, Awaited, Holds, Now
  <2>3. search => \A i \in DOMAIN queue : queue[i].m # "BridgeSearchCompleted"
    BY <2>1 DEF InPlace, Now
  <2>4. CASE search
    BY <2>3, <2>4 DEF SearchAnswersQueued
  <2>5. CASE ~search
    <3>1. PICK i \in DOMAIN queue : queue[i].m = "BridgeSearchCompleted"
      BY <2>2, <2>5
    <3>2. SearchAnswersQueued = {i}
      BY <2>1, <3>1 DEF SearchAnswersQueued, AtMostOne, Now
    <3> QED
      BY <2>5, <3>2
  <2> QED
    BY <2>4, <2>5
<1> QED
  BY <1>1, WaitingKeepsPlace, Invariance, PTL

(* The save of a procedure that was aborted never answers, or starts the   *)
(* stream in, a later one, of such a client: SavingCompleted looks at no   *)
(* state (ConnectionFlow.cpp, StartSaving, SavingCompleted and DoAbort).   *)
LEMMA SavesAreAnsweredOnce == Spec /\ []NothingBegun => []OneSaveAnswer
<1>1. IInv /\ (AbortsWait => InPlace(Now)) => OneSaveAnswer
  <2> SUFFICES ASSUME IInv, InPlace(Now), state # "Idle"
               PROVE  IF state = "Saving"
                      THEN \E i \in DOMAIN queue : SavesQueued = {i}
                      ELSE SavesQueued = {}
    BY DEF OneSaveAnswer
  <2>1. \A i \in DOMAIN queue : ~DroppedFirst(Now, i)
    BY DEF DroppedFirst, Now
  <2>2. CASE state = "Saving"
    <3>1. PICK i \in DOMAIN queue : queue[i].m = "SavingCompleted"
      BY <2>2 DEF IInv, Good, Awaited, Holds, Now
    <3>2. SavesQueued = {i}
      BY <2>2, <3>1 DEF SavesQueued, AtMostOne, InPlace, Now
    <3> QED
      BY <2>2, <3>2
  <2>3. CASE state # "Saving"
    BY <2>1, <2>3 DEF SavesQueued, InPlace, Now
  <2> QED
    BY <2>2, <2>3
<1> QED
  BY <1>1, WaitingKeepsPlace, Invariance, PTL

(* What a procedure that was aborted left of a search or a save answers no *)
(* later one (ConnectionFlow.cpp, BridgeSearchCompleted, SavingCompleted). *)
THEOREM ProceduresGetTheirOwnAnswer == Spec /\ []NothingBegun => []OneAnswer
<1>1. OneSearchAnswer /\ OneSaveAnswer => OneAnswer
  BY DEF OneAnswer
<1> QED
  BY <1>1, SearchesAreAnsweredOnce, SavesAreAnsweredOnce, PTL

(* ConnectToNewBridge says DONE_COMPLETED only after it searched: it reads *)
(* the file only to search then, and what an earlier procedure had under   *)
(* way does not complete it (ConnectionFlow.cpp, DoConnectToNewBridge and  *)
(* LoadingCompleted).                                                      *)
THEOREM NewBridgesAreSearchedFor ==
    Spec /\ []NothingBegun => [](AbortsWait => NewBridgeIsSearchedFor)
<1>1. Init => (AbortsWait => InPlace(Now) /\ Sought(Now))
  BY InitGood
<1>2. IInv /\ NothingBegun /\ (AbortsWait => InPlace(Now) /\ Sought(Now)) /\ [Next]_vars
      => (AbortsWait => InPlace(Now) /\ Sought(Now))'
  <2> SUFFICES ASSUME IInv, NothingBegun, [Next]_vars,
                      AbortsWait => InPlace(Now) /\ Sought(Now)
               PROVE  (AbortsWait => InPlace(Now) /\ Sought(Now))'
    OBVIOUS
  <2>1. Keeps
    BY NextKeeps
  <2>2. AbortsWait' <=> AbortsWait
    BY <2>1 DEF Keeps, AbortsWait
  <2> QED
    BY <2>1, <2>2 DEF Keeps
<1>3. (AbortsWait => InPlace(Now) /\ Sought(Now)) => (AbortsWait => NewBridgeIsSearchedFor)
  BY DEF Sought, NewBridgeIsSearchedFor, Now
<1> QED
  BY <1>1, <1>2, <1>3, Invariance, PTL DEF Spec

(* Streaming starts only in a procedure that the client asked for: the     *)
(* configuration is saved once in each, while its end is still to come     *)
(* (ConnectionFlow.cpp, SavingCompleted and ActivateStreaming).            *)
THEOREM StreamStartsWhenAsked == Spec => StreamStartsInProcedure
<1> DEFINE SInv == Undisturbed => Ready(Now)
<1>1. Init => SInv
  BY InitGood
<1>2. IInv /\ SInv /\ [Next]_vars => SInv'
  <2> SUFFICES ASSUME IInv, SInv, [Next]_vars
               PROVE  SInv'
    OBVIOUS
  <2>1. Keeps
    BY NextKeeps
  <2>2. Undisturbed' <=> Undisturbed
    BY <2>1 DEF Keeps, Undisturbed, MaxChecks, FirstCalls, Calls
  <2> QED
    BY <2>1, <2>2 DEF Keeps
<1>3. IInv /\ SInv /\ [Next]_vars
      => [~stream.on /\ stream'.on =>
             \/ told.open
             \/ MaxChecks # 0 \/ \E c \in FirstCalls \cup Calls : c.m = "DoAbort"]_vars
  <2> SUFFICES ASSUME IInv, SInv, [Next]_vars, ~stream.on, stream'.on, Undisturbed
               PROVE  told.open
    BY DEF Undisturbed
  <2>1. Starts
    BY NextKeeps DEF Keeps
  <2>2. 1 \in DOMAIN queue /\ queue[1].m = "SavingCompleted"
    <3>1. IsList(queue)
      BY DEF IInv, Good, Base, QueueOK, Now
    <3> QED
      BY <2>1, <3>1, ListTail DEF Starts, Msg
  <2>3. state = "Saving" /\ request # "INTERNAL"
    BY <2>2 DEF Ready, Now
  <2> QED
    BY <2>3 DEF IInv, Good, OpenOK, Now
<1> QED
  BY <1>1, <1>2, <1>3, Invariance, PTL DEF Spec, StreamStartsInProcedure
===============================================================================
