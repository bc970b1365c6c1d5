--------------------------- MODULE ConnectProofs ---------------------------
(* Proofs about Connect, for every number of clients and calls. *)
EXTENDS Connect, TLAPS

Messages == [n : Nat \ {0}, kind : {"procedure", "stream", "abort"}]

Asked(q) == {i \in DOMAIN q : q[i].kind # "abort"}

(* What is in the queue, and what may hold while _isIdle is reset. *)
TypeInv ==
    /\ queue \in Seq(Messages)
    /\ made \in Nat
    /\ isIdle \in BOOLEAN
    /\ waits \in [Clients -> Messages \cup {NoCall}]
    /\ flow \in {"none", "user", "internal"}

BusyInv == isIdle \/ flow = "user" \/ Asked(queue) # {} \/ lost # {}

(* The steps take the head of the queue or append to it. *)
LEMMA TailKeeps ==
    ASSUME NEW q \in Seq(Messages), q # << >>
    PROVE  /\ Tail(q) \in Seq(Messages)
           /\ Head(q) \in Messages
           /\ Head(q) = q[1] /\ 1 \in DOMAIN q
           /\ \A i \in DOMAIN Tail(q) : i + 1 \in DOMAIN q /\ Tail(q)[i] = q[i + 1]
           /\ \A i \in DOMAIN q \ {1} : i - 1 \in DOMAIN Tail(q)
                                        /\ Tail(q)[i - 1] = q[i]
  OBVIOUS

LEMMA AppendKeeps ==
    ASSUME NEW q \in Seq(Messages), NEW m \in Messages
    PROVE  /\ Append(q, m) \in Seq(Messages)
           /\ DOMAIN Append(q, m) = DOMAIN q \cup {Len(q) + 1}
           /\ Len(q) + 1 \notin DOMAIN q
           /\ \A i \in DOMAIN q : Append(q, m)[i] = q[i]
           /\ Append(q, m)[Len(q) + 1] = m
  OBVIOUS

(* An abort that leaves the queue moves the other calls up; a call that    *)
(* leaves it is the first.                                                 *)
LEMMA TailAsks ==
    ASSUME NEW q \in Seq(Messages), q # << >>
    PROVE  /\ Asked(q) \ {1} = {i + 1 : i \in Asked(Tail(q))}
           /\ Head(q).kind = "abort" => 1 \notin Asked(q)
           /\ Head(q).kind # "abort" => 1 \in Asked(q)
           /\ Asked(Tail(q)) = {} => Asked(q) \subseteq {1}
  <1>1. \A i \in Asked(q) \ {1} : i - 1 \in Asked(Tail(q)) /\ i = (i - 1) + 1
    BY TailKeeps DEF Asked
  <1>2. \A i \in Asked(Tail(q)) : i + 1 \in Asked(q) /\ i + 1 # 1
    BY TailKeeps DEF Asked
  <1>3. Asked(q) \ {1} = {i + 1 : i \in Asked(Tail(q))}
    BY <1>1, <1>2
  <1>4. (Head(q).kind = "abort" => 1 \notin Asked(q))
        /\ (Head(q).kind # "abort" => 1 \in Asked(q))
    BY TailKeeps DEF Asked
  <1>5. Asked(Tail(q)) = {} => Asked(q) \subseteq {1}
    BY <1>1
  <1>. QED
    BY <1>3, <1>4, <1>5

(* A call puts a message into the queue. *)
LEMMA CallIsMessage ==
    ASSUME TypeInv, NEW c \in Clients, NEW call \in CallsOf[c]
    PROVE  [n |-> made + 1, kind |-> call.kind] \in Messages
  BY ConnectAssumption DEF TypeInv, Messages, Clients

LEMMA TypeStep ==
    ASSUME TypeInv, [Next]_vars
    PROVE  TypeInv'
<1>1. ASSUME NEW c \in Clients, NEW call \in CallsOf[c], Call(c, call)
      PROVE  TypeInv'
  BY <1>1, CallIsMessage, AppendKeeps DEF TypeInv, Call
<1>2. ASSUME NEW c \in Clients, WaitUntilReady(c)
      PROVE  TypeInv'
  BY <1>2 DEF TypeInv, WaitUntilReady
<1>3. CASE ProcedureStarts
  BY <1>3, TailKeeps DEF TypeInv, ProcedureStarts, Takes
<1>4. CASE CallDropped
  BY <1>4, TailKeeps DEF TypeInv, CallDropped, Takes
<1>5. CASE Aborted
  BY <1>5, TailKeeps DEF TypeInv, Aborted, Takes, Finished
<1>6. CASE ProcedureEnds
  BY <1>6 DEF TypeInv, ProcedureEnds, Finished
<1>7. CASE InternalStarts
  BY <1>7 DEF TypeInv, InternalStarts
<1>8. CASE UNCHANGED vars
  BY <1>8 DEF TypeInv, vars
<1>9. QED
  BY <1>1, <1>2, <1>3, <1>4, <1>5, <1>6, <1>7, <1>8 DEF Next, Dispatched

LEMMA BusyStep ==
    ASSUME TypeInv, BusyInv, [Next]_vars
    PROVE  BusyInv'
<1>1. ASSUME NEW c \in Clients, NEW call \in CallsOf[c], Call(c, call)
      PROVE  BusyInv'
  <2>. DEFINE m == [n |-> made + 1, kind |-> call.kind]
  <2>1. m \in Messages /\ queue' = Append(queue, m)
    BY <1>1, CallIsMessage DEF Call
  <2>2. \A i \in Asked(queue) : i \in Asked(queue')
    BY <2>1, AppendKeeps DEF TypeInv, Asked
  <2>3. call.kind = "procedure" => Len(queue) + 1 \in Asked(queue')
    BY <2>1, AppendKeeps DEF TypeInv, Asked
  <2>4. call.kind # "procedure" => isIdle' = isIdle
    BY <1>1 DEF Call, TypeInv
  <2>5. flow' = flow /\ lost' = lost
    BY <1>1 DEF Call
  <2>. QED
    BY <2>2, <2>3, <2>4, <2>5 DEF BusyInv
<1>2. ASSUME NEW c \in Clients, WaitUntilReady(c)
      PROVE  BusyInv'
  BY <1>2 DEF BusyInv, WaitUntilReady
<1>3. CASE ProcedureStarts
  BY <1>3 DEF BusyInv, ProcedureStarts
<1>4. ASSUME queue # << >>, Head(queue).kind = "abort", queue' = Tail(queue)
      PROVE  Asked(queue) # {} => Asked(queue') # {}
  BY <1>4, TailAsks DEF TypeInv
<1>5. CASE CallDropped
  <2>1. CASE flow = "internal"
    BY <1>5, <2>1 DEF BusyInv, CallDropped
  <2>2. CASE flow = "user"
    BY <1>5, <2>2 DEF BusyInv, CallDropped
  <2>3. CASE flow = "none"
    BY <1>5, <1>4, <2>3 DEF BusyInv, CallDropped, Takes
  <2>. QED
    BY <2>1, <2>2, <2>3 DEF TypeInv
<1>6. CASE Aborted
  BY <1>6, <1>4 DEF BusyInv, Aborted, Takes, Finished
<1>7. CASE ProcedureEnds
  BY <1>7 DEF BusyInv, ProcedureEnds, Finished
<1>8. CASE InternalStarts
  BY <1>8 DEF BusyInv, InternalStarts
<1>9. CASE UNCHANGED vars
  BY <1>9 DEF BusyInv, vars
<1>10. QED
  BY <1>1, <1>2, <1>3, <1>5, <1>6, <1>7, <1>8, <1>9 DEF Next, Dispatched

LEMMA TypeInit == Init => TypeInv
  BY DEF Init, TypeInv, NoCall

(* GetResult says Busy only while something is under way that ends with    *)
(* _isIdle set, whatever the threads call, unless an internal procedure    *)
(* made the flow drop a call (Connect::GetResult, ConnectionFlow::Start).  *)
THEOREM BusyIsJustified == Spec => []BusyMeansOngoing
<1>1. Init => BusyInv
  BY DEF Init, BusyInv
<1>2. TypeInv /\ BusyInv /\ [Next]_vars => (TypeInv /\ BusyInv)'
  BY TypeStep, BusyStep
<1>3. TypeInv /\ BusyInv => BusyMeansOngoing
  BY DEF TypeInv, BusyInv, BusyMeansOngoing, Asked
<1>. QED
  BY <1>1, <1>2, <1>3, TypeInit, PTL DEF Spec

-----------------------------------------------------------------------------
(***************************************************************************)
(* One client makes blocking calls for procedures, the others abort.  Its  *)
(* call is the only one under way, and as long as it is, _isIdle is reset. *)
(***************************************************************************)
Lone(c0) ==
    /\ CallsOf[c0] \subseteq [kind : {"procedure"}, blocks : {TRUE}]
    /\ \A c \in Clients \ {c0} :
          CallsOf[c] \subseteq [kind : {"abort"}, blocks : BOOLEAN]

LoneInv(c0) ==
    /\ \A c \in Clients \ {c0} : waits[c].kind # "procedure"
    /\ \A i \in Asked(queue) : queue[i] = waits[c0]
    /\ \A i, j \in Asked(queue) : i = j
    /\ flow = "user" => /\ current = waits[c0] /\ waits[c0] # NoCall
                        /\ Asked(queue) = {}
    /\ flow = "user" \/ Asked(queue) # {} => ~isIdle
    /\ flow # "user" => current = NoCall
    /\ \/ waits[c0] = NoCall \/ waits[c0].n \in handled
       \/ flow = "user" \/ Asked(queue) # {}

(* The calls are numbered from 1: 0 stands for no call. *)
LEMMA WaitsNumber ==
    ASSUME TypeInv, NEW c \in Clients, waits[c] # NoCall
    PROVE  waits[c].n # 0
  BY DEF TypeInv, Messages

LEMMA LoneStep ==
    ASSUME NEW c0 \in Clients, Lone(c0), TypeInv, LoneInv(c0), [Next]_vars
    PROVE  LoneInv(c0)'
<1>. USE DEF LoneInv
<1>1. ASSUME NEW c \in Clients, NEW call \in CallsOf[c], Call(c, call)
      PROVE  LoneInv(c0)'
  <2>. DEFINE m == [n |-> made + 1, kind |-> call.kind]
  <2>1. m \in Messages /\ queue' = Append(queue, m)
    BY <1>1, CallIsMessage DEF Call
  <2>2. UNCHANGED <<flow, current, handled>>
    BY <1>1 DEF Call
  <2>3. CASE c = c0
    <3>1. call.kind = "procedure" /\ call.blocks
      BY <2>3 DEF Lone
    <3>2. waits[c0] = NoCall /\ waits' = [waits EXCEPT ![c0] = m] /\ isIdle' = FALSE
      BY <1>1, <2>3, <3>1 DEF Call
    <3>3. Asked(queue) = {} /\ flow # "user"
      <4>1. \A i \in Asked(queue) : queue[i] \in Messages
        BY DEF TypeInv, Asked
      <4>2. flow # "user"
        BY <3>2
      <4>. QED
        BY <3>2, <4>1, <4>2 DEF NoCall, Messages
    <3>4. Asked(queue') = {Len(queue) + 1} /\ queue'[Len(queue) + 1] = m
      BY <2>1, <3>1, <3>3, AppendKeeps DEF TypeInv, Asked
    <3>5. waits'[c0] = m /\ \A d \in Clients \ {c0} : waits'[d] = waits[d]
      BY <3>2 DEF TypeInv
    <3>. QED
      BY <2>2, <3>2, <3>3, <3>4, <3>5
  <2>4. CASE c # c0
    <3>1. call.kind = "abort"
      BY <2>4 DEF Lone
    <3>2. isIdle' = isIdle
      BY <1>1, <3>1 DEF Call, TypeInv
    <3>3. waits'[c0] = waits[c0]
          /\ \A d \in Clients \ {c0} : waits'[d].kind # "procedure"
      BY <1>1, <2>4, <3>1 DEF Call, TypeInv
    <3>4. Asked(queue') = Asked(queue) /\ \A i \in Asked(queue) : queue'[i] = queue[i]
      BY <2>1, <3>1, AppendKeeps DEF TypeInv, Asked
    <3>. QED
      BY <2>2, <3>2, <3>3, <3>4
  <2>. QED
    BY <2>3, <2>4
<1>2. ASSUME NEW c \in Clients, WaitUntilReady(c)
      PROVE  LoneInv(c0)'
  <2>1. UNCHANGED <<queue, flow, current, handled, isIdle>> /\ isIdle
    BY <1>2 DEF WaitUntilReady
  <2>2. Asked(queue) = {} /\ flow # "user"
    BY <2>1
  <2>3. \A d \in Clients : waits'[d] = IF d = c THEN NoCall ELSE waits[d]
    BY <1>2 DEF WaitUntilReady, TypeInv
  <2>. QED
    BY <2>1, <2>2, <2>3 DEF NoCall
<1>3. CASE ProcedureStarts
  <2>1. 1 \in Asked(queue) /\ Head(queue) = queue[1] /\ queue # << >>
    BY <1>3, TailAsks, TailKeeps DEF ProcedureStarts, Takes, TypeInv
  <2>2. Asked(Tail(queue)) = {}
    BY <2>1, TailKeeps DEF TypeInv, Asked
  <2>3. waits[c0] = Head(queue) /\ waits[c0] # NoCall
    BY <2>1, TailKeeps DEF TypeInv, Messages, NoCall
  <2>. QED
    BY <1>3, <2>1, <2>2, <2>3 DEF ProcedureStarts, Takes
<1>4. ASSUME queue # << >>, queue' = Tail(queue), Head(queue).kind = "abort",
             UNCHANGED waits
      PROVE  /\ \A i \in Asked(queue') : queue'[i] = waits'[c0]
             /\ \A i, j \in Asked(queue') : i = j
             /\ Asked(queue') = {} <=> Asked(queue) = {}
  <2>1. \A i \in Asked(queue') : i + 1 \in Asked(queue) /\ queue'[i] = queue[i + 1]
                                 /\ i \in Nat
    BY <1>4, TailKeeps DEF TypeInv, Asked
  <2>2. Asked(queue') = {} => Asked(queue) = {}
    BY <1>4, TailAsks DEF TypeInv
  <2>3. \A i \in Asked(queue') : queue'[i] = waits[c0]
    BY <2>1
  <2>4. ASSUME NEW i \in Asked(queue'), NEW j \in Asked(queue')
        PROVE  i = j
    <3>1. i + 1 = j + 1 /\ i \in Nat /\ j \in Nat
      BY <2>1
    <3>. QED
      BY <3>1
  <2>5. Asked(queue) = {} => Asked(queue') = {}
    BY <2>1
  <2>. QED
    BY <1>4, <2>2, <2>3, <2>4, <2>5
<1>5. CASE CallDropped
  <2>1. CASE Head(queue).kind = "abort"
    BY <1>4, <1>5, <2>1 DEF CallDropped, Takes
  <2>2. CASE Head(queue).kind # "abort"
    <3>1. queue # << >> /\ queue' = Tail(queue) /\ UNCHANGED <<waits, isIdle, flow, current>>
          /\ handled' = handled \cup {Head(queue).n}
      BY <1>5 DEF CallDropped, Takes
    <3>2. 1 \in Asked(queue) /\ Head(queue) = queue[1]
      BY <2>2, <3>1, TailAsks, TailKeeps DEF TypeInv
    <3>3. Asked(queue') = {}
      <4>1. \A i \in Asked(queue') : i + 1 \in Asked(queue) /\ i \in DOMAIN Tail(queue)
        BY <3>1, TailKeeps DEF TypeInv, Asked
      <4>. QED
        BY <3>2, <4>1 DEF TypeInv
    <3>. QED
      BY <3>1, <3>2, <3>3
  <2>. QED
    BY <2>1, <2>2
<1>6. CASE Aborted
  <2>1. queue # << >> /\ queue' = Tail(queue) /\ Head(queue).kind = "abort"
        /\ UNCHANGED waits
    BY <1>6 DEF Aborted, Takes
  <2>2. flow' = "none" /\ current' = NoCall /\ isIdle' = (isIdle \/ flow = "user")
        /\ handled \subseteq handled'
        /\ (flow = "user" /\ waits[c0] # NoCall => waits[c0].n \in handled')
    BY <1>6, WaitsNumber DEF Aborted, Finished
  <2>. QED
    BY <1>4, <2>1, <2>2
<1>7. CASE ProcedureEnds
  BY <1>7, WaitsNumber DEF ProcedureEnds, Finished
<1>8. CASE InternalStarts
  BY <1>8 DEF InternalStarts
<1>9. CASE UNCHANGED vars
  BY <1>9 DEF vars
<1>10. QED
  BY <1>1, <1>2, <1>3, <1>5, <1>6, <1>7, <1>8, <1>9 DEF Next, Dispatched

(* A blocking call of the only thread that asks for procedures returns     *)
(* only when the flow has handled it, however often others abort and       *)
(* internal procedures interfere (Connect::WaitUntilReady).                *)
THEOREM LoneCallIsHandled ==
    ASSUME NEW c0 \in Clients, Lone(c0)
    PROVE  Spec => BlockingCallIsHandled
<1>1. Init => LoneInv(c0)
  BY DEF Init, LoneInv, Asked, NoCall
<1>2. TypeInv /\ LoneInv(c0) /\ [Next]_vars => (TypeInv /\ LoneInv(c0))'
  BY TypeStep, LoneStep
<1>3. TypeInv /\ LoneInv(c0) /\ [Next]_vars => [Returns("procedure")]_vars
  <2>. SUFFICES ASSUME TypeInv, LoneInv(c0), Next,
                       NEW c \in Clients,
                       waits[c].kind = "procedure", waits'[c] = NoCall
                PROVE  waits[c].n \in handled
    BY DEF Returns
  <2>1. c = c0 /\ waits[c0] # NoCall
    BY DEF LoneInv, NoCall
  <2>2. isIdle
    <3>1. WaitUntilReady(c)
      <4>1. waits' # waits
        BY <2>1
      <4>2. \A d \in Clients : \A call \in CallsOf[d] : ~Call(d, call)
        <5>. SUFFICES ASSUME NEW d \in Clients, NEW call \in CallsOf[d], Call(d, call)
                      PROVE  FALSE
          OBVIOUS
        <5>1. [n |-> made + 1, kind |-> call.kind] \in Messages
          BY CallIsMessage
        <5>2. [n |-> made + 1, kind |-> call.kind] # NoCall
          BY <5>1 DEF Messages, NoCall
        <5>. QED
          BY <2>1, <5>2 DEF Call, TypeInv
      <4>3. ~ (ProcedureStarts \/ CallDropped \/ Aborted \/ ProcedureEnds \/ InternalStarts)
        BY <4>1 DEF ProcedureStarts, CallDropped, Aborted, ProcedureEnds, InternalStarts, Takes
      <4>4. PICK d \in Clients : WaitUntilReady(d)
        BY <4>2, <4>3 DEF Next, Dispatched
      <4>. QED
        BY <2>1, <4>4 DEF WaitUntilReady, TypeInv
    <3>. QED
      BY <3>1 DEF WaitUntilReady
  <2>. QED
    BY <2>1, <2>2 DEF LoneInv
<1>. QED
  BY <1>1, <1>2, <1>3, TypeInit, PTL DEF Spec, BlockingCallIsHandled
=============================================================================
