----------------------- MODULE MessageDispatcherProofs -----------------------
(***************************************************************************)
(* The safety properties of MessageDispatcher for any number of clients,   *)
(* actions and calls of Execute.                                           *)
(***************************************************************************)
EXTENDS MessageDispatcher, TLAPS, SequenceTheorems

(* Where the two threads can be, together. *)
ThreadsInv ==
    /\ hasThread <=> loopPc # "none"
    /\ ownerPc = "create" => ~hasThread /\ ~isRunning
    /\ ownerPc = "join" => ~isRunning
    /\ loopPc = "enter" => ownerPc = "waitStarted" /\ ~isRunning
    /\ Loop \in sleeping => loopPc = "wait"

(* The queue holds exactly the numbers not started yet, in order. *)
OrderInv ==
    /\ current # 0 <=> loopPc = "run"
    /\ current # 0 => current = executed + 1
    /\ current = 0 => posted = executed + Len(queue)
    /\ current # 0 => posted = executed + 1 + Len(queue)
    /\ \A i \in 1..Len(queue) : queue[i] = (posted - Len(queue)) + i

IInv == TypeOK /\ ThreadsInv /\ OrderInv /\ NoLostWakeup

-----------------------------------------------------------------------------
(* Init establishes the inductive invariant. *)
LEMMA InitIInv == Init => IInv
<1> SUFFICES ASSUME Init PROVE IInv
  OBVIOUS
<1>1. queue \in Seq(Nat) /\ Len(queue) = 0
  BY EmptySeq DEF Init
<1>2. executed <= posted
  BY DEF Init
<1>3. TypeOK
  BY <1>1, <1>2, Zenon DEF Init, TypeOK
<1>4. OrderInv
  BY <1>1 DEF Init, OrderInv
<1>5. ThreadsInv /\ NoLostWakeup
  BY DEF Init, ThreadsInv, NoLostWakeup
<1> QED
  BY <1>3, <1>4, <1>5 DEF IInv

(* Inserting the next number keeps the queue in order. *)
LEMMA AppendKeepsOrder ==
  ASSUME NEW q \in Seq(Nat), NEW n \in Nat,
         \A i \in 1..Len(q) : q[i] = (n - Len(q)) + i
  PROVE  /\ Append(q, n + 1) \in Seq(Nat)
         /\ Len(Append(q, n + 1)) = Len(q) + 1
         /\ \A i \in 1..Len(Append(q, n + 1)) :
               Append(q, n + 1)[i] = ((n + 1) - Len(Append(q, n + 1))) + i
  OBVIOUS

(* Taking the head off an ordered queue leaves an ordered queue. *)
LEMMA TailKeepsOrder ==
  ASSUME NEW q \in Seq(Nat), NEW n \in Nat, q # << >>,
         \A i \in 1..Len(q) : q[i] = (n - Len(q)) + i
  PROVE  /\ Tail(q) \in Seq(Nat)
         /\ Len(Tail(q)) = Len(q) - 1
         /\ Len(q) > 0
         /\ Head(q) = (n - Len(q)) + 1
         /\ Head(q) \in Nat
         /\ \A i \in 1..Len(Tail(q)) : Tail(q)[i] = (n - Len(Tail(q))) + i
  OBVIOUS

(* Every step preserves the inductive invariant. *)
LEMMA NextIInv == IInv /\ [Next]_vars => IInv'
<1> SUFFICES ASSUME IInv, [Next]_vars PROVE IInv'
  OBVIOUS
<1> USE ThreadsAssumption DEF IInv
<1>1. ASSUME NEW t \in Posters, QueueInsert(t) PROVE IInv'
  <2> USE <1>1 DEF QueueInsert
  <2>1. /\ queue' \in Seq(Nat)
        /\ Len(queue') = Len(queue) + 1
        /\ \A i \in 1..Len(queue') : queue'[i] = (posted' - Len(queue')) + i
    BY AppendKeepsOrder DEF TypeOK, OrderInv
  <2>2. TypeOK'
    BY <2>1 DEF TypeOK
  <2>3. ThreadsInv'
    BY DEF ThreadsInv
  <2>4. OrderInv'
    BY <2>1 DEF OrderInv, TypeOK
  <2>5. NoLostWakeup'
    BY DEF NoLostWakeup
  <2> QED BY <2>2, <2>3, <2>4, <2>5
<1>2. ASSUME NEW t \in Posters, QueueNotify(t) PROVE IInv'
  BY <1>2 DEF QueueNotify, TypeOK, ThreadsInv, OrderInv, NoLostWakeup
<1>3. CASE ExecuteReset
  <2> USE <1>3 DEF ExecuteReset
  <2>1. loopPc = "none" /\ Loop \notin sleeping
    BY DEF ThreadsInv
  <2>2. TypeOK'
    <3>1. executes' \in Nat
      BY DEF TypeOK
    <3>2. ownerPc' \in {"idle", "create", "waitStarted", "join"}
      OBVIOUS
    <3> QED
      BY <3>1, <3>2 DEF TypeOK
  <2>3. ThreadsInv'
    BY <2>1 DEF ThreadsInv
  <2>4. OrderInv'
    BY DEF OrderInv
  <2>5. NoLostWakeup'
    BY <2>1 DEF NoLostWakeup
  <2> QED BY <2>2, <2>3, <2>4, <2>5
<1>4. CASE ExecuteCreateThread
  BY <1>4 DEF ExecuteCreateThread, TypeOK, ThreadsInv, OrderInv, NoLostWakeup
<1>5. CASE WaitUntilStarted
  BY <1>5 DEF WaitUntilStarted, TypeOK, ThreadsInv, OrderInv, NoLostWakeup
<1>6. CASE StopSignal
  BY <1>6 DEF StopSignal, TypeOK, ThreadsInv, OrderInv, NoLostWakeup
<1>7. CASE StopJoin
  BY <1>7 DEF StopJoin, TypeOK, ThreadsInv, OrderInv, NoLostWakeup
<1>8. CASE LoopEnter
  BY <1>8 DEF LoopEnter, TypeOK, ThreadsInv, OrderInv, NoLostWakeup
<1>9. CASE LoopSleep
  BY <1>9 DEF LoopSleep, TypeOK, ThreadsInv, OrderInv, NoLostWakeup
<1>10. CASE LoopExit
  BY <1>10 DEF LoopExit, TypeOK, ThreadsInv, OrderInv, NoLostWakeup
<1>11. CASE LoopTake
  <2> USE <1>11 DEF LoopTake
  <2>1. /\ queue' \in Seq(Nat)
        /\ Len(queue') = Len(queue) - 1
        /\ Len(queue) > 0
        /\ current' = (posted - Len(queue)) + 1
        /\ current' \in Nat
        /\ \A i \in 1..Len(queue') : queue'[i] = (posted - Len(queue')) + i
    BY TailKeepsOrder DEF TypeOK, OrderInv
  <2>2. TypeOK'
    BY <2>1 DEF TypeOK
  <2>3. ThreadsInv'
    BY DEF ThreadsInv
  <2>4. OrderInv'
    <3>1. current = 0 /\ posted = executed + Len(queue)
      BY DEF OrderInv
    <3>2. Len(queue) \in Nat /\ Len(queue') \in Nat
      BY <2>1, LenProperties DEF TypeOK
    <3>3. current' = executed' + 1 /\ current' # 0 /\ posted' = executed' + 1 + Len(queue')
      BY <2>1, <3>1, <3>2 DEF TypeOK
    <3> QED BY <2>1, <3>3 DEF OrderInv
  <2>5. NoLostWakeup'
    BY DEF NoLostWakeup
  <2> QED BY <2>2, <2>3, <2>4, <2>5
<1>12. CASE LoopActionReturns
  <2> USE <1>12 DEF LoopActionReturns
  <2>1. posted = executed + 1 + Len(queue) /\ Len(queue) \in Nat
    BY LenProperties DEF OrderInv, TypeOK
  <2>2. TypeOK'
    BY <2>1 DEF TypeOK
  <2>3. ThreadsInv' /\ NoLostWakeup'
    BY DEF ThreadsInv, NoLostWakeup
  <2>4. OrderInv'
    BY DEF OrderInv, TypeOK
  <2> QED BY <2>2, <2>3, <2>4
<1>13. ASSUME NEW t \in {Owner, Loop}, SpuriousWakeup(t) PROVE IInv'
  BY <1>13 DEF SpuriousWakeup, TypeOK, ThreadsInv, OrderInv, NoLostWakeup
<1>14. CASE UNCHANGED vars
  BY <1>14 DEF vars, TypeOK, ThreadsInv, OrderInv, NoLostWakeup
<1> QED
  BY <1>1, <1>2, <1>3, <1>4, <1>5, <1>6, <1>7, <1>8, <1>9, <1>10, <1>11,
     <1>12, <1>13, <1>14 DEF Next, OwnerStep, LoopStep

(* The inductive invariant holds in every reachable state. *)
LEMMA SpecIInv == Spec => []IInv
  BY InitIInv, NextIInv, PTL DEF Spec

-----------------------------------------------------------------------------
(***************************************************************************)
(* No wakeup is lost: a thread asleep on _condition has nothing to do, or  *)
(* the notify_all that wakes it is still to come.                          *)
(***************************************************************************)
THEOREM NoWakeupIsLost == Spec => []NoLostWakeup
  BY SpecIInv, PTL DEF IInv

(***************************************************************************)
(* Stop: once it has cleared _isRunning no further action starts, and it   *)
(* returns only when the dispatcher thread is gone.                        *)
(***************************************************************************)
THEOREM StopStopsTheQueue == Spec => NoActionStartsDuringStop
<1> DEFINE A == ownerPc = "join" =>
                  /\ current' \in {current, 0}
                  /\ ownerPc' = "idle" => loopPc \in {"none", "exited"}
<1>1. IInv /\ [Next]_vars => [A]_vars
  BY DEF IInv, TypeOK, ThreadsInv, Next, OwnerStep, LoopStep, QueueInsert,
         QueueNotify, ExecuteReset, ExecuteCreateThread, WaitUntilStarted,
         StopSignal, StopJoin, LoopEnter, LoopSleep, LoopExit, LoopTake,
         LoopActionReturns, SpuriousWakeup, vars
<1> QED
  BY <1>1, SpecIInv, PTL DEF Spec, NoActionStartsDuringStop

(***************************************************************************)
(* The dispatcher implements FifoExecutor: actions start in the order of   *)
(* their Queue calls, one at a time, each once.                            *)
(***************************************************************************)
THEOREM DispatcherIsFifo == Spec => RunsInOrder
<1>1. Init => Fifo!FifoInit
  BY DEF Init, Fifo!FifoInit
<1>2. IInv /\ [Next]_vars => [Fifo!FifoNext]_(Fifo!fifoVars)
  <2> SUFFICES ASSUME IInv, [Next]_vars
               PROVE  Fifo!FifoNext \/ UNCHANGED Fifo!fifoVars
    OBVIOUS
  <2> USE DEF Fifo!FifoNext, Fifo!Accept, Fifo!Begin, Fifo!End, Fifo!fifoVars
  <2>1. ASSUME NEW t \in Posters, QueueInsert(t) PROVE Fifo!Accept
    BY <2>1 DEF QueueInsert
  <2>2. CASE LoopTake
    <3>1. /\ Len(queue) > 0
          /\ current' = (posted - Len(queue)) + 1
          /\ Len(queue) \in Nat
      BY <2>2, TailKeepsOrder, LenProperties
         DEF LoopTake, IInv, TypeOK, OrderInv
    <3>2. current = 0 /\ posted = executed + Len(queue)
      BY <2>2 DEF LoopTake, IInv, OrderInv
    <3>3. Fifo!Begin
      BY <2>2, <3>1, <3>2 DEF LoopTake, IInv, TypeOK
    <3> QED BY <3>3
  <2>3. CASE LoopActionReturns
    BY <2>3 DEF LoopActionReturns, IInv, OrderInv
  <2>4. ASSUME NEW t \in Posters, QueueNotify(t) PROVE UNCHANGED Fifo!fifoVars
    BY <2>4 DEF QueueNotify
  <2>5. CASE OwnerStep
    BY <2>5 DEF OwnerStep, ExecuteReset, ExecuteCreateThread,
                WaitUntilStarted, StopSignal, StopJoin
  <2>6. CASE LoopEnter \/ LoopSleep \/ LoopExit
    BY <2>6 DEF LoopEnter, LoopSleep, LoopExit
  <2>7. ASSUME NEW t \in {Owner, Loop}, SpuriousWakeup(t)
        PROVE  UNCHANGED Fifo!fifoVars
    BY <2>7 DEF SpuriousWakeup
  <2>8. CASE UNCHANGED vars
    BY <2>8 DEF vars
  <2> QED
    BY <2>1, <2>2, <2>3, <2>4, <2>5, <2>6, <2>7, <2>8 DEF Next, LoopStep
<1> QED
  BY <1>1, <1>2, SpecIInv, PTL DEF Spec, RunsInOrder, Fifo!FifoSpec
=============================================================================
