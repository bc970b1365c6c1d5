-------------------------- MODULE MessageDispatcher --------------------------
(***************************************************************************)
(* huestream/connect/MessageDispatcher.cpp: one thread that runs the       *)
(* actions other threads (and the actions themselves) queue.               *)
(*                                                                         *)
(* Each critical section of _mutex is one action.  A thread inside         *)
(* _condition.wait is in "sleeping" until a notify_all (or a spurious      *)
(* wakeup) takes it out; it then evaluates its predicate again.  Queue     *)
(* notifies after it released the mutex, so its notify_all is a step of    *)
(* its own.  Actions are numbered in the order in which they entered       *)
(* _queue; the code inserts at begin() and pops at back(), here the queue  *)
(* grows at its tail and is served from its head.                          *)
(*                                                                         *)
(* Execute and Stop are called by one thread, the owner of the HueStream   *)
(* object (constructor and ShutDown); useThisTread is always false in the  *)
(* library.                                                                *)
(***************************************************************************)
EXTENDS Naturals, Sequences

CONSTANTS
    Clients,        \* threads that call Queue from outside the dispatcher
    Owner,          \* the thread that calls Execute and Stop
    Loop,           \* the dispatcher thread
    MaxActions,     \* bound: actions queued in a behaviour
    MaxExecutes     \* bound: calls of Execute in a behaviour

ASSUME ThreadsAssumption ==
    /\ Owner \notin Clients /\ Loop \notin Clients /\ Owner # Loop
ASSUME BoundsAssumption == MaxActions \in Nat /\ MaxExecutes \in Nat

VARIABLES
    queue,      \* _queue, next action first
    isRunning,  \* _isRunning
    hasThread,  \* _thread # nullptr
    ownerPc,    \* where the owner is: between calls, in Execute or in Stop
    loopPc,     \* where the dispatcher thread is in Loop
    current,    \* the action the dispatcher thread runs, 0 when none
    sleeping,   \* threads blocked in _condition.wait
    notifying,  \* threads between the unlock and the notify_all of Queue
    posted,     \* how many actions were queued
    executed,   \* how many actions returned
    executes    \* how often Execute was called

vars == <<queue, isRunning, hasThread, ownerPc, loopPc, current, sleeping,
          notifying, posted, executed, executes>>

Posters == Clients \cup {Loop}

Init ==
    /\ queue = << >>
    /\ isRunning = FALSE
    /\ hasThread = FALSE
    /\ ownerPc = "idle"
    /\ loopPc = "none"
    /\ current = 0
    /\ sleeping = {}
    /\ notifying = {}
    /\ posted = 0
    /\ executed = 0
    /\ executes = 0

-----------------------------------------------------------------------------
(* Queue: insert under the mutex, then notify without it. *)

(* Deliberate bug: insert at the end that is served next. *)
BugQueueInsertLifo(t) ==
    /\ posted < MaxActions
    /\ t \notin notifying
    /\ t = Loop => loopPc = "run"
    /\ queue' = <<posted + 1>> \o queue
    /\ posted' = posted + 1
    /\ notifying' = notifying \cup {t}
    /\ UNCHANGED <<isRunning, hasThread, ownerPc, loopPc, current, sleeping,
                   executed, executes>>

QueueInsert(t) ==
    /\ posted < MaxActions
    /\ t \notin notifying
    /\ t = Loop => loopPc = "run"
    /\ queue' = Append(queue, posted + 1)
    /\ posted' = posted + 1
    /\ notifying' = notifying \cup {t}
    /\ UNCHANGED <<isRunning, hasThread, ownerPc, loopPc, current, sleeping,
                   executed, executes>>

(* Deliberate bug: no notify_all after the insert. *)
BugQueueNotifySilent(t) ==
    /\ t \in notifying
    /\ notifying' = notifying \ {t}
    /\ UNCHANGED <<queue, isRunning, hasThread, ownerPc, loopPc, current,
                   sleeping, posted, executed, executes>>

QueueNotify(t) ==
    /\ t \in notifying
    /\ notifying' = notifying \ {t}
    /\ sleeping' = {}
    /\ UNCHANGED <<queue, isRunning, hasThread, ownerPc, loopPc, current,
                   posted, executed, executes>>

(* Execute: reset the flag, create the thread, wait until it runs. *)

ExecuteReset ==
    /\ ownerPc = "idle"
    /\ ~hasThread
    /\ executes < MaxExecutes
    /\ isRunning' = FALSE
    /\ executes' = executes + 1
    /\ ownerPc' = "create"
    /\ UNCHANGED <<queue, hasThread, loopPc, current, sleeping, notifying,
                   posted, executed>>

ExecuteCreateThread ==
    /\ ownerPc = "create"
    /\ hasThread' = TRUE
    /\ loopPc' = "enter"
    /\ ownerPc' = "waitStarted"
    /\ UNCHANGED <<queue, isRunning, current, sleeping, notifying, posted,
                   executed, executes>>

WaitUntilStarted ==
    /\ ownerPc = "waitStarted"
    /\ Owner \notin sleeping
    /\ \/ /\ isRunning
          /\ ownerPc' = "idle"
          /\ UNCHANGED sleeping
       \/ /\ ~isRunning
          /\ sleeping' = sleeping \cup {Owner}
          /\ UNCHANGED ownerPc
    /\ UNCHANGED <<queue, isRunning, hasThread, loopPc, current, notifying,
                   posted, executed, executes>>

(* Loop: announce, then serve the queue until _isRunning is false. *)

(* Deliberate bug: the flag is set without a notification. *)
BugLoopEnterSilent ==
    /\ loopPc = "enter"
    /\ isRunning' = TRUE
    /\ loopPc' = "wait"
    /\ UNCHANGED <<queue, hasThread, ownerPc, current, sleeping, notifying,
                   posted, executed, executes>>

LoopEnter ==
    /\ loopPc = "enter"
    /\ isRunning' = TRUE
    /\ sleeping' = {}
    /\ loopPc' = "wait"
    /\ UNCHANGED <<queue, hasThread, ownerPc, current, notifying, posted,
                   executed, executes>>

LoopSleep ==
    /\ loopPc = "wait"
    /\ Loop \notin sleeping
    /\ queue = << >>
    /\ isRunning
    /\ sleeping' = sleeping \cup {Loop}
    /\ UNCHANGED <<queue, isRunning, hasThread, ownerPc, loopPc, current,
                   notifying, posted, executed, executes>>

LoopExit ==
    /\ loopPc = "wait"
    /\ Loop \notin sleeping
    /\ ~isRunning
    /\ loopPc' = "exited"
    /\ UNCHANGED <<queue, isRunning, hasThread, ownerPc, current, sleeping,
                   notifying, posted, executed, executes>>

(* Deliberate bug: _isRunning is not looked at after the wait. *)
BugLoopTakeUnchecked ==
    /\ loopPc = "wait"
    /\ Loop \notin sleeping
    /\ queue # << >>
    /\ current' = Head(queue)
    /\ queue' = Tail(queue)
    /\ loopPc' = "run"
    /\ UNCHANGED <<isRunning, hasThread, ownerPc, sleeping, notifying, posted,
                   executed, executes>>

LoopTake ==
    /\ loopPc = "wait"
    /\ Loop \notin sleeping
    /\ queue # << >>
    /\ isRunning
    /\ current' = Head(queue)
    /\ queue' = Tail(queue)
    /\ loopPc' = "run"
    /\ UNCHANGED <<isRunning, hasThread, ownerPc, sleeping, notifying, posted,
                   executed, executes>>

LoopActionReturns ==
    /\ loopPc = "run"
    /\ Loop \notin notifying
    /\ executed' = executed + 1
    /\ current' = 0
    /\ loopPc' = "wait"
    /\ UNCHANGED <<queue, isRunning, hasThread, ownerPc, sleeping, notifying,
                   posted, executes>>

(* Stop: clear the flag and notify, then join the thread if there is one. *)

StopSignal ==
    /\ ownerPc = "idle"
    /\ isRunning' = FALSE
    /\ sleeping' = {}
    /\ ownerPc' = "join"
    /\ UNCHANGED <<queue, hasThread, loopPc, current, notifying, posted,
                   executed, executes>>

StopJoin ==
    /\ ownerPc = "join"
    /\ hasThread => loopPc = "exited"
    /\ hasThread' = FALSE
    /\ loopPc' = "none"
    /\ ownerPc' = "idle"
    /\ UNCHANGED <<queue, isRunning, current, sleeping, notifying, posted,
                   executed, executes>>

(* A wait may return although nobody notified. *)
SpuriousWakeup(t) ==
    /\ t \in sleeping
    /\ sleeping' = sleeping \ {t}
    /\ UNCHANGED <<queue, isRunning, hasThread, ownerPc, loopPc, current,
                   notifying, posted, executed, executes>>

LoopStep == LoopEnter \/ LoopSleep \/ LoopExit \/ LoopTake \/ LoopActionReturns

OwnerStep ==
    \/ ExecuteReset \/ ExecuteCreateThread \/ WaitUntilStarted
    \/ StopSignal \/ StopJoin

Next ==
    \/ \E t \in Posters : QueueInsert(t) \/ QueueNotify(t)
    \/ OwnerStep
    \/ LoopStep
    \/ \E t \in {Owner, Loop} : SpuriousWakeup(t)

(***************************************************************************)
(* Every thread that has something left to do inside a call is scheduled.  *)
(* Nobody is obliged to call Queue, Execute or Stop.  That an action       *)
(* returns is an obligation of whoever queues it.                          *)
(***************************************************************************)
Fairness ==
    /\ \A t \in Posters : WF_vars(QueueNotify(t))
    /\ WF_vars(ExecuteCreateThread)
    /\ WF_vars(WaitUntilStarted)
    /\ WF_vars(StopJoin)
    /\ WF_vars(LoopStep)

Spec == Init /\ [][Next]_vars

FairSpec == Spec /\ Fairness

-----------------------------------------------------------------------------
(* Types of the variables; no more actions have run than were queued. *)
TypeOK ==
    /\ queue \in Seq(Nat)
    /\ isRunning \in BOOLEAN
    /\ hasThread \in BOOLEAN
    /\ ownerPc \in {"idle", "create", "waitStarted", "join"}
    /\ loopPc \in {"none", "enter", "wait", "run", "exited"}
    /\ current \in Nat
    /\ sleeping \subseteq {Owner, Loop}
    /\ notifying \subseteq Posters
    /\ posted \in Nat
    /\ executed \in Nat /\ executed <= posted
    /\ executes \in Nat

(***************************************************************************)
(* The dispatcher implements FifoExecutor: whatever happens between the    *)
(* mutexes, the notifications, Stop and a later Execute, actions start     *)
(* once, one at a time, in the order in which Queue inserted them.         *)
(***************************************************************************)
Fifo == INSTANCE FifoExecutor WITH
            accepted <- posted, finished <- executed, running <- current

RunsInOrder == Fifo!FifoSpec

(***************************************************************************)
(* Once Stop has cleared _isRunning and waits for the thread, the thread   *)
(* takes no further action from the queue (it may finish the one it is     *)
(* in), and Stop only returns when the thread is gone.                     *)
(***************************************************************************)
NoActionStartsDuringStop ==
    [][ownerPc = "join" =>
         /\ current' \in {current, 0}
         /\ ownerPc' = "idle" => loopPc \in {"none", "exited"}]_vars

(***************************************************************************)
(* No thread sleeps on the condition variable while the predicate it       *)
(* waits for is true and no notification is on its way: the notify_all     *)
(* after the unlock in Queue loses no wakeup.                              *)
(***************************************************************************)
NoLostWakeup ==
    /\ Loop \in sleeping /\ (queue # << >> \/ ~isRunning) => notifying # {}
    /\ Owner \in sleeping => ~isRunning

(***************************************************************************)
(* Execute returns: WaitUntilStarted sees the flag that Loop sets.         *)
(***************************************************************************)
ExecuteReturns == (ownerPc = "create") ~> (ownerPc = "idle")

(***************************************************************************)
(* Stop returns when the actions return.                                   *)
(***************************************************************************)
StopReturns == (ownerPc = "join") ~> (ownerPc = "idle")

(***************************************************************************)
(* What is queued is run, unless Stop is called first.                     *)
(***************************************************************************)
QueuedIsRunOrStopped ==
    \A i \in 1..MaxActions :
        (posted >= i /\ isRunning) ~> (executed >= i \/ ownerPc = "join")

\* Nobody waits for ever: not the owner in Execute or Stop, nor an action in the
\* queue of a running dispatcher.
NothingWaitsForEver == ExecuteReturns /\ StopReturns /\ QueuedIsRunOrStopped

=============================================================================
