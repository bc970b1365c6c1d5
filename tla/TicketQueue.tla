---------------------------- MODULE TicketQueue ----------------------------
(***************************************************************************)
(* What OperationalQueue promises (the comments of OperationalQueue.h:22   *)
(* to 71), without its threads, locks, loops and pool: tickets are         *)
(* executed in the order in which they are scheduled, one at a time; a     *)
(* ticket that waits for another is suspended, the tickets scheduled       *)
(* before that one are executed, and it goes on when the other is gone.    *)
(***************************************************************************)
EXTENDS Naturals, Sequences, SequencesExt

CONSTANT Tickets

VARIABLES
    pending,     \* created, neither completed nor discarded
    waiting,     \* scheduled and not yet executing, in the order of scheduling
    executing,   \* the suspended tickets and, last, the one that executes
    awaited,     \* for each suspended ticket, the ticket it waits for
    stopped

ticketQueueVars == <<pending, waiting, executing, awaited, stopped>>

\* A ticket executes, rather than being suspended or there being none.
Active == Len(executing) = Len(awaited) + 1

Init ==
    /\ pending = {}
    /\ waiting = <<>>
    /\ executing = <<>>
    /\ awaited = <<>>
    /\ stopped = FALSE

Create(t) ==
    /\ ~stopped
    /\ t \notin pending \cup Range(waiting) \cup Range(executing)
    /\ pending' = pending \cup {t}
    /\ UNCHANGED <<waiting, executing, awaited, stopped>>

Schedule(t) ==
    /\ ~stopped
    /\ t \in pending
    /\ t \notin Range(waiting) \cup Range(executing)
    /\ waiting' = Append(waiting, t)
    /\ UNCHANGED <<pending, executing, awaited, stopped>>

Discard(t) ==
    /\ t \in pending
    /\ t \notin Range(executing)
    /\ pending' = pending \ {t}
    /\ waiting' = RemoveFirst(waiting, t)
    /\ UNCHANGED <<executing, awaited, stopped>>

Start ==
    /\ ~stopped
    /\ ~Active
    /\ waiting # <<>>
    /\ executing' = Append(executing, Head(waiting))
    /\ waiting' = Tail(waiting)
    /\ UNCHANGED <<pending, awaited, stopped>>

Suspend(t) ==
    /\ Active
    /\ t \in pending
    /\ t \notin Range(executing)
    /\ awaited' = Append(awaited, t)
    /\ UNCHANGED <<pending, waiting, executing, stopped>>

Resume ==
    /\ ~Active
    /\ awaited # <<>>
    /\ Last(awaited) \notin pending \/ stopped
    /\ awaited' = Front(awaited)
    /\ UNCHANGED <<pending, waiting, executing, stopped>>

Finish ==
    /\ Active
    /\ pending' = pending \ {Last(executing)}
    /\ executing' = Front(executing)
    /\ UNCHANGED <<waiting, awaited, stopped>>

Stop ==
    /\ ~stopped
    /\ stopped' = TRUE
    /\ UNCHANGED <<pending, waiting, executing, awaited>>

Next ==
    \/ \E t \in Tickets : Create(t) \/ Schedule(t) \/ Discard(t) \/ Suspend(t)
    \/ Start
    \/ Resume
    \/ Finish
    \/ Stop

Spec == Init /\ [][Next]_ticketQueueVars

=============================================================================
