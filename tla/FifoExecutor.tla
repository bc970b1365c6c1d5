---------------------------- MODULE FifoExecutor ----------------------------
(***************************************************************************)
(* What ConnectionFlow expects of its message dispatcher: the actions it   *)
(* hands over are numbered in the order they were accepted, and they are   *)
(* started one at a time, in that order, each exactly once.  Nothing is    *)
(* promised about how long an accepted action waits: after Stop it may     *)
(* wait for ever.                                                          *)
(***************************************************************************)
EXTENDS Naturals

VARIABLES
    accepted,   \* how many actions have been accepted so far
    finished,   \* how many of them have run to their end
    running     \* the number of the action that runs now, 0 when none does

fifoVars == <<accepted, finished, running>>

FifoInit == accepted = 0 /\ finished = 0 /\ running = 0

Accept ==
    /\ accepted' = accepted + 1
    /\ UNCHANGED <<finished, running>>

Begin ==
    /\ running = 0
    /\ finished < accepted
    /\ running' = finished + 1
    /\ UNCHANGED <<accepted, finished>>

End ==
    /\ running # 0
    /\ finished' = finished + 1
    /\ running' = 0
    /\ UNCHANGED accepted

FifoNext == Accept \/ Begin \/ End

FifoSpec == FifoInit /\ [][FifoNext]_fifoVars
=============================================================================
