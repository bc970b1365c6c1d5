------------------------------ MODULE Connect ------------------------------
(***************************************************************************)
(* connect/Connect.cpp: how client threads wait for a procedure.  A call   *)
(* is handed to the connection flow, whose dispatcher runs it later; a     *)
(* blocking call then waits until _isIdle, which the first and the last    *)
(* message of every user procedure reset and set.  Each operation holds    *)
(* _mutex from its first to its last line, and is one step.                *)
(*                                                                         *)
(* The flow is represented by what ConnectionFlow does with a call: Start  *)
(* accepts it when the flow is Idle and drops it otherwise, and a          *)
(* procedure ends by itself or by Abort.  An internal procedure (a v2      *)
(* bridge that has come back) makes the flow busy but sends no message.    *)
(***************************************************************************)
EXTENDS Integers, Sequences

CONSTANTS
    CallsOf,     \* for each client, the calls it may make: "procedure" is
                 \* any call but "stream" (StartStream, StopStream), "abort"
    Internal,    \* are there internal procedures
    MaxCalls     \* bound: how many calls are made

ASSUME ConnectAssumption ==
    /\ \A c \in DOMAIN CallsOf :
          CallsOf[c] \subseteq [kind : {"procedure", "stream", "abort"},
                                blocks : BOOLEAN]
    /\ Internal \in BOOLEAN
    /\ MaxCalls \in Nat

Clients == DOMAIN CallsOf

VARIABLES
    isIdle,    \* _isIdle
    waits,     \* the call that each client waits for, NoCall if none
    queue,     \* the dispatcher's queue
    flow,      \* what the flow is busy with: "none", "user", "internal"
    current,   \* the call whose procedure runs
    handled,   \* the calls that ended or were dropped
    lost,      \* those that were dropped because of an internal procedure
    made       \* how many calls were made

vars == <<isIdle, waits, queue, flow, current, handled, lost, made>>

NoCall == [n |-> 0, kind |-> "none"]

Init ==
    /\ isIdle = TRUE
    /\ waits = [c \in Clients |-> NoCall]
    /\ queue = << >> /\ flow = "none" /\ current = NoCall
    /\ handled = {} /\ lost = {} /\ made = 0
-----------------------------------------------------------------------------
(* Mutant: _isIdle is left to the message that the procedure starts. *)
BugCall(c, call) ==
    LET m == [n |-> made + 1, kind |-> call.kind]
    IN  /\ waits[c] = NoCall
        /\ made < MaxCalls
        /\ made' = m.n
        /\ queue' = Append(queue, m)
        /\ waits' = IF call.blocks THEN [waits EXCEPT ![c] = m] ELSE waits
        /\ UNCHANGED <<isIdle, flow, current, handled, lost>>

(* A client calls, and in a blocking call goes on to WaitUntilReady. *)
Call(c, call) ==
    LET m == [n |-> made + 1, kind |-> call.kind]
    IN  /\ waits[c] = NoCall
        /\ made < MaxCalls
        /\ made' = m.n
        /\ queue' = Append(queue, m)
        /\ waits' = IF call.blocks THEN [waits EXCEPT ![c] = m] ELSE waits
        /\ isIdle' = (isIdle /\ call.kind # "procedure")
        /\ UNCHANGED <<flow, current, handled, lost>>

WaitUntilReady(c) ==
    /\ waits[c] # NoCall
    /\ isIdle
    /\ waits' = [waits EXCEPT ![c] = NoCall]
    /\ UNCHANGED <<isIdle, queue, flow, current, handled, lost, made>>

(* The flow runs the call at the head of the queue. *)
Takes(kinds) ==
    /\ queue # << >>
    /\ Head(queue).kind \in kinds
    /\ queue' = Tail(queue)
    /\ UNCHANGED <<waits, made>>

(* Start accepts: USERPROCEDURE_STARTED. *)
ProcedureStarts ==
    /\ Takes({"procedure", "stream"})
    /\ flow = "none"
    /\ flow' = "user" /\ current' = Head(queue)
    /\ isIdle' = FALSE
    /\ UNCHANGED <<handled, lost>>

(* Start refuses, without a message. *)
CallDropped ==
    /\ \/ Takes({"procedure", "stream"}) /\ flow # "none"
       \/ Takes({"abort"}) /\ flow = "none"
    /\ handled' = handled \cup {Head(queue).n}
    /\ lost' = IF flow = "internal" THEN lost \cup {Head(queue).n} ELSE lost
    /\ UNCHANGED <<isIdle, flow, current>>

(* Mutant: an aborted procedure ends without its last message. *)
BugFinished(also) ==
    /\ flow' = "none" /\ current' = NoCall /\ UNCHANGED lost
    /\ handled' = handled \cup also \cup ({current.n} \ {0})
    /\ isIdle' = (isIdle \/ (flow = "user" /\ also = {}))

(* Finish: USERPROCEDURE_FINISHED, but not for an internal procedure. *)
Finished(also) ==
    /\ flow' = "none" /\ current' = NoCall /\ UNCHANGED lost
    /\ handled' = handled \cup also \cup ({current.n} \ {0})
    /\ isIdle' = (isIdle \/ flow = "user")

Aborted ==
    /\ Takes({"abort"})
    /\ flow # "none"
    /\ Finished({Head(queue).n})

ProcedureEnds ==
    /\ flow # "none"
    /\ Finished({})
    /\ UNCHANGED <<waits, queue, made>>

(* Start accepts an internal request: it sends no message. *)
InternalStarts ==
    /\ Internal /\ flow = "none"
    /\ flow' = "internal"
    /\ UNCHANGED <<isIdle, waits, queue, current, handled, lost, made>>

Dispatched == ProcedureStarts \/ CallDropped \/ Aborted

Next ==
    \/ \E c \in Clients : \E call \in CallsOf[c] : Call(c, call)
    \/ \E c \in Clients : WaitUntilReady(c)
    \/ Dispatched \/ ProcedureEnds \/ InternalStarts

Spec == Init /\ [][Next]_vars

(* The dispatcher runs what is queued, procedures end (ConnectionSystem),  *)
(* and a thread that may go on does: there are MaxCalls calls, so in the   *)
(* end _isIdle stays as it is.                                             *)
Fairness ==
    /\ WF_vars(Dispatched) /\ WF_vars(ProcedureEnds)
    /\ \A c \in Clients : WF_vars(WaitUntilReady(c))

FairSpec == Spec /\ Fairness
-----------------------------------------------------------------------------
TypeOK ==
    /\ isIdle \in BOOLEAN
    /\ \A c \in Clients : waits[c] = NoCall \/ waits[c].n \in 1..made
    /\ flow \in {"none", "user", "internal"}
    /\ flow = "user" <=> current # NoCall
    /\ lost \subseteq handled /\ handled \subseteq 1..made

(* GetResult says Busy only while a procedure is ongoing, or a call that   *)
(* will begin one is on its way to the flow; unless an internal procedure  *)
(* made the flow drop a call, after which _isIdle may stay reset.          *)
BusyMeansOngoing == isIdle \/ flow = "user" \/ queue # << >> \/ lost # {}

Returns(kind) == \A c \in Clients :
    waits[c].kind = kind /\ waits'[c] = NoCall => waits[c].n \in handled

(* A blocking call returns only when the flow has handled it: a call for a *)
(* procedure, which resets _isIdle before it waits in WaitUntilReady.      *)
BlockingCallIsHandled == [][Returns("procedure")]_vars

(* A blocking call returns: WaitUntilReady sees _isIdle in the end, unless *)
(* an internal procedure made the flow drop a call.                        *)
BlockingCallReturns ==
    \A c \in Clients : waits[c] # NoCall ~> waits[c] = NoCall \/ lost # {}
=============================================================================
