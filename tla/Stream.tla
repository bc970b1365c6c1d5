------------------------------- MODULE Stream -------------------------------
(***************************************************************************)
(* stream/Stream.cpp: a streaming session as its threads see it.           *)
(*                                                                         *)
(* Flow is the dispatcher's thread, on which the connection flow calls     *)
(* Start and Stop (module StreamSession says what these do to the bridge   *)
(* objects).  Frames are rendered and sent by the render thread that Start *)
(* creates or, when UseRenderThread is FALSE, by the application's thread. *)
(* _lock is held while a frame is rendered and while a session is stopped; *)
(* Start does not take it.                                                 *)
(***************************************************************************)
EXTENDS Integers

CONSTANTS
    UseRenderThread,  \* AppSettings::UseRenderThread
    MaxAttempts,      \* 5: how often Start tries the streaming port
    SeqNumbers        \* 256: _seqNr is a uint8_t

ASSUME StreamAssumption ==
    /\ UseRenderThread \in BOOLEAN
    /\ MaxAttempts \in Nat \ {0}
    /\ SeqNumbers \in Nat \ {0}

VARIABLES
    running,    \* _running
    lock,       \* the holder of _lock
    attempts,   \* connectAttemps
    connected,  \* the connector has a connection
    seqNr,      \* _seqNr
    flowPc,     \* where Flow is, "idle" between calls
    next,       \* where Flow goes on when Stop returns
    renderPc,   \* where the thread that renders is, "none" if there is none
    lastSent    \* number of the last frame sent in this session, -1 if none

vars == <<running, lock, attempts, connected, seqNr, flowPc, next,
          renderPc, lastSent>>

numbers == <<seqNr, lastSent>>
call == <<next, attempts>>

Free == "free"
FlowPcs == {"idle", "begin", "run", "connect", "reset", "thread", "lock", "join",
            "disconnect"}
RenderPcs == {"none", "loop", "lock", "frame", "done"}

(* The application's thread exists already, and asks for frames forever. *)
Init ==
    /\ running = FALSE /\ lock = Free /\ attempts = 0 /\ connected = FALSE
    /\ seqNr = 0 /\ lastSent = -1
    /\ flowPc = "idle" /\ next = "idle"
    /\ renderPc = IF UseRenderThread THEN "none" ELSE "lock"
-----------------------------------------------------------------------------
(* Start and StartWithRenderThread. *)

(* Start(bridge).  A session with another bridge or group is stopped first *)
(* (for the bridge and group of the running session Start does nothing).   *)
StartCall ==
    /\ flowPc = "idle"
    /\ IF running THEN flowPc' = "lock" /\ next' = "begin"
                  ELSE flowPc' = "begin" /\ UNCHANGED next
    /\ UNCHANGED <<running, lock, attempts, connected, renderPc, numbers>>

(* The bridge is not ready, or StreamStarter::StartStream fails. *)
StartRefused ==
    /\ flowPc = "begin"
    /\ flowPc' = "idle"
    /\ UNCHANGED <<running, lock, connected, renderPc, numbers, call>>

(* The bridge grants the stream. *)
StartGranted ==
    /\ flowPc = "begin"
    /\ flowPc' = "run" /\ attempts' = 0 /\ lastSent' = -1
    /\ UNCHANGED <<running, lock, connected, seqNr, next, renderPc>>

SetRunning ==
    /\ flowPc = "run"
    /\ running' = TRUE
    /\ flowPc' = "connect"
    /\ UNCHANGED <<lock, connected, renderPc, numbers, call>>

(* IConnector::Connect to the streaming port succeeds or fails. *)
Connected ==
    /\ flowPc = "connect"
    /\ connected' = TRUE
    /\ flowPc' = "reset"
    /\ UNCHANGED <<running, lock, renderPc, numbers, call>>

ConnectFails ==
    /\ flowPc = "connect"
    /\ attempts' = attempts + 1
    /\ IF attempts' < MaxAttempts
       THEN flowPc' = "run" /\ UNCHANGED next
       ELSE flowPc' = "lock" /\ next' = "idle"
    /\ UNCHANGED <<running, lock, connected, renderPc, numbers>>

(* Mutant: the numbering goes on from the last session. *)
BugResetNumbers ==
    /\ flowPc = "reset"
    /\ flowPc' = IF UseRenderThread THEN "thread" ELSE "idle"
    /\ UNCHANGED <<running, lock, connected, renderPc, numbers, call>>

ResetNumbers ==
    /\ flowPc = "reset"
    /\ seqNr' = 0
    /\ flowPc' = IF UseRenderThread THEN "thread" ELSE "idle"
    /\ UNCHANGED <<running, lock, connected, renderPc, lastSent, call>>

CreateRenderThread ==
    /\ flowPc = "thread"
    /\ renderPc' = "loop"
    /\ flowPc' = "idle"
    /\ UNCHANGED <<running, lock, connected, numbers, call>>
-----------------------------------------------------------------------------
(* Stop. *)

StopCall ==
    /\ flowPc = "idle"
    /\ running
    /\ flowPc' = "lock" /\ next' = "idle"
    /\ UNCHANGED <<running, lock, attempts, connected, renderPc, numbers>>

(* Mutant: the flag is cleared without waiting for the frame in progress. *)
BugStopLocks ==
    /\ flowPc = "lock"
    /\ running' = FALSE
    /\ flowPc' = "join"
    /\ UNCHANGED <<lock, connected, renderPc, numbers, call>>

(* Stop takes the lock, which it keeps until it returns. *)
StopLocks ==
    /\ flowPc = "lock"
    /\ lock = Free
    /\ lock' = "flow"
    /\ running' = FALSE
    /\ flowPc' = "join"
    /\ UNCHANGED <<connected, renderPc, numbers, call>>

(* Mutant: the thread is left to end by itself. *)
BugStopJoins ==
    /\ flowPc = "join"
    /\ flowPc' = "disconnect"
    /\ UNCHANGED <<running, lock, connected, renderPc, numbers, call>>

(* _renderThread is joined, if there is one. *)
StopJoins ==
    /\ flowPc = "join"
    /\ UseRenderThread => renderPc \in {"none", "done"}
    /\ renderPc' = IF UseRenderThread THEN "none" ELSE renderPc
    /\ flowPc' = "disconnect"
    /\ UNCHANGED <<running, lock, connected, numbers, call>>

StopDisconnects ==
    /\ flowPc = "disconnect"
    /\ connected' = FALSE
    /\ lock' = Free
    /\ flowPc' = next
    /\ UNCHANGED <<running, renderPc, numbers, call>>
-----------------------------------------------------------------------------
(* RenderThread and RenderSingleFrame. *)

RenderLoops ==
    /\ renderPc = "loop"
    /\ renderPc' = IF running THEN "lock" ELSE "done"
    /\ UNCHANGED <<running, lock, connected, flowPc, numbers, call>>

Back == IF UseRenderThread THEN "loop" ELSE "lock"

FrameBegins ==
    /\ renderPc = "lock"
    /\ lock = Free
    /\ IF running THEN lock' = "render" /\ renderPc' = "frame"
                  ELSE UNCHANGED lock /\ renderPc' = Back
    /\ UNCHANGED <<running, connected, flowPc, numbers, call>>

FrameSent ==
    /\ renderPc = "frame"
    /\ lastSent' = seqNr
    /\ seqNr' = (seqNr + 1) % SeqNumbers
    /\ lock' = Free
    /\ renderPc' = Back
    /\ UNCHANGED <<running, connected, flowPc, call>>
-----------------------------------------------------------------------------
Start == \/ StartCall \/ StartRefused \/ StartGranted \/ SetRunning \/ Connected
         \/ ConnectFails \/ ResetNumbers \/ CreateRenderThread
Stop == StopCall \/ StopLocks \/ StopJoins \/ StopDisconnects
Render == RenderLoops \/ FrameBegins \/ FrameSent

Next == Start \/ Stop \/ Render

Spec == Init /\ [][Next]_vars

(* The threads run.  A thread that waits for _lock gets it in the end: the *)
(* threads that render sleep between two frames.                           *)
Fairness ==
    /\ WF_vars(RenderLoops) /\ WF_vars(FrameSent)
    /\ SF_vars(StopLocks) /\ WF_vars(StopJoins) /\ WF_vars(StopDisconnects)

FairSpec == Spec /\ Fairness
-----------------------------------------------------------------------------
TypeOK ==
    /\ running \in BOOLEAN /\ connected \in BOOLEAN
    /\ lock \in {Free, "flow", "render"}
    /\ attempts \in 0..MaxAttempts
    /\ seqNr \in 0..SeqNumbers - 1
    /\ lastSent \in -1..SeqNumbers - 1
    /\ flowPc \in FlowPcs /\ next \in {"idle", "begin"}
    /\ renderPc \in RenderPcs

(* Between two calls of the flow a session is whole: the flag, the         *)
(* connection and the thread that renders are there, or none of them is.   *)
SessionIsWhole ==
    flowPc = "idle" =>
        /\ running <=> connected
        /\ UseRenderThread => (running <=> renderPc # "none")

(* A frame in progress belongs to a session that nobody stops meanwhile:   *)
(* Stop waits for it, and once Stop has cleared _running none is begun.    *)
NoFrameAfterStop == renderPc = "frame" => running

(* Every frame goes out over the connection that Start made, which Stop    *)
(* closes only when the thread that renders is gone.                       *)
FramesAreConnected == [][FrameSent => connected]_vars

(* The frames of a session are numbered from 0, each one on from the last. *)
FramesFollowOn ==
    [][FrameSent => lastSent' = (lastSent + 1) % SeqNumbers]_vars

(* Stop returns. *)
StopReturns == flowPc = "lock" ~> flowPc \in {"idle", "begin"}
=============================================================================
