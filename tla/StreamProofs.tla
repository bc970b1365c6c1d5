---------------------------- MODULE StreamProofs ----------------------------
(***************************************************************************)
(* The safety of a streaming session, for every number of attempts and     *)
(* every width of the frame number: with a render thread, and, as far as   *)
(* it goes, with an application that renders the frames itself.            *)
(***************************************************************************)
EXTENDS Stream, TLAPS

(* Who holds the lock, and what Stop may rely on while it does. *)
LockInv ==
    /\ lock = "flow" <=> flowPc \in {"join", "disconnect"}
    /\ lock = "render" <=> renderPc = "frame"
    /\ flowPc \in {"join", "disconnect"} => ~running
    /\ renderPc = "frame" => running

(* How far Start and Stop have got.                                        *)
SessionInv ==
    /\ flowPc \in {"run", "connect"} => attempts < MaxAttempts
    /\ flowPc = "begin" => ~running
    /\ flowPc \in {"connect", "reset", "thread", "lock"} => running
    /\ flowPc \in {"begin", "run", "connect"} => ~connected
    /\ flowPc \in {"reset", "thread"} => connected
    /\ SessionIsWhole

(* Which thread renders: the application's is always there.                *)
RenderInv ==
    IF UseRenderThread
    THEN /\ flowPc \in {"begin", "run", "connect", "reset", "thread", "disconnect"}
                => renderPc = "none"
         /\ renderPc = "done" => ~running
         /\ renderPc # "none" => connected
    ELSE renderPc \in {"lock", "frame"} /\ flowPc # "thread"

(* The number of the next frame of a session with a render thread.         *)
NumberInv ==
    UseRenderThread =>
        /\ flowPc \in {"run", "connect", "reset", "thread"} => lastSent = -1
        /\ flowPc = "thread" => seqNr = 0
        /\ renderPc # "none" => seqNr = (lastSent + 1) % SeqNumbers

IInv == TypeOK /\ LockInv /\ SessionInv /\ RenderInv /\ NumberInv

(* Frame numbers stay in their range, and begin with 0. *)
LEMMA NumbersWrap ==
    /\ (-1 + 1) % SeqNumbers = 0
    /\ \A n \in 0..SeqNumbers - 1 : (n + 1) % SeqNumbers \in 0..SeqNumbers - 1
  BY StreamAssumption

LEMMA InitIInv == ASSUME Init PROVE IInv
<1> USE DEF Init
<1>1. TypeOK
  <2>1. attempts \in 0..MaxAttempts /\ seqNr \in 0..SeqNumbers - 1
        /\ lastSent \in -1..SeqNumbers - 1
    BY StreamAssumption
  <2> QED
    BY <2>1, Zenon DEF TypeOK, FlowPcs, RenderPcs
<1>2. LockInv
  BY DEF LockInv, Free
<1>3. SessionInv
  BY DEF SessionInv, SessionIsWhole
<1>4. RenderInv /\ NumberInv
  BY DEF RenderInv, NumberInv
<1> QED
  BY <1>1, <1>2, <1>3, <1>4 DEF IInv

LEMMA NextIInv == ASSUME IInv, [Next]_vars PROVE IInv'
<1> USE StreamAssumption, NumbersWrap
    DEF IInv, TypeOK, LockInv, SessionInv, SessionIsWhole, RenderInv, NumberInv, Free,
        FlowPcs, RenderPcs, numbers, call
<1>1. CASE StartCall
  BY <1>1 DEF StartCall
<1>2. CASE StartRefused
  BY <1>2 DEF StartRefused
<1>3. CASE StartGranted
  BY <1>3 DEF StartGranted
<1>4. CASE SetRunning
  BY <1>4 DEF SetRunning
<1>5. CASE Connected
  BY <1>5 DEF Connected
<1>6. CASE ConnectFails
  BY <1>6 DEF ConnectFails
<1>7. CASE ResetNumbers
  BY <1>7 DEF ResetNumbers
<1>8. CASE CreateRenderThread
  BY <1>8 DEF CreateRenderThread
<1>9. CASE StopCall
  BY <1>9 DEF StopCall
<1>10. CASE StopLocks
  BY <1>10 DEF StopLocks
<1>11. CASE StopJoins
  BY <1>11 DEF StopJoins
<1>12. CASE StopDisconnects
  BY <1>12 DEF StopDisconnects
<1>13. CASE RenderLoops
  BY <1>13 DEF RenderLoops
<1>14. CASE FrameBegins
  BY <1>14 DEF FrameBegins, Back
<1>15. CASE FrameSent
  BY <1>15 DEF FrameSent, Back
<1>16. CASE UNCHANGED vars
  BY <1>16 DEF vars
<1> QED
  BY <1>1, <1>2, <1>3, <1>4, <1>5, <1>6, <1>7, <1>8, <1>9, <1>10, <1>11, <1>12,
     <1>13, <1>14, <1>15, <1>16 DEF Next, Start, Stop, Render

LEMMA SpecIInv == Spec => []IInv
  BY InitIInv, NextIInv, PTL DEF Spec
-----------------------------------------------------------------------------
(* Between two calls of the flow a session is whole: Start and Stop leave  *)
(* the flag, the connection and the render thread, or none of them.        *)
THEOREM SessionsAreWhole == Spec => []SessionIsWhole
  BY SpecIInv, PTL DEF IInv, SessionInv

(* Stop waits for the frame in progress; none is begun once it has cleared *)
(* _running.                                                               *)
THEOREM NoFrameOutlivesStop == Spec => []NoFrameAfterStop
<1>1. IInv => NoFrameAfterStop
  BY DEF IInv, LockInv, NoFrameAfterStop
<1> QED
  BY <1>1, SpecIInv, PTL

(* RenderSingleFrame sends only while the connector is connected: with a   *)
(* render thread, as an application's own frame may be sent during Start.  *)
THEOREM FramesUseTheConnection == ASSUME UseRenderThread
                                  PROVE  Spec => FramesAreConnected
<1>1. ASSUME IInv, [Next]_vars PROVE [FrameSent => connected]_vars
  BY <1>1 DEF IInv, RenderInv, FrameSent
<1> QED
  BY <1>1, SpecIInv, PTL DEF Spec, FramesAreConnected

(* The frames that a render thread sends are numbered from 0 without a     *)
(* gap.                                                                    *)
THEOREM FramesAreNumbered == ASSUME UseRenderThread
                             PROVE  Spec => FramesFollowOn
<1>1. ASSUME IInv, [Next]_vars
      PROVE  [FrameSent => lastSent' = (lastSent + 1) % SeqNumbers]_vars
  BY <1>1 DEF IInv, NumberInv, FrameSent
<1> QED
  BY <1>1, SpecIInv, PTL DEF Spec, FramesFollowOn
=============================================================================
