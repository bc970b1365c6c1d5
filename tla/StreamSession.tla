--------------------------- MODULE StreamSession ---------------------------
(***************************************************************************)
(* stream/Stream.cpp and stream/StreamStarter.cpp as the connection flow   *)
(* calls them: starting and stopping the streaming session with a bridge.  *)
(* The render thread and its lock are the subject of module Stream.        *)
(*                                                                         *)
(* The operators take and return a record w with at least the fields       *)
(*   heap    the bridge objects                                            *)
(*   stream  on     _running                                               *)
(*           id, ip, sel  of _activeBridgeCopy, by which the code          *)
(*                  recognises the session's bridge and group              *)
(*           owner  the object whose group list the copy shares: the copy  *)
(*                  is shallow, so a group that is deactivated through the *)
(*                  copy is deactivated for that object; 0 when none does  *)
(* The bridge's answers to the HTTP requests are parameters.               *)
(***************************************************************************)
EXTENDS HueStreamData

PutAnswers == {"ok", "dead", "unauthorized", "nogroup", "busy", "refused"}

(* CheckForErrors: what the answer to a PUT on the selected group does to  *)
(* the bridge it was sent for.                                             *)
AfterPut(b, answer) ==
    CASE answer = "ok"           -> [b EXCEPT !.busy = FALSE]
      [] answer = "dead"         -> [b EXCEPT !.validIp = FALSE]
      [] answer = "unauthorized" -> [b EXCEPT !.auth = FALSE]
      [] answer = "busy"         -> [b EXCEPT !.busy = TRUE]
      [] answer = "nogroup"      -> [b EXCEPT !.groups = @ \ {b.sel},
                                              !.mine = @ \ {b.sel}]
      [] answer = "refused"      -> b

(* StreamStarter::Stop on bridge object o. *)
StarterStop(w, o, answer) ==
    LET b == AfterPut(w.heap[o], answer)
    IN  [w EXCEPT !.heap[o] = IF answer = "ok"
                              THEN [b EXCEPT !.mine = @ \ {b.sel}]
                              ELSE b]

(* StreamStarter::Stop on _activeBridgeCopy: of the bridge objects only    *)
(* the groups that the copy shares change.                                 *)
StarterStopCopy(w, answer) ==
    IF w.stream.owner # 0 /\ answer \in {"ok", "nogroup"}
    THEN [w EXCEPT !.heap[w.stream.owner].mine = @ \ {w.stream.sel},
                   !.heap[w.stream.owner].groups =
                       IF answer = "ok" THEN @ ELSE @ \ {w.stream.sel}]
    ELSE w

IsSameBridgeAndGroup(w, o) ==
    /\ w.heap[o].id = w.stream.id
    /\ w.heap[o].ip = w.stream.ip
    /\ w.heap[o].sel = w.stream.sel

(* Stream::Stop(bridge): the session ends whatever the bridge answers. *)
StopSession(w, o, answer) ==
    IF ~w.stream.on THEN w
    ELSE LET off  == [w EXCEPT !.stream.on = FALSE]
             copy == IF IsSameBridgeAndGroup(w, o)
                     THEN off
                     ELSE StarterStopCopy(off, answer)
         IN  IF IsStreaming(copy.heap[o])
             THEN StarterStop(copy, o, answer)
             ELSE copy

(* Stream::Stop(): on the session's own bridge, the copy, which asks the   *)
(* bridge to stop if its group is still this application's.                *)
StopOwnSession(w, answer) ==
    LET off   == [w EXCEPT !.stream.on = FALSE]
        owner == w.stream.owner
    IN  IF w.stream.on /\ owner # 0
        THEN IF w.stream.sel \in w.heap[owner].mine
             THEN StarterStopCopy(off, answer)
             ELSE off
        ELSE off

(* StreamStarter::StartStream, with the answer to its last request: "ok"   *)
(* takes the group; a bridge that stays busy after the forced retry has    *)
(* its selected group marked inactive, which never was this application's. *)
StarterStart(w, o, answer) ==
    LET b == AfterPut(w.heap[o], answer)
    IN  [w EXCEPT !.heap[o] = IF answer = "ok"
                              THEN [b EXCEPT !.mine = @ \cup {b.sel}]
                              ELSE b]

(* Stream::StartStreamingSession.  Answer "noport" is "ok" to the request, *)
(* and then none of the five attempts to connect to the streaming port     *)
(* succeeds.  The result is in field started of the returned record.       *)
StartStreamingSession(w, o, go, stop) ==
    LET s == StarterStart(w, o, IF go = "noport" THEN "ok" ELSE go)
        b == s.heap[o]
        running == [s EXCEPT !.stream = [on |-> TRUE, id |-> b.id, ip |-> b.ip,
                                         sel |-> b.sel, owner |-> o]]
    IN  CASE go = "ok"     -> [w |-> running, started |-> TRUE]
          [] go = "noport" -> [w |-> StopOwnSession(running, stop),
                               started |-> FALSE]
          [] OTHER         -> [w |-> s, started |-> FALSE]

(* Stream::Start (and StartWithRenderThread, which adds only the thread).  *)
(* A bridge that is streaming to this application without a session here   *)
(* is left over from a run that ended abruptly: it is stopped first.       *)
StartSession(w, o, go, stop) ==
    LET ended    == [StopOwnSession(w, stop) EXCEPT !.heap[o].busy = FALSE]
        released == IF IsStreaming(ended.heap[o])
                    THEN StarterStop(ended, o, stop)
                    ELSE ended
    IN  IF w.stream.on /\ IsSameBridgeAndGroup(w, o)
        THEN [w |-> w, started |-> TRUE]
        ELSE IF ~IsReadyToStream(released.heap[o])
        THEN [w |-> released, started |-> FALSE]
        ELSE StartStreamingSession(released, o, go, stop)
=============================================================================
