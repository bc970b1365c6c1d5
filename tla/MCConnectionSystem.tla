------------------------- MODULE MCConnectionSystem -------------------------
(* Networks, stored files and client behaviours for the runs. *)
EXTENDS ConnectionSystem

CONSTANTS b1, b2, i1, i2, g1, g2

Device(id, ip) == [EmptyBridge EXCEPT !.id = id, !.ip = ip, !.validIp = TRUE,
                                      !.model = TRUE, !.version = TRUE]
Known(id, ip) == [Device(id, ip) EXCEPT !.auth = TRUE, !.cred = "full",
                                        !.groups = {g1}, !.sel = g1]
Unsupported(id, ip) == [Device(id, ip) EXCEPT !.model = FALSE]
Speaks2(bridge) == [bridge EXCEPT !.v2 = TRUE]

Small(id, ip) == [kind |-> "ok", id |-> id, ip |-> ip, model |-> TRUE,
                  version |-> TRUE, v2 |-> FALSE]
Full(id, ip, groups, mine) ==
    [kind |-> "ok", id |-> id, ip |-> ip, model |-> TRUE, version |-> TRUE,
     v2 |-> FALSE, groups |-> groups, mine |-> mine, busy |-> FALSE]
Failure(kind) == [kind |-> kind]

Call(m) == [m |-> m]
WithIp(ip) == [m |-> "DoConnectToBridgeWithIp", ip |-> ip]
Manual(ip) == [m |-> "DoSetManual", ip |-> ip]
WithIdKey(id) == [m |-> "DoConnectToBridgeWithIdKey", id |-> id]
Reset(which) == [m |-> "DoReset", request |-> which]
Select(group) == [m |-> "DoSelectGroup", group |-> group]

(* One known bridge with a group or two, and a device next to it that does *)
(* not support streaming: connect, select a group, start, stop streaming.  *)
Plain == [
    firstCalls |-> {Call("DoConnectToBridge")},
    calls |-> {Call("DoConnectToBridge"), Call("DoStartStream"),
               Call("DoStopStream"), Select(g2), WithIp(i2)},
    maxCalls |-> 2, maxChecks |-> 0, maxTries |-> 1,
    autoStart |-> FALSE, promptUnbusy |-> TRUE, abortsWait |-> FALSE,
    files |-> {<<Known(b1, i1)>>},
    searchAnswers |-> {<<>>, <<Device(b1, i1)>>, <<Unsupported(b2, i2)>>},
    smallAnswers |-> {Small(b1, i1), Failure("dead")},
    fullAnswers |-> {Full(b1, i1, {g1}, {}), Full(b1, i1, {g1, g2}, {g1}),
                     Failure("dead"), Failure("unauthorized")},
    pushAnswers |-> {"waiting", "pressed"},
    startAnswers |-> {"ok", "busy"}, stopAnswers |-> {"ok"},
    fileAnswers |-> {TRUE}]

(* With automatic start, and every failure of the file, the button, the    *)
(* requests and the port.                                                  *)
Streaming == [Plain EXCEPT
    !.autoStart = TRUE,
    !.pushAnswers = @ \cup {"dead"},
    !.startAnswers = @ \cup {"noport", "unauthorized", "nogroup", "refused"},
    !.fullAnswers = @ \cup {Failure("malformed")},
    !.stopAnswers = @ \cup {"dead"},
    !.fileAnswers = {TRUE, FALSE}]

(* Two bridges: how a client gets from one to the other, or resets them,   *)
(* with a retriever that may still be busy.                                *)
Switching == [Plain EXCEPT
    !.autoStart = TRUE, !.promptUnbusy = FALSE,
    !.firstCalls = {Call("DoLoad"), Call("DoConnectToBridge")},
    !.calls = {Call("DoConnectToBridge"), Call("DoConnectToNewBridge"),
               Call("DoConnectToBridgeBackground"), Call("DoStartStream"),
               Manual(i2), WithIdKey(b2), Reset("RESET_BRIDGE"),
               Reset("RESET_ALL")},
    !.files = {<<Known(b1, i1), Known(b2, i2)>>},
    !.searchAnswers = {<<>>, <<Device(b2, i2)>>,
                       <<Device(b1, i1), Device(b2, i2)>>},
    !.smallAnswers = {Small(b1, i1), Small(b2, i2), Failure("dead")},
    !.fullAnswers = {Full(b1, i1, {g1}, {}), Full(b2, i2, {g1}, {}),
                     Failure("dead"), Failure("unauthorized")}]

(* A bridge that speaks CLIP v1 or v2, and that starts and stops streaming *)
(* by itself while the monitor watches it.                                 *)
Watching == [Plain EXCEPT
    !.maxChecks = 1,
    !.calls = {Call("DoConnectToBridge"), Call("DoStartStream"),
               Call("DoStopStream")},
    !.files = @ \cup {<<Speaks2(Known(b1, i1))>>},
    !.smallAnswers = @ \cup {Speaks2(Small(b1, i1))},
    !.fullAnswers = {Full(b1, i1, {g1}, {}), Full(b1, i1, {g1}, {g1}),
                     Speaks2(Full(b1, i1, {g1}, {})), Failure("dead")}]

(* Aborts at every point of a procedure. *)
Aborting == [Plain EXCEPT
    !.calls = {Call("DoConnectToBridge"), Call("DoAbort")},
    !.maxCalls = 3,
    !.pushAnswers = @ \cup {"dead"},
    !.searchAnswers = {<<>>, <<Device(b1, i1)>>},
    !.fullAnswers = {Full(b1, i1, {g1}, {}), Failure("unauthorized")}]

(* A client that waits for the end of every abort, and then calls on.      *)
Waiting == [Aborting EXCEPT
    !.abortsWait = TRUE,
    !.calls = {Call("DoConnectToNewBridge"), Call("DoStartStream"),
               Call("DoAbort")},
    !.maxCalls = 4,
    !.smallAnswers = {Small(b1, i1)},
    !.fullAnswers = {Failure("unauthorized")},
    !.pushAnswers = {"dead"}]

(* What a client that waits gets after an abort at any point of a          *)
(* procedure that would succeed, or save and then stream.                  *)
Renewing == [Plain EXCEPT
    !.autoStart = TRUE, !.abortsWait = TRUE,
    !.calls = {Call("DoConnectToBridge"), Call("DoConnectToNewBridge"),
               Select(g1), Reset("RESET_BRIDGE"), Call("DoAbort")},
    !.maxCalls = 4,
    !.searchAnswers = {<<>>, <<Device(b2, i2)>>},
    !.smallAnswers = {Small(b1, i1), Small(b2, i2), Failure("dead")},
    !.fullAnswers = {Full(b1, i1, {g1}, {}), Full(b2, i2, {g1}, {})},
    !.pushAnswers = {"pressed"}, !.startAnswers = {"ok"}]

NoAborts == [streaming |-> Streaming, switching |-> Switching,
             watching |-> Watching]
Aborts == [aborting |-> Aborting, waiting |-> Waiting, renewing |-> Renewing]
ResetComesFirst ==
    [switching |-> [Switching EXCEPT !.firstCalls = Switching.calls]]
=============================================================================
