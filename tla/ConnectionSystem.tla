-------------------------- MODULE ConnectionSystem --------------------------
(***************************************************************************)
(* The connection flow together with what runs outside the dispatcher's    *)
(* thread, and therefore between two handlers: the client, the bridge      *)
(* search, the configuration retrievers, the scheduler of the pushlink     *)
(* attempts and the connection monitor.                                    *)
(***************************************************************************)
EXTENDS ConnectionFlow

ASSUME SetupsAssumption ==
    \A s \in DOMAIN Setups :
        /\ \A c \in Setups[s].firstCalls \cup Setups[s].calls :
               /\ c.m \in ProcedureCalls \cup {"DoAbort"}
               /\ c.m = "DoReset" => c.request \in {"RESET_BRIDGE", "RESET_ALL"}
        /\ Setups[s].searchAnswers \subseteq Seq(Bridges)

InQueue(m) == \E i \in DOMAIN queue : queue[i].m = m

ClientCalls ==
    /\ calls < MaxCalls
    /\ AbortsWait => ~InQueue("DoAbort")
    /\ \E c \in IF calls = 0 THEN FirstCalls ELSE Calls : Become(Post(Now, c))
    /\ calls' = calls + 1
    /\ UNCHANGED checks

Elsewhere == UNCHANGED <<calls, checks>>

(* A search ends with a list of bridges. *)
SearchEnds ==
    /\ search
    /\ \E bs \in SearchAnswers :
         LET os == Fresh(Now, Len(bs))
         IN  Become(Post([Create(Now, os, bs) EXCEPT !.search = FALSE],
                         [m |-> "BridgeSearchCompleted", bridges |-> os]))
    /\ Elsewhere

(* A request to the address of bridge b may fail, or be answered by the    *)
(* device that has the address.                                            *)
From(b, answers) == {a \in answers : a.kind = "ok" => a.ip = b.ip}

(* ConfigRetriever: what an answer does to the bridge that was asked.  A   *)
(* failure takes the stream from the selected group, if its owner is the   *)
(* user, which it is not on a v2 bridge.  "malformed" is a full            *)
(* configuration that lacks a part.                                        *)
Failed(b, a) ==
    LET lost == [b EXCEPT !.mine = IF b.v2 THEN @ ELSE @ \ {b.sel}]
    IN  CASE a.kind = "dead"         -> [lost EXCEPT !.validIp = FALSE]
          [] a.kind = "malformed"    -> [lost EXCEPT !.auth = TRUE,
                                                     !.validIp = FALSE]
          [] a.kind = "unauthorized" -> [lost EXCEPT !.auth = FALSE,
                                                     !.validIp = TRUE]

SmallConfigured(b, a) ==
    IF a.kind # "ok" THEN Failed(b, a)
    ELSE [b EXCEPT !.id = a.id, !.model = a.model, !.version = a.version,
                   !.v2 = a.v2, !.validIp = TRUE]

FullConfigured(b, a) ==
    LET read == [b EXCEPT !.id = a.id, !.model = a.model,
                          !.version = a.version, !.v2 = a.v2,
                          !.groups = a.groups, !.mine = a.mine,
                          !.auth = TRUE, !.validIp = TRUE]
    IN  IF a.kind # "ok" THEN Failed(b, a)
        ELSE IF IsStreaming(read) THEN read
        ELSE [read EXCEPT !.busy = a.busy]

SmallConfigEnds ==
    /\ \E o \in small : \E a \in From(heap[o], SmallAnswers) :
         Become(Post([Now EXCEPT !.heap[o] = SmallConfigured(@, a),
                                 !.small = {}],
                     [m |-> "SmallConfigCompleted", ok |-> a.kind = "ok",
                      o |-> o]))
    /\ Elsewhere

(* ConfigRetriever, full configuration: the callback queues the            *)
(* completion, then _busy is reset.                                        *)
FullConfigEndsV1 ==
    /\ full.kind = "v1" /\ full.pending
    /\ \E a \in From(heap[full.obj], FullAnswers) :
         Become(Post([Now EXCEPT
                        !.heap[full.obj] = FullConfigured(@, a),
                        !.full = [@ EXCEPT !.pending = FALSE, !.asked = FALSE,
                                           !.busy = ~PromptUnbusy],
                        !.stream.owner =
                            IF @ = full.obj /\ a.kind = "ok" THEN 0 ELSE @],
                     [m |-> "FullConfigCompleted", ok |-> a.kind = "ok",
                      o |-> full.obj]))
    /\ Elsewhere

FullConfigUnbusy ==
    /\ full.kind = "v1" /\ full.busy /\ ~full.pending
    /\ Become([Now EXCEPT !.full.busy = FALSE])
    /\ Elsewhere

(* BridgeConfigRetriever: the completion, if one is owed, and what it      *)
(* tells the flow about the connection.                                    *)
V2Configured(b, a) ==
    CASE a.kind = "dead"         -> [b EXCEPT !.validIp = FALSE, !.groups = {},
                                              !.mine = {}]
      [] a.kind = "unauthorized" -> [b EXCEPT !.auth = FALSE, !.validIp = TRUE]
      [] a.kind = "ok" -> [b EXCEPT !.groups = a.groups, !.mine = a.mine,
                                    !.auth = TRUE, !.validIp = TRUE]

FullConfigEndsV2 ==
    /\ full.kind = "v2" /\ full.pending
    /\ \E a \in From(heap[full.obj], FullAnswers) :
         LET ok == a.kind = "ok"
             o  == full.obj
             connected == full.connected /\ (ok \/ ~full.asked)
             Tell(c, id) ==
                 IF c THEN <<[m |-> "MonitorEvent", id |-> id, o |-> o]>>
                 ELSE <<>>
         IN  Become([Now EXCEPT
               !.heap[o] = V2Configured(@, a),
               !.full = [@ EXCEPT !.pending = FALSE, !.asked = FALSE,
                                  !.busy = FALSE, !.refreshing = FALSE,
                                  !.connected = connected,
                                  !.announce = full.announce /\ ~connected],
               !.queue = @
                   \o Tell(full.announce /\ connected, "BRIDGE_CONNECTED")
                   \o (IF full.asked
                       THEN <<[m |-> "FullConfigCompleted", ok |-> ok, o |-> o]>>
                       ELSE <<>>)
                   \o Tell(full.refreshing /\ ok, "BRIDGE_REFRESHED")
                   \o Tell(full.refreshing /\ ok, "BRIDGE_CHANGED")])
    /\ Elsewhere

(* The scheduler: a pushlink attempt is due again. *)
TaskFires ==
    /\ \E t \in tasks :
         Become(Post([Now EXCEPT !.tasks = @ \ {t}],
                     [m |-> "PushLinkBridge", o |-> t.o]))
    /\ Elsewhere

(* ConnectionMonitor and BridgeStreamingChecker.  The configuration of a   *)
(* v1 bridge is read into a clone; a v2 bridge is asked for a sign of life *)
(* and written to.                                                         *)
CheckStarts ==
    /\ monitored # 0 /\ check = NoCheck
    /\ checks < MaxChecks
    /\ IsConnectable(heap[monitored])
    /\ LET clone == Fresh(Now, 1)
       IN  IF heap[monitored].v2
           THEN Become([Now EXCEPT !.check = [old |-> monitored,
                                              new |-> monitored]])
           ELSE Become([Create(Now, clone, <<heap[monitored]>>)
                        EXCEPT !.check = [old |-> monitored, new |-> clone[1]]])
    /\ checks' = checks + 1
    /\ UNCHANGED calls

(* The messages are queued one by one: the events os on object o. *)
Events(ids, o) ==
    [i \in DOMAIN ids |-> [m |-> "MonitorEvent", id |-> ids[i], o |-> o]]

CheckEndsV1 ==
    /\ check # NoCheck /\ check.old # check.new
    /\ \E a \in From(heap[check.new], FullAnswers) :
         LET old == heap[check.old]
             new == FullConfigured(heap[check.new], a)
         IN  Become([Now EXCEPT
               !.heap[check.new] = new,
               !.check = NoCheck,
               !.queue = @ \o (IF ~IsConnected(old) /\ ~IsConnected(new)
                               THEN <<>>
                               ELSE Events(CompareBridges(old, new),
                                           check.new))])
    /\ Elsewhere

(* "moved": the request went over a new connection, so the event           *)
(* connection of the retriever is taken to be dead.                        *)
CheckEndsV2 ==
    /\ check # NoCheck /\ check.old = check.new
    /\ \E answer \in {"ok", "dead", "moved"} :
         LET o == check.new
             b == heap[o]
             streams == IsStreaming(b)
         IN  Become([Now EXCEPT
               !.heap[o] =
                   CASE answer = "ok"   -> [b EXCEPT !.validIp = TRUE]
                     [] answer = "dead" ->
                          [b EXCEPT !.validIp = IF IsConnected(b) THEN FALSE
                                                ELSE @,
                                    !.mine = IF streams THEN @ \ {b.sel} ELSE @]
                     [] OTHER -> b,
               !.check = NoCheck,
               !.queue = @ \o Events(
                   CASE answer = "ok" /\ ~IsConnected(b) -> <<"BRIDGE_CONNECTED">>
                     [] answer = "moved" /\ IsConnected(b) ->
                            <<"INVALID_EVENTING_CONNECTION">>
                     [] answer = "dead" /\ IsConnected(b) ->
                            (IF streams THEN <<"STREAMING_DISCONNECTED">>
                             ELSE <<>>) \o <<"BRIDGE_DISCONNECTED">>
                     [] OTHER -> <<>>, o)])
    /\ Elsewhere
-----------------------------------------------------------------------------
Init ==
    /\ state = "Idle" /\ request = "INTERNAL" /\ count = 0 /\ procs = << >>
    /\ data = <<1>> /\ startState = 2 /\ background = <<>>
    /\ heap = [o \in Objects |-> EmptyBridge]
    /\ queue = <<>>
    /\ search = FALSE /\ small = {} /\ full = NoRetriever /\ tasks = {}
    /\ setup \in DOMAIN Setups
    /\ file \in Setups[setup].files
    /\ stream = [on |-> FALSE, id |-> NoId, ip |-> NoIp, sel |-> NoGroup,
                 owner |-> 0]
    /\ monitored = 0 /\ check = NoCheck
    /\ told = [open |-> FALSE, request |-> "INTERNAL", said |-> {}]
    /\ calls = 0 /\ checks = 0

Answers == SearchEnds \/ SmallConfigEnds \/ FullConfigEndsV1 \/ FullConfigUnbusy
           \/ FullConfigEndsV2 \/ TaskFires

Next == Handles \/ Answers \/ ClientCalls \/ CheckStarts \/ CheckEndsV1
        \/ CheckEndsV2

Spec == Init /\ [][Next]_vars

(* The dispatcher's thread and the threads that serve requests run: what   *)
(* is queued, asked or due is not left forever.  And a bridge that is      *)
(* asked, and a user who is asked to press the button, again and again in  *)
(* the end comply.  (WF and SF, with the condition under which an action   *)
(* is enabled written out: every handler accepts its message.)             *)
SmallConfigArrives == SmallConfigEnds /\ Last(queue').ok
FullConfigArrives == FullConfigEndsV1 /\ Last(queue').ok
UserPresses == RepeatPushLink /\ heap'[Msg.o].auth

Fairness ==
    /\ []<>(queue = <<>>) \/ []<><<Handles>>_vars
    /\ []<>~search \/ []<><<SearchEnds>>_vars
    /\ []<>(small = {}) \/ []<><<SmallConfigEnds>>_vars
    /\ []<>~full.pending \/ []<><<FullConfigEndsV1>>_vars
    /\ []<>(tasks = {}) \/ []<><<TaskFires>>_vars
    /\ <>[](small = {}) \/ []<><<SmallConfigArrives>>_vars
    /\ <>[]~full.pending \/ []<><<FullConfigArrives>>_vars
    /\ <>[]~(queue # <<>> /\ Msg.m = "PushLinkBridge")
       \/ []<><<UserPresses>>_vars

FairSpec == Spec /\ Fairness
-----------------------------------------------------------------------------
(***************************************************************************)
(* Type correctness.  Activating and Deactivating are entered and left     *)
(* within one handler (ActivateStreaming, DeactivateStreaming).            *)
(***************************************************************************)
TypeOK ==
    /\ state \in States \ {"Activating", "Deactivating"}
    /\ request \in Requests
    /\ count \in 0..Cardinality(Objects)
    /\ DOMAIN procs \subseteq Objects
    /\ data \in Seq(Objects) /\ data # <<>>
    /\ startState \in Objects
    /\ background \in Seq(Objects)
    /\ heap \in [Objects -> Bridges]
    /\ search \in BOOLEAN
    /\ small = {} \/ \E o \in Objects : small = {o}
    /\ \A t \in tasks : t.o \in Objects /\ t.n \in Int
    /\ monitored \in Objects \cup {0}
    /\ told.said \subseteq Milestones

(* Start and Finish bracket every procedure: the client is in one, from    *)
(* USERPROCEDURE_STARTED to USERPROCEDURE_FINISHED, exactly while the flow *)
(* works on a user request, however it is aborted, refused or overtaken.   *)
ProcedureIsOpenWhileBusy ==
    told.open <=> state # "Idle" /\ request # "INTERNAL"

(* In no state does the flow wait for something that will never come: a    *)
(* result that is queued, under way, or due from the scheduler.            *)
(* StartRetrieveFullConfig relies on a retriever that is not busy.         *)
WaitingHasWakeup == PromptUnbusy =>
    CASE state = "Loading" -> InQueue("LoadingCompleted")
      [] state \in {"SearchingFirst", "SearchingRetry"} ->
             search \/ InQueue("BridgeSearchCompleted")
      [] state = "Authenticating" ->
             \/ tasks # {}
             \/ InQueue("AuthenticationCompleted") \/ InQueue("PushLinkBridge")
      [] state = "Retrieving" ->
             \/ small # {} \/ InQueue("SmallConfigCompleted")
             \/ full.pending /\ full.asked
             \/ InQueue("FullConfigCompleted")
      [] state = "Saving" -> InQueue("SavingCompleted")
      [] OTHER -> TRUE

(* While StartBridgeSearch waits for its callback, exactly one result is   *)
(* outstanding: a search that DoAbort stopped cannot answer the next one,  *)
(* provided that the client waits for the end of an abort, and that no     *)
(* event of a monitor comes in between.  A client that queues calls behind *)
(* an abort can have the load of one procedure answer the next one before  *)
(* the aborted search has been dropped.                                    *)
SearchAnswersQueued == {i \in DOMAIN queue : queue[i].m = "BridgeSearchCompleted"}

OneSearchAnswer ==
    AbortsWait /\ state \in {"SearchingFirst", "SearchingRetry"} =>
        IF search THEN SearchAnswersQueued = {}
        ELSE \E i \in DOMAIN queue : SearchAnswersQueued = {i}

(* SavingCompleted does not look at _state: the one of a procedure that    *)
(* was aborted ends whatever procedure it finds, and starts the stream in  *)
(* it.  It finds none if the client waits for the end of an abort: while   *)
(* a procedure works, the only SavingCompleted that is queued is its own.  *)
SavesQueued == {i \in DOMAIN queue : queue[i].m = "SavingCompleted"}

OneSaveAnswer ==
    AbortsWait /\ state # "Idle" =>
        IF state = "Saving" THEN \E i \in DOMAIN queue : SavesQueued = {i}
        ELSE SavesQueued = {}

\* No answer of an aborted search or save is outstanding in a later procedure
\* (BridgeSearchCompleted, SavingCompleted, DoAbort).
OneAnswer == OneSearchAnswer /\ OneSaveAnswer

(* SetActiveBridge keeps one entry for every bridge whose id is known,     *)
(* although ids are written through objects the list shares.               *)
KnownBridgesDistinct ==
    \A i, j \in DOMAIN data :
        heap[data[i]].id = heap[data[j]].id /\ heap[data[i]].id # NoId => i = j

\* The state is well formed, the shared list of bridges included.
WellFormed == TypeOK /\ KnownBridgesDistinct

(* A session that runs between procedures is one with the active bridge:   *)
(* a procedure that leaves a bridge stops the stream to it first.          *)
(* DoConnectToBridgeWithIp does not, nor does a monitor event that leads   *)
(* to a search in an INTERNAL procedure; these are left out.               *)
SessionIsWithActiveBridge ==
    /\ state = "Idle" /\ stream.on
    /\ MaxChecks = 0
    /\ \A c \in Calls : c.m # "DoConnectToBridgeWithIp"
    => /\ stream.id = ActiveBridge(Now).id
       /\ stream.ip = ActiveBridge(Now).ip

(* ActivateStreaming runs only in a procedure that the client asked for    *)
(* and has not been told the end of.  SavingCompleted, which calls it, does *)
(* not look at _state: after an abort, and in the INTERNAL procedures of   *)
(* the monitor, it starts streaming unasked; these are left out.           *)
StreamStartsInProcedure ==
    [][~stream.on /\ stream'.on =>
           \/ told.open
           \/ MaxChecks # 0 \/ \E c \in FirstCalls \cup Calls : c.m = "DoAbort"]_vars

KnownIn(bridges) == {bridges[i].id : i \in
    {j \in DOMAIN bridges : HasEverBeenAuthorizedForStreaming(bridges[j])}}

(* Saving never loses a bridge the user was connected to, unless the       *)
(* client resets: StartSaving writes at least the known bridges that the   *)
(* last Load found.  A Load that fails finds none.                         *)
FileKeepsKnownBridges ==
    [][\/ file = NoFile \/ FALSE \in FileAnswers
       \/ told'.request \in {"RESET_BRIDGE", "RESET_ALL"}
       \/ KnownIn(file) \subseteq KnownIn(file')]_vars

(* ResetBridge deletes what is stored of the active bridge, and of no      *)
(* other (ClearBridge, then StartSaving).                                  *)
ResetBridgeKeepsOthers ==
    [][told'.request = "RESET_BRIDGE" /\ file # NoFile =>
           Cardinality(KnownIn(file) \ KnownIn(file')) <= 1]_vars

\* No procedure but a reset takes a bridge the user knows out of the file, and
\* a reset of one bridge no other.
StoredBridgesAreKept == FileKeepsKnownBridges /\ ResetBridgeKeepsOthers

ProcedureEndsNow == told.open /\ ~told'.open

(* ConnectToNewBridge completes only with a bridge that it searched for.   *)
(* What an aborted procedure left under way (a load, a save, a retrieval)  *)
(* does not complete it, if the client waits for the end of the abort.     *)
NewBridgeIsSearchedFor ==
    told.request = "CONNECT_NEW" /\ "DONE_COMPLETED" \in told.said
    => "START_SEARCHING" \in told.said

(* A procedure that saved its result and ends has told the client one:     *)
(* completed, reset, or that an action is required.  SavingCompleted       *)
(* assumes it of every bridge that is not ready to stream; it is wrong of  *)
(* one that streams, after DoSelectGroup, and when the monitor changes the *)
(* bridge after ReportActionRequired was passed by; these are left out.    *)
OutcomeIsReported ==
    [][/\ ProcedureEndsNow /\ state = "Saving"
       /\ ~IsStreaming(ActiveBridge(Now)) /\ told.request # "SELECT" /\ MaxChecks = 0
       => told'.said \cap {"DONE_COMPLETED", "DONE_RESET", "DONE_ABORTED",
                           "DONE_ACTION_REQUIRED"} # {}]_vars

(* Every procedure ends, under FairSpec. *)
ProcedureEnds == told.open ~> ~told.open
=============================================================================
