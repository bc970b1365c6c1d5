--------------------------- MODULE ConnectionFlow ---------------------------
(***************************************************************************)
(* connect/ConnectionFlow.cpp: the state machine behind every procedure a  *)
(* client can ask for (load, connect, reset, select a group, start and     *)
(* stop streaming).                                                        *)
(*                                                                         *)
(* Every public operation and every answer of a collaborator queues one    *)
(* action in the message dispatcher, which runs them one at a time in the  *)
(* order they were queued (module MessageDispatcherProofs proves that it   *)
(* does).  So a handler is one atomic step here.                           *)
(***************************************************************************)
EXTENDS FlowState

(* The functions that the handlers share, callees first. *)

(* Start, when the flow is Idle. *)
Begin(w, req) ==
    LET asked == [w EXCEPT !.request = req]
        begun == Say(asked, "USERPROCEDURE_STARTED")
        clone == Fresh(begun, 1)
    IN  IF req = "INTERNAL" THEN asked
        ELSE [Create(begun, clone, <<ActiveBridge(begun)>>)
              EXCEPT !.startState = clone[1]]

(* Of the messages that CompareBridges lists only the loss of the          *)
(* connection is acted upon, by the retriever.                             *)
SayChanges(w, ids) ==
    [w EXCEPT !.full = IF "BRIDGE_DISCONNECTED" \in Range(ids)
                       THEN OnBridgeDisconnect(@) ELSE @]

(* Mutant: the client is told the end only of a procedure that changed     *)
(* something.                                                              *)
BugFinish(w) ==
    LET idle == [w EXCEPT !.state = "Idle"]
        changes == CompareBridges(w.heap[w.startState], ActiveBridge(w))
    IN  IF w.request = "INTERNAL" \/ changes = <<>>
        THEN [idle EXCEPT !.request = "INTERNAL"]
        ELSE [Say(SayChanges(idle, changes), "USERPROCEDURE_FINISHED")
              EXCEPT !.request = "INTERNAL"]

Finish(w) ==
    LET idle == [w EXCEPT !.state = "Idle"]
        compared == SayChanges(idle, CompareBridges(w.heap[w.startState],
                                                    ActiveBridge(w)))
        finished == Say(compared, "USERPROCEDURE_FINISHED")
    IN  [(IF w.request = "INTERNAL" THEN idle ELSE finished)
         EXCEPT !.request = "INTERNAL"]

ActionRequired(status) ==
    CASE status \in {"EMPTY", "NOT_FOUND"} -> "NO_BRIDGE_FOUND"
      [] status \in {"NOT_CONNECTABLE", "NOT_CONNECTED"} -> "BRIDGE_NOT_FOUND"
      [] status \in {"INVALID_MODEL", "INVALID_VERSION", "NO_GROUP_AVAILABLE",
                     "INVALID_GROUP_SELECTED", "BUSY"} -> status
      [] status \in {"INVALID_CLIENTKEY", "READY", "STREAMING"} ->
             "INTERNAL_ERROR"

ReportActionRequired(w) ==
    LET done == Say(w, "DONE_ACTION_REQUIRED")
    IN  Say(done, ActionRequired(GetStatus(ActiveBridge(done))))

(* StartSaving: Save runs to its end, its result is queued. *)
StartSaving(w, opens) ==
    Post([Say(w, "START_SAVING") EXCEPT
            !.state = "Saving",
            !.file = IF opens THEN StoredBridges(w.heap, w.data) ELSE @],
         [m |-> "SavingCompleted", ok |-> opens])

(* StartLoading: so does Load.  What follows is next, for object next.o.   *)
StartLoading(w, next, opens) ==
    LET said   == [Say(w, "START_LOADING") EXCEPT !.state = "Loading"]
        loads  == opens /\ w.file # NoFile
        stored == IF loads THEN w.file ELSE <<EmptyBridge>>
        os     == FreshBesides(said, next.o, Len(stored))
    IN  Post(Create(said, os, stored),
             [m |-> "LoadingCompleted", ok |-> loads, bridges |-> os,
              next |-> next])

StartBridgeSearch(w) ==
    [Say(w, "START_SEARCHING") EXCEPT
       !.state = IF @ = "SearchingFirst" THEN "SearchingRetry"
                 ELSE "SearchingFirst",
       !.search = TRUE]

(* The searcher is stopped, or destroyed.  If it was still searching, it   *)
(* may deliver an empty result.                                            *)
SearchStopped(w, delivers) ==
    LET stopped == [w EXCEPT !.search = FALSE]
    IN  IF w.search /\ delivers
        THEN Post(stopped, [m |-> "BridgeSearchCompleted", bridges |-> <<>>])
        ELSE stopped

StartRetrieveSmallConfig(w, o) ==
    [Say([w EXCEPT !.state = "Retrieving"], "START_RETRIEVING_SMALL")
     EXCEPT !.small = {o}]

(* Authenticator::Authenticate: the request is made in the handler.  Of a  *)
(* bridge that knows no client keys an attempt finds this out, and the     *)
(* next gets a user without one: "keyless" is the two together.            *)
PushLinked(b, answer) ==
    CASE answer = "dead"    -> [b EXCEPT !.validIp = FALSE]
      [] answer = "waiting" -> [b EXCEPT !.auth = FALSE]
      [] answer = "pressed" -> [b EXCEPT !.auth = TRUE, !.cred = "full"]
      [] answer = "keyless" -> [b EXCEPT !.auth = TRUE, !.version = FALSE,
                                  !.cred = IF @ = "full" THEN "full" ELSE "user"]

PushLinkBridge(w, o, answer) ==
    Post([w EXCEPT !.heap[o] = PushLinked(@, answer)],
         [m |-> "AuthenticationCompleted", o |-> o])

(* Every bridge is asked, in turn, as by PushLinkBridge; answers[i] is the *)
(* answer of the i-th.                                                     *)
StartAuthentication(w, os, answers) ==
    LET said == Say(Say(w, "START_AUTHORIZING"), "PRESS_PUSH_LINK")
        Place(o) == CHOOSE i \in DOMAIN os : os[i] = o
    IN  [said EXCEPT
           !.state = "Authenticating",
           !.count = Len(os),
           !.procs = [o \in Range(os) |-> [n |-> Place(o) - 1, tries |-> 0]],
           !.heap = [o \in Objects |->
               IF o \in Range(os) THEN PushLinked(@[o], answers[Place(o)])
                                  ELSE @[o]],
           !.queue = @ \o [i \in DOMAIN os |->
                              [m |-> "AuthenticationCompleted", o |-> os[i]]]]

(***************************************************************************)
(* StartRetrieveFullConfig.  The retriever is kept between procedures and  *)
(* replaced when the bridge speaks the other protocol; the one that is     *)
(* replaced is never heard of again.  Retriever fields:                    *)
(*   kind        "v1" ConfigRetriever, "v2" BridgeConfigRetriever          *)
(*   busy        _busy                                                     *)
(*   pending     its requests to the bridge are under way                  *)
(*   asked       a completion is owed: _cb is set                          *)
(*   connected, refreshing, announce (_sendConnectFeedback)  v2 only       *)
(*   obj         _bridge: v1 writes to the bridge it was given, v2 to a    *)
(*               clone of it                                               *)
(***************************************************************************)
ExecuteV1(w) ==
    IF w.full.busy THEN w
    ELSE Say([w EXCEPT !.full.busy = TRUE, !.full.pending = TRUE,
                       !.full.asked = TRUE, !.full.obj = Active(w.data)],
             "START_RETRIEVING")

(* Mutant: a connected retriever completes only if the bridge is well. *)
BugExecuteV2(w) ==
    LET o     == w.full.obj
        clone == Fresh(w, 1)
    IN  IF w.full.busy \/ w.full.connected
        THEN IF ~w.full.busy /\ w.heap[o].auth /\ w.heap[o].validIp
             THEN Post(w, [m |-> "FullConfigCompleted", o |-> o, ok |-> TRUE])
             ELSE w
        ELSE Say([Create(w, clone, <<ActiveBridge(w)>>) EXCEPT
                    !.full = [@ EXCEPT !.busy = TRUE, !.pending = TRUE,
                              !.asked = TRUE, !.connected = TRUE,
                              !.obj = clone[1]]],
                 "START_RETRIEVING")

(* Execute waits 10 seconds for a busy retriever and then fails; if the    *)
(* retriever gets ready in that time, the step is taken after that.        *)
ExecuteV2(w) ==
    LET o     == w.full.obj
        other == o # 0 /\ w.heap[o].id # ActiveBridge(w).id
        r     == IF other THEN OnBridgeDisconnect(w.full) ELSE w.full
        clone == Fresh(w, 1)
    IN  IF w.full.busy
        THEN Post(w, [m |-> "FullConfigCompleted", ok |-> FALSE,
                      o |-> Active(w.data)])
        ELSE IF r.connected
        THEN Post(w, [m |-> "FullConfigCompleted", o |-> o,
                      ok |-> w.heap[o].auth /\ w.heap[o].validIp])
        ELSE Say([Create(w, clone, <<ActiveBridge(w)>>) EXCEPT
                    !.full = [r EXCEPT !.busy = TRUE, !.pending = TRUE,
                              !.asked = TRUE, !.connected = TRUE,
                              !.obj = clone[1]]],
                 "START_RETRIEVING")

StartRetrieveFullConfig(w) ==
    LET kind == IF ActiveBridge(w).v2 THEN "v2" ELSE "v1"
        r == IF w.full.kind = kind THEN w.full
             ELSE [NoRetriever EXCEPT !.kind = kind]
        v == [w EXCEPT !.state = "Retrieving", !.full = r]
    IN  IF kind = "v2" THEN ExecuteV2(v) ELSE ExecuteV1(v)

(* RefreshBridgeConnection, of a v2 retriever only.  It returns with _busy *)
(* set when it finds that it is refreshing or not connected.               *)
RefreshBridgeConnection(w) ==
    LET clone == Fresh(w, 1)
    IN  IF w.full.kind # "v2" \/ w.full.busy THEN w
        ELSE IF w.full.refreshing \/ ~w.full.connected
        THEN [w EXCEPT !.full.busy = TRUE]
        ELSE [Create(w, clone, <<w.heap[w.full.obj]>>) EXCEPT
                !.full = [@ EXCEPT !.busy = TRUE, !.pending = TRUE,
                          !.asked = FALSE, !.refreshing = TRUE,
                          !.announce = FALSE, !.obj = clone[1]]]

(* A retrieval failed for bridge o. *)
RetrieveFailed(w, o, answers, opens) ==
    LET said == SayAs(w, w.request, "FINISH_RETRIEVING_FAILED", o)
        b    == w.heap[o]
    IN  IF ~b.validIp /\ b.auth THEN StartBridgeSearch(said)
        ELSE IF b.validIp /\ ~b.auth
        THEN IF w.request = "CONNECT_BACKGROUND"
             THEN Finish(Say(said, "DONE_BRIDGE_FOUND"))
             ELSE StartAuthentication(said, <<o>>, answers)
        ELSE StartSaving(ReportActionRequired(
                 [said EXCEPT !.heap[o].validIp = FALSE,
                              !.heap[o].auth = FALSE]), opens)

(* How a procedure continues when loading has ended: the callback that the *)
(* handler gave to StartLoading.                                           *)
Continue(w, next) ==
    CASE next.k = "Finish"   -> Finish(w)
      [] next.k = "Search"   -> StartBridgeSearch(w)
      [] next.k = "Resume"   -> IF IsEmpty(ActiveBridge(w))
                                THEN StartBridgeSearch(w)
                                ELSE StartRetrieveSmallConfig(w, Active(w.data))
      [] next.k = "Retrieve" -> StartRetrieveSmallConfig(w, next.o)
      [] next.k = "Adopt"    -> StartRetrieveSmallConfig(SetActive(w, next.o),
                                                         next.o)

BugStopIfStreaming(w, answer) == w   \* mutant: the session goes on

(* A procedure that gives up the active bridge ends its session first. *)
StopIfStreaming(w, answer) ==
    IF IsStreaming(ActiveBridge(w))
    THEN StopSession(w, Active(w.data), answer)
    ELSE w
-----------------------------------------------------------------------------
(* A request to a bridge or the file system is answered in some way. *)
PushRounds == [1..2 -> PushAnswers]   \* for at most two bridges at a time

(* The procedures.  Start accepts one only when the flow is Idle. *)

BugAccepts(m) == Runs(m)   \* mutant: whatever the flow is at

Accepts(m) == Runs(m) /\ state = "Idle"

DoLoad ==
    /\ Accepts("DoLoad")
    /\ \E opens \in FileAnswers :
         Become(StartLoading(Begin(Popped, "LOAD_BRIDGE"),
                             [k |-> "Finish", o |-> 0], opens))

DoConnectToBridge ==
    /\ Accepts("DoConnectToBridge")
    /\ LET w == Begin(Popped, "CONNECT")
       IN  IF background # <<>>
           THEN \E answers \in PushRounds :
                  Become(StartAuthentication([w EXCEPT !.background = <<>>],
                                             background, answers))
           ELSE \E opens \in FileAnswers :
                  Become(StartLoading(w, [k |-> "Resume", o |-> 0], opens))

DoConnectToBridgeBackground ==
    /\ Accepts("DoConnectToBridgeBackground")
    /\ \E opens \in FileAnswers :
         Become(StartLoading(Begin(Popped, "CONNECT_BACKGROUND"),
                             [k |-> "Resume", o |-> 0], opens))

(* A bridge object is created for the continuation. *)
LoadingWith(w, b, k, opens) ==
    LET o == Fresh(w, 1)
    IN  StartLoading(Create(w, o, <<b>>), [k |-> k, o |-> o[1]], opens)

DoConnectToBridgeWithIp ==
    /\ Accepts("DoConnectToBridgeWithIp")
    /\ \E opens \in FileAnswers :
         Become(LoadingWith(Begin(Popped, "CONNECT_IP"),
                            [EmptyBridge EXCEPT !.ip = Msg.ip, !.validIp = TRUE],
                            "Retrieve", opens))

(* Mutant: continues like DoConnectToBridge. *)
BugDoConnectToNewBridge ==
    /\ Accepts("DoConnectToNewBridge")
    /\ \E stop \in StopAnswers, opens \in FileAnswers :
         Become(StartLoading(StopIfStreaming(Begin(Popped, "CONNECT_NEW"), stop),
                             [k |-> "Resume", o |-> 0], opens))

DoConnectToNewBridge ==
    /\ Accepts("DoConnectToNewBridge")
    /\ \E stop \in StopAnswers, opens \in FileAnswers :
         LET w == StopIfStreaming(Begin(Popped, "CONNECT_NEW"), stop)
             o == Fresh(w, 1)
             v == SetActive(Create(w, o, <<EmptyBridge>>), o[1])
         IN  Become(StartLoading(v, [k |-> "Search", o |-> 0], opens))

(* The bridge is the client's: its address, user and client key are set. *)
DoSetManual ==
    /\ Accepts("DoSetManual")
    /\ \E stop \in StopAnswers, opens \in FileAnswers :
         Become(LoadingWith(
             StopIfStreaming(Begin(Popped, "SET_MANUAL_BRIDGE"), stop),
             [EmptyBridge EXCEPT !.ip = Msg.ip, !.cred = "full",
                                 !.validIp = TRUE, !.auth = TRUE],
             "Retrieve", opens))

(* The address is the loopback address, until a search finds the bridge.   *)
DoConnectToBridgeWithIdKey ==
    /\ Accepts("DoConnectToBridgeWithIdKey")
    /\ \E stop \in StopAnswers, opens \in FileAnswers :
         Become(LoadingWith(
             StopIfStreaming(Begin(Popped, "CONNECT_ID_KEY"), stop),
             [EmptyBridge EXCEPT !.id = Msg.id, !.ip = Loopback, !.cred = "full",
                                 !.model = TRUE, !.validIp = TRUE,
                                 !.auth = TRUE],
             "Adopt", opens))

(* DoReset and ClearBridge. *)
DoReset ==
    /\ Accepts("DoReset")
    /\ \E stop \in StopAnswers, opens \in FileAnswers :
         LET w == StopIfStreaming(Begin(Popped, Msg.request), stop)
             o == Fresh(w, 1)
             cleared == [Create(w, o, <<EmptyBridge>>) EXCEPT
                           !.data = IF Msg.request = "RESET_BRIDGE"
                                    THEN ClearActiveBridge(@, o[1])
                                    ELSE ClearBridges(o[1])]
         IN  Become(StartSaving(Say(cleared, "DONE_RESET"), opens))

(* Mutant: the procedure ends before its result is saved. *)
BugDoSelectGroup ==
    /\ Accepts("DoSelectGroup")
    /\ Msg.group \in ActiveBridge(Now).groups
    /\ \E opens \in FileAnswers :
         LET w == Begin(Popped, "SELECT")
         IN  Become(Finish(StartSaving([w EXCEPT !.heap[Active(data)].sel = Msg.group],
                                       opens)))

DoSelectGroup ==
    /\ Accepts("DoSelectGroup")
    /\ \E opens \in FileAnswers :
         LET w == Begin(Popped, "SELECT")
             selects == Msg.group \in ActiveBridge(w).groups
             v == IF selects
                  THEN [w EXCEPT !.heap[Active(data)].sel = Msg.group]
                  ELSE w
             reported == IF IsValidGroupSelected(ActiveBridge(v)) THEN v
                         ELSE ReportActionRequired(v)
         IN  Become(IF selects THEN StartSaving(reported, opens)
                    ELSE Finish(reported))

DoStartStream ==
    /\ Accepts("DoStartStream")
    /\ Become(StartRetrieveFullConfig(Begin(Popped, "ACTIVATE")))

DoStopStream ==
    /\ Accepts("DoStopStream")
    /\ \E stop \in StopAnswers :
         Become(Finish(StopSession(Begin(Popped, "DEACTIVATE"),
                                   Active(data), stop)))

(* Mutant: the search goes on. *)
BugDoAbort ==
    /\ Runs("DoAbort")
    /\ state # "Idle"
    /\ Become(Finish(Say(SetActive([Popped EXCEPT !.count = 0], startState),
                         "DONE_ABORTED")))

DoAbort ==
    /\ Runs("DoAbort")
    /\ state # "Idle"
    /\ \E delivers \in BOOLEAN :
         LET stopped == IF state \in {"SearchingFirst", "SearchingRetry"}
                        THEN SearchStopped(Popped, delivers)
                        ELSE Popped
             w == [stopped EXCEPT
                     !.count = IF state = "Authenticating" THEN 0 ELSE @]
         IN  Become(Finish(Say(SetActive(w, startState), "DONE_ABORTED")))

(* Start refuses: the call is dropped, nobody is told. *)
ProcedureCalls == {"DoLoad", "DoConnectToBridge", "DoConnectToBridgeBackground",
                   "DoConnectToBridgeWithIp", "DoConnectToNewBridge",
                   "DoSetManual", "DoConnectToBridgeWithIdKey", "DoReset",
                   "DoSelectGroup", "DoStartStream", "DoStopStream"}

CallRefused ==
    /\ \E m \in ProcedureCalls : Runs(m)
    /\ state # "Idle"
    /\ Become(Popped)

(* The completions.  Each belongs to states; in another it is stale. *)

LoadingCompleted ==
    /\ Runs("LoadingCompleted")
    /\ state = "Loading"
    /\ LET w == [Popped EXCEPT !.data = Msg.bridges]
           v == IF Msg.ok
                THEN Say(w, "FINISH_LOADING_BRIDGE_CONFIGURED")
                ELSE [Say(w, "FINISH_LOADING_NO_BRIDGE_CONFIGURED")
                      EXCEPT !.heap[Active(Msg.bridges)] = EmptyBridge]
       IN  Become(Continue(v, Msg.next))

(* FilterInvalidAndDuplicateIpAddresses keeps the first of each address. *)
Kept(os) ==
    {i \in DOMAIN os : /\ heap[os[i]].validIp
                       /\ \A j \in 1 .. i - 1 : heap[os[j]].validIp
                              => heap[os[j]].ip # heap[os[i]].ip}

Filtered(os) ==
    [k \in 1 .. Cardinality(Kept(os)) |->
        os[CHOOSE i \in Kept(os) :
               Cardinality({j \in Kept(os) : j < i}) = k - 1]]

NothingFound(w, opens) ==
    IF request = "CONNECT_BACKGROUND"
    THEN Finish(Say(w, "DONE_NO_BRIDGE_FOUND"))
    ELSE IF state = "SearchingFirst" THEN StartBridgeSearch(w)
    ELSE StartSaving(ReportActionRequired(w), opens)

(* Some of the bridges os can be used. *)
BridgesFound(w, os, answers) ==
    LET known == [w EXCEPT !.heap = RediscoveredHeap(heap, data, os)]
        o     == LastRediscovered(heap, data, os)
    IN  IF request # "CONNECT_NEW" /\ Rediscovered(heap, data, os) # {}
        THEN StartRetrieveSmallConfig(SetActive(known, o), o)
        ELSE IF request = "CONNECT_BACKGROUND"
        THEN Finish([Say(w, "DONE_BRIDGE_FOUND") EXCEPT !.background = os])
        ELSE StartAuthentication(w, os, answers)

InvalidBridgesFound(w, os, answers, opens) ==
    IF request # "CONNECT_BACKGROUND" THEN StartAuthentication(w, os, answers)
    ELSE IF IsEmpty(ActiveBridge(w)) THEN Finish(Say(w, "DONE_NO_BRIDGE_FOUND"))
    ELSE StartSaving(ReportActionRequired(w), opens)

(* The result may be one of an earlier search: the searcher that is        *)
(* destroyed is then still searching.                                      *)
BridgeSearchCompleted ==
    /\ Runs("BridgeSearchCompleted")
    /\ state \in {"SearchingFirst", "SearchingRetry"}
    /\ \E delivers \in BOOLEAN :
         LET os == Filtered(Msg.bridges)
             w == SearchStopped(Popped, delivers)
         IN  IF os = <<>>
             THEN \E opens \in FileAnswers : Become(NothingFound(w, opens))
             ELSE \E answers \in PushRounds, opens \in FileAnswers :
                    Become(IF \E o \in Range(os) : heap[o].model
                           THEN BridgesFound(w, os, answers)
                           ELSE InvalidBridgesFound(w, os, answers, opens))

(* A bridge answered a pushlink request.  An attempt that belongs to an    *)
(* earlier procedure is unknown to procs, and gets an entry there.         *)
Attempts(w, o) ==
    IF o \in DOMAIN w.procs THEN w.procs[o] ELSE [n |-> -1, tries |-> 0]

(* Mutant: the next attempt is not scheduled. *)
BugAddTask(w, n, o) == w

(* Scheduler task n repeats the attempt; it replaces an earlier task n. *)
AddTask(w, n, o) ==
    [w EXCEPT !.tasks = {t \in @ : t.n # n} \cup {[n |-> n, o |-> o]}]

(* The bridge is out of tries. *)
AttemptsEnded(w) ==
    IF w.count # 1 THEN [w EXCEPT !.count = @ - 1]
    ELSE [StartBridgeSearch([w EXCEPT !.count = 0]) EXCEPT !.tasks = {}]

Authorized(w, o) ==
    StartRetrieveFullConfig(
        [Say(SetActive([w EXCEPT !.count = @ - 1], o),
             "FINISH_AUTHORIZING_AUTHORIZED") EXCEPT !.tasks = {}])

AuthenticationCompleted ==
    /\ Runs("AuthenticationCompleted")
    /\ state = "Authenticating"
    /\ LET o == Msg.o
           attempts == Attempts(Popped, o)
           tries == attempts.tries + (IF heap[o].validIp THEN 0 ELSE 1)
           w == [Popped EXCEPT
                   !.procs = [p \in {o} \cup DOMAIN @ |->
                       IF p = o THEN [attempts EXCEPT !.tries = tries]
                                ELSE @[p]]]
           retried == [w EXCEPT !.heap[o].validIp = TRUE]
       IN  Become(IF ~heap[o].validIp /\ tries > MaxTries
                  THEN AttemptsEnded(w)
                  ELSE IF heap[o].auth THEN Authorized(retried, o)
                  ELSE AddTask(retried, attempts.n, o))

(* Runs in every state. *)
RepeatPushLink ==
    /\ Runs("PushLinkBridge")
    /\ \E answer \in PushAnswers :
         Become(PushLinkBridge(Popped, Msg.o, answer))

(* Mutant: the result of an aborted procedure is used by the next one. *)
BugSmallConfigCompleted ==
    /\ Runs("SmallConfigCompleted")
    /\ Msg.ok
    /\ Become(StartRetrieveFullConfig(
                SetActive(SayAs(Popped, request, "FINISH_RETRIEVING_SMALL", Msg.o),
                          Msg.o)))

SmallConfigCompleted ==
    /\ Runs("SmallConfigCompleted")
    /\ state = "Retrieving"
    /\ \E answers \in PushRounds, opens \in FileAnswers :
         LET o == Msg.o
             b == heap[o]
             w == SetActive(SayAs(Popped, request, "FINISH_RETRIEVING_SMALL", o),
                            o)
         IN  Become(IF ~Msg.ok THEN RetrieveFailed(Popped, o, answers, opens)
                    ELSE IF ~b.model THEN StartBridgeSearch(w)
                    ELSE IF b.auth \/ HasEverBeenAuthorizedForStreaming(b)
                    THEN StartRetrieveFullConfig(w)
                    ELSE StartAuthentication(w, <<o>>, answers))

(* Mutant: an action that is required is not reported.                     *)
BugFullConfigStored(w) ==
    LET b == ActiveBridge(w)
    IN  IF ~IsValidGroupSelected(b) /\ HasOneGroup(b)
        THEN [w EXCEPT !.heap[Active(w.data)] = SelectOnlyGroup(b)]
        ELSE w

(* A bridge that needs no other action and has one group gets it selected. *)
FullConfigStored(w) ==
    LET b == ActiveBridge(w)
    IN  IF \/ GetStatus(b) \in {"INVALID_MODEL", "INVALID_VERSION",
                                "INVALID_CLIENTKEY", "NO_GROUP_AVAILABLE"}
           \/ ~IsValidGroupSelected(b) /\ ~HasOneGroup(b)
        THEN ReportActionRequired(w)
        ELSE IF IsValidGroupSelected(b) THEN w
        ELSE [w EXCEPT !.heap[Active(w.data)] = SelectOnlyGroup(b)]

FullConfigCompleted ==
    /\ Runs("FullConfigCompleted")
    /\ state = "Retrieving"
    /\ \E answers \in PushRounds, opens \in FileAnswers :
         LET w == SetActive(Popped, Msg.o)
         IN  Become(IF Msg.ok THEN StartSaving(FullConfigStored(w), opens)
                    ELSE RetrieveFailed(w, Msg.o, answers, opens))

(* SavingCompleted and ActivateStreaming.  It runs in every state. *)
ActivateStreaming(w, go, stop) ==
    LET r == StartSession(Say(w, "START_ACTIVATING"), Active(w.data), go, stop)
    IN  Finish(IF r.started
               THEN Say(Say(r.w, "FINISH_ACTIVATING_ACTIVE"), "DONE_COMPLETED")
               ELSE ReportActionRequired(Say(r.w, "FINISH_ACTIVATING_FAILED")))

SavingCompleted ==
    /\ Runs("SavingCompleted")
    /\ \E go \in StartAnswers, stop \in StopAnswers :
         LET w == [Say(Popped, IF Msg.ok THEN "FINISH_SAVING_SAVED"
                               ELSE "FINISH_SAVING_FAILED")
                   EXCEPT !.heap[Active(data)].busy = FALSE]
             b == ActiveBridge(w)
             switches == IsStreaming(w.heap[w.startState]) /\ request = "SELECT"
             required == request = "ACTIVATE" \/ AutoStart \/ switches
         IN  Become(IF required /\ (IsReadyToStream(b) \/ IsStreaming(b))
                    THEN ActivateStreaming(w, go, stop)
                    ELSE IF ~required /\ IsReadyToStream(b)
                    THEN Finish(Say(w, "DONE_COMPLETED"))
                    ELSE Finish(w))

(* OnBridgeMonitorEvent: an internal request, which ends in the handler    *)
(* unless a v2 bridge has come back.                                       *)
Reconnects(m) == m.id = "BRIDGE_CONNECTED" /\ heap[m.o].v2

MonitorEventHandled(w, m, opens) ==
    LET v == IF m.id = "INVALID_EVENTING_CONNECTION"
             THEN RefreshBridgeConnection(w) ELSE w
    IN  Finish(IF m.id = "BRIDGE_REFRESHED" THEN StartSaving(v, opens)
               ELSE SayAs(v, "INTERNAL", m.id, m.o))

MonitorEvent ==
    /\ Accepts("MonitorEvent")
    /\ \E stop \in StopAnswers, opens \in FileAnswers :
         LET w == SetActive(Begin(Popped, "INTERNAL"), Msg.o)
             v == IF Msg.id = "STREAMING_DISCONNECTED"
                  THEN StopSession(w, Msg.o, stop) ELSE w
         IN  Become(IF Reconnects(Msg) THEN StartRetrieveFullConfig(v)
                    ELSE MonitorEventHandled(v, Msg, opens))

(* While a procedure runs, the events of the monitor are dropped. *)
MonitorEventRefused ==
    /\ Runs("MonitorEvent")
    /\ state # "Idle"
    /\ Become(IF Reconnects(Msg)
              THEN SayAs(Popped, "INTERNAL", Msg.id, Msg.o)
              ELSE Popped)

(* A completion, or an Abort, that the state has no use for. *)
StaleDropped ==
    /\ \/ Runs("LoadingCompleted") /\ state # "Loading"
       \/ /\ Runs("BridgeSearchCompleted")
          /\ state \notin {"SearchingFirst", "SearchingRetry"}
       \/ Runs("AuthenticationCompleted") /\ state # "Authenticating"
       \/ Runs("SmallConfigCompleted") /\ state # "Retrieving"
       \/ Runs("FullConfigCompleted") /\ state # "Retrieving"
       \/ Runs("DoAbort") /\ state = "Idle"
    /\ Become(Popped)

Handles ==
    \/ DoLoad \/ DoConnectToBridge \/ DoConnectToBridgeBackground
    \/ DoConnectToBridgeWithIp \/ DoConnectToNewBridge \/ DoSetManual
    \/ DoConnectToBridgeWithIdKey \/ DoReset \/ DoSelectGroup
    \/ DoStartStream \/ DoStopStream \/ CallRefused \/ DoAbort
    \/ LoadingCompleted \/ BridgeSearchCompleted \/ AuthenticationCompleted
    \/ RepeatPushLink \/ SmallConfigCompleted \/ FullConfigCompleted
    \/ SavingCompleted \/ MonitorEvent \/ MonitorEventRefused \/ StaleDropped
=============================================================================
