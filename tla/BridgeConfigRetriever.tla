------------------------ MODULE BridgeConfigRetriever ------------------------
(***************************************************************************)
(* BridgeConfigRetriever: fetches the configuration of a CLIP v2 bridge    *)
(* with a chain of requests, and keeps it up to date with an event stream. *)
(*                                                                         *)
(* Two threads are in it, and it has no lock.  The thread of the message   *)
(* dispatcher, "flow", executes retrievals and refreshes and tells of a    *)
(* disconnection; the thread of the HTTP dispatcher, "http", runs the      *)
(* callbacks of the requests, one at a time.  The flags _connected,        *)
(* _refreshing and _busy are atomic, and this module has one step for each *)
(* access of one that the other thread's accesses can come between.        *)
(*                                                                         *)
(* A retriever is destructed only at the end of the flow that has it.      *)
(***************************************************************************)
EXTENDS Naturals, Sequences

CONSTANTS
    Bridges,            \* ids of bridges
    NoBridge,
    Calls,              \* calls of Execute, in order 1 .. N
    Refresh,            \* stands for the call in RefreshBridgeConnection
    NoCall,
    LastResource,       \* there are resources 1 .. LastResource to get
    Streams,            \* ids of event requests
    NoStream,
    MaxDisturbances     \* bound: events, failures of streams, refreshes, disconnections

ASSUME BoundAssumption == LastResource \in Nat \ {0} /\ MaxDisturbances \in Nat
ASSUME CallsAssumption == Calls \subseteq Nat \ {0}
ASSUME NoneAssumption ==
    /\ NoBridge \notin Bridges /\ NoStream \notin Streams
    /\ NoCall \notin Calls \cup {Refresh} /\ Refresh \notin Calls

VARIABLES
    connected, refreshing, busy,    \* _connected, _refreshing, _busy
    sendConnectFeedback,            \* _sendConnectFeedback
    bridge,             \* _bridge: its id, flags, and whether its config is complete
    cb,                 \* the call that _cb belongs to, NoCall for nullptr
    resourceToGet,      \* _resourceToGet
    updatingWhiteList,  \* the static flag of GetOwnerName
    eventRequestId,     \* _eventRequestId
    responseEvent,      \* the stream that the start of _responseEvent is from, NoStream
                        \* when it is empty
    requests,           \* how many requests are under way: of fetches by stage, and
                        \* of GetOwnerName
    streams,            \* the event requests that can be cancelled
    flow, http,         \* where each of the two threads is
    called,             \* history: the calls made so far
    answers,            \* history: the results each call was answered with
    incomplete,         \* history: a call was answered SUCCESS with an incomplete config
    released,           \* history: the Finish of an event or of a name has released a
                        \* retriever in use, or that of a name has called _cb
    stuck,              \* history: a call has returned with _busy set and nothing under way
    lost,               \* history: a refresh failed, or a disconnection came during a fetch
    disturbances        \* history: counts what MaxDisturbances bounds

flags == <<connected, refreshing, busy, sendConnectFeedback>>
data == <<bridge, cb, resourceToGet, updatingWhiteList>>
network == <<eventRequestId, responseEvent, requests, streams>>
outcome == <<answers, incomplete, released, stuck, lost, disturbances>>
history == <<called, outcome>>
vars == <<flags, data, network, flow, http, history>>

\* Where flow is: waiting for _busy, in DoExecute, in RefreshBridgeConnection,
\* in CancelHttpRequest, after Abort, about to set _connected; in which call,
\* NoCall for a disconnection.
Flow == [at : {"idle", "wait", "decide", "refresh", "cancel", "aborted", "claim"},
         call : Calls \cup {Refresh, NoCall}, bridge : Bridges \cup {NoBridge},
         stream : Streams \cup {NoStream}]

\* Where http is: in ParseJsonEvent; in Finish, about to reset _busy or
\* _refreshing; at the end of OnGetResource, three steps.  fetch says whether it
\* is the callback of a request of a fetch.
Http == [at : {"idle", "event", "unbusy", "unrefresh", "listen", "open", "done"},
         fetch : BOOLEAN]

\* The requests of a fetch, one after the other.
Stages == {"whitelist", "applicationId", "resource"}

Idle == [at |-> "idle", call |-> NoCall, bridge |-> NoBridge, stream |-> NoStream]
HttpIdle == [at |-> "idle", fetch |-> TRUE]

Init ==
    /\ connected = FALSE /\ refreshing = FALSE /\ busy = FALSE
    /\ sendConnectFeedback = FALSE
    /\ bridge = [id |-> NoBridge, valid |-> FALSE, authorized |-> FALSE, complete |-> FALSE]
    /\ cb = NoCall /\ resourceToGet = 1 /\ updatingWhiteList = FALSE
    /\ eventRequestId = NoStream /\ responseEvent = NoStream /\ streams = {}
    /\ requests = [st \in Stages \cup {"ownerName"} |-> 0]
    /\ flow = Idle /\ http = HttpIdle
    /\ called = 0 /\ answers = [c \in Calls |-> <<>>]
    /\ incomplete = FALSE /\ released = FALSE /\ stuck = FALSE /\ lost = FALSE
    /\ disturbances = 0

Fetching == (\E st \in Stages : requests[st] > 0) \/ http.at \in {"listen", "open", "done"}
InCall == flow.at \notin {"idle", "wait"} /\ flow.call # NoCall

Disturbed == disturbances < MaxDisturbances /\ disturbances' = disturbances + 1
Goes(place) == flow' = [flow EXCEPT !.at = place]

\* The result that a call is told, with the bridge as it is.
Answer(c, result, complete) ==
    /\ answers' = IF c \in Calls THEN [answers EXCEPT ![c] = Append(@, result)] ELSE answers
    /\ incomplete' = (incomplete \/ (c \in Calls /\ result = "SUCCESS" /\ ~complete))

-----------------------------------------------------------------------------
(* flow: Execute *)

CallExecute(c, b) ==
    /\ flow = Idle
    /\ c = called + 1
    /\ called' = c
    /\ flow' = [Idle EXCEPT !.at = "wait", !.call = c, !.bridge = b]
    /\ UNCHANGED <<flags, data, network, http, outcome>>

\* Mutant: _busy is read, and set later.
BugTakeBusy ==
    /\ flow.at = "wait"
    /\ Goes("decide")
    /\ busy' = TRUE
    /\ UNCHANGED <<connected, refreshing, sendConnectFeedback, data, network, http, history>>

TakeBusy ==
    /\ flow.at = "wait"
    /\ ~busy
    /\ busy' = TRUE
    /\ Goes("decide")
    /\ UNCHANGED <<connected, refreshing, sendConnectFeedback, data, network, http, history>>

\* Ten seconds are over; the last attempt may have set _busy.
GiveUp ==
    /\ flow.at = "wait"
    /\ busy' = TRUE
    /\ stuck' = (stuck \/ ~busy)
    /\ Answer(flow.call, "FAILED", bridge.complete)
    /\ flow' = Idle
    /\ UNCHANGED <<connected, refreshing, sendConnectFeedback, data, network, http,
                   released, lost, disturbances, called>>

\* Abort, up to the end of CancelHttpRequest.
Abort(f) ==
    \/ /\ eventRequestId \notin streams
       /\ eventRequestId' = NoStream
       /\ flow' = [f EXCEPT !.at = "aborted"]
    \/ /\ eventRequestId \in streams
       /\ flow' = [f EXCEPT !.at = "cancel", !.stream = eventRequestId]
       /\ UNCHANGED eventRequestId

\* OnBridgeDisconnect, called by f.
OnBridgeDisconnect(f) ==
    /\ connected
    /\ connected' = FALSE
    /\ lost' = (lost \/ Fetching)
    /\ Abort(f)
    /\ UNCHANGED <<refreshing, busy, sendConnectFeedback, data, requests, streams, http,
                   answers, incomplete, released, stuck, called, responseEvent>>

Decide ==
    /\ flow.at = "decide"
    /\ LET other == bridge.id # NoBridge /\ bridge.id # flow.bridge
       IN \/ other /\ OnBridgeDisconnect(flow) /\ UNCHANGED disturbances
          \/ /\ ~(other /\ connected)
             /\ Goes("claim")
             /\ UNCHANGED <<flags, data, network, http, history>>

\* The callbacks of the cancelled stream are over, the last one tells nothing.
CancelReturns ==
    /\ flow.at = "cancel"
    /\ http = HttpIdle
    /\ streams' = streams \ {flow.stream}
    /\ eventRequestId' = NoStream
    /\ Goes("aborted")
    /\ UNCHANGED <<flags, data, requests, http, history, responseEvent>>

Aborted ==
    /\ flow.at = "aborted"
    /\ sendConnectFeedback' = (flow.call # Refresh)
    /\ refreshing' = IF flow.call = Refresh THEN TRUE ELSE refreshing
    /\ IF flow.call = NoCall THEN flow' = Idle ELSE Goes("claim")
    /\ UNCHANGED <<connected, busy, data, network, http, history>>

\* DoExecute finds the bridge connected: it is answered at once, and _busy reset.
AlreadyConnected ==
    /\ flow.at = "claim"
    /\ connected
    /\ Answer(flow.call, IF bridge.valid /\ bridge.authorized THEN "SUCCESS" ELSE "FAILED",
              bridge.complete)
    /\ busy' = FALSE
    /\ refreshing' = IF flow.call = Refresh THEN FALSE ELSE refreshing
    /\ flow' = Idle
    /\ UNCHANGED <<connected, sendConnectFeedback, data, network, http, released, stuck, lost,
                   disturbances, called>>

\* The rest of DoExecute, and UpdateWhitelist.
StartFetch ==
    /\ flow.at = "claim"
    /\ ~connected
    /\ connected' = TRUE
    /\ bridge' = IF flow.call = Refresh THEN bridge
                 ELSE [id |-> flow.bridge, valid |-> TRUE, authorized |-> TRUE,
                       complete |-> FALSE]
    /\ cb' = IF flow.call = Refresh THEN NoCall ELSE flow.call
    /\ requests' = [requests EXCEPT !["whitelist"] = @ + 1]
    /\ flow' = Idle
    /\ UNCHANGED <<refreshing, busy, sendConnectFeedback, resourceToGet, eventRequestId, streams,
                   http, history, responseEvent, updatingWhiteList>>

-----------------------------------------------------------------------------
(* flow: OnBridgeMonitorEvent and RefreshBridgeConnection *)

BridgeDisconnected ==
    /\ flow = Idle
    /\ Disturbed
    /\ OnBridgeDisconnect(Idle)

\* The monitor asks for it only while the bridge answers.
CallRefresh ==
    /\ flow = Idle
    /\ bridge.valid /\ bridge.authorized
    /\ ~busy
    /\ Disturbed
    /\ busy' = TRUE
    /\ flow' = [Idle EXCEPT !.at = "refresh", !.call = Refresh, !.bridge = bridge.id]
    /\ UNCHANGED <<connected, refreshing, sendConnectFeedback, data, network, http, answers,
                   incomplete, released, stuck, lost, called>>

\* It returns early, and leaves _busy set.
RefreshRefused ==
    /\ flow.at = "refresh"
    /\ refreshing \/ ~connected
    /\ flow' = Idle
    /\ stuck' = TRUE
    /\ UNCHANGED <<flags, data, network, http, answers, incomplete, released, lost,
                   disturbances, called>>

\* Mutant: the event stream is left open.
BugRefreshGoesOn ==
    /\ flow.at = "refresh"
    /\ ~refreshing /\ connected
    /\ connected' = FALSE
    /\ Goes("aborted")
    /\ UNCHANGED <<refreshing, busy, sendConnectFeedback, data, network, http, history>>

RefreshGoesOn ==
    /\ flow.at = "refresh"
    /\ ~refreshing /\ connected
    /\ connected' = FALSE
    /\ Abort(flow)
    /\ UNCHANGED <<refreshing, busy, sendConnectFeedback, data, requests, streams, http,
                   history, responseEvent>>

-----------------------------------------------------------------------------
(* http: Finish, up to the reset of _busy *)

Finish(result, complete) ==
    /\ connected' = (connected /\ ~(result = "FAILED" /\ cb # NoCall))
    /\ sendConnectFeedback' = (sendConnectFeedback /\ ~connected')
    /\ Answer(cb, result, complete)

FinishFailed(fetch) ==
    /\ Finish("FAILED", bridge.complete)
    /\ http' = [at |-> "unbusy", fetch |-> fetch]

\* Mutant: a failure leaves _busy set.
BugUnbusy ==
    /\ http.at = "unbusy"
    /\ http' = [http EXCEPT !.at = "unrefresh"]
    /\ UNCHANGED <<flags, data, network, flow, history>>

Unbusy ==
    /\ http.at = "unbusy"
    /\ busy' = FALSE
    /\ released' = (released \/ (~http.fetch /\ (InCall \/ Fetching)))
    /\ http' = [http EXCEPT !.at = "unrefresh"]
    /\ UNCHANGED <<connected, refreshing, sendConnectFeedback, data, network, flow, answers,
                   incomplete, stuck, lost, disturbances, called>>

Unrefresh ==
    /\ http.at = "unrefresh"
    /\ refreshing' = FALSE
    /\ released' = (released \/ (~http.fetch /\ refreshing))
    /\ http' = HttpIdle
    /\ UNCHANGED <<connected, busy, sendConnectFeedback, data, network, flow, answers,
                   incomplete, stuck, lost, disturbances, called>>

-----------------------------------------------------------------------------
(* http: the callbacks of the requests of a fetch *)

Answered(st) == http = HttpIdle /\ requests[st] > 0
Done(st) == requests' = [requests EXCEPT ![st] = @ - 1]
Then(st, next) == requests' = [requests EXCEPT ![st] = @ - 1, ![next] = @ + 1]

\* What a failure tells of the bridge: which of valid and authorized are set or reset.
Told(st) ==
    IF st = "whitelist"
    THEN {[bridge EXCEPT !.valid = FALSE], [bridge EXCEPT !.valid = TRUE, !.authorized = FALSE]}
    ELSE {bridge, [bridge EXCEPT !.valid = FALSE], [bridge EXCEPT !.authorized = FALSE]}

RequestFails(st) ==
    /\ Answered(st)
    /\ Done(st)
    /\ bridge' \in Told(st)
    /\ FinishFailed(TRUE)
    /\ lost' = (lost \/ cb = NoCall)
    /\ UNCHANGED <<refreshing, busy, cb, resourceToGet, eventRequestId, streams, flow, released,
                   stuck, disturbances, called, responseEvent, updatingWhiteList>>

WhitelistUpdated ==
    /\ Answered("whitelist")
    /\ bridge' = [bridge EXCEPT !.valid = TRUE, !.authorized = TRUE]
    /\ Then("whitelist", "applicationId")
    /\ UNCHANGED <<flags, cb, resourceToGet, eventRequestId, streams, flow, http, history,
                   responseEvent, updatingWhiteList>>

\* GetFullConfig.
ApplicationIdReceived ==
    /\ Answered("applicationId")
    /\ bridge' = [bridge EXCEPT !.complete = FALSE]
    /\ resourceToGet' = 1
    /\ Then("applicationId", "resource")
    /\ UNCHANGED <<flags, cb, eventRequestId, streams, flow, http, history, responseEvent,
                   updatingWhiteList>>

\* GetOwnerName, for a group that may have a streamer whose name is not known: the
\* whitelist is asked for again, unless it already is.
GetOwnerName ==
    \/ UNCHANGED <<requests, updatingWhiteList, disturbances>>
    \/ /\ ~updatingWhiteList
       /\ updatingWhiteList' = TRUE
       /\ requests' = [requests EXCEPT !["ownerName"] = @ + 1]
       /\ Disturbed

OwnerNameReceived ==
    /\ Answered("ownerName")
    /\ bridge' = [bridge EXCEPT !.valid = TRUE, !.authorized = TRUE]
    /\ Done("ownerName")
    /\ updatingWhiteList' = FALSE
    /\ UNCHANGED <<flags, cb, resourceToGet, eventRequestId, responseEvent, streams, flow, http,
                   history>>

\* It finishes a retrieval, as a request of a fetch does, and the static flag
\* stays set: no name is asked for again.
OwnerNameFails ==
    /\ Answered("ownerName")
    /\ bridge' \in Told("whitelist")
    /\ Done("ownerName")
    /\ FinishFailed(FALSE)
    /\ released' = (released \/ cb # NoCall)
    /\ UNCHANGED <<refreshing, busy, cb, resourceToGet, updatingWhiteList, eventRequestId,
                   responseEvent, streams, flow, stuck, lost, disturbances, called>>

\* OnGetResource, before the last one.  A cursor, with which the same resource
\* is asked for again, changes nothing here.
ResourceReceived ==
    /\ Answered("resource")
    /\ resourceToGet < LastResource
    /\ resourceToGet' = resourceToGet + 1
    /\ GetOwnerName
    /\ UNCHANGED <<flags, bridge, cb, eventRequestId, responseEvent, streams, flow, http,
                   called, answers, incomplete, released, stuck, lost>>

\* Mutant: _cb is kept.
BugLastResourceReceived ==
    /\ Answered("resource")
    /\ resourceToGet = LastResource
    /\ resourceToGet' = resourceToGet + 1
    /\ bridge' = [bridge EXCEPT !.complete = TRUE]
    /\ Done("resource")
    /\ Finish("SUCCESS", TRUE)
    /\ cb' = cb
    /\ http' = [HttpIdle EXCEPT !.at = "listen"]
    /\ UNCHANGED <<refreshing, busy, updatingWhiteList, eventRequestId, streams, flow, released,
                   stuck, lost, disturbances, called, responseEvent>>

LastResourceReceived ==
    /\ Answered("resource")
    /\ resourceToGet = LastResource
    /\ resourceToGet' = resourceToGet + 1
    /\ bridge' = [bridge EXCEPT !.complete = TRUE]
    /\ Done("resource")
    /\ Finish("SUCCESS", TRUE)
    /\ cb' = NoCall
    /\ http' = [HttpIdle EXCEPT !.at = "listen"]
    /\ UNCHANGED <<refreshing, busy, updatingWhiteList, eventRequestId, streams, flow, released,
                   stuck, lost, disturbances, called, responseEvent>>

ReportRefreshed ==
    /\ http.at = "listen"
    /\ refreshing' = FALSE
    /\ http' = [http EXCEPT !.at = "open"]
    /\ UNCHANGED <<connected, busy, sendConnectFeedback, data, network, flow, history>>

\* The id of the request is one that is not in use any more; that Streams has
\* enough of them is a part of RetrieverGoesOn.
ListenToEvents ==
    /\ http.at = "open"
    /\ LET unused == Streams \ (streams \cup {flow.stream, responseEvent})
           s == CHOOSE s \in unused : TRUE
       IN /\ unused # {}
          /\ streams' = streams \cup {s}
          /\ eventRequestId' = s
    /\ http' = [http EXCEPT !.at = "done"]
    /\ UNCHANGED <<flags, data, requests, flow, history, responseEvent>>

FetchDone ==
    /\ http.at = "done"
    /\ busy' = FALSE
    /\ http' = HttpIdle
    /\ UNCHANGED <<connected, refreshing, sendConnectFeedback, data, network, flow, history>>

-----------------------------------------------------------------------------
(* http: the callbacks of the event stream *)

\* A part of an event: nothing is done before the rest has come.
PartArrives(s) ==
    /\ http = HttpIdle
    /\ s \in streams
    /\ responseEvent = NoStream
    /\ Disturbed
    /\ responseEvent' = s
    /\ UNCHANGED <<flags, data, eventRequestId, requests, streams, flow, http, called, answers,
                   incomplete, released, stuck, lost>>

\* The rest of an event or a whole one.  What comes after the part of an event
\* of another stream is never understood, and changes nothing here.
EventArrives(s) ==
    /\ http = HttpIdle
    /\ s \in streams
    /\ responseEvent \in {NoStream, s}
    /\ Disturbed
    /\ responseEvent' = NoStream
    /\ http' = [at |-> "event", fetch |-> FALSE]
    /\ UNCHANGED <<flags, data, eventRequestId, requests, streams, flow, called, answers,
                   incomplete, released, stuck, lost>>

\* ParseEventResponseAndExecuteCallback, for an event that is parsed or not.
EventParsed ==
    /\ http.at = "event"
    /\ \/ Finish("SUCCESS", bridge.complete) /\ http' = [http EXCEPT !.at = "unbusy"]
       \/ Finish("FAILED", bridge.complete) /\ http' = [http EXCEPT !.at = "unbusy"]
    /\ GetOwnerName
    /\ UNCHANGED <<refreshing, busy, bridge, cb, resourceToGet, eventRequestId, responseEvent,
                   streams, flow, released, stuck, lost, called>>

\* The stream ends with an error; its request is forgotten.
StreamFails(s) ==
    /\ http = HttpIdle
    /\ s \in streams
    /\ Disturbed
    /\ streams' = streams \ {s}
    /\ FinishFailed(FALSE)
    /\ lost' = (lost \/ cb = NoCall)
    /\ UNCHANGED <<refreshing, busy, data, eventRequestId, requests, flow, released, stuck,
                   called, responseEvent>>

-----------------------------------------------------------------------------
FlowStep ==
    TakeBusy \/ GiveUp \/ Decide \/ CancelReturns \/ Aborted \/ AlreadyConnected \/ StartFetch
    \/ RefreshRefused \/ RefreshGoesOn

HttpStep ==
    Unbusy \/ Unrefresh \/ ReportRefreshed \/ ListenToEvents \/ FetchDone \/ EventParsed

RequestAnswered ==
    WhitelistUpdated \/ ApplicationIdReceived \/ ResourceReceived \/ LastResourceReceived
    \/ OwnerNameReceived \/ OwnerNameFails
    \/ \E st \in Stages : RequestFails(st)

Next ==
    \/ \E c \in Calls, b \in Bridges : CallExecute(c, b)
    \/ FlowStep \/ HttpStep \/ RequestAnswered
    \/ BridgeDisconnected \/ CallRefresh
    \/ \E s \in Streams : PartArrives(s) \/ EventArrives(s) \/ StreamFails(s)

Spec == Init /\ [][Next]_vars

\* Both threads go on, and a request is answered, by its timeout at the latest.
FairSpec == Spec /\ WF_vars(FlowStep) /\ WF_vars(HttpStep) /\ WF_vars(RequestAnswered)

-----------------------------------------------------------------------------
(* Properties.  The three things that go wrong in this code are recorded in *)
(* released, stuck and lost; the properties say that nothing else does.     *)

TypeOK ==
    /\ connected \in BOOLEAN /\ refreshing \in BOOLEAN /\ busy \in BOOLEAN
    /\ sendConnectFeedback \in BOOLEAN /\ incomplete \in BOOLEAN
    /\ released \in BOOLEAN /\ stuck \in BOOLEAN /\ lost \in BOOLEAN
    /\ bridge \in [id : Bridges \cup {NoBridge}, valid : BOOLEAN, authorized : BOOLEAN,
                   complete : BOOLEAN]
    /\ cb \in Calls \cup {NoCall}
    /\ updatingWhiteList \in BOOLEAN
    /\ resourceToGet \in 1 .. LastResource + 1
    /\ eventRequestId \in Streams \cup {NoStream}
    /\ responseEvent \in Streams \cup {NoStream}
    /\ requests \in [Stages \cup {"ownerName"} -> Nat]
    /\ streams \subseteq Streams
    /\ flow \in Flow /\ http \in Http
    /\ called \in Calls \cup {0}
    /\ answers \in [Calls -> Seq({"SUCCESS", "FAILED"})]
    /\ disturbances \in 0 .. MaxDisturbances

(***************************************************************************)
(* There is one chain of requests at a time, so that _resourceToGet and    *)
(* _bridge belong to it, and _busy is set from the start of a call to the  *)
(* end of the fetch that it starts - unless an event that arrives, or the  *)
(* whitelist that fails to, meanwhile releases the retriever.              *)
(***************************************************************************)
OneFetch ==
    ~released =>
        /\ requests["whitelist"] + requests["applicationId"] + requests["resource"]
             + (IF http.at \in {"listen", "open", "done"} THEN 1 ELSE 0)
             + (IF InCall THEN 1 ELSE 0) <= 1
        /\ Fetching \/ InCall => busy
        /\ requests["resource"] > 0 => resourceToGet <= LastResource

(***************************************************************************)
(* The converse: _busy is set because a call or a fetch is under way, so   *)
(* that Execute need not wait for nothing - unless a call has returned     *)
(* without resetting it.                                                   *)
(***************************************************************************)
BusyIsHeld ==
    busy /\ ~stuck => InCall \/ Fetching \/ http.at = "unbusy"

\* _busy says neither too little nor too much.
BusyIsExact == OneFetch /\ BusyIsHeld

\* A call of Execute is answered once, by the fetch, by DoExecute or by the
\* timeout, and an event later does not call _cb again.
OneAnswer == ~released /\ ~lost => \A c \in Calls : Len(answers[c]) <= 1

(***************************************************************************)
(* No call is told SUCCESS with a bridge the lists of which GetFullConfig  *)
(* has cleared and not filled again.                                       *)
(***************************************************************************)
SuccessIsComplete == incomplete => released \/ lost

\* What a caller is told is told once, and true of its bridge; the types.
AnswerIsSound == TypeOK /\ OneAnswer /\ SuccessIsComplete

(***************************************************************************)
(* A connected retriever that is at rest listens to one event stream, the  *)
(* one that Abort cancels, and one that is not connected to none: after    *)
(* any order of retrievals, refreshes and disconnections no stream is left *)
(* behind or missing.                                                      *)
(***************************************************************************)
OneStreamWhenConnected ==
    ~released /\ ~lost /\ flow = Idle /\ http = HttpIdle /\ ~Fetching =>
        streams = IF connected THEN {eventRequestId} ELSE {}

\* Every call of Execute is answered.
ExecuteIsAnswered ==
    \A c \in Calls : called >= c ~> Len(answers[c]) > 0 \/ released

\* The retriever becomes free again.
BusyEnds == busy ~> ~busy \/ stuck \/ released

\* Neither a caller nor the retriever waits for ever.
RetrieverGoesOn == ExecuteIsAnswered /\ BusyEnds

============================================================================
