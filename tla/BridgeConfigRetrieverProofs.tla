--------------------- MODULE BridgeConfigRetrieverProofs ---------------------
(***************************************************************************)
(* Proofs about BridgeConfigRetriever, for every number of calls, bridges, *)
(* resources, events and disconnections: unless one of the recorded mishaps*)
(* has happened there is one fetch at a time, _busy says exactly whether   *)
(* the retriever is in use, every call is told one result, that of a       *)
(* complete configuration if it is SUCCESS, and a connected retriever      *)
(* listens to one event stream.                                            *)
(***************************************************************************)
EXTENDS BridgeConfigRetriever, TLAPS

StageOfFetch == requests["whitelist"] > 0 \/ requests["applicationId"] > 0
                \/ requests["resource"] > 0

\* The request of a fetch that has failed is not over until it resets _busy.
AtEndOfFetch ==
    http.at \in {"listen", "open", "done"} \/ (http.at = "unbusy" /\ http.fetch)

\* In use: by a call, by a fetch, or by the end of a fetch.
Users ==
    requests["whitelist"] + requests["applicationId"] + requests["resource"]
    + (IF AtEndOfFetch THEN 1 ELSE 0) + (IF InCall THEN 1 ELSE 0)

\* Where a call, and where the callback of a request can be.
PlaceInv ==
    /\ flow.at \in {"wait", "decide", "refresh", "claim"} => flow.call # NoCall
    /\ flow.at = "idle" => flow = Idle
    /\ http.at = "event" => ~http.fetch

\* _busy is a lock that a call takes and hands on to the fetch it starts.
LockInv ==
    /\ ~released => Users <= 1 /\ (Users = 1 => busy)
    /\ ~released /\ requests["resource"] > 0 => resourceToGet <= LastResource
    /\ BusyIsHeld

\* The stream is closed before a fetch and opened at its end.  A callback that
\* is kept means that there is no stream, and so no event to call it again.
StreamInv ==
    ~released /\ ~lost =>
        /\ cb # NoCall => streams = {} /\ http.at # "event"
        /\ http.at = "event" => streams # {}
        /\ Fetching => connected /\ flow.at \notin {"cancel", "aborted"}
        /\ Fetching /\ http.at # "done" => streams = {}
        /\ http.at = "done" => streams = {eventRequestId}
        /\ http.at \in {"listen", "open", "done"} => cb = NoCall /\ bridge.complete
        /\ connected /\ ~Fetching => streams = {eventRequestId} /\ bridge.complete
        /\ ~connected /\ flow.at # "cancel" => streams = {}
        /\ flow.at = "cancel" => ~connected /\ streams = {flow.stream}

\* The call that is under way is the last one made; the callback that is kept is
\* that of an earlier one, which is answered when its fetch is over.
AnswerInv ==
    /\ flow.call \in Calls => flow.call = called /\ answers[flow.call] = << >>
                              /\ cb # flow.call
    /\ cb \in Calls => cb <= called
    /\ \A c \in Calls : c > called => answers[c] = << >>
    /\ ~released /\ ~lost =>
          /\ \A c \in Calls : Len(answers[c]) <= 1
          /\ cb \in Calls /\ StageOfFetch => answers[cb] = << >>
          /\ ~incomplete

IInv == TypeOK /\ PlaceInv /\ LockInv /\ StreamInv /\ AnswerInv

\* The two halves of the types, for the two kinds of provers.
Flags ==
    /\ connected \in BOOLEAN /\ refreshing \in BOOLEAN /\ busy \in BOOLEAN
    /\ sendConnectFeedback \in BOOLEAN /\ incomplete \in BOOLEAN
    /\ released \in BOOLEAN /\ stuck \in BOOLEAN /\ lost \in BOOLEAN
    /\ updatingWhiteList \in BOOLEAN

BridgeType == bridge \in [id : Bridges \cup {NoBridge}, valid : BOOLEAN,
                          authorized : BOOLEAN, complete : BOOLEAN]
FlowType == flow \in Flow
HttpType == http \in Http
RequestsType == requests \in [Stages \cup {"ownerName"} -> Nat]
AnswersType == answers \in [Calls -> Seq({"SUCCESS", "FAILED"})]
OtherTypes ==
    /\ cb \in Calls \cup {NoCall}
    /\ resourceToGet \in 1 .. LastResource + 1
    /\ eventRequestId \in Streams \cup {NoStream}
    /\ responseEvent \in Streams \cup {NoStream}
    /\ streams \subseteq Streams
    /\ called \in Calls \cup {0}
    /\ disturbances \in 0 .. MaxDisturbances

\* What the lock excludes.
LEMMA CallExcludesFetch ==
    ASSUME RequestsType, LockInv, ~released
    PROVE  /\ InCall => ~Fetching /\ ~AtEndOfFetch
           /\ StageOfFetch => ~AtEndOfFetch
  BY DEF RequestsType, LockInv, Users, AtEndOfFetch, Fetching, StageOfFetch,
     Stages, InCall

\* A result goes to one call.
LEMMA AnswerGoesToOne ==
    ASSUME AnswersType, NEW c, NEW result, NEW complete, Answer(c, result, complete)
    PROVE  /\ \A d \in Calls : d # c => answers'[d] = answers[d]
           /\ c \in Calls => answers'[c] = Append(answers[c], result)
           /\ c \notin Calls => answers' = answers
  BY DEF AnswersType, Answer

\* Only SUCCESS, told to a call, can be told too early.
LEMMA AnswerIsComplete ==
    ASSUME Flags, NEW c, NEW result, NEW complete, Answer(c, result, complete),
           result = "FAILED" \/ c \notin Calls \/ complete
    PROVE  incomplete' = incomplete
  BY Zenon DEF Flags, Answer

\* Each Boolean stays one.
LEMMA FlagsStep ==
    ASSUME Flags, [Next]_vars
    PROVE  Flags'
<1>1. ASSUME NEW c \in Calls, NEW b \in Bridges, CallExecute(c, b)
      PROVE  Flags'
  BY <1>1 DEF CallExecute, Flags, flags, data, outcome
<1>2. CASE TakeBusy \/ GiveUp \/ Decide \/ CancelReturns
  <2>1. CASE TakeBusy
    BY <2>1 DEF TakeBusy, Goes, data, network, history, outcome, Flags
  <2>2. CASE GiveUp
    BY <2>2 DEF GiveUp, Answer, data, network, Flags
  <2>3. CASE Decide
    BY <2>3 DEF Decide, OnBridgeDisconnect, Abort, Goes, flags, data, history,
       outcome, Flags
  <2>4. CASE CancelReturns
    BY <2>4 DEF CancelReturns, Goes, flags, data, history, outcome, Flags
  <2>. QED
    BY <1>2, <2>1, <2>2, <2>3, <2>4
<1>3. CASE Aborted \/ AlreadyConnected \/ StartFetch
  <2>1. CASE Aborted
    BY <2>1 DEF Aborted, data, history, outcome, Flags
  <2>2. CASE AlreadyConnected
    BY <2>2 DEF AlreadyConnected, Answer, data, Flags
  <2>3. CASE StartFetch
    BY <2>3 DEF StartFetch, history, outcome, Flags
  <2>. QED
    BY <1>3, <2>1, <2>2, <2>3
<1>4. CASE BridgeDisconnected \/ CallRefresh \/ RefreshRefused \/ RefreshGoesOn
  <2>1. CASE BridgeDisconnected
    BY <2>1 DEF BridgeDisconnected, OnBridgeDisconnect, data, Flags
  <2>2. CASE CallRefresh
    BY <2>2 DEF CallRefresh, data, Flags
  <2>3. CASE RefreshRefused
    BY <2>3 DEF RefreshRefused, flags, data, Flags
  <2>4. CASE RefreshGoesOn
    BY <2>4 DEF RefreshGoesOn, data, history, outcome, Flags
  <2>. QED
    BY <1>4, <2>1, <2>2, <2>3, <2>4
<1>5. ASSUME NEW st \in Stages, RequestFails(st)
      PROVE  Flags'
  BY <1>5 DEF RequestFails, FinishFailed, Finish, Answer, Flags
<1>6. CASE Unbusy \/ Unrefresh \/ ReportRefreshed \/ ListenToEvents \/ FetchDone
          \/ EventParsed
  <2>1. CASE Unbusy
    BY <2>1 DEF Unbusy, data, network, Flags
  <2>2. CASE Unrefresh
    BY <2>2 DEF Unrefresh, data, network, Flags
  <2>3. CASE ReportRefreshed
    BY <2>3 DEF ReportRefreshed, data, history, outcome, Flags
  <2>4. CASE ListenToEvents
    BY <2>4 DEF ListenToEvents, flags, data, history, outcome, Flags
  <2>5. CASE FetchDone
    BY <2>5 DEF FetchDone, data, history, outcome, Flags
  <2>6. CASE EventParsed
    BY <2>6 DEF EventParsed, Finish, Answer, GetOwnerName, Disturbed, Flags
  <2>. QED
    BY <1>6, <2>1, <2>2, <2>3, <2>4, <2>5, <2>6
<1>7. ASSUME NEW s \in Streams, StreamFails(s)
      PROVE  Flags'
  BY <1>7 DEF StreamFails, FinishFailed, Finish, Answer, Flags, data
<1>8. CASE WhitelistUpdated \/ ApplicationIdReceived \/ OwnerNameReceived
          \/ OwnerNameFails \/ ResourceReceived \/ LastResourceReceived
  <2>1. CASE WhitelistUpdated
    BY <2>1 DEF WhitelistUpdated, flags, history, outcome, Flags
  <2>2. CASE ApplicationIdReceived
    BY <2>2 DEF ApplicationIdReceived, flags, history, outcome, Flags
  <2>3. CASE OwnerNameReceived
    BY <2>3 DEF OwnerNameReceived, flags, history, outcome, Flags
  <2>4. CASE OwnerNameFails
    BY <2>4 DEF OwnerNameFails, FinishFailed, Finish, Answer, Flags
  <2>5. CASE ResourceReceived
    BY <2>5 DEF ResourceReceived, GetOwnerName, flags, Flags
  <2>6. CASE LastResourceReceived
    BY <2>6 DEF LastResourceReceived, Finish, Answer, Flags
  <2>. QED
    BY <1>8, <2>1, <2>2, <2>3, <2>4, <2>5, <2>6
<1>9. ASSUME NEW s \in Streams, PartArrives(s)
      PROVE  Flags'
  BY <1>9 DEF PartArrives, Flags, flags, data
<1>11. ASSUME NEW s \in Streams, EventArrives(s)
      PROVE  Flags'
  BY <1>11 DEF EventArrives, Flags, flags, data
<1>10. CASE UNCHANGED vars
  BY <1>10 DEF vars, Flags, flags, data, history, outcome
<1>. QED
  BY <1>1, <1>2, <1>3, <1>4, <1>5, <1>6, <1>7, <1>8, <1>9, <1>10, <1>11
     DEF Next, FlowStep, HttpStep, RequestAnswered

\* The bridge, and what is known of it.
LEMMA BridgeTypeStep ==
    ASSUME BridgeType, FlowType, [Next]_vars
    PROVE  BridgeType'
<1>1. CASE StartFetch
  BY <1>1 DEF StartFetch, BridgeType, FlowType, Flow
<1>2. ASSUME NEW st \in Stages, RequestFails(st)
      PROVE  BridgeType'
  BY <1>2 DEF RequestFails, Told, BridgeType
<1>3. CASE OwnerNameFails
  BY <1>3 DEF OwnerNameFails, Told, BridgeType
<1>4. CASE WhitelistUpdated \/ ApplicationIdReceived \/ OwnerNameReceived
          \/ LastResourceReceived
  <2>1. CASE WhitelistUpdated
    BY <2>1 DEF WhitelistUpdated, BridgeType
  <2>2. CASE ApplicationIdReceived
    BY <2>2 DEF ApplicationIdReceived, BridgeType
  <2>3. CASE OwnerNameReceived
    BY <2>3 DEF OwnerNameReceived, BridgeType
  <2>4. CASE LastResourceReceived
    BY <2>4 DEF LastResourceReceived, BridgeType
  <2>. QED
    BY <1>4, <2>1, <2>2, <2>3, <2>4
<1>5. CASE (\E c \in Calls, b \in Bridges : CallExecute(c, b))
          \/ (\E s \in Streams : PartArrives(s)) \/ (\E s \in Streams : EventArrives(s))
          \/ (\E s \in Streams : StreamFails(s)) \/ TakeBusy \/ GiveUp \/ Decide
          \/ CancelReturns \/ Aborted \/ AlreadyConnected \/ BridgeDisconnected
          \/ CallRefresh \/ RefreshRefused \/ RefreshGoesOn \/ Unbusy \/ Unrefresh
          \/ ResourceReceived \/ ReportRefreshed \/ ListenToEvents \/ FetchDone
          \/ EventParsed
  BY <1>5 DEF CallExecute, PartArrives, EventArrives, StreamFails, TakeBusy,
     GiveUp, Decide, OnBridgeDisconnect, CancelReturns, Aborted, AlreadyConnected,
     BridgeDisconnected, CallRefresh, RefreshRefused, RefreshGoesOn, Unbusy,
     Unrefresh, ResourceReceived, ReportRefreshed, ListenToEvents, FetchDone,
     EventParsed, BridgeType, data
<1>6. CASE UNCHANGED vars
  BY <1>6 DEF vars, BridgeType, data
<1>. QED
  BY <1>1, <1>2, <1>3, <1>4, <1>5, <1>6
     DEF Next, FlowStep, HttpStep, RequestAnswered

\* Where the dispatcher's thread can be.
LEMMA FlowTypeStep ==
    ASSUME BridgeType, FlowType, eventRequestId \in Streams \cup {NoStream},
           [Next]_vars
    PROVE  FlowType'
<1>1. ASSUME NEW c \in Calls, NEW b \in Bridges, CallExecute(c, b)
      PROVE  FlowType'
  BY <1>1 DEF CallExecute, FlowType, Flow
<1>2. CASE CallRefresh
  BY <1>2 DEF CallRefresh, BridgeType, FlowType, Flow
<1>3. CASE TakeBusy \/ CancelReturns
  BY <1>3 DEF TakeBusy, Goes, CancelReturns, FlowType, Flow
<1>4. CASE Aborted
  BY <1>4 DEF Aborted, Goes, FlowType, Flow, Idle
<1>5. CASE GiveUp
  BY <1>5 DEF GiveUp, FlowType, Flow, Idle
<1>6. CASE AlreadyConnected
  BY <1>6 DEF AlreadyConnected, FlowType, Flow, Idle
<1>7. CASE StartFetch \/ RefreshRefused
  BY <1>7 DEF StartFetch, RefreshRefused, FlowType, Flow, Idle
<1>8. CASE Decide \/ BridgeDisconnected \/ RefreshGoesOn
  BY <1>8 DEF Decide, OnBridgeDisconnect, Abort, Goes, BridgeDisconnected,
     RefreshGoesOn, FlowType, Flow, Idle
<1>9. CASE (\E st \in Stages : RequestFails(st)) \/ (\E s \in Streams : PartArrives(s))
          \/ (\E s \in Streams : EventArrives(s)) \/ (\E s \in Streams : StreamFails(s))
          \/ Unbusy \/ Unrefresh \/ WhitelistUpdated \/ ApplicationIdReceived
          \/ OwnerNameReceived \/ OwnerNameFails \/ ResourceReceived
          \/ LastResourceReceived \/ ReportRefreshed \/ ListenToEvents \/ FetchDone
          \/ EventParsed
  BY <1>9 DEF RequestFails, PartArrives, EventArrives, StreamFails, Unbusy,
     Unrefresh, WhitelistUpdated, ApplicationIdReceived, OwnerNameReceived,
     OwnerNameFails, ResourceReceived, LastResourceReceived, ReportRefreshed,
     ListenToEvents, FetchDone, EventParsed, FlowType
<1>10. CASE UNCHANGED vars
  BY <1>10 DEF vars, FlowType
<1>. QED
  BY <1>1, <1>2, <1>3, <1>4, <1>5, <1>6, <1>7, <1>8, <1>9, <1>10
     DEF Next, FlowStep, HttpStep, RequestAnswered

\* Where the callback can be.
LEMMA HttpTypeStep ==
    ASSUME HttpType, [Next]_vars
    PROVE  HttpType'
<1>1. ASSUME NEW st \in Stages, RequestFails(st)
      PROVE  HttpType'
  BY <1>1 DEF RequestFails, FinishFailed, HttpType, Http
<1>2. CASE OwnerNameFails
  BY <1>2 DEF OwnerNameFails, FinishFailed, HttpType, Http
<1>3. ASSUME NEW s \in Streams, StreamFails(s)
      PROVE  HttpType'
  BY <1>3 DEF StreamFails, FinishFailed, HttpType, Http
<1>4. CASE Unbusy
  BY <1>4 DEF Unbusy, HttpType, Http
<1>5. CASE Unrefresh
  BY <1>5 DEF Unrefresh, HttpType, Http, HttpIdle
<1>6. CASE ReportRefreshed
  BY <1>6 DEF ReportRefreshed, HttpType, Http
<1>7. CASE FetchDone
  BY <1>7 DEF FetchDone, HttpType, Http, HttpIdle
<1>8. CASE ListenToEvents
  BY <1>8 DEF ListenToEvents, HttpType, Http
<1>9. CASE LastResourceReceived
  BY <1>9 DEF LastResourceReceived, Answered, HttpType, Http
<1>10. ASSUME NEW s \in Streams, EventArrives(s)
      PROVE  HttpType'
  BY <1>10 DEF EventArrives, HttpType, Http
<1>11. CASE EventParsed
  BY <1>11 DEF EventParsed, HttpType, Http
<1>12. CASE (\E c \in Calls, b \in Bridges : CallExecute(c, b))
          \/ (\E s \in Streams : PartArrives(s)) \/ TakeBusy \/ GiveUp \/ Decide
          \/ CancelReturns \/ Aborted \/ AlreadyConnected \/ StartFetch
          \/ BridgeDisconnected \/ CallRefresh \/ RefreshRefused \/ RefreshGoesOn
          \/ WhitelistUpdated \/ ApplicationIdReceived \/ OwnerNameReceived
          \/ ResourceReceived
  BY <1>12 DEF CallExecute, PartArrives, TakeBusy, GiveUp, Decide,
     OnBridgeDisconnect, CancelReturns, Aborted, AlreadyConnected, StartFetch,
     BridgeDisconnected, CallRefresh, RefreshRefused, RefreshGoesOn,
     WhitelistUpdated, ApplicationIdReceived, OwnerNameReceived, ResourceReceived,
     HttpType
<1>13. CASE UNCHANGED vars
  BY <1>13 DEF vars, HttpType
<1>. QED
  BY <1>1, <1>2, <1>3, <1>4, <1>5, <1>6, <1>7, <1>8, <1>9, <1>10, <1>11, <1>12,
     <1>13
     DEF Next, FlowStep, HttpStep, RequestAnswered

\* The requests that are under way are counted.
LEMMA RequestsTypeStep ==
    ASSUME RequestsType, [Next]_vars
    PROVE  RequestsType'
<1>1. CASE StartFetch
  BY <1>1 DEF StartFetch, RequestsType, Stages
<1>2. ASSUME NEW st \in Stages, RequestFails(st)
      PROVE  RequestsType'
  BY <1>2 DEF RequestFails, Answered, Done, RequestsType
<1>3. CASE WhitelistUpdated \/ ApplicationIdReceived
  BY <1>3 DEF WhitelistUpdated, Answered, Then, ApplicationIdReceived, RequestsType
<1>4. CASE OwnerNameReceived \/ OwnerNameFails \/ LastResourceReceived
  BY <1>4 DEF OwnerNameReceived, Answered, Done, OwnerNameFails, FinishFailed,
     Finish, Answer, LastResourceReceived, RequestsType
<1>5. CASE ResourceReceived \/ EventParsed
  BY <1>5 DEF ResourceReceived, GetOwnerName, EventParsed, RequestsType
<1>6. CASE (\E c \in Calls, b \in Bridges : CallExecute(c, b))
          \/ (\E s \in Streams : PartArrives(s)) \/ (\E s \in Streams : EventArrives(s))
          \/ (\E s \in Streams : StreamFails(s)) \/ TakeBusy \/ GiveUp \/ Decide
          \/ CancelReturns \/ Aborted \/ AlreadyConnected \/ BridgeDisconnected
          \/ CallRefresh \/ RefreshRefused \/ RefreshGoesOn \/ Unbusy \/ Unrefresh
          \/ ReportRefreshed \/ ListenToEvents \/ FetchDone
  BY <1>6 DEF CallExecute, PartArrives, EventArrives, StreamFails, TakeBusy,
     GiveUp, Decide, OnBridgeDisconnect, CancelReturns, Aborted, AlreadyConnected,
     BridgeDisconnected, CallRefresh, RefreshRefused, RefreshGoesOn, Unbusy,
     Unrefresh, ReportRefreshed, ListenToEvents, FetchDone, RequestsType, network
<1>7. CASE UNCHANGED vars
  BY <1>7 DEF vars, RequestsType, network
<1>. QED
  BY <1>1, <1>2, <1>3, <1>4, <1>5, <1>6, <1>7
     DEF Next, FlowStep, HttpStep, RequestAnswered

\* An answer is one of the two results.
LEMMA AnswerType ==
    ASSUME AnswersType, NEW c, NEW result \in {"SUCCESS", "FAILED"}, NEW complete,
           Answer(c, result, complete)
    PROVE  AnswersType'
  BY DEF AnswersType, Answer

\* What the calls have been told.
LEMMA AnswersTypeStep ==
    ASSUME AnswersType, [Next]_vars
    PROVE  AnswersType'
<1>1. CASE GiveUp
  BY <1>1, AnswerType DEF GiveUp
<1>2. CASE AlreadyConnected
  BY <1>2, AnswerType DEF AlreadyConnected
<1>3. ASSUME NEW st \in Stages, RequestFails(st)
      PROVE  AnswersType'
  BY <1>3, AnswerType DEF RequestFails, FinishFailed, Finish
<1>4. CASE OwnerNameFails \/ LastResourceReceived
  BY <1>4, AnswerType DEF OwnerNameFails, FinishFailed, Finish,
     LastResourceReceived
<1>5. CASE EventParsed
  BY <1>5, AnswerType DEF EventParsed, Finish
<1>6. ASSUME NEW s \in Streams, StreamFails(s)
      PROVE  AnswersType'
  BY <1>6, AnswerType DEF StreamFails, FinishFailed, Finish
<1>7. CASE (\E c \in Calls, b \in Bridges : CallExecute(c, b))
          \/ (\E s \in Streams : PartArrives(s)) \/ (\E s \in Streams : EventArrives(s))
          \/ TakeBusy \/ Decide \/ CancelReturns \/ Aborted \/ StartFetch
          \/ BridgeDisconnected \/ CallRefresh \/ RefreshRefused \/ RefreshGoesOn
          \/ Unbusy \/ Unrefresh \/ WhitelistUpdated \/ ApplicationIdReceived
          \/ OwnerNameReceived \/ ResourceReceived \/ ReportRefreshed \/ ListenToEvents
          \/ FetchDone
  BY <1>7 DEF CallExecute, PartArrives, EventArrives, TakeBusy, Decide,
     OnBridgeDisconnect, CancelReturns, Aborted, StartFetch, BridgeDisconnected,
     CallRefresh, RefreshRefused, RefreshGoesOn, Unbusy, Unrefresh,
     WhitelistUpdated, ApplicationIdReceived, OwnerNameReceived, ResourceReceived,
     ReportRefreshed, ListenToEvents, FetchDone, AnswersType, history, outcome
<1>8. CASE UNCHANGED vars
  BY <1>8 DEF AnswersType, vars, history, outcome
<1>. QED
  BY <1>1, <1>2, <1>3, <1>4, <1>5, <1>6, <1>7, <1>8
     DEF Next, FlowStep, HttpStep, RequestAnswered

\* The rest of the types.
LEMMA OtherTypesStep ==
    ASSUME FlowType, OtherTypes, [Next]_vars
    PROVE  OtherTypes'
<1>1. ASSUME NEW c \in Calls, NEW b \in Bridges, CallExecute(c, b)
      PROVE  OtherTypes'
  BY <1>1 DEF CallExecute, OtherTypes, data, network, outcome
<1>2. ASSUME NEW st \in Stages, RequestFails(st)
      PROVE  OtherTypes'
  BY <1>2 DEF RequestFails, OtherTypes
<1>3. ASSUME NEW s \in Streams, PartArrives(s)
      PROVE  OtherTypes'
  BY <1>3, BoundAssumption DEF PartArrives, Disturbed, OtherTypes, data
<1>4. ASSUME NEW s \in Streams, EventArrives(s)
      PROVE  OtherTypes'
  BY <1>4, BoundAssumption DEF EventArrives, Disturbed, OtherTypes, data
<1>5. ASSUME NEW s \in Streams, StreamFails(s)
      PROVE  OtherTypes'
  BY <1>5, BoundAssumption DEF StreamFails, Disturbed, OtherTypes, data
<1>6. CASE TakeBusy
  BY <1>6 DEF TakeBusy, OtherTypes, data, network, history, outcome
<1>7. CASE GiveUp
  BY <1>7 DEF GiveUp, OtherTypes, data, network
<1>8. CASE Decide
  BY <1>8 DEF Decide, OnBridgeDisconnect, Abort, OtherTypes, data, network,
     history, outcome
<1>9. CASE CancelReturns
  BY <1>9 DEF CancelReturns, OtherTypes, data, history, outcome
<1>10. CASE Aborted
  BY <1>10 DEF Aborted, OtherTypes, data, network, history, outcome
<1>11. CASE AlreadyConnected
  BY <1>11 DEF AlreadyConnected, OtherTypes, data, network
<1>12. CASE StartFetch
  BY <1>12 DEF StartFetch, OtherTypes, FlowType, Flow, history, outcome
<1>13. CASE BridgeDisconnected
  BY <1>13, BoundAssumption DEF BridgeDisconnected, OnBridgeDisconnect, Abort,
     Disturbed, OtherTypes, data
<1>14. CASE CallRefresh
  BY <1>14, BoundAssumption DEF CallRefresh, Disturbed, OtherTypes, data, network
<1>15. CASE RefreshRefused
  BY <1>15 DEF RefreshRefused, OtherTypes, data, network
<1>16. CASE RefreshGoesOn
  BY <1>16 DEF RefreshGoesOn, Abort, OtherTypes, data, history, outcome
<1>17. CASE Unbusy
  BY <1>17 DEF Unbusy, OtherTypes, data, network
<1>18. CASE Unrefresh
  BY <1>18 DEF Unrefresh, OtherTypes, data, network
<1>19. CASE WhitelistUpdated
  BY <1>19 DEF WhitelistUpdated, OtherTypes, history, outcome
<1>20. CASE ApplicationIdReceived
  BY <1>20, BoundAssumption DEF ApplicationIdReceived, OtherTypes, history, outcome
<1>21. CASE OwnerNameReceived
  BY <1>21 DEF OwnerNameReceived, OtherTypes, history, outcome
<1>22. CASE OwnerNameFails
  BY <1>22 DEF OwnerNameFails, OtherTypes
<1>23. CASE ResourceReceived
  BY <1>23, BoundAssumption DEF ResourceReceived, GetOwnerName, Disturbed,
     OtherTypes
<1>24. CASE LastResourceReceived
  BY <1>24 DEF LastResourceReceived, OtherTypes
<1>25. CASE ReportRefreshed
  BY <1>25 DEF ReportRefreshed, OtherTypes, data, network, history, outcome
<1>26. CASE ListenToEvents
  BY <1>26 DEF ListenToEvents, OtherTypes, data, history, outcome
<1>27. CASE FetchDone
  BY <1>27 DEF FetchDone, OtherTypes, data, network, history, outcome
<1>28. CASE EventParsed
  BY <1>28, BoundAssumption DEF EventParsed, GetOwnerName, Disturbed, OtherTypes
<1>29. CASE UNCHANGED vars
  BY <1>29 DEF vars, OtherTypes, data, network, history, outcome
<1>. QED
  BY <1>1, <1>2, <1>3, <1>4, <1>5, <1>6, <1>7, <1>8, <1>9, <1>10, <1>11, <1>12,
     <1>13, <1>14, <1>15, <1>16, <1>17, <1>18, <1>19, <1>20, <1>21, <1>22, <1>23,
     <1>24, <1>25, <1>26, <1>27, <1>28, <1>29
     DEF Next, FlowStep, HttpStep, RequestAnswered

\* A call is where a call can be.
LEMMA PlaceStep ==
    ASSUME FlowType, HttpType, PlaceInv, [Next]_vars
    PROVE  PlaceInv'
<1>1. ASSUME NEW c \in Calls, NEW b \in Bridges, CallExecute(c, b)
      PROVE  PlaceInv'
  BY <1>1, NoneAssumption DEF CallExecute, PlaceInv
<1>2. ASSUME NEW st \in Stages, RequestFails(st)
      PROVE  PlaceInv'
  BY <1>2 DEF RequestFails, FinishFailed, PlaceInv
<1>3. ASSUME NEW s \in Streams, PartArrives(s)
      PROVE  PlaceInv'
  BY <1>3 DEF PartArrives, PlaceInv
<1>4. ASSUME NEW s \in Streams, EventArrives(s)
      PROVE  PlaceInv'
  BY <1>4 DEF EventArrives, PlaceInv
<1>5. ASSUME NEW s \in Streams, StreamFails(s)
      PROVE  PlaceInv'
  BY <1>5 DEF StreamFails, FinishFailed, PlaceInv
<1>6. CASE TakeBusy
  BY <1>6 DEF TakeBusy, Goes, PlaceInv
<1>7. CASE GiveUp
  BY <1>7 DEF GiveUp, PlaceInv, Idle
<1>8. CASE Decide
  BY <1>8 DEF Decide, OnBridgeDisconnect, Abort, Goes, PlaceInv, FlowType, Flow
<1>9. CASE CancelReturns
  BY <1>9 DEF CancelReturns, Goes, PlaceInv
<1>10. CASE Aborted
  BY <1>10 DEF Aborted, Goes, PlaceInv, FlowType, Flow, Idle
<1>11. CASE AlreadyConnected
  BY <1>11 DEF AlreadyConnected, PlaceInv, Idle
<1>12. CASE StartFetch
  BY <1>12 DEF StartFetch, PlaceInv, Idle
<1>13. CASE BridgeDisconnected
  BY <1>13 DEF BridgeDisconnected, OnBridgeDisconnect, Abort, PlaceInv, Idle
<1>14. CASE CallRefresh
  BY <1>14, NoneAssumption DEF CallRefresh, PlaceInv
<1>15. CASE RefreshRefused
  BY <1>15 DEF RefreshRefused, PlaceInv, Idle
<1>16. CASE RefreshGoesOn
  BY <1>16 DEF RefreshGoesOn, Abort, PlaceInv, FlowType, Flow
<1>17. CASE Unbusy
  BY <1>17 DEF Unbusy, PlaceInv
<1>18. CASE Unrefresh
  BY <1>18 DEF Unrefresh, PlaceInv, HttpIdle
<1>19. CASE WhitelistUpdated
  BY <1>19 DEF WhitelistUpdated, PlaceInv
<1>20. CASE ApplicationIdReceived
  BY <1>20 DEF ApplicationIdReceived, PlaceInv
<1>21. CASE OwnerNameReceived
  BY <1>21 DEF OwnerNameReceived, PlaceInv
<1>22. CASE OwnerNameFails
  BY <1>22 DEF OwnerNameFails, FinishFailed, PlaceInv
<1>23. CASE ResourceReceived
  BY <1>23 DEF ResourceReceived, PlaceInv
<1>24. CASE LastResourceReceived
  BY <1>24 DEF LastResourceReceived, PlaceInv
<1>25. CASE ReportRefreshed
  BY <1>25 DEF ReportRefreshed, PlaceInv
<1>26. CASE ListenToEvents
  BY <1>26 DEF ListenToEvents, PlaceInv
<1>27. CASE FetchDone
  BY <1>27 DEF FetchDone, PlaceInv, HttpIdle
<1>28. CASE EventParsed
  BY <1>28 DEF EventParsed, PlaceInv, HttpType, Http
<1>29. CASE UNCHANGED vars
  BY <1>29 DEF vars, PlaceInv
<1>. QED
  BY <1>1, <1>2, <1>3, <1>4, <1>5, <1>6, <1>7, <1>8, <1>9, <1>10, <1>11, <1>12,
     <1>13, <1>14, <1>15, <1>16, <1>17, <1>18, <1>19, <1>20, <1>21, <1>22, <1>23,
     <1>24, <1>25, <1>26, <1>27, <1>28, <1>29
     DEF Next, FlowStep, HttpStep, RequestAnswered

\* A call takes _busy while it is not set, and hands it on to the fetch it starts.
LEMMA LockStep ==
    ASSUME Flags, BridgeType, RequestsType, FlowType, HttpType, OtherTypes,
           PlaceInv, LockInv, [Next]_vars
    PROVE  LockInv'
<1>1. ASSUME NEW c \in Calls, NEW b \in Bridges, CallExecute(c, b)
      PROVE  LockInv'
  BY <1>1 DEF CallExecute, LockInv, Users, AtEndOfFetch, BusyIsHeld, InCall,
     Fetching, Idle, flags, data, network, outcome
<1>2. ASSUME NEW st \in Stages, RequestFails(st)
      PROVE  LockInv'
  BY <1>2, NoneAssumption, BoundAssumption DEF RequestFails, Answered, Done, Told,
     FinishFailed, Finish, Answer, Stages, LockInv, Users, AtEndOfFetch,
     BusyIsHeld, InCall, Fetching, PlaceInv, OtherTypes, Flags, BridgeType,
     RequestsType, FlowType, HttpType, Flow, Http, Stages, Idle, HttpIdle, flags,
     data, network, history, outcome
<1>3. ASSUME NEW s \in Streams, PartArrives(s)
      PROVE  LockInv'
  BY <1>3 DEF PartArrives, LockInv, Users, AtEndOfFetch, BusyIsHeld, InCall,
     Fetching, flags, data
<1>4. ASSUME NEW s \in Streams, EventArrives(s)
      PROVE  LockInv'
  BY <1>4 DEF EventArrives, LockInv, Users, AtEndOfFetch, BusyIsHeld, InCall,
     Fetching, HttpIdle, flags, data
<1>5. ASSUME NEW s \in Streams, StreamFails(s)
      PROVE  LockInv'
  BY <1>5 DEF StreamFails, FinishFailed, LockInv, Users, AtEndOfFetch, BusyIsHeld,
     InCall, HttpIdle, data
<1>6. CASE TakeBusy
  BY <1>6 DEF TakeBusy, Goes, LockInv, Users, AtEndOfFetch, BusyIsHeld, InCall,
     PlaceInv, RequestsType, Stages, network, history, outcome
<1>7. CASE GiveUp
  BY <1>7 DEF GiveUp, LockInv, Users, AtEndOfFetch, BusyIsHeld, InCall, Fetching,
     Idle, data, network
<1>8. CASE Decide
  <2>1. /\ UNCHANGED <<busy, released, stuck, requests, resourceToGet, http>>
        /\ InCall' <=> InCall
    BY <1>8 DEF Decide, OnBridgeDisconnect, Abort, Goes, InCall, FlowType, Flow,
       flags, data, network, history, outcome
  <2>. QED
    BY <2>1 DEF LockInv, Users, AtEndOfFetch, BusyIsHeld, Fetching
<1>9. CASE CancelReturns
  BY <1>9 DEF CancelReturns, Goes, LockInv, Users, AtEndOfFetch, BusyIsHeld,
     InCall, Fetching, flags, data, history, outcome
<1>10. CASE Aborted
  BY <1>10 DEF Aborted, Goes, LockInv, Users, AtEndOfFetch, BusyIsHeld, InCall,
     Fetching, FlowType, Flow, Idle, data, network, history, outcome
<1>11. CASE AlreadyConnected
  BY <1>11 DEF AlreadyConnected, LockInv, Users, AtEndOfFetch, BusyIsHeld, InCall,
     PlaceInv, RequestsType, Stages, Idle, network
<1>12. CASE StartFetch
  BY <1>12 DEF StartFetch, LockInv, Users, AtEndOfFetch, BusyIsHeld, InCall,
     Fetching, PlaceInv, RequestsType, Stages, Idle, history, outcome
<1>13. CASE BridgeDisconnected
  BY <1>13 DEF BridgeDisconnected, OnBridgeDisconnect, Abort, LockInv, Users,
     AtEndOfFetch, BusyIsHeld, InCall, Fetching, Idle, data
<1>14. CASE CallRefresh
  BY <1>14, NoneAssumption DEF CallRefresh, LockInv, Users, AtEndOfFetch,
     BusyIsHeld, InCall, RequestsType, Stages, network
<1>15. CASE RefreshRefused
  BY <1>15 DEF RefreshRefused, LockInv, Users, AtEndOfFetch, BusyIsHeld, InCall,
     PlaceInv, RequestsType, Stages, Idle, network
<1>16. CASE RefreshGoesOn
  BY <1>16 DEF RefreshGoesOn, Abort, LockInv, Users, AtEndOfFetch, BusyIsHeld,
     InCall, Fetching, FlowType, Flow, data, history, outcome
<1>17. CASE Unbusy
  BY <1>17 DEF Unbusy, LockInv, Users, AtEndOfFetch, BusyIsHeld, InCall, Fetching,
     Flags, RequestsType, Stages, network
<1>18. CASE Unrefresh
  BY <1>18 DEF Unrefresh, LockInv, Users, AtEndOfFetch, BusyIsHeld, InCall,
     Fetching, HttpIdle, data, network
<1>19. CASE WhitelistUpdated
  BY <1>19 DEF WhitelistUpdated, Then, LockInv, Users, AtEndOfFetch, BusyIsHeld,
     InCall, Fetching, RequestsType, Stages, flags, history, outcome
<1>20. CASE ApplicationIdReceived
  BY <1>20, BoundAssumption DEF ApplicationIdReceived, Then, LockInv, Users,
     AtEndOfFetch, BusyIsHeld, InCall, Fetching, RequestsType, Stages, flags,
     history, outcome
<1>21. CASE OwnerNameReceived
  BY <1>21 DEF OwnerNameReceived, Done, LockInv, Users, AtEndOfFetch, BusyIsHeld,
     InCall, Fetching, Stages, flags, history, outcome
<1>22. CASE OwnerNameFails
  BY <1>22 DEF OwnerNameFails, Done, FinishFailed, LockInv, Users, AtEndOfFetch,
     BusyIsHeld, InCall, Flags, RequestsType, Stages
<1>23. CASE ResourceReceived
  BY <1>23, BoundAssumption DEF ResourceReceived, GetOwnerName, LockInv, Users,
     AtEndOfFetch, BusyIsHeld, InCall, Fetching, OtherTypes, RequestsType, Stages,
     flags
<1>24. CASE LastResourceReceived
  BY <1>24 DEF LastResourceReceived, Done, LockInv, Users, BusyIsHeld, InCall,
     Fetching, RequestsType, Stages
<1>25. CASE ReportRefreshed
  BY <1>25 DEF ReportRefreshed, LockInv, Users, AtEndOfFetch, BusyIsHeld, InCall,
     Fetching, data, network, history, outcome
<1>26. CASE ListenToEvents
  BY <1>26 DEF ListenToEvents, LockInv, Users, AtEndOfFetch, BusyIsHeld, InCall,
     Fetching, RequestsType, Stages, flags, history, outcome
<1>27. CASE FetchDone
  BY <1>27 DEF FetchDone, LockInv, Users, AtEndOfFetch, BusyIsHeld, InCall,
     RequestsType, Stages, HttpIdle, network, history, outcome
<1>28. CASE EventParsed
  BY <1>28, NoneAssumption, BoundAssumption DEF EventParsed, Finish, Answer,
     GetOwnerName, Disturbed, LockInv, Users, AtEndOfFetch, BusyIsHeld, InCall,
     Fetching, PlaceInv, OtherTypes, Flags, BridgeType, RequestsType, FlowType,
     HttpType, Flow, Http, Stages, Idle, HttpIdle, flags, data, network, history,
     outcome
<1>29. CASE UNCHANGED vars
  BY <1>29 DEF vars, LockInv, Users, AtEndOfFetch, BusyIsHeld, InCall, Fetching,
     flags, data, network, history, outcome
<1>. QED
  BY <1>1, <1>2, <1>3, <1>4, <1>5, <1>6, <1>7, <1>8, <1>9, <1>10, <1>11, <1>12,
     <1>13, <1>14, <1>15, <1>16, <1>17, <1>18, <1>19, <1>20, <1>21, <1>22, <1>23,
     <1>24, <1>25, <1>26, <1>27, <1>28, <1>29
     DEF Next, FlowStep, HttpStep, RequestAnswered

\* Only Abort closes the stream and only the end of a fetch opens one.
LEMMA StreamStep ==
    ASSUME Flags, BridgeType, RequestsType, FlowType, HttpType, OtherTypes,
           PlaceInv, LockInv, StreamInv, [Next]_vars
    PROVE  StreamInv'
<1>1. ASSUME NEW c \in Calls, NEW b \in Bridges, CallExecute(c, b)
      PROVE  StreamInv'
  BY <1>1 DEF CallExecute, StreamInv, Fetching, Idle, flags, data, network, outcome
<1>2. ASSUME NEW st \in Stages, RequestFails(st)
      PROVE  StreamInv'
  BY <1>2, NoneAssumption, BoundAssumption DEF RequestFails, Answered, Done, Told,
     FinishFailed, Finish, Answer, Stages, StreamInv, LockInv, Users, AtEndOfFetch,
     InCall, Fetching, PlaceInv, OtherTypes, Flags, BridgeType, RequestsType,
     FlowType, HttpType, Flow, Http, Stages, Idle, HttpIdle, flags, data, network,
     history, outcome
<1>3. ASSUME NEW s \in Streams, PartArrives(s)
      PROVE  StreamInv'
  BY <1>3 DEF PartArrives, StreamInv, Fetching, flags, data
<1>4. ASSUME NEW s \in Streams, EventArrives(s)
      PROVE  StreamInv'
  BY <1>4 DEF EventArrives, StreamInv, Fetching, HttpIdle, flags, data
<1>5. ASSUME NEW s \in Streams, StreamFails(s)
      PROVE  StreamInv'
  BY <1>5 DEF StreamFails, StreamInv
<1>6. CASE TakeBusy
  BY <1>6 DEF TakeBusy, Goes, StreamInv, Fetching, data, network, history, outcome
<1>7. CASE GiveUp
  BY <1>7 DEF GiveUp, StreamInv, Fetching, Idle, data, network
<1>8. CASE Decide
  BY <1>8, NoneAssumption, BoundAssumption DEF Decide, OnBridgeDisconnect, Abort,
     Goes, StreamInv, LockInv, Users, AtEndOfFetch, InCall, Fetching, PlaceInv,
     OtherTypes, Flags, BridgeType, RequestsType, FlowType, HttpType, Flow, Http,
     Stages, Idle, HttpIdle, flags, data, network, history, outcome
<1>9. CASE CancelReturns
  BY <1>9 DEF CancelReturns, Goes, StreamInv, Fetching, HttpIdle, flags, history,
     outcome
<1>10. CASE Aborted
  BY <1>10 DEF Aborted, Goes, StreamInv, Fetching, FlowType, Flow, Idle, data,
     network, history, outcome
<1>11. CASE AlreadyConnected
  BY <1>11 DEF AlreadyConnected, StreamInv, Fetching, Idle, data, network
<1>12. CASE StartFetch
  BY <1>12 DEF StartFetch, StreamInv, Fetching, RequestsType, Stages, Idle,
     history, outcome
<1>13. CASE BridgeDisconnected
  BY <1>13 DEF BridgeDisconnected, OnBridgeDisconnect, Abort, StreamInv, Fetching,
     Idle, data
<1>14. CASE CallRefresh
  BY <1>14 DEF CallRefresh, StreamInv, Fetching, Idle, data, network
<1>15. CASE RefreshRefused
  BY <1>15 DEF RefreshRefused, StreamInv, Fetching, Idle, flags, data, network
<1>16. CASE RefreshGoesOn
  <2>1. InCall /\ ~connected' /\ released' = released /\ lost' = lost /\ http' = http
        /\ requests' = requests /\ streams' = streams /\ cb' = cb /\ bridge' = bridge
    BY <1>16 DEF RefreshGoesOn, PlaceInv, InCall, data, history, outcome
  <2>2. \/ eventRequestId \notin streams /\ flow'.at = "aborted"
        \/ eventRequestId \in streams /\ flow'.at = "cancel" /\ flow'.stream = eventRequestId
    BY <1>16 DEF RefreshGoesOn, Abort, FlowType, Flow
  <2>3. connected /\ flow.at = "refresh"
    BY <1>16 DEF RefreshGoesOn
  <2>4. ~released => ~Fetching
    BY <2>1, CallExcludesFetch
  <2>. QED
    BY <2>1, <2>2, <2>3, <2>4 DEF StreamInv, Fetching, Flags
<1>17. CASE Unbusy
  BY <1>17 DEF Unbusy, StreamInv, Fetching, Flags, data, network
<1>18. CASE Unrefresh
  BY <1>18 DEF Unrefresh, StreamInv, Fetching, HttpIdle, data, network
<1>19. CASE WhitelistUpdated
  BY <1>19 DEF WhitelistUpdated, Answered, Then, StreamInv, Fetching, RequestsType,
     Stages, flags, history, outcome
<1>20. CASE ApplicationIdReceived
  BY <1>20 DEF ApplicationIdReceived, Answered, Then, StreamInv, Fetching,
     RequestsType, Stages, HttpIdle, flags, history, outcome
<1>21. CASE OwnerNameReceived
  BY <1>21 DEF OwnerNameReceived, Done, StreamInv, Fetching, Stages, flags,
     history, outcome
<1>22. CASE OwnerNameFails
  <2>1. /\ UNCHANGED <<cb, eventRequestId, streams, flow, lost>>
        /\ http.at = "idle" /\ http'.at = "unbusy"
        /\ ~released' => ~released /\ cb = NoCall
    BY <1>22 DEF OwnerNameFails, Answered, FinishFailed, HttpIdle, Flags
  <2>2. ~released' => connected' = connected
    BY <1>22, <2>1 DEF OwnerNameFails, FinishFailed, Finish, Flags
  <2>3. bridge'.complete = bridge.complete
    BY <1>22 DEF OwnerNameFails, Told, BridgeType
  <2>4. Fetching' <=> Fetching
    BY <1>22, <2>1 DEF OwnerNameFails, Done, Fetching, Stages, RequestsType
  <2>. QED
    BY <2>1, <2>2, <2>3, <2>4 DEF StreamInv
<1>23. CASE ResourceReceived
  BY <1>23 DEF ResourceReceived, GetOwnerName, StreamInv, Fetching, RequestsType,
     Stages, flags
<1>24. CASE LastResourceReceived
  BY <1>24 DEF LastResourceReceived, Answered, Finish, StreamInv, Fetching, Flags,
     Stages, HttpIdle
<1>25. CASE ReportRefreshed
  BY <1>25 DEF ReportRefreshed, StreamInv, Fetching, data, network, history,
     outcome
<1>26. CASE ListenToEvents
  <2>1. http.at = "open" /\ http'.at = "done" /\ streams' = streams \cup {eventRequestId'}
    BY <1>26 DEF ListenToEvents, HttpType, Http
  <2>2. flow' = flow /\ connected' = connected /\ bridge' = bridge /\ cb' = cb
        /\ requests' = requests /\ released' = released /\ lost' = lost
    BY <1>26 DEF ListenToEvents, flags, data, history, outcome
  <2>3. ~released /\ ~lost => streams' = {eventRequestId'}
    BY <2>1 DEF StreamInv, Fetching
  <2>. QED
    BY <2>1, <2>2, <2>3 DEF StreamInv, Fetching, Flags
<1>27. CASE FetchDone
  BY <1>27 DEF FetchDone, StreamInv, LockInv, Users, AtEndOfFetch, Fetching,
     RequestsType, Stages, HttpIdle, data, network, history, outcome
<1>28. CASE EventParsed
  BY <1>28 DEF EventParsed, Finish, GetOwnerName, StreamInv, Fetching,
     RequestsType, HttpType, Http, Stages
<1>29. CASE UNCHANGED vars
  BY <1>29 DEF vars, StreamInv, Fetching, flags, data, network, history, outcome
<1>. QED
  BY <1>1, <1>2, <1>3, <1>4, <1>5, <1>6, <1>7, <1>8, <1>9, <1>10, <1>11, <1>12,
     <1>13, <1>14, <1>15, <1>16, <1>17, <1>18, <1>19, <1>20, <1>21, <1>22, <1>23,
     <1>24, <1>25, <1>26, <1>27, <1>28, <1>29
     DEF Next, FlowStep, HttpStep, RequestAnswered

\* Only Finish, DoExecute and the timeout answer.
LEMMA AnswerStep ==
    ASSUME Flags, BridgeType, RequestsType, FlowType, HttpType, OtherTypes,
           AnswersType, PlaceInv, LockInv, StreamInv, AnswerInv, [Next]_vars
    PROVE  AnswerInv'
<1>1. ASSUME NEW c \in Calls, NEW b \in Bridges, CallExecute(c, b)
      PROVE  AnswerInv'
  <2>1. /\ called' = called + 1 /\ c = called'
        /\ UNCHANGED <<cb, answers, released, lost, incomplete, requests>>
    BY <1>1 DEF CallExecute, flags, data, network, outcome
  <2>2. flow'.call = c
    BY <1>1 DEF CallExecute, Idle
  <2>3. called \in Nat /\ Calls \subseteq Nat \ {0}
    BY CallsAssumption DEF OtherTypes
  <2>4. answers[c] = << >> /\ cb # c
    BY <2>1, <2>3, NoneAssumption DEF AnswerInv, OtherTypes
  <2>5. /\ cb \in Calls => cb <= called'
        /\ \A d \in Calls : d > called' => answers[d] = << >>
    BY <2>1, <2>3 DEF AnswerInv
  <2>. QED
    BY <2>1, <2>2, <2>4, <2>5 DEF AnswerInv, StageOfFetch
<1>2. ASSUME NEW st \in Stages, RequestFails(st)
      PROVE  AnswerInv'
  <2>1. /\ flow' = flow /\ called' = called /\ cb' = cb /\ released' = released
        /\ lost' = (lost \/ cb = NoCall)
        /\ requests[st] > 0 /\ requests' = [requests EXCEPT ![st] = @ - 1]
    BY <1>2 DEF RequestFails, Done, Answered
  <2>2. Answer(cb, "FAILED", bridge.complete)
    BY <1>2 DEF RequestFails, FinishFailed, Finish
  <2>3. \A d \in Calls : d # cb => answers'[d] = answers[d]
    BY <2>2, AnswerGoesToOne
  <2>4. cb \in Calls => answers'[cb] = Append(answers[cb], "FAILED")
    BY <2>2, AnswerGoesToOne
  <2>5. incomplete' = incomplete
    BY <2>2, AnswerIsComplete
  <2>6. StageOfFetch
    BY <2>1 DEF StageOfFetch, Stages
  <2>7. ~released => ~StageOfFetch'
    BY <2>1 DEF StageOfFetch, LockInv, Users, RequestsType, Stages
  <2>8. ~released /\ ~lost /\ cb \in Calls => Len(answers'[cb]) <= 1
    BY <2>4, <2>6 DEF AnswerInv
  <2>. QED
    BY <2>1, <2>3, <2>5, <2>7, <2>8, CallsAssumption DEF AnswerInv, Flags,
       OtherTypes
<1>3. ASSUME NEW s \in Streams, PartArrives(s)
      PROVE  AnswerInv'
  BY <1>3 DEF PartArrives, AnswerInv, StageOfFetch, data
<1>4. ASSUME NEW s \in Streams, EventArrives(s)
      PROVE  AnswerInv'
  BY <1>4 DEF EventArrives, AnswerInv, StageOfFetch, data
<1>5. ASSUME NEW s \in Streams, StreamFails(s)
      PROVE  AnswerInv'
  BY <1>5, NoneAssumption, CallsAssumption DEF StreamFails, FinishFailed, Finish,
     Answer, AnswerInv, StreamInv, OtherTypes, Flags, data
<1>6. CASE TakeBusy
  BY <1>6 DEF TakeBusy, Goes, AnswerInv, StageOfFetch, data, network, history,
     outcome
<1>7. CASE GiveUp
  BY <1>7, NoneAssumption, CallsAssumption DEF GiveUp, Answer, AnswerInv,
     StageOfFetch, Flags, Idle, data, network
<1>8. CASE Decide
  <2>1. called' = called /\ cb' = cb /\ requests' = requests /\ answers' = answers
    BY <1>8 DEF Decide, OnBridgeDisconnect, data, network, history, outcome
  <2>2. (released' <=> released) /\ (incomplete' <=> incomplete) /\ (lost => lost')
    <3>1. OnBridgeDisconnect(flow) \/ UNCHANGED outcome
      BY <1>8 DEF Decide, history
    <3>2. CASE OnBridgeDisconnect(flow)
      BY <3>2 DEF OnBridgeDisconnect
    <3>3. CASE UNCHANGED outcome
      BY <3>3 DEF outcome
    <3>. QED
      BY <3>1, <3>2, <3>3
  <2>3. flow'.call = flow.call
    BY <1>8 DEF Decide, OnBridgeDisconnect, Abort, Goes, FlowType, Flow
  <2>. QED
    BY <2>1, <2>2, <2>3 DEF AnswerInv, StageOfFetch
<1>9. CASE CancelReturns
  BY <1>9 DEF CancelReturns, Goes, AnswerInv, StageOfFetch, data, history, outcome
<1>10. CASE Aborted
  <2>1. /\ flow'.call = flow.call \/ flow'.call = NoCall
        /\ UNCHANGED <<called, cb, answers, released, lost, incomplete, requests>>
    BY <1>10 DEF Aborted, Goes, Idle, FlowType, Flow, data, network, history, outcome
  <2>. QED
    BY <2>1, NoneAssumption DEF AnswerInv, StageOfFetch
<1>11. CASE AlreadyConnected
  BY <1>11, NoneAssumption, BoundAssumption, CallsAssumption DEF AlreadyConnected,
     Answer, AnswerInv, AnswersType, StageOfFetch, StreamInv, LockInv, Users,
     AtEndOfFetch, InCall, Fetching, PlaceInv, OtherTypes, Flags, BridgeType,
     RequestsType, FlowType, HttpType, Flow, Http, Stages, Idle, HttpIdle, flags,
     data, network, history, outcome
<1>12. CASE StartFetch
  BY <1>12, NoneAssumption, CallsAssumption DEF StartFetch, AnswerInv, OtherTypes,
     Idle, history, outcome
<1>13. CASE BridgeDisconnected
  BY <1>13 DEF BridgeDisconnected, OnBridgeDisconnect, Abort, AnswerInv,
     StageOfFetch, Idle, data
<1>14. CASE CallRefresh
  BY <1>14, NoneAssumption DEF CallRefresh, AnswerInv, StageOfFetch, data, network
<1>15. CASE RefreshRefused
  BY <1>15, NoneAssumption DEF RefreshRefused, AnswerInv, StageOfFetch, Idle, data,
     network
<1>16. CASE RefreshGoesOn
  BY <1>16 DEF RefreshGoesOn, Abort, AnswerInv, StageOfFetch, FlowType, Flow, data,
     history, outcome
<1>17. CASE Unbusy
  BY <1>17 DEF Unbusy, AnswerInv, StageOfFetch, data, network
<1>18. CASE Unrefresh
  BY <1>18 DEF Unrefresh, AnswerInv, StageOfFetch, data, network
<1>19. CASE WhitelistUpdated
  BY <1>19 DEF WhitelistUpdated, Answered, AnswerInv, StageOfFetch, history,
     outcome
<1>20. CASE ApplicationIdReceived
  BY <1>20 DEF ApplicationIdReceived, Answered, AnswerInv, StageOfFetch, history,
     outcome
<1>21. CASE OwnerNameReceived
  BY <1>21 DEF OwnerNameReceived, Done, AnswerInv, StageOfFetch, history, outcome
<1>22. CASE OwnerNameFails
  <2>1. /\ flow' = flow /\ called' = called /\ cb' = cb /\ lost' = lost
        /\ released' = (released \/ cb # NoCall)
        /\ requests' = [requests EXCEPT !["ownerName"] = @ - 1]
    BY <1>22 DEF OwnerNameFails, Done
  <2>2. Answer(cb, "FAILED", bridge.complete)
    BY <1>22 DEF OwnerNameFails, FinishFailed, Finish
  <2>3. \A d \in Calls : d # cb => answers'[d] = answers[d]
    BY <2>2, AnswerGoesToOne
  <2>4. cb = NoCall => answers' = answers
    BY <2>2, AnswerGoesToOne, NoneAssumption
  <2>41. incomplete' = incomplete
    BY <2>2, AnswerIsComplete
  <2>5. StageOfFetch' = StageOfFetch
    BY <2>1 DEF StageOfFetch, RequestsType, Stages
  <2>6. CASE cb = NoCall
    BY <2>1, <2>4, <2>41, <2>5, <2>6, NoneAssumption DEF AnswerInv, Flags
  <2>7. CASE cb # NoCall
    <3>1. cb \in Calls /\ cb <= called
      BY <2>7 DEF OtherTypes, AnswerInv
    <3>2. released'
      BY <2>1, <2>7, Zenon
    <3>3. \A c \in Calls : c > called => answers'[c] = << >>
      BY <2>3, <3>1, CallsAssumption DEF AnswerInv, OtherTypes
    <3>. QED
      BY <2>1, <2>3, <3>1, <3>2, <3>3 DEF AnswerInv
  <2>. QED
    BY <2>6, <2>7
<1>23. CASE ResourceReceived
  BY <1>23 DEF ResourceReceived, Answered, AnswerInv, StageOfFetch
<1>24. CASE LastResourceReceived
  BY <1>24, NoneAssumption, BoundAssumption, CallsAssumption
     DEF LastResourceReceived, Answered, Done, Finish, Answer, AnswerInv,
     AnswersType, StageOfFetch, StreamInv, LockInv, Users, AtEndOfFetch, InCall,
     Fetching, PlaceInv, OtherTypes, Flags, BridgeType, RequestsType, FlowType,
     HttpType, Flow, Http, Stages, Idle, HttpIdle, flags, data, network, history,
     outcome
<1>25. CASE ReportRefreshed
  BY <1>25 DEF ReportRefreshed, AnswerInv, StageOfFetch, data, network, history,
     outcome
<1>26. CASE ListenToEvents
  BY <1>26 DEF ListenToEvents, AnswerInv, StageOfFetch, data, history, outcome
<1>27. CASE FetchDone
  BY <1>27 DEF FetchDone, AnswerInv, StageOfFetch, data, network, history, outcome
<1>28. CASE EventParsed
  <2>1. UNCHANGED <<flow, called, cb, released, lost>> /\ http.at = "event"
    BY <1>28 DEF EventParsed
  <2>2. StageOfFetch' <=> StageOfFetch
    BY <1>28 DEF EventParsed, GetOwnerName, StageOfFetch, RequestsType, Stages
  <2>3. PICK result \in {"SUCCESS", "FAILED"} : Answer(cb, result, bridge.complete)
    BY <1>28 DEF EventParsed, Finish
  <2>4. /\ \A d \in Calls : d # cb => answers'[d] = answers[d]
        /\ cb \notin Calls => answers' = answers
    BY <2>3, AnswerGoesToOne
  <2>5. CASE released \/ lost
    BY <2>1, <2>4, <2>5, CallsAssumption DEF AnswerInv, OtherTypes
  <2>6. CASE ~released /\ ~lost
    <3>1. cb = NoCall /\ cb \notin Calls
      BY <2>1, <2>6, NoneAssumption DEF StreamInv
    <3>2. incomplete' = incomplete
      BY <2>3, <3>1, AnswerIsComplete
    <3>. QED
      BY <2>1, <2>2, <2>4, <3>1, <3>2 DEF AnswerInv
  <2>. QED
    BY <2>5, <2>6
<1>29. CASE UNCHANGED vars
  BY <1>29 DEF vars, AnswerInv, StageOfFetch, data, network, history, outcome
<1>. QED
  BY <1>1, <1>2, <1>3, <1>4, <1>5, <1>6, <1>7, <1>8, <1>9, <1>10, <1>11, <1>12,
     <1>13, <1>14, <1>15, <1>16, <1>17, <1>18, <1>19, <1>20, <1>21, <1>22, <1>23,
     <1>24, <1>25, <1>26, <1>27, <1>28, <1>29
     DEF Next, FlowStep, HttpStep, RequestAnswered

\* The types are those parts.
LEMMA TypeParts ==
    TypeOK <=> /\ Flags /\ BridgeType /\ FlowType /\ HttpType /\ RequestsType
               /\ AnswersType /\ OtherTypes
  BY DEF TypeOK, Flags, BridgeType, FlowType, HttpType, RequestsType, AnswersType,
     OtherTypes

\* The invariant holds when the retriever is constructed.
LEMMA InitInvariant == Init => IInv
<1>. SUFFICES ASSUME Init PROVE IInv
  OBVIOUS
<1>. USE DEF Init
<1>1. Flags /\ BridgeType
  BY DEF Flags, BridgeType
<1>2. RequestsType
  BY DEF RequestsType
<1>3. AnswersType
  BY DEF AnswersType
<1>4. FlowType /\ HttpType
  BY DEF FlowType, Flow, Idle, HttpType, Http, HttpIdle
<1>5. OtherTypes
  BY BoundAssumption DEF OtherTypes
<1>6. ~Fetching /\ ~AtEndOfFetch /\ ~InCall /\ Users = 0
  BY DEF Fetching, AtEndOfFetch, InCall, Users, Stages, Idle, HttpIdle
<1>7. PlaceInv
  BY DEF PlaceInv, Idle, HttpIdle
<1>8. LockInv
  BY <1>6 DEF LockInv, BusyIsHeld, Stages
<1>9. StreamInv
  BY <1>6 DEF StreamInv, Idle, HttpIdle
<1>10. AnswerInv
  BY NoneAssumption DEF AnswerInv, Idle
<1>. QED
  BY <1>1, <1>2, <1>3, <1>4, <1>5, <1>7, <1>8, <1>9, <1>10, TypeParts DEF IInv

\* Every step keeps it.
LEMMA StepInvariant == IInv /\ [Next]_vars => IInv'
<1>. SUFFICES ASSUME IInv, [Next]_vars PROVE IInv'
  OBVIOUS
<1>1. /\ Flags /\ BridgeType /\ FlowType /\ HttpType /\ RequestsType
      /\ AnswersType /\ OtherTypes
  BY TypeParts DEF IInv
<1>2. PlaceInv /\ LockInv /\ StreamInv /\ AnswerInv
  BY DEF IInv
<1>3. Flags' /\ BridgeType' /\ HttpType' /\ RequestsType' /\ AnswersType' /\ OtherTypes'
  BY <1>1, FlagsStep, BridgeTypeStep, HttpTypeStep, RequestsTypeStep,
     AnswersTypeStep,
     OtherTypesStep
<1>4. FlowType'
  BY <1>1, FlowTypeStep DEF OtherTypes
<1>5. PlaceInv' /\ LockInv' /\ StreamInv' /\ AnswerInv'
  BY <1>1, <1>2, PlaceStep, LockStep, StreamStep, AnswerStep
<1>6. TypeOK'
  BY <1>3, <1>4 DEF TypeOK, Flags, BridgeType, FlowType, HttpType, RequestsType,
     AnswersType, OtherTypes
<1>. QED
  BY <1>5, <1>6 DEF IInv

(***************************************************************************)
(* The inductive invariant of BridgeConfigRetriever: types, the places of  *)
(* its two threads, _busy as a lock, the event stream and the answers.     *)
(***************************************************************************)
THEOREM RetrieverInvariant == Spec => []IInv
  BY InitInvariant, StepInvariant, PTL DEF Spec

(***************************************************************************)
(* _busy is set exactly while a call of Execute or RefreshBridgeConnection *)
(* or the fetch that it starts is under way, and there is one of them      *)
(* (BridgeConfigRetriever.cpp:48-68, 144-181, 1590-1619).                  *)
(***************************************************************************)
THEOREM RetrieverBusyIsExact == Spec => []BusyIsExact
<1>1. IInv => BusyIsExact
  <2>. SUFFICES ASSUME IInv PROVE BusyIsExact
    OBVIOUS
  <2>1. RequestsType /\ LockInv
    BY TypeParts DEF IInv
  <2>2. ~released => Users <= 1 /\ (Users = 1 => busy)
    BY <2>1 DEF LockInv
  <2>. DEFINE InFetch == requests["whitelist"] + requests["applicationId"]
                         + requests["resource"]
                         + (IF http.at \in {"listen", "open", "done"} THEN 1 ELSE 0)
                         + (IF InCall THEN 1 ELSE 0)
  <2>3. InFetch \in Nat /\ Users \in Nat /\ InFetch <= Users
    BY <2>1 DEF RequestsType, Stages, Users, AtEndOfFetch
  <2>4. Fetching \/ InCall => InFetch >= 1
    BY <2>1 DEF RequestsType, Stages, Fetching
  <2>5. OneFetch
    BY <2>1, <2>2, <2>3, <2>4 DEF OneFetch, LockInv
  <2>. QED
    BY <2>1, <2>5 DEF BusyIsExact, LockInv
<1>. QED
  BY <1>1, RetrieverInvariant, PTL

(***************************************************************************)
(* A call of Execute is told one result, and SUCCESS only with a complete  *)
(* configuration (BridgeConfigRetriever.cpp:80-119, 577-658, 1590-1619).   *)
(***************************************************************************)
THEOREM RetrieverAnswerIsSound == Spec => []AnswerIsSound
<1>1. IInv => AnswerIsSound
  <2>1. IInv => OneAnswer
    BY DEF IInv, AnswerInv, OneAnswer
  <2>2. IInv => SuccessIsComplete
    BY Zenon DEF IInv, AnswerInv, SuccessIsComplete
  <2>. QED
    BY <2>1, <2>2 DEF IInv, AnswerIsSound
<1>. QED
  BY <1>1, RetrieverInvariant, PTL

(***************************************************************************)
(* A connected retriever listens to one event stream, the one that Abort   *)
(* cancels, and one that is not connected to none                          *)
(* (BridgeConfigRetriever.cpp:463-574).                                    *)
(***************************************************************************)
THEOREM RetrieverHasOneStream == Spec => []OneStreamWhenConnected
<1>1. IInv => OneStreamWhenConnected
  BY DEF IInv, StreamInv, OneStreamWhenConnected, Idle
<1>. QED
  BY <1>1, RetrieverInvariant, PTL

=============================================================================
