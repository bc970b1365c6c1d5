----------------------------- MODULE FlowState -----------------------------
(***************************************************************************)
(* The state that the connection flow (module ConnectionFlow) and its      *)
(* collaborators (module ConnectionSystem) share, and how a step changes   *)
(* it.                                                                     *)
(*                                                                         *)
(* A step is written as an operator from a record w of all variables to    *)
(* the changed record, which follows the calls of the code: a function     *)
(* that ends by calling another is the composition of their operators.     *)
(***************************************************************************)
EXTENDS StreamSession, Integers

CONSTANTS
    Objects,          \* names for bridge objects: a set of positive numbers
    NoFile,
    Loopback,         \* the address 127.0.0.1
    Setups            \* the situations explored, by name: a function to
                      \* records with the fields below

VARIABLES
    state, request, count, procs, data, startState, background,  \* ConnectionFlow
    heap,        \* the bridge objects
    queue,       \* the dispatcher's queue
    search,      \* is a bridge search running
    small,       \* the bridge of the small configuration request, if any
    full,        \* the full configuration retriever
    tasks,       \* the scheduler's tasks
    file,        \* the content of the bridge file
    stream,      \* the streaming session
    monitored,   \* the bridge the connection monitor watches, 0 if none
    check,       \* the monitor's check in progress, NoCheck if none
    told,        \* what the client was told in the last user procedure
    calls, checks, \* how many calls and checks were made
    setup        \* the situation, chosen once

FirstCalls == Setups[setup].firstCalls    \* the client's first call
Calls == Setups[setup].calls              \* ... and later ones
MaxCalls == Setups[setup].maxCalls        \* bound: how many it makes
MaxChecks == Setups[setup].maxChecks      \* bound: the monitor's checks
MaxTries == Setups[setup].maxTries        \* PUSHLINK_INVALID_IP_MAX_RETRIES
AutoStart == Setups[setup].autoStart      \* AppSettings::AutoStartAtConnection
PromptUnbusy == Setups[setup].promptUnbusy  \* assumption: a retriever resets
          \* _busy before the completion it has just queued is handled
AbortsWait == Setups[setup].abortsWait    \* the client calls nothing while an
          \* abort is queued: it uses AbortConnecting, which waits
SearchAnswers == Setups[setup].searchAnswers  \* what a search may find
SmallAnswers == Setups[setup].smallAnswers    \* what a bridge may answer to
FullAnswers == Setups[setup].fullAnswers      \* the requests for its small and
PushAnswers == Setups[setup].pushAnswers      \* full configuration, to pushlink,
StartAnswers == Setups[setup].startAnswers    \* and to start and stop streaming
StopAnswers == Setups[setup].stopAnswers
FileAnswers == Setups[setup].fileAnswers  \* may opening the file succeed, fail

vars == <<setup, state, request, count, procs, data, startState, background, heap,
          queue, search, small, full, tasks, file, stream, monitored, check, told,
          calls, checks>>

States == {"Idle", "Loading", "SearchingFirst", "SearchingRetry",
           "Authenticating", "Retrieving", "Saving", "Activating",
           "Deactivating"}

UserRequests == {"LOAD_BRIDGE", "CONNECT", "CONNECT_BACKGROUND", "CONNECT_IP",
                 "CONNECT_NEW", "SET_MANUAL_BRIDGE", "CONNECT_ID_KEY",
                 "RESET_BRIDGE", "RESET_ALL", "SELECT", "ACTIVATE",
                 "DEACTIVATE"}
Requests == UserRequests \cup {"INTERNAL"}

NoCheck == [old |-> 0, new |-> 0]
NoRetriever == [kind |-> "none", busy |-> FALSE, pending |-> FALSE,
                asked |-> FALSE, connected |-> FALSE, refreshing |-> FALSE,
                announce |-> FALSE, obj |-> 0]

Now == [state |-> state, request |-> request, count |-> count,
        procs |-> procs, data |-> data, startState |-> startState,
        background |-> background, heap |-> heap, queue |-> queue,
        search |-> search, small |-> small, full |-> full, tasks |-> tasks,
        file |-> file, stream |-> stream, monitored |-> monitored,
        check |-> check, told |-> told]
-----------------------------------------------------------------------------
(* Bridge objects.  An object lives as long as something refers to it.     *)

MessageObjects(m) ==
    CASE m.m = "LoadingCompleted"      -> Range(m.bridges) \cup {m.next.o}
      [] m.m = "BridgeSearchCompleted" -> Range(m.bridges)
      [] m.m \in {"AuthenticationCompleted", "PushLinkBridge", "MonitorEvent",
                  "SmallConfigCompleted", "FullConfigCompleted"} -> {m.o}
      [] OTHER -> {}

Live(w) == (Range(w.data) \cup Range(w.background) \cup DOMAIN w.procs
            \cup w.small
            \cup {w.startState, w.full.obj, w.stream.owner, w.monitored,
                  w.check.old, w.check.new}
            \cup {t.o : t \in w.tasks}
            \cup UNION {MessageObjects(w.queue[i]) : i \in DOMAIN w.queue}
           ) \ {0}

(* The names of n new objects, the smallest that are free, while a local   *)
(* variable holds object o.                                                *)
FreshBesides(w, o, n) ==
    LET free == Objects \ (Live(Now) \cup Live(w) \cup {o})
    IN  [i \in 1..n |-> CHOOSE p \in free :
                             Cardinality({q \in free : q < p}) = i - 1]
Fresh(w, n) == FreshBesides(w, 0, n)

(* The objects named os are created with the values bs. *)
Create(w, os, bs) ==
    [w EXCEPT !.heap = [o \in Objects |->
        IF o \in Range(os) THEN bs[CHOOSE i \in DOMAIN os : os[i] = o]
                           ELSE w.heap[o]]]

ActiveBridge(w) == w.heap[Active(w.data)]
SetActive(w, o) == [w EXCEPT !.data = SetActiveBridge(w.heap, w.data, o)]
Post(w, m) == [w EXCEPT !.queue = Append(@, m)]
-----------------------------------------------------------------------------
(* What a message to the client does on its way: the full configuration    *)
(* retriever of a CLIP v2 bridge hears of a lost connection, and HueStream *)
(* starts and stops the connection monitor.                                *)

OnBridgeDisconnect(r) ==
    IF r.kind = "v2" /\ r.connected
    THEN [r EXCEPT !.connected = FALSE, !.announce = TRUE]
    ELSE r

(* HueStream::NewFeedbackMessage: a check that is in progress goes on.     *)
Watched(w, req, id, o) ==
    IF id = "USERPROCEDURE_FINISHED" \/ req = "INTERNAL"
    THEN IF ~IsConnectable(w.heap[o]) THEN 0
         ELSE IF w.heap[o].v2 /\ w.monitored # 0 THEN w.monitored
         ELSE o
    ELSE IF id = "USERPROCEDURE_STARTED" THEN 0 ELSE w.monitored

(* What the properties remember of the messages of a user procedure. *)
Milestones == {"START_SEARCHING", "DONE_COMPLETED", "DONE_ACTION_REQUIRED",
               "DONE_RESET", "DONE_ABORTED", "DONE_BRIDGE_FOUND",
               "DONE_NO_BRIDGE_FOUND", "INTERNAL_ERROR"}

Heard(t, req, id) ==
    CASE id = "USERPROCEDURE_STARTED" ->
             [open |-> TRUE, request |-> req, said |-> {}]
      [] id = "USERPROCEDURE_FINISHED" -> [t EXCEPT !.open = FALSE]
      [] id \in Milestones /\ req # "INTERNAL" ->
             [t EXCEPT !.said = @ \cup {id}]
      [] OTHER -> t

(* NewMessage, for a message about object o. *)
SayAs(w, req, id, o) ==
    [w EXCEPT !.monitored = Watched(w, req, id, o),
              !.told = Heard(@, req, id),
              !.full = IF id = "BRIDGE_DISCONNECTED"
                       THEN OnBridgeDisconnect(@) ELSE @]

(* The usual case: a message of the current request on the active bridge. *)
Say(w, id) == SayAs(w, w.request, id, Active(w.data))
-----------------------------------------------------------------------------
(* Steps.  Objects nobody refers to any more, and the bookkeeping of       *)
(* pushlink attempts that the next StartAuthentication clears unread, are  *)
(* dropped.                                                                *)

Become(w) ==
    LET kept == [w EXCEPT !.procs = IF w.state = "Authenticating" THEN @
                                    ELSE << >>]
    IN  /\ state' = w.state
        /\ request' = w.request
        /\ count' = w.count
        /\ procs' = kept.procs
        /\ data' = w.data
        /\ startState' = w.startState
        /\ background' = w.background
        /\ heap' = [o \in Objects |-> IF o \in Live(kept) THEN w.heap[o]
                                      ELSE EmptyBridge]
        /\ queue' = w.queue
        /\ search' = w.search
        /\ small' = w.small
        /\ full' = w.full
        /\ tasks' = w.tasks
        /\ file' = w.file
        /\ stream' = w.stream
        /\ monitored' = w.monitored
        /\ check' = w.check
        /\ told' = w.told
        /\ UNCHANGED setup

(* The dispatcher runs the action at the head of its queue. *)
Runs(m) ==
    /\ queue # <<>>
    /\ Head(queue).m = m
    /\ UNCHANGED <<calls, checks>>

Popped == [Now EXCEPT !.queue = Tail(@)]
Msg == Head(queue)
=============================================================================
