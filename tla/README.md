# A TLA+ development of the Hue EDK

EDK (`src/libhuestream`) is a C++ library with which an application streams light
colours to a Philips Hue bridge. The part of it that is hard to get right is not
the colours. It is the procedure that finds a bridge, asks the user to press its
button, reads its configuration, remembers it and starts the stream: a state
machine fed by several threads, that the application may abort at any time; and
what that procedure stands on: the retriever that keeps a bridge's configuration up
to date with an event stream, the HTTP client, the queue of tickets that runs every
callback.

This directory models those parts in TLA+, checks them with TLC on small instances,
and proves some of it with TLAPS for every value of the constants. Lines are
given as `file:line`, with `CF` for `huestream/connect/ConnectionFlow.cpp` and `BC`
for `huestream/connect/BridgeConfigRetriever.cpp` of `src/libhuestream`.

- [1. The system](#1-the-system)
- [2. The modules](#2-the-modules)
- [3. The runs](#3-the-runs)
- [4. Fairness](#4-fairness)
- [5. The proofs](#5-the-proofs)
- [6. What the code does otherwise than it says](#6-what-the-code-does-otherwise-than-it-says)
- [7. Assumptions, and what is not modelled](#7-assumptions-and-what-is-not-modelled)
- [8. Plan](#8-plan)

## 1. The system

```
 application threads
      |  ConnectToBridge, Start, Stop, Abort, ...            GetResult, handler
      v                                                            ^
 HueStream ---> Connect (_isIdle, _result) <-----------------------+
                   |                                               | messages
                   v  Queue                                        |
            MessageDispatcher --- one thread ---> ConnectionFlow --+
                   ^                                |  |  |  |  |
   results, queued |     search  authenticator  retrievers  file  scheduler  monitor
                   +--------+----------+------------+--------------+----------+
                                                    |
                         BridgeConfigRetriever -----+-----> Stream   render thread
                         (CLIP v2, event stream)       (session, _lock, connector)
                                    |
                               HttpClient ---> CurlHttpClient's thread
                                    ^                |
                                    | callbacks      v
                     QueueExecutor ---> OperationalQueue ---> ThreadPool
```

### Components

**Message dispatcher** (`connect/MessageDispatcher.cpp`).
State: a queue, `_isRunning`, a thread.
Operations: `Queue`, `Execute`, `Stop`, and the `Loop` of its thread.
It is what makes `ConnectionFlow` free of locks.
Hard: `Queue` notifies after it has released the mutex, actions queue actions,
`Stop` may come at any time.
Correct when actions run once, one at a time, in the order they were queued; no
wakeup is lost; `Execute` and `Stop` return; nothing starts once `Stop` has begun.

**Connection flow** (`connect/ConnectionFlow.cpp`).
State: `_state` (nine states), `_request`, the list of bridges, the bridge as it
was when the procedure began, the pushlink attempts.
Operations: twelve requests of the client, `Abort`, the completion of every
collaborator, the events of the monitor. Each is queued in the dispatcher.
Hard: a request is answered later, in a queue that an abort does not clear;
bridges are shared objects, written by request threads while they are in the list;
a procedure may fail at every step, and falls back to another one.
Correct when every procedure that begins ends, with the client told so and told
why; the flow never waits for something that is not coming; late answers do not
act on a later procedure; stored bridges are kept; the stream is to the active
bridge.

**Bridge** and **HueStreamData** (`common/data`).
State: what is known of a bridge; the list of known bridges, the last of which is
the active one. Operations: the status of a bridge, `SetActiveBridge`,
`ClearActiveBridge`, `Clear`, `RediscoverKnownBridge`.
Correct when a bridge is listed once, and a bridge the user was authorized for
stays known.

**Collaborators of the flow.**
`BridgeSearcher` (a search, abortable), `Authenticator` (one request and its
answer), `ConfigRetriever` in `connect/FullConfigRetriever.cpp` (CLIP v1: small
and full configuration), `BridgeFileStorageAccessor` (load and save), the scheduler
(a task that is due). They answer by a callback on some thread, which queues an
action.

**Config retriever, CLIP v2** (`connect/BridgeConfigRetriever.cpp`).
State: the flags `_connected`, `_refreshing`, `_busy`; the callback of the caller; the
maps of JSON nodes it has of the bridge's resources; the bridge with groups, zones,
lights and scenes made from them; the id of its event stream.
Operations: `Execute`, `OnBridgeMonitorEvent`, `RefreshBridgeConnection` on the
dispatcher's thread; the answers of a chain of requests, and the events, on the
thread that runs the callbacks of HTTP.
Hard: two threads without a lock; an event finishes as a fetch does; items of a
message are applied by type; each handler patches lists made by another.
Correct when there is one fetch at a time, a call is told one result and the truth,
there is one event stream while connected, the retriever becomes free again, and
what the application sees of the bridge follows its events.

**HTTP client** (`common/http/HttpClient.cpp`, over `HttpRequest` and
`CurlHttpClient` of the support library).
State: the list of requests; each request's objects; the messages to the thread of
curl; the queue of callbacks.
Operations: `Execute`, `ExecuteAsync`, `CancelAsyncRequest`, the destructor, the last
callback of a request, the steps of curl's thread.
Hard: three threads may be about to delete the same request.
Correct when a request is deleted once and not used after, is answered once, and no
call waits for ever.

**Operational queue, queue executor, thread pool** (`support/src/threading`).
State: tickets by handle, those that are scheduled, the stack of those that execute,
whether a loop is running; an executor's own tickets.
Operations: create, schedule, discard, wait for a ticket, stop; execute, cancel all,
wait for all, shut down.
Hard: a ticket may call the queue, and a wait inside a ticket runs other tickets on
top of it; the loop is borrowed from a pool and given back when there is nothing to
do, just as another ticket may come.
Correct when tickets run once, in order, one at a time but for nesting; none is left
in the queue; stop and shutdown mean what they say.

**Connection monitor** and `BridgeStreamingChecker`.
State: the bridge that is watched. A thread checks it periodically and compares
what it reads with what is known: the differences become events for the flow.
Hard: a check overlaps a procedure, and reports a bridge that is no longer active.

**Stream** (`stream/Stream.cpp`), with `StreamStarter`.
State: `_running`, the session's copy of the bridge, the connector, the render
thread, `_seqNr`, the mutex `_lock`.
Operations: `Start`, `StartWithRenderThread`, `Stop`, `RenderSingleFrame`.
Hard: `Start` does not take `_lock`, `Stop` joins a thread with it held.
Correct when a session is whole between two calls, no frame goes out after `Stop`
or over a closed connection, frames are numbered from 0 without a gap, and `Stop`
returns.

**Connect** (`connect/Connect.cpp`) and **HueStream** (`HueStream.cpp`).
State: `_isIdle`, `_result`. A call resets `_isIdle`, the last message of a
procedure sets it, a blocking call waits for it.
Hard: one flag for every procedure and every thread; the flow drops calls that
come when it is busy, without a message.
Correct when a blocking call returns when its procedure has ended, and not before.

**The rest**: read-write lock, futures and jobs, signals, the scheduler's timer, the
retries of the HTTP executor; bridge discovery (`bridgediscovery/`), mixer and
effects, protocol serializer, DTLS and UDP connectors, configuration, serialization,
wrappers and examples. `PROJECT.json` lists each with what is done about it.

### Hazards

`PROJECT.json` lists the hazards of this code, each at its line, with the properties
that would notice. They fall into eight groups:

1. answers of an aborted procedure that arrive in the next one (CF:353, CF:727);
2. waits that nothing ends (CF:583, CF:495, `Connect.cpp:62`);
3. stored bridges lost by a save (CF:718, CF:705), or listed twice (`HueStreamData.cpp:62`);
4. monitor events that come into a procedure, or after it (CF:290);
5. threads that wait for each other (`Stream.cpp:166`, `HttpClient.cpp:24`,
   `OperationalQueue.cpp:237`, `Connect.cpp:140`);
6. order of notification, flag and thread (`MessageDispatcher.cpp:21`,
   `OperationalQueue.cpp:75`, `Stream.cpp:123`);
7. an object that several threads are about to delete (`HttpClient.cpp:128`), tickets
   that are discarded while they run or wait (`QueueExecutor.cpp:93`);
8. a retriever that is released, left in use, or without a caller to tell (BC:1614,
   BC:171, BC:1599), an event stream too many (BC:189), a picture of the bridge that
   does not follow it (BC:294, BC:1871, BC:783).

## 2. The modules

| module | models | extends |
|---|---|---|
| `FifoExecutor` | abstract: actions run once, in order, one at a time | |
| `MessageDispatcher` | the dispatcher, one action per critical section | instance of `FifoExecutor` |
| `MessageDispatcherProofs` | its safety, for all constants | `MessageDispatcher` |
| `Bridge` | facts about a bridge, its status, `CompareBridges` | |
| `HueStreamData` | the list of bridges over a heap of shared objects | `Bridge` |
| `StreamSession` | `Stream` and `StreamStarter` as the flow calls them | `HueStreamData` |
| `FlowState` | the variables of flow and collaborators, messages to the client | `StreamSession` |
| `ConnectionFlow` | every handler of the flow | `FlowState` |
| `ConnectionSystem` | client, search, retrievers, scheduler, monitor; the properties | `ConnectionFlow` |
| `ConnectionSystemProofs` | procedures, waits and searches, for all situations | `ConnectionSystem` |
| `Stream` | the session's threads around `_lock` | |
| `StreamProofs` | its safety, for all constants | `Stream` |
| `Connect` | client threads that wait for procedures | |
| `ConnectProofs` | when a blocking call returns, for all constants | `Connect` |
| `ThreadPool` | workers that take tasks from a queue | |
| `TicketQueue` | abstract: tickets in order, suspended tickets, discards | |
| `OperationalQueue` | the queue, one action per critical section | `ThreadPool`, instance of `TicketQueue` |
| `OperationalQueueProofs` | its safety, and that it is a `TicketQueue`, for all constants | `OperationalQueue` |
| `QueueExecutor` | an executor on that queue, and its operations | `OperationalQueue` |
| `QueueExecutorProofs` | its safety, for all constants | `QueueExecutor`, `OperationalQueueProofs` for its lemmas |
| `HttpClient` | the client, curl's thread, the callbacks | |
| `HttpClientProofs` | the life of its requests, for all constants | `HttpClient` |
| `BridgeConfigRetriever` | control of the CLIP v2 retriever: calls, requests, events | |
| `BridgeConfigRetrieverProofs` | its safety, for all constants | `BridgeConfigRetriever` |
| `BridgeResources` | data of the CLIP v2 retriever: what fetches and events make of the bridge | |
| `MC...` | clients, networks, files, bridges for TLC | |

**Dispatcher.** The code takes `_mutex` in each function and the model has one
action for each critical section. The notification of `Queue` is outside the
mutex and is an action of its own. A thread in `_condition.wait` is in `sleeping`
until somebody notifies or it wakes up spuriously. Actions are numbered as they
are queued, so that `RunsInOrder` can be stated as a refinement of `FifoExecutor`
with the numbers as the mapping: `accepted <- posted`, `finished <- executed`,
`running <- current`.

**Flow.** A handler runs to its end on the dispatcher's thread and is one action,
`DoConnectToBridge`, `LoadingCompleted` and so on. It calls functions that call
functions, so a step is written as an operator on a record `w` of all variables,
composed as the calls are: `StartLoading(Begin(Popped, "CONNECT"), ...)`; `Become`
assigns the result. That dispatching in order is sound is what the dispatcher's
theorems say.

- `state`, `request`, `data`, `startState` are `_state`, `_request`,
  `_persistentData`, `_bridgeStartState`; `procs`, `count`, `background` are
  `_authenticationProcessesInfo`, `_ongoingAuthenticationCount`,
  `_backgroundDiscoveredBridges`.
- `heap` maps object names to bridges. `shared_ptr<Bridge>` is an object name, a
  `Clone` is a new object. What a retriever writes is written to the heap, where
  the list sees it. Objects nobody refers to are reset to the empty bridge, and
  their names used again, so that states stay comparable.
- `queue` is the dispatcher's queue, a sequence of messages named after the
  handlers. `search`, `small`, `full`, `tasks` are requests under way.
- `told` remembers, of the messages to the client, whether a procedure is open and
  which results it was told. It exists for the properties only.
- The answers of the network, the user's button and the file are chosen from sets
  that the run gives, in the step in which the code learns them. A request answers
  for the device that has the address it was sent to.

**Collaborators.** Between two handlers, a search ends, a configuration arrives (or
does not), a task is due, a check of the monitor begins and ends. For CLIP v1, the
order of callback and `_busy = false` in `FullConfigRetriever.cpp:469` is modelled
by two steps. `NewFeedbackMessage` of `HueStream`, which starts and stops the
monitor, is part of every message (`SayAs`).

**Stream.** Two threads, the dispatcher's (`flowPc`) and the one that renders
(`renderPc`), one action per stretch between accesses to what they share. Bridge
and group are left out here; they are the subject of `StreamSession`.

**Connect.** Each operation holds `_mutex` from first to last line and is one
action. The flow appears as what it does to calls: accept, drop, end, abort. `lost`
records the calls that were dropped because an internal procedure, which sends
the client no message, was running.

**Queue.** Every thread has a stack of frames, one for each call of the queue it is in,
and the top frame is its program counter. A processing loop is a frame, and so is the
ticket it executes: `wait_ticket` from a ticket puts a nested loop on top of it. A step
is one critical section of `sync_mutex`, or what lies between two. `registry`,
`processing_queue`, `current_ticket_stack`, `is_scheduled`,
`stop_processing_requested` and `processing_thread_id` are the members of those names;
`completed` are the tickets whose promise is set. `QueueExecutor` adds the executor's
list and its flag, and the frames of `execute` and `clear`. `TicketQueue` has none of
this: tickets are pending, waiting in order, executing or suspended for another one.
The mapping reads what suspended tickets wait for from the frames of the nested loops.

**HTTP.** The same stacks of frames for the application's threads, the thread that runs
callbacks and the one of `delete_later`. Of the queue that runs the callbacks the module
keeps what `TicketQueue` promises, nesting included. `object` says whether the
`HttpRequest` of a request (and the `CurlRequest` in it) exists; `messages`, `multi`,
`is_complete`, `callback_posted` are what `CurlHttpClient` and `CurlRequest` keep.

**Retriever, control.** Two threads, `flow` (the dispatcher's: calls, refreshes,
disconnections) and `http` (callbacks), one step for each access to one of the three
atomic flags that the other thread's steps can come between. A fetch is the chain
whitelist, application id, resources; `requests` counts what is under way. `responseEvent`
is the stream of which the beginning of an event has come. The history variables
`released`, `stuck` and `lost` record three things the code lets happen (section 6); the
properties are about everything else.

**Retriever, data.** What the callbacks do with an answer or a message is one step here,
since they run one at a time. `real` is the bridge, external: it changes and sends items,
several to a message. `app` has the retriever's JSON maps (`light`, `zigbee`, `devices`,
`scene`) and the lists the application reads (`groups`, `zones`), as the code has: a
group has a copy of its lights, made when it was parsed and patched since. `Apply` is
`ParseJsonEvent` for one item, one operator for each handler; `ByType` is the order the
items of a message are applied in. A device with its services is one light, the on state
stands for all that `UpdateLight` copies.

**Mutants.** Operators whose name begins with `Bug` are mutated forms of the
definition after them, a dropped guard, a forgotten notification and the like, and
are part of no specification. `PROJECT.json` pairs each property with one of them:
with the mutant in place TLC finds the property violated. A property without such
a mutant would say nothing about the code.

## 3. The runs

`tlc -config X.cfg M`. Deadlock checking is off in all of them, because clients make a
bounded number of calls, and then the system rightly stops. What could be stuck is
covered by `WaitingHasWakeup` and the liveness properties. Several properties are
conjunctions of parts that have a comment each; the type invariant of a module that has
one is a part of its first property.

| run | module, cfg | properties | states |
|---|---|---|---|
| dispatcher | MCMessageDispatcher | NoLostWakeup, RunsInOrder, NoActionStartsDuringStop, NothingWaitsForEver | 1,397 |
| system | MCConnectionSystem, System | WellFormed, WaitingHasWakeup, SessionIsWithActiveBridge, StoredBridgesAreKept, StreamStartsInProcedure, OutcomeIsReported | 1,251,594 |
| aborting | MCConnectionSystem, Aborting | ProcedureIsOpenWhileBusy, OneAnswer, NewBridgeIsSearchedFor, ProcedureEnds | 119,599 |
| connect | MCConnect, Connect | BusyMeansOngoing, BlockingCallIsHandled, BlockingCallReturns | 917 |
| streamThread | Stream, StreamThread | SessionIsWhole, NoFrameAfterStop, FramesAreConnected, FramesFollowOn | 39,810 |
| queue | OperationalQueue | TicketIsInOnePlace, OneLoopWhileScheduled, StopIsFinal, QueueGoesOn, ImplementsTicketQueue | 73,019 |
| executor | QueueExecutor | ShutdownKeepsPromise, DiscardedNeverStarts, ClearReturns | 161,038 |
| http | HttpClient | RequestLivesOnce, OneAnswer, DestroyedIsQuiet, CallsReturn | 184,525 |
| retriever | BridgeConfigRetriever | BusyIsExact, AnswerIsSound, OneStreamWhenConnected, RetrieverGoesOn | 188,169 |
| resources | MCBridgeResources, BridgeResources | ResourcesFollow, SelectionIsValid, StreamLossIsTold | 1,213,502 |

Two more runs end in a counterexample; section 6 describes them.

**dispatcher.** Two client threads and the actions themselves queue four actions;
the owner executes and stops the dispatcher twice. Two threads are enough for
`Queue` to race with `Queue`, four actions for an action to be queued in each phase
of the other threads, two executions for an action to be left from the first.
There is nothing else in the dispatcher's state that grows; the safety properties
are proved for any bounds.

**system.** Three scenarios of the flow with its collaborators, two calls of the client
in each: a call leaves nothing behind but the state between procedures, and the second
may be queued at any time during the first.
*Streaming*: one known bridge with one group or two, and an unsupported device at another
address; the first call connects, the second connects (also by the address of the
unsupported device), selects a group, starts or stops streaming, with automatic start.
Every failure the code distinguishes may happen: the file cannot be opened, the bridge is
silent, refuses the user or sends half of its configuration, the button is not pressed, the stream is refused in each of
its ways, the port does not answer.
*Switching*: two stored bridges that are both on the network, and every call by which a
client gets from one to the other or resets, with a retriever that may still be busy with
the last request. The client's first call loads the file, directly or by a connect: that
is the way the library is meant to be used, and what happens otherwise is the run
resetFirst.
*Watching*: one known bridge, of CLIP v1 or v2, and one check of the monitor, that may
begin whenever the monitor is on and end at any time after. It may find that the bridge
streams, has ceased to, is gone, has come back; the events it queues are handled in or
between procedures.

**aborting.** Three scenarios.
*Aborting*: three calls, each a connect or an abort. So a connect may be aborted
at every point, and another connect follow while answers of the first are still in
the queue or under way, or be aborted in its turn. A bridge that is not
authorized sends the flow back to authenticating; a pushlink to a dead address is
repeated `MaxTries` times.
*Waiting*: four calls of a client that calls nothing while an abort of it is queued
(`AbortsWait`): two procedures and two aborts, so that a search which was aborted, with
its answer queued, can meet a later search.
*Renewing*: such a client again, four calls, with automatic start, and procedures that
would succeed: it connects, aborts at any point, and then connects to a new bridge, selects
a group or resets, while a load, a save or a retrieval of the aborted procedure is still
queued or under way. Four calls are enough for two aborted procedures and what follows
either of them.

**connect.** One thread makes blocking calls for procedures, another calls Abort,
blocking or not, six calls in all, and internal procedures come in between. One
thread suffices as the caller of procedures, as with two the property does not hold
(section 6).

**streamThread.** Any number of sessions, five attempts to connect, as in the code,
and `_seqNr` with its 256 values. The state space is finite without another bound.

**queue.** Three tickets, one client, a pool of two workers that may be shut down. Each
ticket may create, schedule, discard and wait for the others, so loops nest three deep:
one ticket executes, one is suspended for it, one is waited for or discarded by the
client. Two workers are what a second loop would need.

**executor.** Two clients and two tickets, one of them not cancelable, two calls that
clear, shut down, cancel or wait, from clients or tickets. Two clients are enough for an
`execute` to be anywhere while another thread shuts down, and for two shutdowns to meet.

**http.** An ordinary request and an event stream, two threads of the application that
execute, cancel and destruct, callbacks of each request that cancel the other. The last
callback, a cancellation and the destructor thus race for the same request, one of them
from inside a callback. Two parts of the stream's answer may arrive.

**retriever.** Two calls of `Execute`, for the same or another bridge, two resources (one
that is followed by another, and the last), and three disturbances: an event or a part of
one, the end of the stream, a refresh, a disconnection, a name that is looked up. Three
are enough for a refresh to overlap a fetch and an event to arrive in it.

**resources.** Three bridges: a light in two places of a group and in a zone; a group
that streams; two groups, one with another streamer. Two changes of the bridge, in one
message or in two, two fetches, and a client that selects a group. A change sends up to
six items.

The bounds, by name: `MaxCalls` (calls of a client), `MaxChecks` (checks of the
monitor), `MaxTries` (1; 3 in the code, `PUSHLINK_INVALID_IP_MAX_RETRIES`),
`MaxActions` and `MaxExecutes` (dispatcher), `Objects` (ten names for bridge
objects, more than are ever alive at once: `Fresh` would fail otherwise),
`MaxAttempts` and `SeqNumbers` (the values of the code), `MaxEvents` (parts of event
streams), `LastResource` and `MaxDisturbances` (retriever), `Streams` (ids of event
requests, of which `RetrieverGoesOn` shows that there are enough), `MaxChanges`,
`MaxFetches`, `MaxLocations` (resources). Tickets and requests are used once each.

### The properties, and what they are about

- `NoLostWakeup`, `NothingWaitsForEver`: the notification after the unlock in
  `Queue` is enough.
- `WellFormed`: types, and the list has one entry for a bridge, although ids are
  written through shared objects.
- `WaitingHasWakeup`: in every state that waits, what it waits for is queued, under
  way or scheduled. It is a safety property that finds what a liveness property
  would need fairness for.
- `ProcedureIsOpenWhileBusy`: USERPROCEDURE_STARTED and USERPROCEDURE_FINISHED
  bracket every procedure of the client, and the flow is busy with a user request
  exactly between them. `Connect` relies on it.
- `OneAnswer`, of two parts. `OneSearchAnswer`: while the flow searches exactly one answer
  is outstanding, so a search that was aborted cannot answer the next one: for a client
  that waits for the end of an abort. With calls queued behind an abort it can, and the
  other requests can anyway (section 6).
  `OneSaveAnswer`: `SavingCompleted` does not look at the state. For the same client, while
  a procedure works, the only one queued is the answer to its own save: one of an aborted
  procedure neither ends a later procedure nor starts the stream in it.
- `SessionIsWithActiveBridge`: who leaves a bridge stops the stream to it first.
- `StoredBridgesAreKept`: what is saved contains every bridge that was known, unless the
  client resets; and a reset of a bridge deletes one.
- `NewBridgeIsSearchedFor`: ConnectToNewBridge completes only after a search, also when the
  load, save or retrieval of an aborted procedure ends in it. This is for a client that waits
  for the end of its aborts: for another, a load of an aborted connect may be taken for its
  own.
- `StreamStartsInProcedure`, `OutcomeIsReported`: a stream starts only in a procedure
  that is open, and a procedure that saved its result told one, except where section 6
  says so.
- `ProcedureEnds`: no cycle of failing, searching, authenticating and retrieving
  goes on for ever.
- `BusyMeansOngoing`, `BlockingCallIsHandled`, `BlockingCallReturns`: `GetResult`
  says Busy for a reason, a blocking call does not return too early, and returns.
- `SessionIsWhole`, `NoFrameAfterStop`, `FramesAreConnected`, `FramesFollowOn`: the
  flag, the connection, the thread and the frames of a session belong together.
- `TicketIsInOnePlace`, `OneLoopWhileScheduled`, `StopIsFinal`, `QueueGoesOn`,
  `ImplementsTicketQueue`: one ticket executes, promises are set once, a discarded ticket
  does not run; a scheduled ticket has exactly one loop that will find it; the destructor
  returns, and after it nothing runs; the order is that of `TicketQueue`.
- `ShutdownKeepsPromise`, `DiscardedNeverStarts`, `ClearReturns`: after `shutdown` no
  function of the executor runs and every one that is not cancelable has; cancelling and
  waiting return.
- `RequestLivesOnce`, `OneAnswer`, `DestroyedIsQuiet`, `CallsReturn`: exactly one thread,
  list or queue is in charge of deleting a request, nothing refers to it after, its
  last callback is called once, none after the destructor, and no call waits for ever.
- `BusyIsExact`, `AnswerIsSound`, `OneStreamWhenConnected`, `RetrieverGoesOn`: `_busy` is
  set exactly while there is a call or a fetch, one of them; a call is told one result,
  SUCCESS only of a complete configuration; one event stream while connected, none
  otherwise; calls are answered and the retriever becomes free.
- `ResourcesFollow`: when nothing is on its way, groups with their places, streamers and
  on states, lights, zones, scenes and the busy flag are those of the bridge, with
  exceptions by group and light that section 6 lists.
- `SelectionIsValid`, `StreamLossIsTold`: the selected group does not vanish and stay
  selected; the loss of the session is told once, and only when it is lost.

## 4. Fairness

*Dispatcher.* Weak fairness of the steps of each thread inside a call: threads are
scheduled, and a mutex that is free is obtained. Nobody is obliged to call. That
actions return is part of it (`LoopActionReturns`): handlers make no blocking wait
that depends on the dispatcher.

*Flow.* The dispatcher's thread runs what is queued. A search, a request or a
scheduled task comes to an end: searches and HTTP requests have time-outs, a task
has a time. Beyond that, `ProcedureEnds` needs the world to comply: a bridge that is
asked for its configuration infinitely often answers infinitely often, and a user
who is asked to press the button infinitely often presses it. Without the
first a search and a failing retrieval feed each other for ever, without the second
the pushlink goes on, by design, until somebody aborts. In the module these
conditions are written as `[]<>p \/ []<><<A>>_vars` with the enabling condition
spelled out, which is WF (and with `<>[]` SF) for actions whose enabling condition is
known, and saves TLC the evaluation of ENABLED on large steps.

*Connect.* The flow takes what is queued, a procedure ends (`ProcedureEnds` above),
a waiting thread that may go on does.

*Stream.* Threads run; a thread that waits for `_lock` gets it if it is free again
and again (strong fairness): the thread that renders sleeps between two frames.

*Queue and executor.* Threads run. The function of a ticket returns: strong fairness for
each worker, because a function may call the queue in between, and its return is not
enabled while it is in a call; it does not call for ever.

*HTTP.* Threads run, curl's thread among them; a callback of the application returns; a
transfer ends, by its time-out at the latest, unless it is an event stream.

*Retriever.* Both threads run, and a request is answered, by its time-out at the latest:
that is what *HTTP* shows of the client below it.

## 5. The proofs

Each proof module EXTENDS the module it is about. Nothing is assumed except the
named assumptions on the constants, which say that threads, calls and the like are
distinct, and that bounds are numbers.

**`MessageDispatcherProofs`**, for any set of clients, any number of actions and of
executions. The inductive invariant is

    IInv == TypeOK /\ ThreadsInv /\ OrderInv /\ NoLostWakeup

`ThreadsInv` relates owner and dispatcher thread (while the owner joins, the flag is
down; the thread enters only while the owner waits for it). `OrderInv` says that the
queue holds exactly the numbers that have not been started, in order, which is what
makes a `LoopTake` the next `Begin` of `FifoExecutor`.

- `NoWakeupIsLost`: `Spec => []NoLostWakeup`.
- `StopStopsTheQueue`: `Spec => NoActionStartsDuringStop`.
- `DispatcherIsFifo`: `Spec => RunsInOrder`, the refinement. It justifies the atomic
  handlers of `ConnectionFlow`.

**`StreamProofs`**, for every number of attempts and every width of the frame number,
with a render thread or without. The inductive invariant adds to `TypeOK` who holds
`_lock` (`LockInv`), which part of a session exists at each point of `Start` and `Stop`
(`SessionInv`), when there is a thread that renders (`RenderInv`), and what the next
number is (`NumberInv`). The essential fact is that with a render thread there is none
from the moment `Start` begins until it creates it, so `Start` may change flag, connection
and number without the lock.

- `SessionsAreWhole`, `NoFrameOutlivesStop`: whoever renders.
- `FramesUseTheConnection`, `FramesAreNumbered`: assuming `UseRenderThread`. An
  application's own frames during `Start` break these two (section 6).

**`ConnectProofs`**, for any number of client threads and of calls, with or without
internal procedures.

- `BusyIsJustified`: `Spec => []BusyMeansOngoing`, whatever the threads call. The
  inductive form `BusyInv` is stronger: among what is queued there is a call that is
  not an abort, since an abort that finds nothing to abort does not set `_isIdle`.
- `LoneCallIsHandled`: if one thread makes blocking calls for procedures, and every
  other thread only aborts, `Spec => BlockingCallIsHandled`. `LoneInv` says that the
  only call under way is the one the thread waits for: it is in the queue, or its
  procedure runs, or it is handled; and while it is one of the first two, `_isIdle`
  is reset.

**`BridgeConfigRetrieverProofs`**, for any number of calls, bridges, resources, events,
refreshes and disconnections. The inductive invariant is

    IInv == TypeOK /\ PlaceInv /\ LockInv /\ StreamInv /\ AnswerInv

None of the run's properties is inductive. `_busy` is a lock that one thread takes and
another one resets, steps later: `LockInv` counts everything that can be in use of it (a
call, each stage of a fetch, the end of a failed one) and says that the count is at
most one and `_busy` set if it is one, unless `released`. `StreamInv` says where the event
stream is at each point of a call or fetch: closed before the fetch, open at its end, and
being cancelled in between only by the thread that is at `cancel`; and that a callback is
kept only while there is no stream, which is why an event does not call it again.
`AnswerInv` says that the caller that is kept is an earlier one than the call under way
and has no answer while a stage of its fetch is under way. Each part has a lemma with one
step per action; `CallExcludesFetch` is what the lock gives the other two.

- `RetrieverInvariant`: `Spec => []IInv`.
- `RetrieverBusyIsExact`, `RetrieverAnswerIsSound`, `RetrieverHasOneStream`: the three
  safety properties of the run.

**`ConnectionSystemProofs`**, for every set of situations: any bridges, files, answers of
the network, calls, aborts, checks of the monitor and tries of the pushlink, and any
number of objects. It assumes `SetupsAssumption`: the client's calls are those of
`ConnectionFlow.h`, a DoReset is for RESET_BRIDGE or RESET_ALL (`ConnectionFlow.cpp:201`,
`:204`), and a search finds a list of bridges. The inductive invariant is

    IInv == setup \in DOMAIN Setups /\ checks \in Nat /\ Good(Now)
    Good(w) == Base(w) /\ OpenOK(w) /\ AttemptsOK(w) /\ Awaited(w)

A handler is composed of functions on the record `w` of the variables, and so is its
proof. A function that does not end a handler preserves `Mid(w)`, what holds in the
middle of a procedure; one that ends it (`Finish`, `StartSaving`, `StartRetrieveFullConfig`
and so on) leads from `Mid(w)` to `Outcome(w, v)`, a list of the ways in which a
procedure ends or goes on; and each of these is `Good`. `Awaited` is
`WaitingHasWakeup` without the pushlink, where the property is not inductive:
`AuthenticationCompleted` goes on waiting as long as `_ongoingAuthenticationCount` is not
1, so the count must not exceed the bridges that are really still asked. `AttemptsOK`
says this: it counts the bridges that have a task, an answer or a repetition of their
own (`InTurn`), though late answers of an aborted procedure, which carry the same names,
decrease the count as well. `RetrieverOK` says that, with `PromptUnbusy`, a busy
retriever owes the flow an answer. Nothing is said of what the bridges are or which one is
active, so the names of objects need not suffice.

- `ProceduresAreBracketed`: `Spec => []ProcedureIsOpenWhileBusy`.
- `NothingWaitsInVain`: `Spec => []WaitingHasWakeup`.
- `ProceduresGetTheirOwnAnswer`: `Spec /\ []NothingBegun => []OneAnswer`, where
  `NothingBegun` says that no event BRIDGE_CONNECTED or BRIDGE_REFRESHED of the monitor is
  queued: those make the flow begin an INTERNAL retrieval or save, ahead of what is
  queued. The invariant is `InPlace`: the answer of a search, or of a save, is in the queue
  while the flow waits for it, or the flow is Idle and drops it before it accepts another
  call. The save matters because `SavingCompleted` does not look at the state, and a save
  that ends in the next procedure would end that one's search too. That an answer is
  queued at all while the flow waits for it is in `Awaited`.
- `NewBridgesAreSearchedFor`: `Spec /\ []NothingBegun => [](AbortsWait =>
  NewBridgeIsSearchedFor)`. The invariant adds `Sought` to `InPlace`: a procedure
  CONNECT_NEW that has not searched yet is Loading, each LoadingCompleted in the queue goes
  on with a search, and DONE_COMPLETED has not been told. `InPlace` is what makes that
  LoadingCompleted this procedure's own.
- `StreamStartsWhenAsked`: `Spec => StreamStartsInProcedure`. The invariant is `Ready`, for
  a client that never aborts and without checks of the monitor: no procedure is INTERNAL, at
  most one SavingCompleted is queued and the flow is then Saving. That the second holds needs
  `OneRetrieval`: of a retrieval there is one answer outstanding, and an event of the
  monitor is queued only ahead of the completion that belongs to it, so nothing else is
  saved in the meantime.

**`OperationalQueueProofs`**, for any number of tickets, clients and workers. The
inductive invariant is

    IInv == /\ TypeOK /\ ClientFrames /\ \A w \in InLoop : LoopFrames(w)
            /\ OneLoop /\ Scheduled /\ Places /\ Promises

`LoopFrames` says that loops and tickets alternate on the stack of the worker that has the
loop, one ticket for each entry of `current_ticket_stack`, which is what lets promises,
stack and registry stay in step with the nesting. `OneLoop` says that the loop is about to
be added to the pool, in it, or on one worker, and that `processing_thread_id` tells
which; `Scheduled` that `is_scheduled` says so, and is set while a ticket is in the queue.
`Places` and `Promises` say that a ticket is in one place, and that a thread which is about
to set a promise is the only one, of a ticket that is no longer registered.

- `TicketsAreInOnePlace`, `OneLoopIsUnderWay`, `StoppingIsFinal`: the three safety
  properties of the run.
- `ImplementsQueue`: `Spec => ImplementsTicketQueue`, the refinement, step by step.
  `AwaitedIs` says what the mapping of the suspended tickets, which is read from the frames
  of nested loops, is at each depth.

**`QueueExecutorProofs`**, for any number of tickets, clients, workers and calls, and any
set of tickets that are not cancelable. The proof takes from `OperationalQueueProofs` the
lemmas about sequences and frames, not the invariant: `clear` and `execute` call the queue
from frames of their own, a function may be in `clear` while it runs, and so loops and
tickets do not alternate any more. The inductive invariant is

    ExecutorIInv ==
        /\ ExecutorTypes
        /\ \A c \in Clients : ClientCalls(c) /\ ClosedAreGone(c)
        /\ \A w \in Workers : WorkerCalls(w)
        /\ LoopIsOne /\ StackOfFrames /\ TicketPlaces /\ FramesHold
        /\ PostedOnce /\ AfterShutdown

`StackOfFrames` replaces the alternation: the entries of `current_ticket_stack` are the
tickets of the frames that run a function, in the order of the frames. `TicketPlaces` says
where a scheduled ticket is (queued, begun or no longer registered), that what is queued is
on the executor's own list, and that of the tickets that are gone those which are not
cancelable were started or cancelled. `FramesHold` is what a frame remembers: `clear`
works only on tickets that were posted, discards none that is not cancelable, and a
`clear` of `shutdown` runs with `closing` set, after which nothing is posted.

The core of the argument is `ClosedAreGone`: a client's `clear` is done with the tickets it
closed, except for the one that it waits for at this moment. It holds of clients and not of
functions, for which `discard_ticket` and `wait_ticket` return at once if the ticket is
suspended below them (the comment at `QueueExecutor.cpp:164`). So when the loop of a
client's `clear` finds nothing that it has not closed, nothing that was posted is
registered, and nothing is queued or runs (`AfterShutdown`). `PickedFacts` says
that `remove_if` loses no ticket that it should keep and repeats none.

- `ExecutorInvariance`: `ExecutorSpec => []ExecutorIInv`.
- `ExecutorKeepsPromise`: `ExecutorSpec => []ShutdownKeepsPromise`.
- `DiscardedStaysUnstarted`: `ExecutorSpec => DiscardedNeverStarts`, because a step can
  start only a registered ticket, and a ticket is registered once.

**`HttpClientProofs`**, for any requests, event streams among them, any of which may have
callbacks that cancel others, any threads of the application and bound of events. The
inductive invariant is

    IInv == /\ TypeOK /\ Forms /\ Shutdown /\ Ownership /\ Unknown /\ Transfer
            /\ Stops /\ Callbacks /\ Running /\ Answered /\ Deleted

`Forms` says which calls can be on top of which on each thread. `Ownership`: a request that
exists is in `_active_requests`, in the queue of `delete_later`, or owned by one frame, and
only one. From this follows that STOP is sent once (`Stops`): only the owner sends it. A
request whose response is sent has one last callback, queued or running (`Callbacks`,
`Running`), and the owner deletes it when curl and the callbacks are through with it
(`Transfer`, `Deleted`).

- `RequestsLiveOnce`, `RequestsAreAnsweredOnce`, `QuietAfterDestruction`: the three
  safety properties of the run.

### What stays with TLC

- Liveness (`NothingWaitsForEver`, `StopReturns`, `ProcedureEnds`, `BlockingCallReturns`,
  `QueueGoesOn`, `ClearReturns`, `CallsReturn`, `RetrieverGoesOn`): TLAPS does not handle
  ENABLED, so nothing follows from fairness.
- Of `ConnectionSystem`: `WellFormed` and the properties about bridges, files and the
  session. They depend on the heap: that objects are shared only where the code shares
  them, and that `Objects` has a name left for each new bridge. Neither is part of the
  invariant above.
- `ResourcesFollow`, `SelectionIsValid`, `StreamLossIsTold` of `BridgeResources`: they are
  about what folds over lists compute, which needs induction over data.

There is no RECURSIVE operator in the project.

## 6. What the code does otherwise than it says

Each of these runs finds a counterexample to a statement in the repository.

| run | property | what happens |
|---|---|---|
| resetFirst | ResetBridgeKeepsOthers | `ResetBridge` as the first call saves the empty list: every stored bridge is deleted (CF:705; `IHueStream.h:196` speaks of the active bridge) |
| stopDeadlock | StopReturns | `Stop` joins the render thread with `_lock` held, which that thread wants (`Stream.cpp:166`; `IHueStream.h:284` says blocking execution) |

For the second fairness is assumed, and the trace ends in a state where neither
thread can go on.

Seen with the models, and excepted in the properties where these would forbid it:

*Flow, client, stream*
- A connect while streaming, without automatic start, ends with no DONE message (CF:746,
  whose comment assumes one), as does the selection of a group of a bridge that is not
  ready, and a procedure in which the monitor changes the bridge between
  `RetrieveFullConfigCompleted` and `SavingCompleted`. `OutcomeIsReported` leaves them out.
- The save of an aborted procedure still ends in `SavingCompleted`, which starts the
  stream (CF:727), and it ends and starts the stream in the next one of a client that has
  queued calls behind the abort; so may an INTERNAL procedure of the monitor.
  `OneSaveAnswer` and `StreamStartsInProcedure` are about the others.
- A connect by address (CF:113), and a search in an INTERNAL procedure, do not stop the
  stream to the bridge they leave. `SessionIsWithActiveBridge` leaves them out.
- `HueStream::Start` and `Stop` may return before the flow has begun: `StartStream` does
  not reset `_isIdle` (`Connect.cpp:125`; `IHueStream.h:186` says blocking).
- A late event of the monitor makes the bridge of a check the active one again,
  also one that was reset in the meantime (CF:297).
- A stream whose port does not answer is reported as an internal error (CF:764).
- The load of an aborted connect is taken for the load of a ConnectToNewBridge that
  follows, which then connects to the stored bridge (CF:353).
- In the same way an aborted search can answer a later one when calls are queued behind
  aborts: connect to a new bridge, abort, connect, abort, connect. The second connect
  takes the load of the first for its own and begins to search; the second abort stops that
  search, whose empty result (CF:268) is queued behind the load of the second connect; the
  third takes that load for its own, and searches while the result is still to come.
  `OneSearchAnswer` is about clients that wait for the end of an abort.
- A pushlink attempt that was due when the procedure was aborted still goes out
  (CF:529).
- A background connect, when its retrieval is refused, asks for the button (CF:578).
- `Stream::Start` compares bridge and group: when the bridge has dropped the session,
  a start completes and nothing streams (`Stream.cpp:49`).
- A blocking call behind an asynchronous one returns with the end of the first
  (`Connect.cpp:41`).
- A call that comes during an internal procedure is dropped, and the result stays
  Busy until another procedure has ended (`Connect.cpp:62`).
- A retrieval that begins before the retriever of the last one has reset `_busy` is
  refused, and the flow waits for ever (CF:583, `FullConfigRetriever.cpp:469`).
- An application that renders its own frames may send one during `Start`, before the
  connection is made (`Stream.cpp:123`).

*Queue and HTTP*
- A ticket that waits for a ticket that another thread discards goes on waiting until
  some other ticket is scheduled: `discard_ticket` notifies nobody
  (`OperationalQueue.cpp:148`). `ClearReturns` leaves it out.
- `HttpClient::Execute` ignores that `ExecuteAsync` returned -1, and waits for ever
  (`HttpClient.cpp:24`); the client that is being destructed sets no request ready (:100).
- The destructor may return while a callback of an event stream is running that cancels
  another request: the end of the stream is told within that callback, as the dispatcher's
  thread waits there, and the destructor takes the stream to be through with its callbacks.
  `DestroyedIsQuiet` leaves these callbacks out.

*CLIP v2 retriever, control.* The history variables record them:
- `released`: the Finish of an event or of a name that was looked up resets `_busy` and
  `_refreshing`, whoever set them (BC:1614); a failed lookup calls a `_cb` that is kept
  for the fetch (BC:1598).
- `stuck`: a refresh that is refused leaves `_busy` set (BC:171), and the last attempt of
  an `Execute` that gives up may set it (BC:55): until an event comes every call waits ten
  seconds and fails.
- `lost`: a refresh that fails leaves `_connected` set, although the lists were cleared
  (BC:1599): the next call is told SUCCESS. A disconnection during a fetch does not stop
  it, and leaves an event stream that nobody cancels (BC:189).
- `_responseEvent` is not cleared when a stream is replaced: after a part of an event
  nothing that follows is understood (BC:476).
- `updatingWhiteList`, a static variable, stays set when a lookup fails: no name is looked
  up again, by any retriever (BC:1540).

*CLIP v2 retriever, data.* The history parts of `app` record them:
- What changes between the answer of a request and `ListenToEvents` is missed (BC:294).
- `UpdateLight` changes a copy of the JSON node (BC:1871): a list that is parsed later has
  the old state.
- `UpdateLight` and `UpdateZigbeeConnectivity` change the first place of a light in a group;
  after the second the group's on state is not computed again (BC:1805).
- `DeleteLight` starts from the old list for each place: of a light with several one
  remains (BC:2084).
- The busy flag is computed before a group that is added is in the list (BC:959), and not
  when another group is selected.
- An update of the locations without channels empties the map of channels (BC:2173), and
  groups and zones are erased in place while other threads may iterate (BC:2205).

## 7. Assumptions, and what is not modelled

- *Clients load first* (`FirstCalls`), except in resetFirst.
- *`AbortsWait`*, in `OneAnswer` and the scenarios *Waiting* and *Renewing*: the client calls nothing while an abort of it is
  queued. `AbortConnecting` (`HueStream.cpp:259`) waits for the end of the procedure, which
  is this, unless the procedure is a start or stop of the stream that it was called right
  after (`Connect.cpp:125`).
- *`PromptUnbusy`*: where `WaitingHasWakeup` and liveness are checked, a retriever
  resets `_busy` before the completion it has queued is handled. The code leaves this
  to the scheduler of the threads; the scenario *Switching* does without.
- *The network is static*: an address belongs to one device while a behaviour lasts.
  `Loopback` is the address that the flow treats specially.
- *A load or a save is instantaneous*, with its result queued, as in the code: it runs
  on the dispatcher's thread.
- *The answers of several bridges to a pushlink* are drawn for at most two at a time.
- *The retriever of CLIP v2* appears in the flow as what it tells it: completion, loss
  and refresh. `BridgeConfigRetriever` and `BridgeResources` are checked on their own:
  the first leaves out the data, the second the interleaving of the two threads. Names,
  classes, proxies, channels, positions, brightness and colours, the feedback that is
  scheduled (`ScheduleFeedback`), and a retriever that is destructed while a callback is
  under way (BC:311) are left out.
- *The queue* is not used by other tickets than those of the model; a ticket that throws
  ends like one that returns; the tick signal has no subscriber that matters.
- *The HTTP client* executes a request once. A callback never cancels its own request,
  which would deadlock and is not done; retries and the monitor of `HttpRequestExecutor`
  are left out.
- *`_streamCounter`* and the settings of `Stream`, *`_result`* of `Connect`, the data
  race of `PrepareMixer` on the group (`HueStream.cpp:415`) are left out.
- *The monitor's own thread* is one check at a time; its `Start` and `Stop` are not
  modelled.
- *Callbacks of the application into the library* are left out: `Connect` calls the
  handler with its mutex held, `Stream` the render callback with its lock held; a
  call back locks the mutex again or joins its own thread.
- *`Execute(true)`* of the dispatcher, which nothing calls, is left out.
- Names, texts, colours, light positions, encryption and file format are left out.
- Discovery, mixer, serializer, connectors, read-write lock, futures, signals: see
  `PROJECT.json`. Most of the lines of the repository are parsing, formatting, colour
  arithmetic, platform code, third-party code and examples, in which nothing interleaves.

## 8. Plan

Done: dispatcher, flow with its collaborators, session, client; then the retriever of
CLIP v2, the HTTP client, the queue and its executor. What is left, in this order:

1. Proofs: `WellFormed` of `ConnectionSystem`, with an invariant about who
   shares an object; with it the other action properties of `ConnectionSystem`,
   which depend on the heap.
2. `ConnectionMonitor`: its thread, with `Start` and `Stop`; `Scheduler` with its timer:
   no task runs after its removal has returned.
3. `ReadWriteLock`: readers exclude writers, the destructor.
4. `_result` in `Connect`, and `ShutDown`: `Connect` and `MessageDispatcher` composed.
5. `ClientProcedure`, an abstract specification of what a client sees (begin, results,
   end), refined by `ConnectionSystem`.
6. Mixer and its lock; discovery's combination of methods; retries of the HTTP executor.
