-------------------------- MODULE OperationalQueue --------------------------
(***************************************************************************)
(* support::OperationalQueue: tickets executed one at a time, in the order *)
(* in which they were scheduled, on a thread borrowed from a thread pool.  *)
(*                                                                         *)
(* Every thread has a stack of frames, one for each call of this class it  *)
(* is in; the top frame says what the thread does next.  A processing loop *)
(* is a frame too, and so is the ticket it executes, because a ticket may  *)
(* call the queue again: wait_ticket called from a ticket runs a nested    *)
(* processing loop on top of it.                                           *)
(*                                                                         *)
(* One step is what one critical section of sync_mutex does, or what the   *)
(* thread does between two of them.                                        *)
(***************************************************************************)
EXTENDS ThreadPool, SequencesExt

CONSTANTS
    Tickets,      \* the tickets that may be created, each of them once
    Clients,      \* threads outside the pool that use the queue
    NoTicket,
    NoThread,     \* std::thread::id{}
    LoopTask      \* the task schedule_processing_loop gives to the pool

Threads == Clients \cup Workers

ASSUME LoopTaskAssumption == LoopTask \in PoolTasks
ASSUME NoTicketAssumption == NoTicket \notin Tickets
ASSUME ThreadsAssumption == Clients \cap Workers = {} /\ NoThread \notin Threads

VARIABLES
    registry,                  \* created tickets, neither completed nor discarded
    processing_queue,
    was_scheduled,             \* the tickets with was_scheduled set
    current_ticket_stack,
    stop_processing_requested,
    is_scheduled,
    processing_thread_id,
    completed,                 \* the tickets whose completed_promise is set
    created,                   \* the tickets create_ticket was called for
    frames                     \* the calls each thread is in

ticketVars == <<registry, processing_queue, was_scheduled, current_ticket_stack,
                stop_processing_requested, is_scheduled, processing_thread_id,
                completed, created>>

queueVars == <<ticketVars, frames>>

vars == <<poolVars, queueVars>>

(***************************************************************************)
(* Frames.                                                                 *)
(*   "loop"      the lambda of schedule_processing_loop, at its start      *)
(*   "check"     processing_loop at its break condition: the loop ends     *)
(*               when the ticket is gone, or, for NoTicket, when there is  *)
(*               nothing left to do                                        *)
(*   "fetch"     processing_loop at sync_condition.wait                    *)
(*   "leave"     the locked block after the outermost processing_loop      *)
(*   "run"       the invocable of the ticket, and the tick after it        *)
(*   "unstack"   the locked block after the invocable                      *)
(*   "complete"  completed_promise.set_value at the end of processing_loop *)
(*   "add_task"  schedule_ticket, about to call schedule_processing_loop   *)
(*   "resolve"   discard_ticket, about to set the promise                  *)
(*   "wait"      wait_ticket, at its start                                 *)
(*   "future"    wait_ticket, at completed_future.wait                     *)
(*   "idle"      stop_processing, at idle_condition.wait                   *)
(*   "join"      ThreadPool::shutdown, at the joins                        *)
(***************************************************************************)
Frame == [at : {"loop", "leave", "add_task", "idle", "join"}, ticket : {NoTicket}]
    \cup [at : {"check", "fetch"}, ticket : Tickets \cup {NoTicket}]
    \cup [at : {"run", "unstack", "complete", "resolve", "wait", "future"}, ticket : Tickets]

At(pc, t) == [at |-> pc, ticket |-> t]

\* The top frame of a thread, and the thread's frames after it goes on, ends
\* its top call, or makes a call from it.
Top(th) == Last(frames[th])
In(th, pc) == frames[th] # <<>> /\ Top(th).at = pc
GoesTo(th, f) == frames' = [frames EXCEPT ![th] = Append(Front(@), f)]
Returns(th) == frames' = [frames EXCEPT ![th] = Front(@)]
Enters(th, f) == frames' = [frames EXCEPT ![th] = Append(@, f)]

\* The threads that may call the queue: a ticket, from its invocable, and a
\* client, as long as the queue is not being destructed.
MayCall(th) ==
    \/ In(th, "run")
    \/ th \in Clients /\ frames[th] = <<>> /\ ~stop_processing_requested

\* is_in_current_ticket_stack
InCurrentTicketStack(t) == t \in Range(current_ticket_stack)

TypeOK ==
    /\ ThreadPoolTypeOK
    /\ registry \subseteq Tickets
    /\ processing_queue \in Seq(Tickets)
    /\ was_scheduled \subseteq Tickets
    /\ current_ticket_stack \in Seq(Tickets)
    /\ stop_processing_requested \in BOOLEAN
    /\ is_scheduled \in BOOLEAN
    /\ processing_thread_id \in Threads \cup {NoThread}
    /\ created \subseteq Tickets
    /\ completed \subseteq created \ registry
    /\ frames \in [Threads -> Seq(Frame)]

Init ==
    /\ ThreadPoolInit
    /\ registry = {}
    /\ processing_queue = <<>>
    /\ was_scheduled = {}
    /\ current_ticket_stack = <<>>
    /\ stop_processing_requested = FALSE
    /\ is_scheduled = FALSE
    /\ processing_thread_id = NoThread
    /\ completed = {}
    /\ created = {}
    /\ frames = [th \in Threads |-> <<>>]

-----------------------------------------------------------------------------
(* Calls of the queue *)

\* create_ticket: once the queue stops the handle is empty and the ticket is
\* in no registry.
CreateTicket(th, t) ==
    /\ MayCall(th)
    /\ t \notin created
    /\ created' = created \cup {t}
    /\ registry' = IF stop_processing_requested THEN registry ELSE registry \cup {t}
    /\ UNCHANGED <<poolVars, processing_queue, was_scheduled, current_ticket_stack,
                   stop_processing_requested, is_scheduled, processing_thread_id,
                   completed, frames>>

\* schedule_ticket, its locked block; the early returns change nothing.
ScheduleTicket(th, t) ==
    /\ MayCall(th)
    /\ ~stop_processing_requested
    /\ t \in registry \ was_scheduled
    /\ is_scheduled' = TRUE
    /\ was_scheduled' = was_scheduled \cup {t}
    /\ processing_queue' = Append(processing_queue, t)
    /\ IF is_scheduled THEN UNCHANGED frames ELSE Enters(th, At("add_task", NoTicket))
    /\ UNCHANGED <<poolVars, registry, current_ticket_stack, stop_processing_requested,
                   processing_thread_id, completed, created>>

\* schedule_processing_loop
ScheduleProcessingLoop(th) ==
    /\ In(th, "add_task")
    /\ AddTask(LoopTask)
    /\ Returns(th)
    /\ UNCHANGED ticketVars

\* Mutant: a ticket that executes is discarded too.
BugDiscardExecuting(th, t) ==
    /\ MayCall(th)
    /\ t \in registry
    /\ processing_queue' = RemoveFirst(processing_queue, t)
    /\ registry' = registry \ {t}
    /\ Enters(th, At("resolve", t))
    /\ UNCHANGED <<poolVars, was_scheduled, current_ticket_stack, stop_processing_requested,
                   is_scheduled, processing_thread_id, completed, created>>

\* Mutant: the discarded ticket stays queued.
BugDiscardKeepsQueued(th, t) ==
    /\ MayCall(th)
    /\ t \in registry
    /\ IF InCurrentTicketStack(t)
       THEN Enters(th, At("wait", t)) /\ UNCHANGED registry
       ELSE registry' = registry \ {t} /\ Enters(th, At("resolve", t))
    /\ UNCHANGED <<poolVars, processing_queue, was_scheduled, current_ticket_stack,
                   stop_processing_requested, is_scheduled, processing_thread_id,
                   completed, created>>

\* discard_ticket, its locked block, and for a ticket that is not executing
\* the promise after it.
DiscardTicket(th, t) ==
    /\ MayCall(th)
    /\ t \in registry
    /\ IF InCurrentTicketStack(t)
       THEN Enters(th, At("wait", t)) /\ UNCHANGED <<registry, processing_queue>>
       ELSE /\ processing_queue' = RemoveFirst(processing_queue, t)
            /\ registry' = registry \ {t}
            /\ Enters(th, At("resolve", t))
    /\ UNCHANGED <<poolVars, was_scheduled, current_ticket_stack, stop_processing_requested,
                   is_scheduled, processing_thread_id, completed, created>>

ResolveDiscarded(th) ==
    /\ In(th, "resolve")
    /\ completed' = completed \cup {Top(th).ticket}
    /\ Returns(th)
    /\ UNCHANGED <<poolVars, registry, processing_queue, was_scheduled, current_ticket_stack,
                   stop_processing_requested, is_scheduled, processing_thread_id, created>>

\* wait_ticket: a thread that is not the processing thread blocks on the
\* future; the processing thread executes tickets until this one is gone,
\* unless it is itself suspended below.  A ticket that is gone: return.
WaitTicket(th) ==
    /\ In(th, "wait")
    /\ LET t == Top(th).ticket
       IN \/ t \in registry /\ th # processing_thread_id /\ GoesTo(th, At("future", t))
          \/ /\ t \in registry /\ th = processing_thread_id /\ ~InCurrentTicketStack(t)
             /\ GoesTo(th, At("check", t))
          \/ /\ t \notin registry \/ (th = processing_thread_id /\ InCurrentTicketStack(t))
             /\ Returns(th)
    /\ UNCHANGED <<poolVars, ticketVars>>

CallWaitTicket(th, t) ==
    /\ MayCall(th)
    /\ t \in registry
    /\ Enters(th, At("wait", t))
    /\ UNCHANGED <<poolVars, ticketVars>>

FutureReady(th) ==
    /\ In(th, "future")
    /\ Top(th).ticket \in completed
    /\ Returns(th)
    /\ UNCHANGED <<poolVars, ticketVars>>

\* stop_processing, called by the destructor: no client is in a call then, nor
\* makes one later.  Tickets that are executing may still call the queue.
StopProcessing(c) ==
    /\ \A d \in Clients : frames[d] = <<>>
    /\ ~stop_processing_requested
    /\ stop_processing_requested' = TRUE
    /\ Enters(c, At("idle", NoTicket))
    /\ UNCHANGED <<poolVars, registry, processing_queue, was_scheduled, current_ticket_stack,
                   is_scheduled, processing_thread_id, completed, created>>

\* Mutant: only the executing ticket is waited for.
BugStopReturns(c) ==
    /\ In(c, "idle")
    /\ current_ticket_stack = <<>>
    /\ Returns(c)
    /\ UNCHANGED <<poolVars, ticketVars>>

StopReturns(c) ==
    /\ In(c, "idle")
    /\ ~is_scheduled
    /\ Returns(c)
    /\ UNCHANGED <<poolVars, ticketVars>>

-----------------------------------------------------------------------------
(* The processing loop, on a worker of the pool *)

StartLoop(w) ==
    /\ TakeTask(w)
    /\ Enters(w, At("loop", NoTicket))
    /\ UNCHANGED ticketVars

SetProcessingThread(w) ==
    /\ In(w, "loop")
    /\ processing_thread_id' = w
    /\ GoesTo(w, At("check", NoTicket))
    /\ UNCHANGED <<poolVars, registry, processing_queue, was_scheduled, current_ticket_stack,
                   stop_processing_requested, is_scheduled, completed, created>>

\* is_done of schedule_processing_loop
IsDone == processing_queue = <<>> \/ stop_processing_requested

\* The break condition of processing_loop: the outermost loop ends when
\* IsDone, a nested one when the awaited ticket is not registered.
RecursionBreakCondition(t) == IF t = NoTicket THEN IsDone ELSE t \notin registry

LoopCondition(w) ==
    /\ In(w, "check")
    /\ LET t == Top(w).ticket
       IN \/ ~RecursionBreakCondition(t) /\ GoesTo(w, At("fetch", t))
          \/ RecursionBreakCondition(t) /\ t = NoTicket /\ GoesTo(w, At("leave", NoTicket))
          \/ RecursionBreakCondition(t) /\ t # NoTicket /\ Returns(w)
    /\ UNCHANGED <<poolVars, ticketVars>>

\* Mutant: the last ticket first.
BugFetchTicket(w) ==
    /\ In(w, "fetch")
    /\ ~stop_processing_requested
    /\ processing_queue # <<>>
    /\ LET t == Last(processing_queue)
       IN /\ current_ticket_stack' = Append(current_ticket_stack, t)
          /\ processing_queue' = Front(processing_queue)
          /\ frames' = [frames EXCEPT ![w] =
                 Front(@) \o <<At("check", Last(@).ticket), At("run", t)>>]
    /\ UNCHANGED <<poolVars, registry, was_scheduled, stop_processing_requested,
                   is_scheduled, processing_thread_id, completed, created>>

\* sync_condition.wait ends with a ticket in the queue ...
FetchTicket(w) ==
    /\ In(w, "fetch")
    /\ ~stop_processing_requested
    /\ processing_queue # <<>>
    /\ LET t == Head(processing_queue)
       IN /\ current_ticket_stack' = Append(current_ticket_stack, t)
          /\ processing_queue' = Tail(processing_queue)
          /\ frames' = [frames EXCEPT ![w] =
                 Front(@) \o <<At("check", Last(@).ticket), At("run", t)>>]
    /\ UNCHANGED <<poolVars, registry, was_scheduled, stop_processing_requested,
                   is_scheduled, processing_thread_id, completed, created>>

\* Mutant: stop_processing does not notify the loop.
BugFetchStopped(w) == FALSE

\* ... or because the queue stops, which ends every processing_loop.
FetchStopped(w) ==
    /\ In(w, "fetch")
    /\ stop_processing_requested
    /\ IF Top(w).ticket = NoTicket THEN GoesTo(w, At("leave", NoTicket)) ELSE Returns(w)
    /\ UNCHANGED <<poolVars, ticketVars>>

\* The invocable returns, and process_tick.
InvocableReturns(w) ==
    /\ In(w, "run")
    /\ GoesTo(w, At("unstack", Top(w).ticket))
    /\ UNCHANGED <<poolVars, ticketVars>>

Unstack(w) ==
    /\ In(w, "unstack")
    /\ current_ticket_stack' = Front(current_ticket_stack)
    /\ registry' = registry \ {Top(w).ticket}
    /\ GoesTo(w, At("complete", Top(w).ticket))
    /\ UNCHANGED <<poolVars, processing_queue, was_scheduled, stop_processing_requested,
                   is_scheduled, processing_thread_id, completed, created>>

Complete(w) ==
    /\ In(w, "complete")
    /\ completed' = completed \cup {Top(w).ticket}
    /\ Returns(w)
    /\ UNCHANGED <<poolVars, registry, processing_queue, was_scheduled, current_ticket_stack,
                   stop_processing_requested, is_scheduled, processing_thread_id, created>>

\* Mutant: the loop leaves without looking at the queue again.
BugLeaveLoop(w) ==
    /\ In(w, "leave")
    /\ is_scheduled' = FALSE
    /\ processing_thread_id' = NoThread
    /\ Returns(w)
    /\ TaskReturns(w)
    /\ UNCHANGED <<registry, processing_queue, was_scheduled, current_ticket_stack,
                   stop_processing_requested, completed, created>>

\* The locked block after the outermost processing_loop: the task goes on if a
\* ticket was scheduled in the meantime, and returns to the pool otherwise.
LeaveLoop(w) ==
    /\ In(w, "leave")
    /\ is_scheduled' = ~IsDone
    /\ IF IsDone
       THEN /\ processing_thread_id' = NoThread
            /\ Returns(w)
            /\ TaskReturns(w)
       ELSE /\ GoesTo(w, At("check", NoTicket))
            /\ UNCHANGED <<processing_thread_id, poolVars>>
    /\ UNCHANGED <<registry, processing_queue, was_scheduled, current_ticket_stack,
                   stop_processing_requested, completed, created>>

-----------------------------------------------------------------------------
(* The pool around the queue *)

\* ThreadPool::shutdown from a client, as HueEDK::deinit does while the global
\* queue still exists: close, then join.
ShutdownThreadPool(c) ==
    /\ frames[c] = <<>>
    /\ ~pool_close
    /\ CloseThreadPool
    /\ Enters(c, At("join", NoTicket))
    /\ UNCHANGED ticketVars

JoinReturns(c) ==
    /\ In(c, "join")
    /\ AllJoined
    /\ Returns(c)
    /\ UNCHANGED <<poolVars, ticketVars>>

IdleWorker(w) ==
    /\ EnterOrLeaveEventLoop(w) \/ WakeToLeave(w)
    /\ UNCHANGED queueVars

-----------------------------------------------------------------------------
\* A step a thread takes by itself, and the calls it may make.
Step(th) ==
    \/ ScheduleProcessingLoop(th)
    \/ ResolveDiscarded(th)
    \/ WaitTicket(th)
    \/ FutureReady(th)
    \/ th \in Clients /\ (StopReturns(th) \/ JoinReturns(th))
    \/ th \in Workers /\ \/ IdleWorker(th)
                         \/ StartLoop(th)
                         \/ SetProcessingThread(th)
                         \/ LoopCondition(th)
                         \/ FetchTicket(th)
                         \/ FetchStopped(th)
                         \/ Unstack(th)
                         \/ Complete(th)
                         \/ LeaveLoop(th)

Call(th) ==
    \/ \E t \in Tickets : \/ CreateTicket(th, t)
                          \/ ScheduleTicket(th, t)
                          \/ DiscardTicket(th, t)
                          \/ CallWaitTicket(th, t)
    \/ th \in Clients /\ (StopProcessing(th) \/ ShutdownThreadPool(th))

Next ==
    \/ \E th \in Threads : Step(th) \/ Call(th)
    \/ \E w \in Workers : InvocableReturns(w)

Spec == Init /\ [][Next]_vars

\* The operating system runs every thread that can go on, and the function of
\* a ticket returns: it may call the queue, but not for ever.
FairSpec ==
    /\ Spec
    /\ \A th \in Threads : WF_vars(Step(th))
    /\ \A w \in Workers : SF_vars(InvocableReturns(w))

-----------------------------------------------------------------------------
(* Properties *)

\* The workers inside the lambda of schedule_processing_loop.
InLoop == {w \in Workers : frames[w] # <<>>}

(***************************************************************************)
(* "At most one ticket is executing at any any time"                       *)
(* (OperationalQueue.h:26): two workers never process the queue at once,   *)
(* and the tickets the one worker has begun, and not unstacked, every      *)
(* other frame of it, are the current_ticket_stack in the order of their   *)
(* nesting, so that pop_back removes the ticket that ended.              *)
(***************************************************************************)
OneTicketExecutes ==
    /\ \A v, w \in InLoop : v = w
    /\ \A w \in InLoop :
          /\ {i \in DOMAIN frames[w] : frames[w][i].at \in {"run", "unstack"}}
                 = {2 * i : i \in DOMAIN current_ticket_stack}
          /\ \A i \in DOMAIN current_ticket_stack :
                frames[w][2 * i].ticket = current_ticket_stack[i]
    /\ InLoop = {} => current_ticket_stack = <<>>

\* Exactly one loop is under way when is_scheduled says so, and none when it
\* does not: about to be added, waiting in the pool, or on a worker.
LoopsUnderWay ==
    Cardinality({th \in Threads : \E i \in DOMAIN frames[th] : frames[th][i].at = "add_task"})
    + Len(pool_tasks) + Cardinality(InLoop)

(***************************************************************************)
(* A scheduled ticket has a processing loop that will find it: a ticket    *)
(* that arrives while the loop is ending is neither left behind nor given  *)
(* a second loop.  (A closed pool drops the task of the loop.)             *)
(***************************************************************************)
OneLoopWhileScheduled ==
    /\ LoopsUnderWay <= 1
    /\ ~pool_close => (is_scheduled <=> LoopsUnderWay = 1)
    /\ processing_queue # <<>> /\ ~stop_processing_requested => is_scheduled

(***************************************************************************)
(* completed_promise is set once: a second set_value throws.  No thread is *)
(* about to set a promise that is set or that another is about to set.     *)
(***************************************************************************)
PromiseIsSetOnce ==
    \A t \in Tickets :
        LET setters == {th \in Threads : In(th, "resolve") \/ In(th, "unstack") \/ In(th, "complete")}
        IN Cardinality({th \in setters : Top(th).ticket = t})
             + (IF t \in completed THEN 1 ELSE 0) <= 1

(***************************************************************************)
(* A ticket that is not registered, because it completed or because a      *)
(* discard removed it, is neither queued nor executing: once discard_ticket*)
(* has returned to a client, the ticket's function is not run any more.    *)
(***************************************************************************)
OnlyRegisteredTicketsRun ==
    /\ Range(processing_queue) \cup Range(current_ticket_stack) \subseteq registry
    /\ Range(processing_queue) \cap Range(current_ticket_stack) = {}
    /\ IsInjective(processing_queue)

\* A ticket is in one place at a time, of the loop, of the threads that wait
\* for it, and of the data of the queue; the types.
TicketIsInOnePlace ==
    TypeOK /\ OneTicketExecutes /\ PromiseIsSetOnce /\ OnlyRegisteredTicketsRun

(***************************************************************************)
(* "Wait for the currently executing ticket (and suspended tickets) to     *)
(* complete and prevent any ticket from starting executing"                *)
(* (OperationalQueue.h:115): when stop_processing has returned no ticket   *)
(* is executing and no loop will start one.                                *)
(***************************************************************************)
StopIsFinal ==
    stop_processing_requested /\ (\A c \in Clients : ~In(c, "idle"))
        => current_ticket_stack = <<>> /\ InLoop = {}

(***************************************************************************)
(* Under an open pool every scheduled ticket is started or discarded,      *)
(* unless the queue stops: no wakeup is lost between the loop that ends    *)
(* and the ticket that arrives.                                            *)
(***************************************************************************)
ScheduledTicketLeavesQueue ==
    \A t \in Tickets :
        t \in Range(processing_queue)
            ~> t \notin Range(processing_queue) \/ stop_processing_requested \/ pool_close

\* Under an open pool the destructor returns: the loop that runs when it is
\* called, nested loops included, notices the request.
DestructorReturns ==
    \A c \in Clients : In(c, "idle") ~> ~In(c, "idle") \/ pool_close

\* The queue goes on: to the next ticket, or to its end.
QueueGoesOn == ScheduledTicketLeavesQueue /\ DestructorReturns

(***************************************************************************)
(* The queue implements TicketQueue, which states the order of execution   *)
(* and of suspension that OperationalQueue.h:22 promises.  The tickets a   *)
(* nested processing loop waits for are the awaited ones.                  *)
(***************************************************************************)
AwaitedBy(w) ==
    LET n == Len(frames[w]) - (IF Top(w).at \in {"add_task", "resolve", "wait"} THEN 1 ELSE 0)
    IN [i \in 1 .. (n - 1) \div 2 |-> frames[w][2 * i + 1].ticket]

Awaited == IF InLoop = {} THEN <<>> ELSE AwaitedBy(CHOOSE w \in InLoop : TRUE)

Queue == INSTANCE TicketQueue WITH
    pending <- registry,
    waiting <- processing_queue,
    executing <- current_ticket_stack,
    awaited <- Awaited,
    stopped <- stop_processing_requested

ImplementsTicketQueue == Queue!Spec

=============================================================================
