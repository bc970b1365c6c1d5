--------------------------- MODULE QueueExecutor ---------------------------
(***************************************************************************)
(* support::QueueExecutor on an operational queue: execute posts a         *)
(* function as a ticket, cancel_all, wait_all and shutdown get rid of the  *)
(* tickets that are left, and an Operation waits for one ticket or         *)
(* discards it.  The calls come from the clients and from the tickets      *)
(* themselves; here nobody else uses the queue.                            *)
(*                                                                         *)
(* Impl::sync protects tickets and closing.  It is held across a step only *)
(* by execute, while schedule_ticket gives the loop to the pool.           *)
(***************************************************************************)
EXTENDS OperationalQueue

CONSTANTS
    NonCancelable,    \* the tickets posted as NON_CANCELABLE
    MaxCalls          \* bound: calls that wait for tickets or discard them

ASSUME NonCancelableAssumption == NonCancelable \subseteq Tickets
ASSUME MaxCallsAssumption == MaxCalls \in Nat

VARIABLES
    tickets,     \* Impl::tickets
    closing,     \* Impl::closing
    started,     \* history: the tickets whose function was started
    cancelled,   \* history: the tickets whose operation was cancelled
    shutDown,    \* history: a client's shutdown has returned
    calls        \* history: the calls counted by MaxCalls

executorVars == <<tickets, closing, started, cancelled, shutDown, calls>>
historyVars == <<started, cancelled, shutDown, calls>>

allVars == <<vars, executorVars>>

(***************************************************************************)
(* More frames:                                                            *)
(*   "create"    execute, about to create its ticket                       *)
(*   "post"      execute, about to lock sync and to post the ticket        *)
(*   "posted"    execute, in schedule_ticket, with sync held               *)
(*   "clear"     clear, about to look at the tickets that are left         *)
(*   "clearing"  clear, working on the tickets it saw                      *)
(* A frame of clear also has the policy, what is left to do in this turn   *)
(* of its loop, the tickets it is done with, and whether shutdown called.  *)
(***************************************************************************)
Policies == {"CANCELABLE", "NON_CANCELABLE"}

ClearFrame(pc, f, work, closed) ==
    [at |-> pc, ticket |-> NoTicket, policy |-> f.policy, shutdown |-> f.shutdown,
     work |-> work, closed |-> closed]

NewClear(policy, shutdown) ==
    ClearFrame("clear", [policy |-> policy, shutdown |-> shutdown], <<>>, {})

ExecutorFrame ==
    Frame
    \cup [at : {"create", "post", "posted"}, ticket : Tickets]
    \cup [at : {"clear", "clearing"}, ticket : {NoTicket}, policy : Policies,
          shutdown : BOOLEAN, closed : SUBSET Tickets,
          work : Seq([call : {"discard", "wait"}, ticket : Tickets])]

SyncFree == \A th \in Threads : \A i \in DOMAIN frames[th] : frames[th][i].at # "posted"

ExecutorTypeOK ==
    /\ ThreadPoolTypeOK
    /\ registry \cup was_scheduled \cup completed \cup started \cup cancelled \subseteq created
    /\ processing_queue \in Seq(Tickets)
    /\ current_ticket_stack \in Seq(Tickets)
    /\ {stop_processing_requested, is_scheduled, closing, shutDown} \subseteq BOOLEAN
    /\ processing_thread_id \in Threads \cup {NoThread}
    /\ frames \in [Threads -> Seq(ExecutorFrame)]
    /\ tickets \in Seq(was_scheduled)
    /\ IsInjective(tickets)
    /\ calls \in 0 .. MaxCalls

ExecutorInit ==
    /\ Init
    /\ tickets = <<>>
    /\ closing = FALSE
    /\ started = {}
    /\ cancelled = {}
    /\ shutDown = FALSE
    /\ calls = 0

-----------------------------------------------------------------------------
CountCall == calls < MaxCalls /\ calls' = calls + 1

\* execute, its first locked block: a closed executor ignores the function.
Execute(th, t) ==
    /\ MayCall(th)
    /\ SyncFree
    /\ ~closing
    /\ t \notin created
    /\ \A u \in Threads : \A i \in DOMAIN frames[u] : frames[u][i] # At("create", t)
    /\ Enters(th, At("create", t))
    /\ UNCHANGED <<poolVars, ticketVars, executorVars>>

ExecuteCreates(th) ==
    /\ In(th, "create")
    /\ LET t == Top(th).ticket
       IN /\ created' = created \cup {t}
          /\ registry' = registry \cup {t}
          /\ GoesTo(th, At("post", t))
    /\ UNCHANGED <<poolVars, processing_queue, was_scheduled, current_ticket_stack,
                   stop_processing_requested, is_scheduled, processing_thread_id, completed,
                   executorVars>>

\* Mutant: closing is not looked at again.
BugExecutePosts(th) ==
    /\ In(th, "post")
    /\ SyncFree
    /\ LET t == Top(th).ticket
       IN /\ tickets' = Append(tickets, t)
          /\ was_scheduled' = was_scheduled \cup {t}
          /\ processing_queue' = Append(processing_queue, t)
          /\ is_scheduled' = TRUE
          /\ IF is_scheduled
             THEN Returns(th)
             ELSE frames' = [frames EXCEPT ![th] =
                      Front(@) \o <<At("posted", t), At("add_task", NoTicket)>>]
    /\ UNCHANGED <<poolVars, registry, current_ticket_stack, stop_processing_requested,
                   processing_thread_id, completed, created, closing, historyVars>>

\* The second locked block posts the ticket, ...
ExecutePosts(th) ==
    /\ In(th, "post")
    /\ SyncFree
    /\ ~closing
    /\ LET t == Top(th).ticket
       IN /\ tickets' = Append(tickets, t)
          /\ was_scheduled' = was_scheduled \cup {t}
          /\ processing_queue' = Append(processing_queue, t)
          /\ is_scheduled' = TRUE
          /\ IF is_scheduled
             THEN Returns(th)
             ELSE frames' = [frames EXCEPT ![th] =
                      Front(@) \o <<At("posted", t), At("add_task", NoTicket)>>]
    /\ UNCHANGED <<poolVars, registry, current_ticket_stack, stop_processing_requested,
                   processing_thread_id, completed, created, closing, historyVars>>

ExecuteReturns(th) ==
    /\ In(th, "posted")
    /\ Returns(th)
    /\ UNCHANGED <<poolVars, ticketVars, executorVars>>

\* ... unless the executor was closed in the meantime: discard_ticket.
ExecuteDiscards(th) ==
    /\ In(th, "post")
    /\ SyncFree
    /\ closing
    /\ registry' = registry \ {Top(th).ticket}
    /\ GoesTo(th, At("resolve", Top(th).ticket))
    /\ UNCHANGED <<poolVars, processing_queue, was_scheduled, current_ticket_stack,
                   stop_processing_requested, is_scheduled, processing_thread_id, completed,
                   created, executorVars>>

\* The function of the ticket returns, and the wrapper execute put around it
\* takes the ticket off the list, where it is at most once.  One that throws
\* ends in the same way, but for the list, which clear then takes it off.
FunctionReturns(w) ==
    /\ SyncFree
    /\ InvocableReturns(w)
    /\ tickets' = RemoveFirst(tickets, Top(w).ticket)
    /\ UNCHANGED <<closing, historyVars>>

\* QueueExecutorOperation::wait and ::cancel, for a ticket whose execute has
\* returned: the operation does nothing when the ticket is gone.
OperationWaits(th, t) ==
    /\ CountCall
    /\ t \in was_scheduled
    /\ CallWaitTicket(th, t)
    /\ UNCHANGED <<tickets, closing, started, cancelled, shutDown>>

OperationCancels(th, t) ==
    /\ CountCall
    /\ t \in was_scheduled
    /\ DiscardTicket(th, t)
    /\ cancelled' = cancelled \cup {t}
    /\ UNCHANGED <<tickets, closing, started, shutDown>>

-----------------------------------------------------------------------------
\* cancel_all and wait_all.
CallClear(th, policy) ==
    /\ CountCall
    /\ MayCall(th)
    /\ Enters(th, NewClear(policy, FALSE))
    /\ UNCHANGED <<poolVars, ticketVars, tickets, closing, started, cancelled, shutDown>>

\* shutdown: no function is accepted from here on.
Shutdown(th) ==
    /\ CountCall
    /\ MayCall(th)
    /\ SyncFree
    /\ closing' = TRUE
    /\ Enters(th, NewClear("CANCELABLE", TRUE))
    /\ UNCHANGED <<poolVars, ticketVars, tickets, started, cancelled, shutDown>>

\* The tickets clear waits for, rather than discards them.
WaitsFor(policy) == IF policy = "NON_CANCELABLE" THEN Tickets ELSE NonCancelable

\* remove_if: the elements of s that are in S, in the order of s.
Picked(s, S) ==
    LET K == {i \in DOMAIN s : s[i] \in S}
    IN [k \in 1 .. Cardinality(K) |->
           s[CHOOSE i \in K : Cardinality({j \in K : j < i}) = k - 1]]

\* The head of clear's loop: the tickets that are gone leave the list; those
\* that are left and that this call has not dealt with are discarded, last
\* posted first, or waited for, first posted first.  With none left the loop
\* ends.
ClearLooks(th) ==
    /\ In(th, "clear")
    /\ SyncFree
    /\ tickets' = Picked(tickets, registry)
    /\ LET f        == Top(th)
           left     == Picked(tickets', Tickets \ f.closed)
           discards == Reverse(Picked(left, Tickets \ WaitsFor(f.policy)))
           waits    == Picked(left, WaitsFor(f.policy))
           work     == [i \in DOMAIN discards |-> [call |-> "discard", ticket |-> discards[i]]]
                       \o [i \in DOMAIN waits |-> [call |-> "wait", ticket |-> waits[i]]]
       IN IF left = <<>>
          THEN /\ Returns(th)
               /\ shutDown' = (shutDown \/ (f.shutdown /\ th \in Clients))
          ELSE /\ GoesTo(th, ClearFrame("clearing", f, work, f.closed))
               /\ UNCHANGED shutDown
    /\ UNCHANGED <<poolVars, ticketVars, closing, started, cancelled, calls>>

\* One ticket of the turn: discard_ticket or wait_ticket, which may block or
\* run a nested processing loop before the next one.
ClearDiscards(th) ==
    /\ In(th, "clearing")
    /\ Top(th).work # <<>>
    /\ Head(Top(th).work).call = "discard"
    /\ LET f == Top(th)
           t == Head(f.work).ticket
           rest == ClearFrame("clearing", f, Tail(f.work), f.closed \cup {t})
           executing == InCurrentTicketStack(t)
       IN /\ registry' = IF executing THEN registry ELSE registry \ {t}
          /\ processing_queue' =
                 IF executing THEN processing_queue
                 ELSE RemoveFirst(processing_queue, t)
          /\ frames' = [frames EXCEPT ![th] = Front(@) \o
                 CASE t \notin registry -> <<rest>>
                   [] t \in registry /\ executing -> <<rest, At("wait", t)>>
                   [] t \in registry /\ ~executing -> <<rest, At("resolve", t)>>]
    /\ UNCHANGED <<poolVars, was_scheduled, current_ticket_stack, stop_processing_requested,
                   is_scheduled, processing_thread_id, completed, created, executorVars>>

ClearWaits(th) ==
    /\ In(th, "clearing")
    /\ Top(th).work # <<>>
    /\ Head(Top(th).work).call = "wait"
    /\ LET f == Top(th)
           t == Head(f.work).ticket
       IN frames' = [frames EXCEPT ![th] = Front(@) \o
              <<ClearFrame("clearing", f, Tail(f.work), f.closed \cup {t}), At("wait", t)>>]
    /\ UNCHANGED <<poolVars, ticketVars, executorVars>>

\* Mutant: closed_tickets is forgotten between two turns.
BugClearLoops(th) ==
    /\ In(th, "clearing")
    /\ Top(th).work = <<>>
    /\ GoesTo(th, ClearFrame("clear", Top(th), <<>>, {}))
    /\ UNCHANGED <<poolVars, ticketVars, executorVars>>

ClearLoops(th) ==
    /\ In(th, "clearing")
    /\ Top(th).work = <<>>
    /\ GoesTo(th, ClearFrame("clear", Top(th), <<>>, Top(th).closed))
    /\ UNCHANGED <<poolVars, ticketVars, executorVars>>

-----------------------------------------------------------------------------
\* A step of the queue; FetchTicket starts a function.
QueueStep(th) ==
    /\ Step(th)
    /\ started' = started \cup Range(current_ticket_stack')
    /\ UNCHANGED <<tickets, closing, cancelled, shutDown, calls>>

ExecutorStep(th) ==
    \/ QueueStep(th)
    \/ ExecuteCreates(th)
    \/ ExecutePosts(th)
    \/ ExecuteReturns(th)
    \/ ExecuteDiscards(th)
    \/ ClearLooks(th)
    \/ ClearDiscards(th)
    \/ ClearWaits(th)
    \/ ClearLoops(th)

ExecutorCall(th) ==
    \/ \E t \in Tickets : Execute(th, t) \/ OperationWaits(th, t) \/ OperationCancels(th, t)
    \/ \E policy \in Policies : CallClear(th, policy)
    \/ Shutdown(th)

ExecutorNext ==
    \/ \E th \in Threads : ExecutorStep(th) \/ ExecutorCall(th)
    \/ \E w \in Workers : FunctionReturns(w)

ExecutorSpec == ExecutorInit /\ [][ExecutorNext]_allVars

\* As for the queue; a function does not call the executor for ever either.
ExecutorFairSpec ==
    /\ ExecutorSpec
    /\ \A th \in Threads : WF_allVars(ExecutorStep(th))
    /\ \A w \in Workers : SF_allVars(FunctionReturns(w))

-----------------------------------------------------------------------------
(* Properties *)

(***************************************************************************)
(* "Stops all incoming requests processing, discards cancelable requests   *)
(* and waits other requests to be executed" (QueueExecutor.h:71): when     *)
(* shutdown has returned to a client no function of the executor runs, is  *)
(* suspended or is queued, and none will be, although execute calls of     *)
(* other threads may have been under way.  Captured objects of the users   *)
(* are released after it.                                                  *)
(***************************************************************************)
ShutdownIsFinal ==
    shutDown =>
        /\ processing_queue = <<>>
        /\ \A th \in Threads : \A i \in DOMAIN frames[th] : frames[th][i].at # "run"

(***************************************************************************)
(* shutdown "waits other requests to be executed": when it has returned,   *)
(* every NON_CANCELABLE function that was posted has been started, unless  *)
(* its own operation was cancelled.                                        *)
(***************************************************************************)
NonCancelableFunctionsRun ==
    shutDown => was_scheduled \cap NonCancelable \subseteq started \cup cancelled

\* shutdown keeps both halves of its promise; the types.
ShutdownKeepsPromise == ExecutorTypeOK /\ ShutdownIsFinal /\ NonCancelableFunctionsRun

(***************************************************************************)
(* A ticket that has not begun when its operation is cancelled, or when it *)
(* is discarded, never begins.                                             *)
(***************************************************************************)
DiscardedNeverStarts ==
    [][\A t \in Tickets : t \in created \ (registry \cup started) => t \notin started']_allVars

\* A ticket waits for one that was discarded and nothing else is queued.
HungTicket ==
    \E w \in Workers : In(w, "fetch") /\ Top(w).ticket \in created \ registry

(***************************************************************************)
(* cancel_all, wait_all and shutdown return to a client ("Blocks until     *)
(* there is no requests to process", QueueExecutor.h:65), whatever the     *)
(* tickets call in the meantime, unless a ticket hangs in a wait for a     *)
(* ticket that was discarded.                                              *)
(***************************************************************************)
ClearReturns ==
    \A c \in Clients :
        (frames[c] # <<>> /\ frames[c][1].at \in {"clear", "clearing"})
            ~> frames[c] = <<>> \/ HungTicket

=============================================================================
