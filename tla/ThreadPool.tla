----------------------------- MODULE ThreadPool -----------------------------
(***************************************************************************)
(* support::ThreadPool: worker threads that take tasks from one queue.     *)
(*                                                                         *)
(* A worker is at                                                          *)
(*   "check"  the condition of the while loop of event_loop,               *)
(*   "wait"   inside _tasks_condition.wait_for,                            *)
(*   "run"    inside the task it took,                                     *)
(*   "left"   past the loop, where shutdown's join finds it.               *)
(* What a task does while its worker is at "run" belongs to the modules    *)
(* that add tasks.  process_tick, which a worker calls on its way from a   *)
(* task (or from a wait that timed out) back to "check", changes nothing   *)
(* here: it calls the subscribers of the tick signal, modelled by the      *)
(* modules that subscribe.                                                 *)
(***************************************************************************)
EXTENDS Naturals, Sequences

CONSTANTS
    Workers,              \* the threads of the pool
    PoolTasks,            \* the tasks that may be added
    NoTask,
    FinishTasksOnClose    \* _should_finish_tasks_on_close

ASSUME NoTaskAssumption == NoTask \notin PoolTasks
ASSUME FinishAssumption == FinishTasksOnClose \in BOOLEAN

VARIABLES
    pool_tasks,    \* _tasks
    pool_close,    \* _close
    worker         \* where each worker is, and its task

poolVars == <<pool_tasks, pool_close, worker>>

WorkerState == [at : {"check", "wait", "left"}, task : {NoTask}]
                   \cup [at : {"run"}, task : PoolTasks]

ThreadPoolTypeOK ==
    /\ pool_tasks \in Seq(PoolTasks)
    /\ pool_close \in BOOLEAN
    /\ worker \in [Workers -> WorkerState]

\* The constructor: every thread is about to enter event_loop.
ThreadPoolInit ==
    /\ pool_tasks = <<>>
    /\ pool_close = FALSE
    /\ worker = [w \in Workers |-> [at |-> "check", task |-> NoTask]]

MoveWorker(w, at) == worker' = [worker EXCEPT ![w] = [at |-> at, task |-> NoTask]]

\* add_task: a closed pool drops the task and returns a future without state.
AddTask(t) ==
    /\ pool_tasks' = IF pool_close THEN pool_tasks ELSE Append(pool_tasks, t)
    /\ UNCHANGED <<pool_close, worker>>

\* The while condition of event_loop, with _tasks_mutex held.
EnterOrLeaveEventLoop(w) ==
    /\ worker[w].at = "check"
    /\ MoveWorker(w, IF ~pool_close \/ (pool_tasks # <<>> /\ FinishTasksOnClose)
                     THEN "wait" ELSE "left")
    /\ UNCHANGED <<pool_tasks, pool_close>>

\* The wait ends with a task in the queue.  The worker takes it whatever
\* _close says, so a worker that was waiting when the pool closed runs one
\* more task even if the pool does not finish its tasks.
TakeTask(w) ==
    /\ worker[w].at = "wait"
    /\ pool_tasks # <<>>
    /\ worker' = [worker EXCEPT ![w] = [at |-> "run", task |-> Head(pool_tasks)]]
    /\ pool_tasks' = Tail(pool_tasks)
    /\ UNCHANGED pool_close

\* The wait ends because the pool closed, with nothing to do.
WakeToLeave(w) ==
    /\ worker[w].at = "wait"
    /\ pool_tasks = <<>>
    /\ pool_close
    /\ MoveWorker(w, "check")
    /\ UNCHANGED <<pool_tasks, pool_close>>

\* The task returns (an exception is ignored).
TaskReturns(w) ==
    /\ worker[w].at = "run"
    /\ MoveWorker(w, "check")
    /\ UNCHANGED <<pool_tasks, pool_close>>

\* The locked block of shutdown; its joins are the guard AllJoined of the
\* caller that waits for them.
CloseThreadPool ==
    /\ pool_close' = TRUE
    /\ UNCHANGED <<pool_tasks, worker>>

AllJoined == \A w \in Workers : worker[w].at = "left"

=============================================================================
