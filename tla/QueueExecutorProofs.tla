------------------------- MODULE QueueExecutorProofs -------------------------
(***************************************************************************)
(* The safety of the queue executor, for any number of tickets, clients    *)
(* and workers.  The facts about sequences are those of                    *)
(* OperationalQueueProofs; its invariant is not, because a thread may call *)
(* the queue from clear too, and the frames of the executor lie between    *)
(* those of the queue.                                                     *)
(***************************************************************************)
EXTENDS QueueExecutor, OperationalQueueProofs

ExecutorTypes ==
    /\ ExecutorTypeOK
    /\ created \subseteq Tickets
    /\ completed \cap registry = {}
    /\ processing_thread_id \notin Clients
    /\ ~pool_close /\ ~stop_processing_requested

(* The calls a client may be in. *)
ClientCalls(c) ==
    LET f == frames[c] IN
    \/ f = <<>>
    \/ /\ Len(f) = 1
       /\ f[1].at \in {"create", "post", "posted", "resolve", "wait", "future", "clear", "clearing"}
    \/ Len(f) = 2 /\ f[1].at = "posted" /\ f[2].at = "add_task"
    \/ Len(f) = 2 /\ f[1].at = "clearing" /\ f[2].at \in {"resolve", "wait", "future"}

(* The frames of a worker: suspended loops, functions and calls of clear,  *)
(* and on top of them whatever goes on.  Only the first is the outermost   *)
(* loop.                                                                   *)
Outermost(f) == f.at \in {"loop", "leave"} \/ (f.at \in {"check", "fetch"} /\ f.ticket = NoTicket)

WorkerCalls(w) ==
    LET f == frames[w] IN
    /\ \A i \in 1 .. Len(f) :
          /\ f[i].at \notin {"posted", "add_task", "idle", "join"}
          /\ Outermost(f[i]) <=> i = 1
    /\ \A i \in 1 .. Len(f) - 1 : f[i].at \in {"check", "run", "clearing"}

(* The one loop: about to be added to the pool, in it, or on a worker.     *)
LoopIsOne ==
    /\ \A w \in Workers : frames[w] = <<>> <=> worker[w].at # "run"
    /\ \A v, w \in InLoop : v = w
    /\ \A c, d \in Clients : Adding(c) /\ Adding(d) => c = d
    /\ \A c \in Clients : Adding(c) => InLoop = {} /\ pool_tasks = <<>>
    /\ pool_tasks # <<>> => InLoop = {} /\ Len(pool_tasks) = 1
    /\ InLoop # {} \/ pool_tasks # <<>> \/ (\E c \in Clients : Adding(c)) => is_scheduled

(* The functions that have begun are on the stack, in the order of the     *)
(* frames.                                                                 *)
Begun(f) == f.at \in {"run", "unstack"}

Stacked(f, s) ==
    /\ \A i \in 1 .. Len(f) : Begun(f[i]) => \E a \in 1 .. Len(s) : f[i].ticket = s[a]
    /\ \A a \in 1 .. Len(s) : \E i \in 1 .. Len(f) : Begun(f[i]) /\ f[i].ticket = s[a]
    /\ \A i, j \in 1 .. Len(f), a, b \in 1 .. Len(s) :
          Begun(f[i]) /\ Begun(f[j]) /\ f[i].ticket = s[a] /\ f[j].ticket = s[b]
              => (i < j <=> a < b)

StackOfFrames ==
    /\ \A w \in InLoop : Stacked(frames[w], current_ticket_stack)
    /\ InLoop = {} => current_ticket_stack = <<>>

(* Where the tickets are, and what became of those that are nowhere.       *)
Queued == Range(processing_queue)
Executing == Range(current_ticket_stack)

TicketPlaces ==
    /\ IsInjective(processing_queue)
    /\ Queued \subseteq registry \cap was_scheduled \cap Range(tickets)
    /\ Executing \subseteq registry \cap was_scheduled \cap started
    /\ Queued \cap Executing = {}
    /\ was_scheduled \cap registry \subseteq Queued \cup Executing
    /\ (was_scheduled \cap NonCancelable) \ registry \subseteq started \cup cancelled

(* What a frame says of its ticket, or of the tickets clear works on.      *)
FrameHolds(f) ==
    /\ f.at = "create" => f.ticket \notin created
    /\ f.at = "post" => f.ticket \in registry \ was_scheduled
    /\ f.at \in {"resolve", "complete"} => f.ticket \in created \ registry
    /\ f.at = "run" => f.ticket \in Range(tickets)
    /\ f.at \in {"clear", "clearing"} =>
          /\ \A i \in 1 .. Len(f.work) : f.work[i].ticket \in was_scheduled
          /\ \A i \in 1 .. Len(f.work) :
                f.work[i].call = "discard" => f.work[i].ticket \notin NonCancelable
          /\ f.shutdown => closing
          /\ f.closed \subseteq was_scheduled

FramesHold == \A th \in Threads : \A i \in 1 .. Len(frames[th]) : FrameHolds(frames[th][i])

(* Two threads never execute the same ticket's function anew.              *)
Posting(th) == In(th, "create") \/ In(th, "post")

PostedOnce ==
    \A th, u \in Threads :
        Posting(th) /\ Posting(u) /\ Top(th).ticket = Top(u).ticket => th = u

(* A client's clear is done with the tickets it closed, but for the one    *)
(* it waits for.                                                           *)
ClosedAreGone(c) ==
    LET f == frames[c] IN
    f # <<>> /\ f[1].at \in {"clear", "clearing"} =>
        \A t \in f[1].closed \cap registry :
            Len(f) = 2 /\ f[2].at \in {"wait", "future"} /\ f[2].ticket = t

(* After shutdown nothing runs and nothing is queued. *)
AfterShutdown ==
    shutDown =>
        /\ closing
        /\ processing_queue = <<>>
        /\ \A th \in Threads : \A i \in 1 .. Len(frames[th]) : frames[th][i].at # "run"
        /\ was_scheduled \cap NonCancelable \subseteq started \cup cancelled

ExecutorIInv ==
    /\ ExecutorTypes
    /\ \A c \in Clients : ClientCalls(c) /\ ClosedAreGone(c)
    /\ \A w \in Workers : WorkerCalls(w)
    /\ LoopIsOne
    /\ StackOfFrames
    /\ TicketPlaces
    /\ FramesHold
    /\ PostedOnce
    /\ AfterShutdown
-----------------------------------------------------------------------------
(* Sequences and frames *)

ExecutorFrames == frames \in [Threads -> Seq(ExecutorFrame)]

(* The thread's first k frames stay; it has n afterwards.                  *)
Rewrites(th, k, n) ==
    /\ ExecutorFrames'
    /\ \A o \in Threads : o # th => frames'[o] = frames[o]
    /\ k \in 0 .. Len(frames[th])
    /\ n \in Nat /\ n = Len(frames'[th]) /\ k <= n
    /\ \A i \in 1 .. k : frames'[th][i] = frames[th][i]

(* What the frames of a thread are, from their type.                       *)
LEMMA FramesOfThread ==
    ASSUME ExecutorFrames, NEW th \in Threads
    PROVE  /\ frames[th] \in Seq(ExecutorFrame)
           /\ Len(frames[th]) \in Nat
           /\ frames[th] = <<>> <=> Len(frames[th]) = 0
           /\ \A i \in 1 .. Len(frames[th]) : frames[th][i] \in ExecutorFrame
           /\ frames[th] # <<>> => /\ Top(th) = frames[th][Len(frames[th])]
                                   /\ Top(th) \in ExecutorFrame
                                   /\ Len(frames[th]) >= 1
<1> DEFINE s == frames[th]
<1>1. s \in Seq(ExecutorFrame)
  BY DEF ExecutorFrames
<1>2. Len(s) \in Nat /\ \A i \in 1 .. Len(s) : s[i] \in ExecutorFrame
  BY <1>1
<1>3. s = <<>> <=> Len(s) = 0
  BY <1>1, EmptySeq
<1>4. s # <<>> => s[Len(s)] \in ExecutorFrame /\ Len(s) >= 1
  BY <1>2, <1>3
<1> QED
  BY <1>1, <1>2, <1>3, <1>4 DEF Top, Last

(* The top frame is replaced. *)
LEMMA TopReplaced ==
    ASSUME ExecutorFrames, NEW th \in Threads, frames[th] # <<>>,
           NEW x \in ExecutorFrame, GoesTo(th, x)
    PROVE  /\ Rewrites(th, Len(frames[th]) - 1, Len(frames[th]))
           /\ frames'[th][Len(frames[th])] = x
           /\ frames'[th] # <<>>
           /\ Top(th)' = x
<1> DEFINE s == frames[th]
<1>1. frames' = [frames EXCEPT ![th] = Append(Front(s), x)] /\ s \in Seq(ExecutorFrame)
  BY DEF ExecutorFrames, GoesTo
<1>2. Front(s) \in Seq(ExecutorFrame) /\ Len(Front(s)) = Len(s) - 1 /\ Len(s) \in Nat \ {0}
      /\ \A i \in 1 .. Len(s) - 1 : Front(s)[i] = s[i]
  BY <1>1, FrontFacts
<1>3. /\ Append(Front(s), x) \in Seq(ExecutorFrame)
      /\ Append(Front(s), x) # <<>>
      /\ Len(Append(Front(s), x)) = Len(s)
      /\ \A i \in 1 .. Len(s) - 1 : Append(Front(s), x)[i] = s[i]
      /\ Append(Front(s), x)[Len(s)] = x
      /\ Last(Append(Front(s), x)) = x
  <2> HIDE DEF s
  <2> QED
    BY <1>2, AppendFacts
<1>4. /\ frames'[th] = Append(Front(s), x)
      /\ \A o \in Threads : o # th => frames'[o] = frames[o]
      /\ ExecutorFrames'
  BY <1>1, <1>3 DEF ExecutorFrames
<1> HIDE DEF s
<1>5. Rewrites(th, Len(s) - 1, Len(s))
  BY <1>2, <1>3, <1>4 DEF Rewrites, s
<1> QED
  BY <1>3, <1>4, <1>5 DEF s, Top

(* The top frame goes. *)
LEMMA TopEnded ==
    ASSUME ExecutorFrames, NEW th \in Threads, frames[th] # <<>>, Returns(th)
    PROVE  /\ Rewrites(th, Len(frames[th]) - 1, Len(frames[th]) - 1)
           /\ frames'[th] = <<>> <=> Len(frames[th]) = 1
<1> DEFINE s == frames[th]
<1>1. frames' = [frames EXCEPT ![th] = Front(s)] /\ s \in Seq(ExecutorFrame)
  BY DEF ExecutorFrames, Returns
<1>2. Front(s) \in Seq(ExecutorFrame) /\ Len(Front(s)) = Len(s) - 1 /\ Len(s) \in Nat \ {0}
      /\ \A i \in 1 .. Len(s) - 1 : Front(s)[i] = s[i]
  BY <1>1, FrontFacts
<1>3. /\ frames'[th] = Front(s)
      /\ \A o \in Threads : o # th => frames'[o] = frames[o]
      /\ ExecutorFrames'
  BY <1>1, <1>2 DEF ExecutorFrames
<1>4. Front(s) = <<>> <=> Len(Front(s)) = 0
  BY <1>2, EmptySeq
<1> HIDE DEF s
<1>5. Rewrites(th, Len(s) - 1, Len(s) - 1)
  BY <1>2, <1>3 DEF Rewrites, s
<1> QED
  BY <1>2, <1>3, <1>4, <1>5 DEF s

(* A frame is added on top. *)
LEMMA TopAdded ==
    ASSUME ExecutorFrames, NEW th \in Threads, NEW x \in ExecutorFrame, Enters(th, x)
    PROVE  /\ Rewrites(th, Len(frames[th]), Len(frames[th]) + 1)
           /\ frames'[th][Len(frames[th]) + 1] = x
           /\ frames'[th] # <<>>
           /\ Top(th)' = x
<1> DEFINE s == frames[th]
<1>1. frames' = [frames EXCEPT ![th] = Append(s, x)] /\ s \in Seq(ExecutorFrame)
      /\ Len(s) \in Nat
  BY DEF ExecutorFrames, Enters
<1>2. /\ Append(s, x) \in Seq(ExecutorFrame)
      /\ Append(s, x) # <<>>
      /\ Len(Append(s, x)) = Len(s) + 1
      /\ \A i \in 1 .. Len(s) : Append(s, x)[i] = s[i]
      /\ Append(s, x)[Len(s) + 1] = x
      /\ Last(Append(s, x)) = x
  <2> HIDE DEF s
  <2> QED
    BY <1>1, AppendFacts
<1>3. /\ frames'[th] = Append(s, x)
      /\ \A o \in Threads : o # th => frames'[o] = frames[o]
      /\ ExecutorFrames'
  BY <1>1, <1>2 DEF ExecutorFrames
<1> HIDE DEF s
<1>4. Rewrites(th, Len(s), Len(s) + 1)
  BY <1>1, <1>2, <1>3 DEF Rewrites, s
<1> QED
  BY <1>2, <1>3, <1>4 DEF s, Top

(* The top frame is replaced and another is added on top of it.            *)
LEMMA TopReplacedAndAdded ==
    ASSUME ExecutorFrames, NEW th \in Threads, frames[th] # <<>>,
           NEW x \in ExecutorFrame, NEW y \in ExecutorFrame, GoesOnAndEnters(th, x, y)
    PROVE  /\ Rewrites(th, Len(frames[th]) - 1, Len(frames[th]) + 1)
           /\ frames'[th][Len(frames[th])] = x
           /\ frames'[th][Len(frames[th]) + 1] = y
           /\ frames'[th] # <<>>
           /\ Top(th)' = y
<1> DEFINE s == frames[th]
           r == Front(s) \o <<x, y>>
<1>1. s \in Seq(ExecutorFrame)
  BY DEF ExecutorFrames
<1>2. Front(s) \in Seq(ExecutorFrame) /\ Len(Front(s)) = Len(s) - 1 /\ Len(s) \in Nat \ {0}
      /\ \A i \in 1 .. Len(s) - 1 : Front(s)[i] = s[i]
  BY <1>1, FrontFacts
<1>3. r \in Seq(ExecutorFrame)
  BY <1>2
<1>4. /\ frames'[th] = r
      /\ \A o \in Threads : o # th => frames'[o] = frames[o]
      /\ ExecutorFrames'
  BY <1>3 DEF ExecutorFrames, GoesOnAndEnters
<1> HIDE DEF s
<1>5. /\ Len(r) = Len(s) + 1
      /\ \A i \in 1 .. Len(s) - 1 : r[i] = s[i]
      /\ r[Len(s)] = x
      /\ r[Len(s) + 1] = y
      /\ r # <<>>
  BY <1>2
<1> HIDE DEF r
<1>6. Rewrites(th, Len(s) - 1, Len(s) + 1)
  BY <1>2, <1>4, <1>5 DEF Rewrites, s
<1> QED
  BY <1>2, <1>4, <1>5, <1>6 DEF s, Top, Last

-----------------------------------------------------------------------------
(* What a step on the frames of one thread keeps *)

(* The first conjunct of the invariant, unfolded as far as the proofs of   *)
(* the steps need it.                                                      *)
LEMMA FactsOfInv ==
    ASSUME ExecutorIInv
    PROVE  /\ ExecutorFrames
           /\ ~pool_close /\ ~stop_processing_requested
           /\ registry \subseteq created /\ was_scheduled \subseteq created
           /\ \A th \in Threads : frames[th] # <<>> => Top(th) = frames[th][Len(frames[th])]
  BY FramesOfThread DEF ExecutorIInv, ExecutorTypes, ExecutorTypeOK, ExecutorFrames

(* Who calls the executor: a client in no call, or a function.             *)
LEMMA CallersOfExecutor ==
    ASSUME ExecutorIInv, NEW th \in Threads, MayCall(th)
    PROVE  \/ th \in Clients /\ frames[th] = <<>>
           \/ /\ th \in Workers /\ frames[th] # <<>> /\ th \in InLoop
              /\ frames[th][Len(frames[th])].at = "run"
<1>1. ASSUME th \in Clients PROVE ~In(th, "run")
  BY <1>1, FactsOfInv DEF ExecutorIInv, ClientCalls, In
<1>2. CASE In(th, "run")
  BY <1>1, <1>2, FactsOfInv DEF In, Threads, InLoop
<1> QED
  BY <1>2 DEF MayCall

(* The calls of the other threads stay what they were.                     *)
LEMMA OtherCalls ==
    ASSUME ExecutorIInv, NEW th \in Threads, NEW k, NEW n, Rewrites(th, k, n)
    PROVE  /\ \A c \in Clients : c # th => ClientCalls(c)'
           /\ \A w \in Workers : w # th => WorkerCalls(w)'
<1>1. \A o \in Threads : o # th => frames'[o] = frames[o]
  BY DEF Rewrites
<1>2. ASSUME NEW c \in Clients, c # th PROVE ClientCalls(c)'
  BY <1>1, <1>2 DEF ExecutorIInv, ClientCalls, Threads
<1>3. ASSUME NEW w \in Workers, w # th PROVE WorkerCalls(w)'
  BY <1>1, <1>3 DEF ExecutorIInv, WorkerCalls, Threads
<1> QED
  BY <1>2, <1>3

(* A worker's frames keep their form.                                      *)
LEMMA WorkerCallsKept ==
    ASSUME NEW w \in Workers, NEW k, NEW n, WorkerCalls(w), Rewrites(w, k, n),
           Len(frames[w]) \in Nat,
           \A i \in 1 .. n : i > k =>
               /\ frames'[w][i].at \notin {"posted", "add_task", "idle", "join"}
               /\ Outermost(frames'[w][i]) <=> i = 1,
           \A i \in 1 .. n - 1 : i >= k => frames'[w][i].at \in {"check", "run", "clearing"}
    PROVE  WorkerCalls(w)'
<1>1. ASSUME NEW i \in 1 .. n
      PROVE  /\ frames'[w][i].at \notin {"posted", "add_task", "idle", "join"}
             /\ Outermost(frames'[w][i]) <=> i = 1
  <2>1. CASE i > k
    BY <2>1
  <2>2. CASE i <= k
    BY <2>2 DEF Rewrites, WorkerCalls
  <2> QED
    BY <2>1, <2>2 DEF Rewrites
<1>2. ASSUME NEW i \in 1 .. n - 1
      PROVE  frames'[w][i].at \in {"check", "run", "clearing"}
  <2>1. CASE i >= k
    BY <2>1
  <2>2. CASE i < k
    BY <2>2 DEF Rewrites, WorkerCalls
  <2> QED
    BY <2>1, <2>2 DEF Rewrites
<1>3. n = Len(frames'[w])
  BY DEF Rewrites
<1> QED
  BY <1>1, <1>2, <1>3 DEF WorkerCalls, Outermost

(* The loop: nothing that concerns it changes. *)
LEMMA LoopStays ==
    ASSUME ExecutorIInv, NEW th \in Threads, NEW k, NEW n, Rewrites(th, k, n),
           UNCHANGED <<pool_tasks, worker>>, is_scheduled => is_scheduled',
           th \in Workers => (frames'[th] = <<>> <=> frames[th] = <<>>),
           th \in Clients => (Adding(th)' => Adding(th))
    PROVE  LoopIsOne' /\ InLoop' = InLoop
<1> USE ThreadsAssumption DEF Threads
<1>1. \A o \in Threads : o # th => frames'[o] = frames[o] /\ Top(o)' = Top(o)
  BY DEF Rewrites, Top
<1>2. InLoop' = InLoop
  BY <1>1 DEF InLoop
<1>3. \A c \in Clients : Adding(c)' => Adding(c)
  BY <1>1 DEF Adding, In
<1>4. \A w \in Workers : frames'[w] = <<>> <=> frames[w] = <<>>
  BY <1>1
<1> QED
  BY <1>2, <1>3, <1>4 DEF ExecutorIInv, LoopIsOne

(* The begun functions of a thread stay where they are.                    *)
BegunStays(th, k, n) ==
    /\ \A i \in 1 .. n : i > k /\ Begun(frames'[th][i]) =>
          /\ i <= Len(frames[th]) /\ Begun(frames[th][i])
          /\ frames'[th][i].ticket = frames[th][i].ticket
    /\ \A i \in 1 .. Len(frames[th]) : i > k /\ Begun(frames[th][i]) =>
          i <= n /\ Begun(frames'[th][i]) /\ frames'[th][i].ticket = frames[th][i].ticket

(* Then so does what the stack says of them.                               *)
LEMMA StackStays ==
    ASSUME ExecutorIInv, NEW th \in Threads, NEW k, NEW n, Rewrites(th, k, n),
           InLoop' = InLoop, UNCHANGED current_ticket_stack,
           th \in Workers => BegunStays(th, k, n)
    PROVE  StackOfFrames'
<1> DEFINE f == frames[th]
           g == frames'[th]
           s == current_ticket_stack
<1>1. \A w \in InLoop : w # th => Stacked(frames[w], s)'
  <2> SUFFICES ASSUME NEW w \in InLoop, w # th PROVE Stacked(frames[w], s)'
    OBVIOUS
  <2>1. Stacked(frames[w], s) /\ frames'[w] = frames[w] /\ s' = s
    BY DEF ExecutorIInv, StackOfFrames, Rewrites, InLoop, Threads
  <2>2. Stacked(frames'[w], current_ticket_stack')
    BY <2>1
  <2> QED
    BY <2>2, Zenon DEF Stacked, Begun
<1>2. ASSUME th \in InLoop PROVE Stacked(g, s)
  <2>1. Stacked(f, s) /\ BegunStays(th, k, n)
    BY <1>2 DEF ExecutorIInv, StackOfFrames, InLoop
  <2>2. /\ k \in 0 .. Len(f) /\ n \in Nat /\ n = Len(g) /\ k <= n /\ Len(f) \in Nat
        /\ \A i \in 1 .. k : g[i] = f[i]
    BY FactsOfInv, FramesOfThread DEF Rewrites
  <2>3. /\ \A i \in 1 .. Len(g) : Begun(g[i]) =>
             i \in 1 .. Len(f) /\ Begun(f[i]) /\ g[i].ticket = f[i].ticket
        /\ \A i \in 1 .. Len(f) : Begun(f[i]) =>
             i \in 1 .. Len(g) /\ Begun(g[i]) /\ g[i].ticket = f[i].ticket
    <3>1. ASSUME NEW i \in 1 .. Len(g), Begun(g[i])
          PROVE  i \in 1 .. Len(f) /\ Begun(f[i]) /\ g[i].ticket = f[i].ticket
      <4>1. CASE i <= k
        BY <2>2, <3>1, <4>1
      <4>2. CASE i > k
        BY <2>1, <2>2, <3>1, <4>2 DEF BegunStays
      <4> QED
        BY <2>2, <4>1, <4>2
    <3>2. ASSUME NEW i \in 1 .. Len(f), Begun(f[i])
          PROVE  i \in 1 .. Len(g) /\ Begun(g[i]) /\ g[i].ticket = f[i].ticket
      <4>1. CASE i <= k
        BY <2>2, <3>2, <4>1
      <4>2. CASE i > k
        BY <2>1, <2>2, <3>2, <4>2 DEF BegunStays
      <4> QED
        BY <2>2, <4>1, <4>2
    <3> QED
      BY <3>1, <3>2
  <2> HIDE DEF f, g, s
  <2>4. \A i \in 1 .. Len(g) : Begun(g[i]) => \E a \in 1 .. Len(s) : g[i].ticket = s[a]
    BY <2>1, <2>3 DEF Stacked
  <2>5. \A a \in 1 .. Len(s) : \E i \in 1 .. Len(g) : Begun(g[i]) /\ g[i].ticket = s[a]
    BY <2>1, <2>3 DEF Stacked
  <2>6. \A i, j \in 1 .. Len(g), a, b \in 1 .. Len(s) :
          Begun(g[i]) /\ Begun(g[j]) /\ g[i].ticket = s[a] /\ g[j].ticket = s[b]
              => (i < j <=> a < b)
    BY <2>1, <2>3 DEF Stacked
  <2> QED
    BY <2>4, <2>5, <2>6 DEF Stacked
<1>3. InLoop = {} => current_ticket_stack' = <<>>
  BY DEF ExecutorIInv, StackOfFrames
<1>4. \A w \in InLoop' : Stacked(frames[w], current_ticket_stack)'
  <2> SUFFICES ASSUME NEW w \in InLoop PROVE Stacked(frames[w], current_ticket_stack)'
    OBVIOUS
  <2>1. CASE w # th
    BY <1>1, <2>1
  <2>2. CASE w = th
    <3>1. Stacked(g, s) /\ s' = s
      BY <1>2, <2>2
    <3>2. Stacked(frames'[w], current_ticket_stack')
      BY <2>2, <3>1
    <3> QED
      BY <3>2, Zenon DEF Stacked, Begun
  <2> QED
    BY <2>1, <2>2
<1> QED
  BY <1>3, <1>4 DEF StackOfFrames

(* A frame that the step leaves. *)
Kept(th, k, f) ==
    \E u \in Threads : \E i \in 1 .. Len(frames[u]) : f = frames[u][i] /\ (u = th => i <= k)

(* What the frames say holds when it holds of those that are left and of   *)
(* the new ones.                                                           *)
LEMMA FramesHoldAfter ==
    ASSUME ExecutorIInv, NEW th \in Threads, NEW k, NEW n, Rewrites(th, k, n),
           \A f \in ExecutorFrame : Kept(th, k, f) /\ FrameHolds(f) => FrameHolds(f)',
           \A i \in 1 .. n : i > k => FrameHolds(frames[th][i])'
    PROVE  FramesHold'
<1> SUFFICES ASSUME NEW u \in Threads, NEW i \in 1 .. Len(frames'[u])
             PROVE  FrameHolds(frames[u][i])'
  BY DEF FramesHold
<1>1. CASE u = th /\ i > k
  BY <1>1 DEF Rewrites
<1>2. CASE ~(u = th /\ i > k)
  <2> DEFINE f == frames[u][i]
  <2>1. frames'[u][i] = f /\ i \in 1 .. Len(frames[u]) /\ Kept(th, k, f)
    BY <1>2, FactsOfInv, FramesOfThread DEF Rewrites, Kept
  <2>2. f \in ExecutorFrame /\ FrameHolds(f)
    BY <2>1, FactsOfInv, FramesOfThread DEF ExecutorIInv, FramesHold
  <2>3. \A g \in ExecutorFrame : Kept(th, k, g) /\ FrameHolds(g) => FrameHolds(g)'
    OBVIOUS
  <2>4. \A g : g = f => (Kept(th, k, g) /\ FrameHolds(g) /\ g \in ExecutorFrame)
    BY <2>1, <2>2
  <2>5. \A g : g = f => FrameHolds(g)'
    BY <2>3, <2>4
  <2> QED
    BY <2>1, <2>5, Zenon DEF FrameHolds
<1> QED
  BY <1>1, <1>2

(* No thread begins to post. *)
LEMMA PostedStays ==
    ASSUME ExecutorIInv, NEW th \in Threads, NEW k, NEW n, Rewrites(th, k, n),
           Posting(th)' => Posting(th) /\ Top(th)'.ticket = Top(th).ticket
    PROVE  PostedOnce'
<1>1. \A o \in Threads : o # th => frames'[o] = frames[o] /\ Top(o)' = Top(o)
  BY DEF Rewrites, Top
<1>2. \A o \in Threads : Posting(o)' => Posting(o) /\ Top(o)'.ticket = Top(o).ticket
  BY <1>1 DEF Posting, In
<1> QED
  BY <1>2 DEF ExecutorIInv, PostedOnce

(* No ticket that clear has closed comes back. *)
LEMMA ClosedStays ==
    ASSUME ExecutorIInv, NEW th \in Threads, NEW k, NEW n, Rewrites(th, k, n),
           registry' \cap created \subseteq registry
    PROVE  \A c \in Clients : c # th => ClosedAreGone(c)'
<1> SUFFICES ASSUME NEW c \in Clients, c # th, frames'[c] # <<>>,
                    frames'[c][1].at \in {"clear", "clearing"},
                    NEW t \in frames'[c][1].closed \cap registry'
             PROVE  Len(frames'[c]) = 2 /\ frames'[c][2].at \in {"wait", "future"}
                    /\ frames'[c][2].ticket = t
  BY DEF ClosedAreGone
<1>1. frames'[c] = frames[c] /\ c \in Threads
  BY DEF Rewrites, Threads
<1>2. FrameHolds(frames[c][1])
  BY <1>1, FactsOfInv, FramesOfThread DEF ExecutorIInv, FramesHold
<1>3. t \in created
  BY <1>1, <1>2, FactsOfInv DEF FrameHolds
<1> QED
  BY <1>1, <1>3 DEF ExecutorIInv, ClosedAreGone

(* Nothing new runs after shutdown. *)
LEMMA AfterStays ==
    ASSUME ExecutorIInv, NEW th \in Threads, NEW k, NEW n, Rewrites(th, k, n),
           shutDown' = shutDown, closing => closing',
           started \subseteq started', cancelled \subseteq cancelled',
           closing => was_scheduled' = was_scheduled,
           shutDown => processing_queue' = <<>>,
           \A i \in 1 .. n : i > k /\ shutDown => frames'[th][i].at # "run"
    PROVE  AfterShutdown'
<1> SUFFICES ASSUME shutDown PROVE AfterShutdown'
  BY DEF AfterShutdown
<1>1. ASSUME NEW u \in Threads, NEW i \in 1 .. Len(frames'[u])
      PROVE  frames'[u][i].at # "run"
  <2>1. CASE u = th /\ i > k
    BY <2>1 DEF Rewrites
  <2>2. CASE ~(u = th /\ i > k)
    <3>1. frames'[u][i] = frames[u][i] /\ i \in 1 .. Len(frames[u])
      BY <2>2, FactsOfInv, FramesOfThread DEF Rewrites
    <3> QED
      BY <3>1 DEF ExecutorIInv, AfterShutdown
  <2> QED
    BY <2>1, <2>2
<1> QED
  BY <1>1 DEF ExecutorIInv, AfterShutdown

(* The data about the tickets stays. *)
CalmData ==
    /\ UNCHANGED <<registry, processing_queue, was_scheduled, current_ticket_stack, created>>
    /\ UNCHANGED <<tickets, started, shutDown>>
    /\ cancelled \subseteq cancelled'
    /\ closing => closing'

(* Then what the frames say stays. *)
LEMMA CalmFrames ==
    ASSUME CalmData
    PROVE  \A f \in ExecutorFrame : FrameHolds(f) => FrameHolds(f)'
  BY DEF CalmData, FrameHolds

(* A step of a thread, with calm data, that begins no function.            *)
LEMMA CalmRest ==
    ASSUME ExecutorIInv, NEW th \in Threads, NEW k, NEW n, Rewrites(th, k, n), CalmData,
           \A i \in 1 .. n : i > k => FrameHolds(frames[th][i])',
           \A i \in 1 .. n : i > k => ~Begun(frames'[th][i]),
           Posting(th)' => Posting(th) /\ Top(th)'.ticket = Top(th).ticket
    PROVE  /\ TicketPlaces' /\ FramesHold' /\ PostedOnce' /\ AfterShutdown'
           /\ \A c \in Clients : c # th => ClosedAreGone(c)'
<1>1. TicketPlaces'
  BY DEF ExecutorIInv, TicketPlaces, Queued, Executing, CalmData
<1>2. FramesHold'
  BY CalmFrames, FramesHoldAfter
<1>3. PostedOnce'
  BY PostedStays
<1>4. AfterShutdown'
  <2>1. \A i \in 1 .. n : i > k /\ shutDown => frames'[th][i].at # "run"
    BY DEF Begun
  <2>2. shutDown => processing_queue' = <<>>
    BY DEF ExecutorIInv, AfterShutdown, CalmData
  <2> QED
    BY <2>1, <2>2, AfterStays DEF CalmData
<1>5. \A c \in Clients : c # th => ClosedAreGone(c)'
  BY ClosedStays DEF CalmData
<1> QED
  BY <1>1, <1>2, <1>3, <1>4, <1>5

(* If it ends none either, the stack is still that of the frames.          *)
LEMMA CalmStep ==
    ASSUME ExecutorIInv, NEW th \in Threads, NEW k, NEW n, Rewrites(th, k, n),
           CalmData, InLoop' = InLoop,
           \A i \in 1 .. n : i > k => FrameHolds(frames[th][i])',
           \A i \in 1 .. n : i > k => ~Begun(frames'[th][i]),
           \A i \in 1 .. Len(frames[th]) : i > k => ~Begun(frames[th][i]),
           Posting(th)' => Posting(th) /\ Top(th)'.ticket = Top(th).ticket
    PROVE  /\ StackOfFrames' /\ TicketPlaces' /\ FramesHold' /\ PostedOnce' /\ AfterShutdown'
           /\ \A c \in Clients : c # th => ClosedAreGone(c)'
<1>1. BegunStays(th, k, n)
  BY DEF BegunStays
<1>2. StackOfFrames'
  BY <1>1, StackStays DEF CalmData
<1> QED
  BY <1>2, CalmRest

(* The loop's own data stays. *)
LoopData == UNCHANGED <<pool_tasks, worker>> /\ (is_scheduled => is_scheduled')

ClientCallSet ==
    {"create", "post", "posted", "resolve", "wait", "future", "clear", "clearing"}

CallsAndLoop(th) ==
    /\ \A c \in Clients : ClientCalls(c)'
    /\ \A w \in Workers : WorkerCalls(w)'
    /\ LoopIsOne'
    /\ InLoop' = InLoop

(* A thread goes on: its call stays what it was for a worker, and is a     *)
(* call again for a client.                                                *)
LEMMA GoesOn ==
    ASSUME ExecutorIInv, NEW th \in Threads, frames[th] # <<>>,
           NEW x \in ExecutorFrame, GoesTo(th, x), LoopData,
           th \in Workers => /\ x.at \notin {"posted", "add_task", "idle", "join"}
                             /\ Outermost(x) <=> Outermost(Top(th)),
           th \in Clients => /\ Len(frames[th]) = 1 => x.at \in ClientCallSet
                             /\ Len(frames[th]) = 2 => /\ Top(th).at # "add_task"
                                                       /\ x.at \in {"resolve", "wait", "future"}
    PROVE  /\ Rewrites(th, Len(frames[th]) - 1, Len(frames[th]))
           /\ frames'[th][Len(frames[th])] = x
           /\ Top(th)' = x
           /\ CallsAndLoop(th)
<1> DEFINE n == Len(frames[th])
<1>1. /\ Rewrites(th, n - 1, n) /\ frames'[th][n] = x /\ Top(th)' = x /\ frames'[th] # <<>>
      /\ n \in Nat /\ n >= 1 /\ Top(th) = frames[th][n]
      /\ n = Len(frames'[th]) /\ \A i \in 1 .. n - 1 : frames'[th][i] = frames[th][i]
  <2>1. Rewrites(th, n - 1, n) /\ frames'[th][n] = x /\ Top(th)' = x /\ frames'[th] # <<>>
    BY FactsOfInv, TopReplaced
  <2> QED
    BY <2>1, FactsOfInv, FramesOfThread DEF Rewrites
<1> HIDE DEF n
<1>2. \A w \in Workers : WorkerCalls(w)'
  <2>1. ASSUME th \in Workers PROVE WorkerCalls(th)'
    <3>1. WorkerCalls(th)
      BY <2>1 DEF ExecutorIInv
    <3>2. Outermost(x) <=> n = 1
      <4>1. \A i \in 1 .. n : Outermost(frames[th][i]) <=> i = 1
        BY <3>1 DEF WorkerCalls, n
      <4>2. n \in 1 .. n /\ Top(th) = frames[th][n]
        BY <1>1
      <4>3. Outermost(Top(th)) <=> n = 1
        BY <4>1, <4>2
      <4> QED
        BY <2>1, <4>3
    <3>3. \A i \in 1 .. n : i > n - 1 =>
               /\ frames'[th][i].at \notin {"posted", "add_task", "idle", "join"}
               /\ Outermost(frames'[th][i]) <=> i = 1
      <4> SUFFICES ASSUME NEW i \in 1 .. n, i > n - 1
                   PROVE  /\ frames'[th][i].at \notin {"posted", "add_task", "idle", "join"}
                          /\ Outermost(frames'[th][i]) <=> i = 1
        OBVIOUS
      <4>1. i = n /\ frames'[th][i] = x
        BY <1>1
      <4> QED
        BY <2>1, <3>2, <4>1
    <3>4. \A i \in 1 .. n - 1 : i >= n - 1 => frames'[th][i].at \in {"check", "run", "clearing"}
      BY <1>1, <3>1 DEF WorkerCalls, n
    <3> QED
      BY <1>1, <2>1, <3>1, <3>3, <3>4, WorkerCallsKept DEF n
  <2> QED
    BY <1>1, <2>1, OtherCalls
<1>3. \A c \in Clients : ClientCalls(c)'
  <2>1. ASSUME th \in Clients PROVE ClientCalls(th)' /\ (n = 1 \/ n = 2)
    <3>1. ClientCalls(th)
      BY <2>1 DEF ExecutorIInv
    <3>2. CASE n = 1
      BY <1>1, <2>1, <3>2 DEF ClientCalls, n, ClientCallSet
    <3>3. CASE n = 2
      BY <1>1, <2>1, <3>1, <3>3 DEF ClientCalls, n
    <3> QED
      BY <3>1, <3>2, <3>3 DEF ClientCalls, n
  <2> QED
    BY <1>1, <2>1, OtherCalls
<1>4. LoopIsOne' /\ InLoop' = InLoop
  <2>1. th \in Clients => x.at # "add_task"
    <3>1. th \in Clients => n = 1 \/ n = 2
      BY DEF ExecutorIInv, ClientCalls, n
    <3> QED
      BY <3>1 DEF ClientCallSet, n
  <2>2. th \in Clients => (Adding(th)' => Adding(th))
    BY <1>1, <2>1 DEF Adding, In
  <2> QED
    BY <1>1, <2>2, LoopStays DEF LoopData
<1> QED
  BY <1>1, <1>2, <1>3, <1>4 DEF n, CallsAndLoop

(* A call returns, other than the outermost loop of a worker.              *)
LEMMA GoesBack ==
    ASSUME ExecutorIInv, NEW th \in Threads, frames[th] # <<>>, Returns(th),
           UNCHANGED <<pool_tasks, worker>>, is_scheduled => is_scheduled',
           th \in Workers => ~Outermost(Top(th))
    PROVE  /\ Rewrites(th, Len(frames[th]) - 1, Len(frames[th]) - 1)
           /\ CallsAndLoop(th)
           /\ ~Posting(th)'
<1> DEFINE n == Len(frames[th])
<1> USE ThreadsAssumption
<1>1. /\ Rewrites(th, n - 1, n - 1) /\ (frames'[th] = <<>> <=> n = 1)
      /\ n \in Nat /\ n >= 1 /\ Top(th) = frames[th][n] /\ th \in Clients \cup Workers
      /\ n - 1 = Len(frames'[th]) /\ \A i \in 1 .. n - 1 : frames'[th][i] = frames[th][i]
      /\ frames'[th] # <<>> => Top(th)' = frames[th][n - 1]
  <2>1. Rewrites(th, n - 1, n - 1) /\ (frames'[th] = <<>> <=> n = 1)
    BY FactsOfInv, TopEnded
  <2>2. n - 1 = Len(frames'[th]) /\ \A i \in 1 .. n - 1 : frames'[th][i] = frames[th][i]
    BY <2>1 DEF Rewrites
  <2>3. n \in Nat /\ n >= 1 /\ Top(th) = frames[th][n]
    BY FactsOfInv, FramesOfThread
  <2>4. frames'[th] # <<>> => Top(th)' = frames[th][n - 1]
    BY <2>1, <2>2, <2>3 DEF Top, Last
  <2> QED
    BY <2>1, <2>2, <2>3, <2>4 DEF Threads
<1> HIDE DEF n
<1>2. \A w \in Workers : WorkerCalls(w)'
  <2>1. ASSUME th \in Workers PROVE WorkerCalls(th)'
    <3>1. WorkerCalls(th)
      BY <2>1 DEF ExecutorIInv
    <3>2. \A i \in 1 .. (n - 1) - 1 : i >= n - 1 =>
               frames'[th][i].at \in {"check", "run", "clearing"}
      BY <1>1
    <3> QED
      BY <1>1, <2>1, <3>1, <3>2, WorkerCallsKept DEF n
  <2> QED
    BY <1>1, <2>1, OtherCalls
<1>3. \A c \in Clients : ClientCalls(c)'
  <2>1. ASSUME th \in Clients PROVE ClientCalls(th)'
    <3>1. ClientCalls(th)
      BY <2>1 DEF ExecutorIInv
    <3>2. n = 1 \/ n = 2
      BY <1>1, <3>1 DEF ClientCalls, n
    <3>3. CASE n = 1
      BY <1>1, <3>3 DEF ClientCalls
    <3>4. CASE n = 2
      <4>1. frames'[th][1] = frames[th][1] /\ frames[th][1].at \in {"posted", "clearing"}
        BY <1>1, <3>1, <3>4 DEF ClientCalls, n
      <4> QED
        BY <1>1, <3>4, <4>1 DEF ClientCalls
    <3> QED
      BY <3>2, <3>3, <3>4
  <2> QED
    BY <1>1, <2>1, OtherCalls
<1>4. th \in Clients => ~Adding(th)'
  BY <1>1, <1>3 DEF Adding, In, ExecutorIInv, ClientCalls, n
<1>5. th \in Workers => (frames'[th] = <<>> <=> frames[th] = <<>>)
  BY <1>1 DEF ExecutorIInv, WorkerCalls, n
<1>6. LoopIsOne' /\ InLoop' = InLoop
  BY <1>1, <1>4, <1>5, LoopStays
<1>7. ~Posting(th)'
  <2>1. CASE th \in Clients
    BY <1>1, <2>1 DEF ExecutorIInv, ClientCalls, Posting, In, n
  <2>2. CASE th \in Workers
    BY <1>1, <2>2 DEF ExecutorIInv, WorkerCalls, Posting, In, n
  <2> QED
    BY <1>1, <2>1, <2>2
<1> QED
  BY <1>1, <1>2, <1>3, <1>6, <1>7 DEF n, CallsAndLoop

(* A call begins. *)
LEMMA GoesDown ==
    ASSUME ExecutorIInv, NEW th \in Threads, MayCall(th),
           NEW x \in ExecutorFrame, Enters(th, x), LoopData,
           x.at \in ClientCallSet \ {"posted"}
    PROVE  /\ Rewrites(th, Len(frames[th]), Len(frames[th]) + 1)
           /\ frames'[th][Len(frames[th]) + 1] = x
           /\ Top(th)' = x
           /\ CallsAndLoop(th)
           /\ th \in Clients => Len(frames'[th]) = 1 /\ frames'[th][1] = x
<1> DEFINE n == Len(frames[th])
<1> USE ThreadsAssumption
<1>1. /\ Rewrites(th, n, n + 1) /\ frames'[th][n + 1] = x /\ Top(th)' = x /\ frames'[th] # <<>>
      /\ n \in Nat /\ n + 1 = Len(frames'[th])
      /\ \A i \in 1 .. n : frames'[th][i] = frames[th][i]
      /\ frames[th] = <<>> => n = 0
  <2>1. Rewrites(th, n, n + 1) /\ frames'[th][n + 1] = x /\ Top(th)' = x /\ frames'[th] # <<>>
    BY FactsOfInv, TopAdded
  <2> QED
    BY <2>1, FactsOfInv, FramesOfThread DEF Rewrites
<1>2. \/ th \in Clients /\ frames[th] = <<>>
      \/ th \in Workers /\ frames[th] # <<>> /\ n >= 1 /\ frames[th][n].at = "run"
  BY CallersOfExecutor, FactsOfInv, FramesOfThread
<1> HIDE DEF n
<1>3. \A w \in Workers : WorkerCalls(w)'
  <2>1. ASSUME th \in Workers PROVE WorkerCalls(th)'
    <3>1. WorkerCalls(th) /\ n >= 1 /\ frames[th][n].at = "run"
      BY <1>2, <2>1 DEF ExecutorIInv
    <3>2. \A i \in 1 .. n + 1 : i > n =>
               /\ frames'[th][i].at \notin {"posted", "add_task", "idle", "join"}
               /\ Outermost(frames'[th][i]) <=> i = 1
      BY <1>1, <3>1 DEF Outermost, ClientCallSet
    <3>3. \A i \in 1 .. (n + 1) - 1 : i >= n => frames'[th][i].at \in {"check", "run", "clearing"}
      BY <1>1, <3>1
    <3> QED
      BY <1>1, <2>1, <3>1, <3>2, <3>3, WorkerCallsKept DEF n
  <2> QED
    BY <1>1, <2>1, OtherCalls
<1>4. th \in Clients => n = 0 /\ ClientCalls(th)'
  <2>1. ASSUME th \in Clients PROVE n = 0 /\ ClientCalls(th)'
    <3>1. n = 0
      BY <1>1, <1>2, <2>1
    <3>2. Len(frames'[th]) = 1 /\ frames'[th][1] = x
      BY <1>1, <3>1
    <3> QED
      BY <3>1, <3>2 DEF ClientCalls, ClientCallSet
  <2> QED
    BY <2>1
<1>5. LoopIsOne' /\ InLoop' = InLoop
  <2>1. th \in Clients => ~Adding(th)'
    BY <1>1 DEF Adding, In, ClientCallSet
  <2>2. th \in Workers => (frames'[th] = <<>> <=> frames[th] = <<>>)
    BY <1>1, <1>2
  <2> QED
    BY <1>1, <2>1, <2>2, LoopStays DEF LoopData
<1> QED
  <2>1. \A c \in Clients : ClientCalls(c)'
    BY <1>1, <1>4, OtherCalls
  <2>2. th \in Clients => Len(frames'[th]) = 1 /\ frames'[th][1] = x
    BY <1>1, <1>4
  <2> QED
    BY <1>1, <1>3, <1>5, <2>1, <2>2 DEF n, CallsAndLoop

(* The types, when the data about the tickets stays. *)
LEMMA CalmTypes ==
    ASSUME ExecutorIInv, ExecutorFrames', CalmData, ThreadPoolTypeOK',
           UNCHANGED <<pool_close, stop_processing_requested>>,
           is_scheduled' \in BOOLEAN, closing' \in BOOLEAN, calls' \in 0 .. MaxCalls,
           processing_thread_id' \in Workers \cup {NoThread},
           completed' \subseteq created \ registry, cancelled' \subseteq created
    PROVE  ExecutorTypes'
<1> USE ThreadsAssumption
<1>1. /\ ExecutorTypeOK /\ created \subseteq Tickets /\ completed \cap registry = {}
      /\ processing_thread_id \notin Clients /\ ~pool_close /\ ~stop_processing_requested
  BY DEF ExecutorIInv, ExecutorTypes
<1>2. /\ registry' \cup was_scheduled' \cup completed' \cup started' \cup cancelled' \subseteq created'
      /\ processing_queue' \in Seq(Tickets)
      /\ current_ticket_stack' \in Seq(Tickets)
      /\ {stop_processing_requested', is_scheduled', closing', shutDown'} \subseteq BOOLEAN
      /\ processing_thread_id' \in Threads \cup {NoThread}
  BY <1>1 DEF ExecutorTypeOK, CalmData, Threads
<1>3. tickets' \in Seq(was_scheduled') /\ IsInjective(tickets')
  BY <1>1 DEF ExecutorTypeOK, CalmData
<1>4. created' \subseteq Tickets /\ completed' \cap registry' = {}
  BY <1>1 DEF CalmData
<1>5. processing_thread_id' \notin Clients /\ ~pool_close' /\ ~stop_processing_requested'
  BY <1>1 DEF Threads
<1> QED
  BY <1>2, <1>3, <1>4, <1>5 DEF ExecutorTypes, ExecutorTypeOK, ExecutorFrames

(* What the steps know of the types. *)
LEMMA TypesOfInv ==
    ASSUME ExecutorIInv
    PROVE  /\ ThreadPoolTypeOK
           /\ registry \cup was_scheduled \cup completed \cup started \cup cancelled \subseteq created
           /\ created \subseteq Tickets
           /\ completed \cap registry = {}
           /\ processing_queue \in Seq(Tickets) /\ current_ticket_stack \in Seq(Tickets)
           /\ is_scheduled \in BOOLEAN /\ closing \in BOOLEAN /\ shutDown \in BOOLEAN
           /\ processing_thread_id \in Workers \cup {NoThread}
           /\ tickets \in Seq(was_scheduled) /\ IsInjective(tickets)
           /\ calls \in 0 .. MaxCalls
  BY DEF ExecutorIInv, ExecutorTypes, ExecutorTypeOK, Threads

(* A thread goes on, with calm data. *)
LEMMA CalmGoesOn ==
    ASSUME ExecutorIInv, NEW th \in Threads, frames[th] # <<>>,
           NEW x \in ExecutorFrame, GoesTo(th, x), LoopData,
           th \in Workers => /\ x.at \notin {"posted", "add_task", "idle", "join"}
                             /\ Outermost(x) <=> Outermost(Top(th)),
           th \in Clients => /\ Len(frames[th]) = 1 => x.at \in ClientCallSet
                             /\ Len(frames[th]) = 2 => /\ Top(th).at # "add_task"
                                                       /\ x.at \in {"resolve", "wait", "future"},
           CalmData, ExecutorFrames' => ExecutorTypes',
           FrameHolds(x)', ~Begun(x), ~Begun(Top(th)), x.at \notin {"create", "post"},
           (th \in Clients /\ frames'[th][Len(frames[th])] = x
                /\ Rewrites(th, Len(frames[th]) - 1, Len(frames[th]))) => ClosedAreGone(th)'
    PROVE  ExecutorIInv'
<1> DEFINE n == Len(frames[th])
<1>1. /\ Rewrites(th, n - 1, n) /\ frames'[th][n] = x /\ Top(th)' = x /\ CallsAndLoop(th)
  BY GoesOn
<1>2. n \in Nat /\ Top(th) = frames[th][n]
  BY FactsOfInv, FramesOfThread
<1> HIDE DEF n
<1>3. \A i \in 1 .. n : i > n - 1 => FrameHolds(frames[th][i])'
  <2>1. \A i \in 1 .. n : i > n - 1 => frames'[th][i] = x
    BY <1>1, <1>2
  <2> QED
    BY <2>1, Zenon DEF FrameHolds
<1>4. /\ \A i \in 1 .. n : i > n - 1 => ~Begun(frames'[th][i])
      /\ \A i \in 1 .. n : i > n - 1 => ~Begun(frames[th][i])
  <2>1. \A i \in 1 .. n : i > n - 1 => i = n
    BY <1>2
  <2> QED
    BY <1>1, <1>2, <2>1
<1>5. ~Posting(th)'
  BY <1>1 DEF Posting, In
<1>6. /\ StackOfFrames' /\ TicketPlaces' /\ FramesHold' /\ PostedOnce' /\ AfterShutdown'
      /\ \A c \in Clients : c # th => ClosedAreGone(c)'
  BY <1>1, <1>3, <1>4, <1>5, CalmStep DEF CallsAndLoop, n
<1>7. \A c \in Clients : ClosedAreGone(c)'
  BY <1>1, <1>6 DEF n
<1>8. ExecutorTypes'
  BY <1>1 DEF Rewrites
<1> QED
  BY <1>1, <1>6, <1>7, <1>8 DEF ExecutorIInv, CallsAndLoop

(* A client's call of clear goes on after one of its tickets.              *)
LEMMA ClosedAfterReturn ==
    ASSUME ExecutorIInv, NEW c \in Clients, frames[c] # <<>>,
           Rewrites(c, Len(frames[c]) - 1, Len(frames[c]) - 1), registry' = registry,
           Top(c).at \in {"wait", "future"} => Top(c).ticket \notin registry
    PROVE  ClosedAreGone(c)'
<1> DEFINE n == Len(frames[c])
<1>1. n \in Nat /\ n >= 1 /\ Top(c) = frames[c][n]
  BY FactsOfInv, FramesOfThread DEF Threads
<1>2. n - 1 = Len(frames'[c]) /\ \A i \in 1 .. n - 1 : frames'[c][i] = frames[c][i]
  BY DEF Rewrites
<1>3. n = 1 \/ n = 2
  BY DEF ExecutorIInv, ClientCalls
<1> HIDE DEF n
<1>4. CASE n = 1
  <2>1. frames'[c] = <<>>
    <3>1. frames'[c] \in Seq(ExecutorFrame) /\ Len(frames'[c]) = 0
      BY <1>2, <1>4 DEF Rewrites, ExecutorFrames, Threads
    <3> QED
      BY <3>1, EmptySeq
  <2> QED
    BY <2>1 DEF ClosedAreGone
<1>5. CASE n = 2
  <2>1. frames'[c][1] = frames[c][1]
    BY <1>2, <1>5
  <2>2. frames[c][1].at \in {"clear", "clearing"} => frames[c][1].closed \cap registry = {}
    BY <1>1, <1>5 DEF ExecutorIInv, ClosedAreGone, n
  <2> QED
    BY <2>1, <2>2 DEF ClosedAreGone
<1> QED
  BY <1>3, <1>4, <1>5

(* A call returns, with calm data. *)
LEMMA CalmGoesBack ==
    ASSUME ExecutorIInv, NEW th \in Threads, frames[th] # <<>>, Returns(th),
           LoopData, th \in Workers => ~Outermost(Top(th)),
           CalmData, ExecutorFrames' => ExecutorTypes', ~Begun(Top(th)),
           th \in Clients /\ Top(th).at \in {"wait", "future"} => Top(th).ticket \notin registry
    PROVE  ExecutorIInv'
<1> DEFINE n == Len(frames[th])
<1>1. Rewrites(th, n - 1, n - 1) /\ CallsAndLoop(th) /\ ~Posting(th)'
  BY GoesBack DEF LoopData
<1>2. n \in Nat /\ Top(th) = frames[th][n]
  BY FactsOfInv, FramesOfThread
<1> HIDE DEF n
<1>3. /\ \A i \in 1 .. n - 1 : i > n - 1 => FrameHolds(frames[th][i])'
      /\ \A i \in 1 .. n - 1 : i > n - 1 => ~Begun(frames'[th][i])
  BY <1>2
<1>4. \A i \in 1 .. n : i > n - 1 => ~Begun(frames[th][i])
  <2>1. \A i \in 1 .. n : i > n - 1 => i = n
    BY <1>2
  <2> QED
    BY <1>2, <2>1
<1>5. /\ StackOfFrames' /\ TicketPlaces' /\ FramesHold' /\ PostedOnce' /\ AfterShutdown'
      /\ \A c \in Clients : c # th => ClosedAreGone(c)'
  BY <1>1, <1>3, <1>4, CalmStep DEF CallsAndLoop, n
<1>6. \A c \in Clients : ClosedAreGone(c)'
  BY <1>1, <1>5, ClosedAfterReturn DEF n, CalmData
<1>7. ExecutorTypes'
  BY <1>1 DEF Rewrites
<1> QED
  BY <1>1, <1>5, <1>6, <1>7 DEF ExecutorIInv, CallsAndLoop

(* A call begins, with calm data. *)
LEMMA CalmGoesDown ==
    ASSUME ExecutorIInv, NEW th \in Threads, MayCall(th),
           NEW x \in ExecutorFrame, Enters(th, x), LoopData,
           x.at \in ClientCallSet \ {"posted"},
           CalmData, ExecutorFrames' => ExecutorTypes', FrameHolds(x)', ~Begun(x),
           x.at \in {"clear", "clearing"} => x.closed = {},
           PostedOnce' \/ x.at \notin {"create", "post"}
    PROVE  ExecutorIInv'
<1> DEFINE n == Len(frames[th])
<1>1. /\ Rewrites(th, n, n + 1) /\ frames'[th][n + 1] = x /\ Top(th)' = x /\ CallsAndLoop(th)
      /\ th \in Clients => Len(frames'[th]) = 1 /\ frames'[th][1] = x
  BY GoesDown
<1>2. n \in Nat
  BY FactsOfInv, FramesOfThread
<1> HIDE DEF n
<1>3. \A i \in 1 .. n + 1 : i > n => i = n + 1
  BY <1>2
<1>4. \A i \in 1 .. n + 1 : i > n => FrameHolds(frames[th][i])'
  <2>1. \A i \in 1 .. n + 1 : i > n => frames'[th][i] = x
    BY <1>1, <1>3
  <2> QED
    BY <2>1, Zenon DEF FrameHolds
<1>5. /\ \A i \in 1 .. n + 1 : i > n => ~Begun(frames'[th][i])
      /\ \A i \in 1 .. n : i > n => ~Begun(frames[th][i])
  BY <1>1, <1>2, <1>3
<1>6. /\ StackOfFrames' /\ TicketPlaces' /\ FramesHold' /\ AfterShutdown'
      /\ \A c \in Clients : c # th => ClosedAreGone(c)'
  <2>1. StackOfFrames'
    <3>1. BegunStays(th, n, n + 1)
      BY <1>5 DEF BegunStays, n
    <3> QED
      BY <1>1, <3>1, StackStays DEF CalmData, CallsAndLoop
  <2>2. TicketPlaces'
    BY DEF ExecutorIInv, TicketPlaces, Queued, Executing, CalmData
  <2>3. FramesHold'
    BY <1>1, <1>4, CalmFrames, FramesHoldAfter
  <2>4. AfterShutdown'
    <3>1. \A i \in 1 .. n + 1 : i > n /\ shutDown => frames'[th][i].at # "run"
      BY <1>5 DEF Begun
    <3>2. shutDown => processing_queue' = <<>>
      BY DEF ExecutorIInv, AfterShutdown, CalmData
    <3> QED
      BY <1>1, <3>1, <3>2, AfterStays DEF CalmData
  <2>5. \A c \in Clients : c # th => ClosedAreGone(c)'
    BY <1>1, ClosedStays DEF CalmData
  <2> QED
    BY <2>1, <2>2, <2>3, <2>4, <2>5
<1>7. PostedOnce'
  <2>1. x.at \notin {"create", "post"} => ~Posting(th)'
    BY <1>1 DEF Posting, In
  <2> QED
    BY <1>1, <2>1, PostedStays
<1>8. \A c \in Clients : ClosedAreGone(c)'
  BY <1>1, <1>6 DEF ClosedAreGone
<1>9. ExecutorTypes'
  BY <1>1 DEF Rewrites
<1> QED
  BY <1>1, <1>6, <1>7, <1>8, <1>9 DEF ExecutorIInv, CallsAndLoop

-----------------------------------------------------------------------------
(* The steps that leave the data about the tickets alone *)

(* The top frame of a thread in a call. *)
LEMMA TopFacts ==
    ASSUME ExecutorIInv, NEW th \in Threads, frames[th] # <<>>
    PROVE  /\ Top(th) \in ExecutorFrame /\ FrameHolds(Top(th))
           /\ Len(frames[th]) \in Nat /\ Len(frames[th]) >= 1
           /\ Top(th) = frames[th][Len(frames[th])]
           /\ th \in Workers => /\ Outermost(Top(th)) <=> Len(frames[th]) = 1
                                /\ Top(th).at \notin {"posted", "add_task", "idle", "join"}
           /\ th \in Clients =>
                 /\ \/ Len(frames[th]) = 1 /\ Top(th).at \in ClientCallSet
                    \/ /\ Len(frames[th]) = 2 /\ Top(th).at = "add_task"
                       /\ frames[th][1].at = "posted"
                    \/ /\ Len(frames[th]) = 2 /\ Top(th).at \in {"resolve", "wait", "future"}
                       /\ frames[th][1].at = "clearing"
                 /\ ~Begun(Top(th))
<1> DEFINE n == Len(frames[th])
<1>1. Top(th) \in ExecutorFrame /\ n \in Nat /\ n >= 1 /\ Top(th) = frames[th][n]
  BY FactsOfInv, FramesOfThread
<1>2. FrameHolds(Top(th))
  BY <1>1 DEF ExecutorIInv, FramesHold
<1>3. ASSUME th \in Workers
      PROVE  /\ Outermost(Top(th)) <=> n = 1
             /\ Top(th).at \notin {"posted", "add_task", "idle", "join"}
  <2>1. WorkerCalls(th)
    BY <1>3 DEF ExecutorIInv
  <2>2. n \in 1 .. n
    BY <1>1
  <2>3. /\ Outermost(frames[th][n]) <=> n = 1
        /\ frames[th][n].at \notin {"posted", "add_task", "idle", "join"}
    BY <2>1, <2>2 DEF WorkerCalls
  <2> QED
    BY <1>1, <2>3
<1>4. ASSUME th \in Clients
      PROVE  /\ \/ n = 1 /\ Top(th).at \in ClientCallSet
                \/ n = 2 /\ Top(th).at = "add_task" /\ frames[th][1].at = "posted"
                \/ /\ n = 2 /\ Top(th).at \in {"resolve", "wait", "future"}
                   /\ frames[th][1].at = "clearing"
             /\ ~Begun(Top(th))
  <2>1. ClientCalls(th)
    BY <1>4 DEF ExecutorIInv
  <2>2. \/ n = 1 /\ Top(th).at \in ClientCallSet
        \/ n = 2 /\ Top(th).at = "add_task" /\ frames[th][1].at = "posted"
        \/ /\ n = 2 /\ Top(th).at \in {"resolve", "wait", "future"}
           /\ frames[th][1].at = "clearing"
    BY <1>1, <2>1 DEF ClientCalls, ClientCallSet
  <2> QED
    BY <2>2 DEF Begun, ClientCallSet
<1> QED
  BY <1>1, <1>2, <1>3, <1>4

(* A step that leaves the queue's data alone has the types. *)
LEMMA QuietTypes ==
    ASSUME ExecutorIInv, CalmData,
           UNCHANGED <<poolVars, stop_processing_requested, is_scheduled, processing_thread_id>>,
           completed' \subseteq created \ registry,
           closing' \in BOOLEAN, calls' \in 0 .. MaxCalls, cancelled' \subseteq created
    PROVE  LoopData /\ (ExecutorFrames' => ExecutorTypes')
<1>1. ThreadPoolTypeOK'
  BY TypesOfInv DEF ThreadPoolTypeOK, poolVars
<1>2. LoopData
  BY DEF LoopData, poolVars
<1>3. ExecutorFrames' => ExecutorTypes'
  BY <1>1, TypesOfInv, CalmTypes DEF poolVars
<1> QED
  BY <1>2, <1>3

(* What a step of the queue does to the executor. *)
QueueRest ==
    /\ started' = started \cup Range(current_ticket_stack')
    /\ UNCHANGED <<tickets, closing, cancelled, shutDown, calls>>

(* While the stack stays, no function starts. *)
LEMMA QueueRestCalm ==
    ASSUME ExecutorIInv, QueueRest, UNCHANGED current_ticket_stack
    PROVE  /\ UNCHANGED <<tickets, started, cancelled, closing, shutDown, calls>>
           /\ closing' \in BOOLEAN /\ calls' \in 0 .. MaxCalls /\ cancelled' \subseteq created
<1>1. Range(current_ticket_stack) \subseteq started
  BY DEF ExecutorIInv, TicketPlaces, Executing
<1>2. started' = started
  BY <1>1 DEF QueueRest
<1> QED
  BY <1>2, TypesOfInv DEF QueueRest

(* discard_ticket sets the promise. *)
LEMMA ResolveKeeps ==
    ASSUME ExecutorIInv, NEW th \in Threads, ResolveDiscarded(th), QueueRest
    PROVE  ExecutorIInv'
<1>1. frames[th] # <<>> /\ Top(th).at = "resolve"
  BY DEF ResolveDiscarded, In
<1>2. CalmData
  BY QueueRestCalm DEF CalmData, ResolveDiscarded
<1>3. completed' \subseteq created \ registry
  BY <1>1, TopFacts, TypesOfInv DEF FrameHolds, ResolveDiscarded
<1>4. LoopData /\ (ExecutorFrames' => ExecutorTypes')
  BY <1>2, <1>3, QueueRestCalm, QuietTypes DEF ResolveDiscarded
<1> QED
  BY <1>1, <1>2, <1>4, CalmGoesBack DEF ResolveDiscarded, Outermost, Begun

(* processing_loop sets the promise. *)
LEMMA CompleteKeeps ==
    ASSUME ExecutorIInv, NEW w \in Workers, Complete(w), QueueRest
    PROVE  ExecutorIInv'
<1>1. w \in Threads /\ frames[w] # <<>> /\ Top(w).at = "complete"
  BY DEF Complete, In, Threads
<1>2. CalmData
  BY QueueRestCalm DEF CalmData, Complete
<1>3. completed' \subseteq created \ registry
  BY <1>1, TopFacts, TypesOfInv DEF FrameHolds, Complete
<1>4. LoopData /\ (ExecutorFrames' => ExecutorTypes')
  BY <1>2, <1>3, QueueRestCalm, QuietTypes DEF Complete
<1> QED
  BY <1>1, <1>2, <1>4, CalmGoesBack DEF Complete, Outermost, Begun

(* A step that changes nothing but the frames. *)
LEMMA OnlyFrames ==
    ASSUME ExecutorIInv, UNCHANGED <<poolVars, ticketVars>>,
           UNCHANGED <<tickets, started, shutDown>>, closing => closing', closing' \in BOOLEAN,
           calls' \in 0 .. MaxCalls, cancelled \subseteq cancelled', cancelled' \subseteq created
    PROVE  CalmData /\ LoopData /\ (ExecutorFrames' => ExecutorTypes')
<1>1. CalmData
  BY DEF CalmData, ticketVars
<1>2. completed' \subseteq created \ registry
  BY TypesOfInv DEF ticketVars
<1> QED
  BY <1>1, <1>2, QuietTypes DEF ticketVars

(* A step of the queue that changes nothing but the frames. *)
LEMMA QueueOnlyFrames ==
    ASSUME ExecutorIInv, QueueRest, UNCHANGED <<poolVars, ticketVars>>
    PROVE  CalmData /\ LoopData /\ (ExecutorFrames' => ExecutorTypes')
<1>1. UNCHANGED current_ticket_stack
  BY DEF ticketVars
<1>2. /\ UNCHANGED <<tickets, started, cancelled, closing, shutDown, calls>>
      /\ closing' \in BOOLEAN /\ calls' \in 0 .. MaxCalls /\ cancelled' \subseteq created
  BY <1>1, QueueRestCalm
<1> QED
  BY <1>2, OnlyFrames

(* wait_ticket at the future. *)
LEMMA FutureKeeps ==
    ASSUME ExecutorIInv, NEW th \in Threads, FutureReady(th), QueueRest
    PROVE  ExecutorIInv'
<1>1. frames[th] # <<>> /\ Top(th).at = "future" /\ Top(th).ticket \notin registry
  BY TypesOfInv DEF FutureReady, In
<1>2. CalmData /\ LoopData /\ (ExecutorFrames' => ExecutorTypes')
  BY QueueOnlyFrames DEF FutureReady
<1> QED
  BY <1>1, <1>2, CalmGoesBack DEF FutureReady, Outermost, Begun

(* wait_ticket: to the future, to a nested loop, or back. *)
LEMMA WaitKeeps ==
    ASSUME ExecutorIInv, NEW th \in Threads, WaitTicket(th), QueueRest
    PROVE  ExecutorIInv'
<1> DEFINE t == Top(th).ticket
           n == Len(frames[th])
<1> USE ThreadsAssumption, NoTicketAssumption
<1>1. frames[th] # <<>> /\ Top(th).at = "wait"
  BY DEF WaitTicket, In
<1>2. CalmData /\ LoopData /\ (ExecutorFrames' => ExecutorTypes')
  BY QueueOnlyFrames DEF WaitTicket
<1>3. t \in Tickets
  BY <1>1, TopFacts DEF ExecutorFrame, Frame
<1>4. ~Outermost(Top(th)) /\ ~Begun(Top(th))
  BY <1>1 DEF Outermost, Begun
<1>5. CASE t \in registry /\ th # processing_thread_id /\ GoesTo(th, At("future", t))
  <2>1. PICK x : x = At("future", t)
    OBVIOUS
  <2>2. /\ x.at = "future" /\ x.ticket = t /\ x \in ExecutorFrame
        /\ ~Begun(x) /\ ~Outermost(x) /\ FrameHolds(x)'
    BY <1>3, <2>1 DEF At, ExecutorFrame, Frame, Begun, Outermost, FrameHolds
  <2>3. ASSUME th \in Clients, frames'[th][n] = x, Rewrites(th, n - 1, n)
        PROVE  ClosedAreGone(th)'
    <3>1. \/ n = 1
          \/ n = 2 /\ frames[th][1].at = "clearing" /\ Top(th) = frames[th][2]
      BY <1>1, <2>3, TopFacts DEF ClientCallSet
    <3>2. CASE n = 1
      BY <2>2, <2>3, <3>2 DEF ClosedAreGone
    <3>3. CASE n = 2 /\ frames[th][1].at = "clearing" /\ Top(th) = frames[th][2]
      <4>1. frames'[th][1] = frames[th][1] /\ Len(frames'[th]) = 2 /\ registry' = registry
        BY <1>2, <2>3, <3>3 DEF Rewrites, CalmData
      <4>2. \A d \in frames[th][1].closed \cap registry : d = t
        BY <2>3, <3>3, <1>1 DEF ExecutorIInv, ClosedAreGone
      <4> QED
        BY <2>2, <2>3, <3>3, <4>1, <4>2 DEF ClosedAreGone
    <3> QED
      BY <3>1, <3>2, <3>3
  <2>4. /\ Len(frames[th]) = 1 => x.at \in ClientCallSet
        /\ Top(th).at # "add_task" /\ x.at \in {"resolve", "wait", "future"}
    BY <1>1, <2>2 DEF ClientCallSet
  <2>5. GoesTo(th, x)
    BY <1>5, <2>1
  <2> HIDE DEF t
  <2> QED
    BY <1>1, <1>2, <1>4, <2>2, <2>3, <2>4, <2>5, CalmGoesOn
<1>6. CASE t \in registry /\ th = processing_thread_id /\ GoesTo(th, At("check", t))
  <2>1. PICK x : x = At("check", t)
    OBVIOUS
  <2>2. /\ x.at = "check" /\ x.ticket = t /\ x \in ExecutorFrame
        /\ ~Begun(x) /\ ~Outermost(x) /\ FrameHolds(x)'
    BY <1>3, <2>1 DEF At, ExecutorFrame, Frame, Begun, Outermost, FrameHolds
  <2>3. th \notin Clients
    BY <1>6, TypesOfInv DEF Threads
  <2>4. GoesTo(th, x)
    BY <1>6, <2>1
  <2> HIDE DEF t
  <2> QED
    BY <1>1, <1>2, <1>4, <2>2, <2>3, <2>4, CalmGoesOn
<1>7. CASE (t \notin registry \/ (th = processing_thread_id /\ InCurrentTicketStack(t)))
           /\ Returns(th)
  <2>1. th \in Clients => t \notin registry
    BY <1>7, TypesOfInv DEF Threads
  <2> QED
    BY <1>1, <1>2, <1>4, <1>7, <2>1, CalmGoesBack
<1> QED
  BY <1>5, <1>6, <1>7 DEF WaitTicket

(* The loop's thread becomes the processing thread. *)
LEMMA SetProcessingKeeps ==
    ASSUME ExecutorIInv, NEW w \in Workers, SetProcessingThread(w), QueueRest
    PROVE  ExecutorIInv'
<1> USE ThreadsAssumption
<1>1. w \in Threads /\ w \notin Clients /\ frames[w] # <<>> /\ Top(w).at = "loop"
  BY DEF SetProcessingThread, In, Threads
<1>2. CalmData /\ LoopData
  BY QueueRestCalm DEF CalmData, LoopData, SetProcessingThread, poolVars
<1>3. ExecutorFrames' => ExecutorTypes'
  <2>1. ThreadPoolTypeOK'
    BY TypesOfInv DEF ThreadPoolTypeOK, SetProcessingThread, poolVars
  <2> QED
    BY <1>2, <2>1, TypesOfInv, QueueRestCalm, CalmTypes DEF SetProcessingThread, poolVars
<1>4. PICK x : x = At("check", NoTicket)
  OBVIOUS
<1>5. /\ x \in ExecutorFrame /\ x.at = "check" /\ ~Begun(x) /\ Outermost(x) /\ FrameHolds(x)'
      /\ Outermost(Top(w)) /\ ~Begun(Top(w))
  BY <1>1, <1>4 DEF At, ExecutorFrame, Frame, Begun, Outermost, FrameHolds
<1>6. GoesTo(w, x)
  BY <1>4 DEF SetProcessingThread
<1> QED
  BY <1>1, <1>2, <1>3, <1>5, <1>6, CalmGoesOn

(* The break condition of processing_loop. *)
LEMMA LoopConditionKeeps ==
    ASSUME ExecutorIInv, NEW w \in Workers, LoopCondition(w), QueueRest
    PROVE  ExecutorIInv'
<1> DEFINE t == Top(w).ticket
<1> USE ThreadsAssumption
<1>1. w \in Threads /\ w \notin Clients /\ frames[w] # <<>> /\ Top(w).at = "check"
  BY DEF LoopCondition, In, Threads
<1>2. CalmData /\ LoopData /\ (ExecutorFrames' => ExecutorTypes')
  BY QueueOnlyFrames DEF LoopCondition
<1>3. t \in Tickets \cup {NoTicket} /\ ~Begun(Top(w)) /\ (Outermost(Top(w)) <=> t = NoTicket)
  BY <1>1, TopFacts DEF ExecutorFrame, Frame, Begun, Outermost
<1>4. ASSUME NEW x, x = At("fetch", t) \/ (x = At("leave", NoTicket) /\ t = NoTicket), GoesTo(w, x)
      PROVE  ExecutorIInv'
  <2>1. /\ x \in ExecutorFrame /\ x.at \in {"fetch", "leave"} /\ ~Begun(x) /\ FrameHolds(x)'
        /\ Outermost(x) <=> t = NoTicket
    BY <1>3, <1>4 DEF At, ExecutorFrame, Frame, Begun, Outermost, FrameHolds
  <2> HIDE DEF t
  <2> QED
    BY <1>1, <1>2, <1>3, <1>4, <2>1, CalmGoesOn
<1>5. CASE GoesTo(w, At("fetch", t))
  BY <1>4, <1>5
<1>6. CASE t = NoTicket /\ GoesTo(w, At("leave", NoTicket))
  BY <1>4, <1>6
<1>7. CASE t # NoTicket /\ Returns(w)
  BY <1>1, <1>2, <1>3, <1>7, CalmGoesBack
<1> QED
  BY <1>5, <1>6, <1>7 DEF LoopCondition

(* schedule_ticket returns to execute. *)
LEMMA ExecuteReturnsKeeps ==
    ASSUME ExecutorIInv, NEW th \in Threads, ExecuteReturns(th)
    PROVE  ExecutorIInv'
<1>1. frames[th] # <<>> /\ Top(th).at = "posted"
  BY DEF ExecuteReturns, In
<1>2. CalmData /\ LoopData /\ (ExecutorFrames' => ExecutorTypes')
  BY OnlyFrames, TypesOfInv DEF ExecuteReturns, executorVars
<1> QED
  BY <1>1, <1>2, CalmGoesBack DEF ExecuteReturns, Outermost, Begun

(* clear goes round its loop. *)
LEMMA ClearLoopsKeeps ==
    ASSUME ExecutorIInv, NEW th \in Threads, ClearLoops(th)
    PROVE  ExecutorIInv'
<1> DEFINE n == Len(frames[th])
<1>1. frames[th] # <<>> /\ Top(th).at = "clearing"
  BY DEF ClearLoops, In
<1>2. CalmData /\ LoopData /\ (ExecutorFrames' => ExecutorTypes')
  BY OnlyFrames, TypesOfInv DEF ClearLoops, executorVars
<1>3. PICK x : x = ClearFrame("clear", Top(th), <<>>, Top(th).closed)
  OBVIOUS
<1>4. GoesTo(th, x)
  BY <1>3 DEF ClearLoops
<1>5. /\ x \in ExecutorFrame /\ x.at = "clear" /\ x.closed = Top(th).closed
      /\ x.shutdown = Top(th).shutdown /\ x.work = <<>>
  BY <1>1, <1>3, TopFacts DEF ClearFrame, ExecutorFrame, Frame
<1>6. FrameHolds(x)'
  BY <1>1, <1>2, <1>5, TopFacts DEF FrameHolds, CalmData
<1>7. /\ ~Begun(x) /\ ~Begun(Top(th)) /\ ~Outermost(x) /\ ~Outermost(Top(th))
  BY <1>1, <1>5 DEF Begun, Outermost
<1>8. ASSUME th \in Clients PROVE n = 1 /\ Top(th) = frames[th][1]
  BY <1>1, <1>8, TopFacts
<1>9. ASSUME th \in Clients, frames'[th][n] = x, Rewrites(th, n - 1, n)
      PROVE  ClosedAreGone(th)'
  <2>1. Top(th).closed \cap registry = {}
    BY <1>1, <1>8, <1>9 DEF ExecutorIInv, ClosedAreGone
  <2>2. frames'[th][1].closed \cap registry' = {}
    BY <1>2, <1>5, <1>8, <1>9, <2>1 DEF CalmData
  <2> QED
    BY <2>2 DEF ClosedAreGone
<1>10. th \in Clients => /\ Len(frames[th]) = 1 => x.at \in ClientCallSet
                         /\ Len(frames[th]) # 2
  <2>1. x.at \in ClientCallSet
    BY <1>5 DEF ClientCallSet
  <2>2. th \in Clients => Len(frames[th]) = 1
    BY <1>8
  <2> QED
    BY <2>1, <2>2
<1> QED
  BY <1>1, <1>2, <1>4, <1>5, <1>6, <1>7, <1>9, <1>10, CalmGoesOn

-----------------------------------------------------------------------------
(* Calls *)

(* execute begins. *)
LEMMA ExecuteKeeps ==
    ASSUME ExecutorIInv, NEW th \in Threads, NEW t \in Tickets, Execute(th, t)
    PROVE  ExecutorIInv'
<1>1. CalmData /\ LoopData /\ (ExecutorFrames' => ExecutorTypes')
  BY OnlyFrames, TypesOfInv DEF Execute, executorVars
<1>2. PICK x : x = At("create", t)
  OBVIOUS
<1>3. Enters(th, x) /\ MayCall(th)
  BY <1>2 DEF Execute
<1>4. /\ x \in ExecutorFrame /\ x.at = "create" /\ x.ticket = t /\ ~Begun(x)
      /\ x.at \in ClientCallSet \ {"posted"}
  BY <1>2 DEF At, ExecutorFrame, Begun, ClientCallSet
<1>5. FrameHolds(x)'
  BY <1>4 DEF FrameHolds, Execute, ticketVars
<1>6. PostedOnce'
  <2>1. /\ Top(th)' = x
        /\ \A o \in Threads : o # th => frames'[o] = frames[o] /\ Top(o)' = Top(o)
    BY <1>1, <1>3, <1>4, GoesDown DEF Rewrites, Top
  <2>2. ASSUME NEW o \in Threads, Posting(o), Top(o).ticket = t PROVE FALSE
    <3>1. frames[o] # <<>> /\ Top(o).at \in {"create", "post"}
      BY <2>2 DEF Posting, In
    <3>2. /\ Top(o) \in ExecutorFrame /\ FrameHolds(Top(o))
          /\ Len(frames[o]) \in Nat /\ Len(frames[o]) >= 1
          /\ Top(o) = frames[o][Len(frames[o])]
      BY <3>1, TopFacts
    <3>3. CASE Top(o).at = "post"
      BY <2>2, <3>2, <3>3, TypesOfInv DEF FrameHolds, Execute
    <3>4. CASE Top(o).at = "create"
      <4>1. Top(o) = At("create", t)
        BY <2>2, <3>2, <3>4 DEF ExecutorFrame, Frame, At
      <4>2. Len(frames[o]) \in DOMAIN frames[o]
        <5>1. frames[o] \in Seq(ExecutorFrame)
          BY FactsOfInv, FramesOfThread
        <5> QED
          BY <3>2, <5>1
      <4> QED
        BY <3>2, <4>1, <4>2 DEF Execute
    <3> QED
      BY <3>1, <3>3, <3>4
  <2>3. ASSUME NEW o \in Threads, o # th, Posting(o)' PROVE Posting(o) /\ Top(o)' = Top(o)
    BY <2>1, <2>3 DEF Posting, In
  <2> SUFFICES ASSUME NEW o \in Threads, NEW u \in Threads, Posting(o)', Posting(u)',
                      Top(o)'.ticket = Top(u)'.ticket
               PROVE  o = u
    BY DEF PostedOnce
  <2>4. CASE o = th /\ u # th
    BY <1>4, <2>1, <2>2, <2>3, <2>4
  <2>5. CASE o # th /\ u = th
    BY <1>4, <2>1, <2>2, <2>3, <2>5
  <2>6. CASE o # th /\ u # th
    BY <2>3, <2>6 DEF ExecutorIInv, PostedOnce
  <2> QED
    BY <2>4, <2>5, <2>6
<1> QED
  BY <1>1, <1>3, <1>4, <1>5, <1>6, CalmGoesDown

(* QueueExecutorOperation::wait. *)
LEMMA OperationWaitsKeeps ==
    ASSUME ExecutorIInv, NEW th \in Threads, NEW t \in Tickets, OperationWaits(th, t)
    PROVE  ExecutorIInv'
<1>1. calls' \in 0 .. MaxCalls
  BY MaxCallsAssumption, TypesOfInv DEF OperationWaits, CountCall
<1>2. CalmData /\ LoopData /\ (ExecutorFrames' => ExecutorTypes')
  BY <1>1, OnlyFrames, TypesOfInv DEF OperationWaits, CallWaitTicket
<1>3. PICK x : x = At("wait", t)
  OBVIOUS
<1>4. Enters(th, x) /\ MayCall(th)
  BY <1>3 DEF OperationWaits, CallWaitTicket
<1>5. /\ x \in ExecutorFrame /\ x.at = "wait" /\ ~Begun(x) /\ FrameHolds(x)'
      /\ x.at \in ClientCallSet \ {"posted"}
  BY <1>3 DEF At, ExecutorFrame, Frame, Begun, ClientCallSet, FrameHolds
<1> QED
  BY <1>2, <1>4, <1>5, CalmGoesDown

(* A call of clear begins. *)
LEMMA ClearBegins ==
    ASSUME ExecutorIInv, NEW th \in Threads, NEW policy \in Policies, NEW shutdown \in BOOLEAN,
           MayCall(th), Enters(th, NewClear(policy, shutdown)),
           CalmData, LoopData, ExecutorFrames' => ExecutorTypes', shutdown => closing'
    PROVE  ExecutorIInv'
<1>1. PICK x : x = NewClear(policy, shutdown)
  OBVIOUS
<1>2. Enters(th, x)
  BY <1>1
<1>3. /\ x \in ExecutorFrame /\ x.at = "clear" /\ ~Begun(x)
      /\ x.closed = {} /\ x.work = <<>> /\ x.shutdown = shutdown
      /\ x.at \in ClientCallSet \ {"posted"}
  BY <1>1 DEF NewClear, ClearFrame, ExecutorFrame, Begun, ClientCallSet
<1>4. FrameHolds(x)'
  BY <1>3 DEF FrameHolds
<1> QED
  BY <1>2, <1>3, <1>4, CalmGoesDown

(* cancel_all and wait_all. *)
LEMMA CallClearKeeps ==
    ASSUME ExecutorIInv, NEW th \in Threads, NEW policy \in Policies, CallClear(th, policy)
    PROVE  ExecutorIInv'
<1>1. calls' \in 0 .. MaxCalls
  BY MaxCallsAssumption, TypesOfInv DEF CallClear, CountCall
<1>2. CalmData /\ LoopData /\ (ExecutorFrames' => ExecutorTypes')
  BY <1>1, OnlyFrames, TypesOfInv DEF CallClear
<1> QED
  BY <1>2, ClearBegins DEF CallClear

(* shutdown. *)
LEMMA ShutdownKeeps ==
    ASSUME ExecutorIInv, NEW th \in Threads, Shutdown(th)
    PROVE  ExecutorIInv'
<1>1. calls' \in 0 .. MaxCalls
  BY MaxCallsAssumption, TypesOfInv DEF Shutdown, CountCall
<1>2. CalmData /\ LoopData /\ (ExecutorFrames' => ExecutorTypes')
  BY <1>1, OnlyFrames, TypesOfInv DEF Shutdown
<1>3. "CANCELABLE" \in Policies
  BY DEF Policies
<1> QED
  BY <1>2, <1>3, ClearBegins DEF Shutdown

-----------------------------------------------------------------------------
(* The loop comes and goes *)

(* clear calls the queue for one of its tickets. *)
LEMMA GoesOnAndDown ==
    ASSUME ExecutorIInv, NEW th \in Threads, In(th, "clearing"),
           NEW x \in ExecutorFrame, NEW y \in ExecutorFrame, GoesOnAndEnters(th, x, y), LoopData,
           x.at = "clearing", y.at \in {"resolve", "wait"}
    PROVE  /\ Rewrites(th, Len(frames[th]) - 1, Len(frames[th]) + 1)
           /\ frames'[th][Len(frames[th])] = x
           /\ frames'[th][Len(frames[th]) + 1] = y
           /\ Top(th)' = y
           /\ CallsAndLoop(th)
           /\ th \in Clients => Len(frames[th]) = 1 /\ Len(frames'[th]) = 2
<1> DEFINE n == Len(frames[th])
<1> USE ThreadsAssumption
<1>1. frames[th] # <<>> /\ Top(th).at = "clearing"
  BY DEF In
<1>2. /\ n \in Nat /\ n >= 1 /\ Top(th) = frames[th][n]
      /\ th \in Workers => n # 1
      /\ th \in Clients => n = 1
  BY <1>1, TopFacts DEF Outermost
<1>3. /\ Rewrites(th, n - 1, n + 1) /\ frames'[th][n] = x /\ frames'[th][n + 1] = y
      /\ Top(th)' = y /\ frames'[th] # <<>>
  BY <1>1, FactsOfInv, TopReplacedAndAdded
<1>4. n + 1 = Len(frames'[th])
  BY <1>3 DEF Rewrites
<1> HIDE DEF n
<1>5. \A w \in Workers : WorkerCalls(w)'
  <2>1. ASSUME th \in Workers PROVE WorkerCalls(th)'
    <3>1. WorkerCalls(th)
      BY <2>1 DEF ExecutorIInv
    <3>2. \A i \in 1 .. n + 1 : i > n - 1 => i = n \/ i = n + 1
      BY <1>2
    <3>3. ~Outermost(x) /\ ~Outermost(y)
      BY DEF Outermost
    <3>4. \A i \in 1 .. n + 1 : i > n - 1 =>
               /\ frames'[th][i].at \notin {"posted", "add_task", "idle", "join"}
               /\ Outermost(frames'[th][i]) <=> i = 1
      <4> SUFFICES ASSUME NEW i \in 1 .. n + 1, i > n - 1
                   PROVE  /\ frames'[th][i].at \notin {"posted", "add_task", "idle", "join"}
                          /\ Outermost(frames'[th][i]) <=> i = 1
        OBVIOUS
      <4>1. i # 1
        BY <1>2, <2>1, <3>2
      <4>2. frames'[th][i] = x \/ frames'[th][i] = y
        BY <1>3, <3>2
      <4> QED
        BY <3>3, <4>1, <4>2
    <3>5. \A i \in 1 .. (n + 1) - 1 : i >= n - 1 => frames'[th][i].at \in {"check", "run", "clearing"}
      <4> SUFFICES ASSUME NEW i \in 1 .. (n + 1) - 1, i >= n - 1
                   PROVE  frames'[th][i].at \in {"check", "run", "clearing"}
        OBVIOUS
      <4>1. CASE i = n
        BY <1>3, <4>1
      <4>2. CASE i = n - 1
        <5>1. frames'[th][i] = frames[th][i] /\ i \in 1 .. Len(frames[th]) - 1
          BY <1>2, <1>3, <4>2 DEF Rewrites, n
        <5> QED
          BY <3>1, <5>1 DEF WorkerCalls
      <4> QED
        BY <1>2, <4>1, <4>2
    <3> QED
      BY <1>2, <1>3, <2>1, <3>1, <3>4, <3>5, WorkerCallsKept DEF n
  <2> QED
    BY <1>3, <2>1, OtherCalls
<1>6. \A c \in Clients : ClientCalls(c)'
  <2>1. ASSUME th \in Clients PROVE ClientCalls(th)'
    <3>1. Len(frames'[th]) = 2 /\ frames'[th][1] = x /\ frames'[th][2] = y
      BY <1>2, <1>3, <1>4, <2>1
    <3> QED
      BY <3>1 DEF ClientCalls
  <2> QED
    BY <1>3, <2>1, OtherCalls
<1>7. LoopIsOne' /\ InLoop' = InLoop
  <2>1. ~Adding(th)'
    BY <1>3 DEF Adding, In
  <2> QED
    BY <1>1, <1>3, <2>1, LoopStays DEF LoopData
<1>8. th \in Clients => n = 1 /\ Len(frames'[th]) = 2
  BY <1>2, <1>4
<1>9. CallsAndLoop(th)
  BY <1>5, <1>6, <1>7 DEF CallsAndLoop
<1> QED
  BY <1>3, <1>8, <1>9 DEF n

(* The first ticket clear has to deal with, and what is left then.         *)
RestOfWork(f) == ClearFrame("clearing", f, Tail(f.work), f.closed \cup {Head(f.work).ticket})

(* The ticket was scheduled; one that is discarded may be.                *)
LEMMA WorkFacts ==
    ASSUME ExecutorIInv, NEW th \in Threads, In(th, "clearing"), Top(th).work # <<>>
    PROVE  LET f == Top(th)
               t == Head(f.work).ticket
               x == RestOfWork(f)
           IN /\ t \in Tickets /\ t \in was_scheduled
              /\ Head(f.work).call = "discard" => t \notin NonCancelable
              /\ x \in ExecutorFrame /\ x.at = "clearing" /\ x.closed = f.closed \cup {t}
              /\ FrameHolds(x)
<1> DEFINE f == Top(th)
           Work == [call : {"discard", "wait"}, ticket : Tickets]
           t == Head(f.work).ticket
<1>1. frames[th] # <<>> /\ f.at = "clearing"
  BY DEF In
<1>2. /\ f \in ExecutorFrame /\ FrameHolds(f)
      /\ f.work \in Seq(Work) /\ f.work # <<>>
      /\ f.policy \in Policies /\ f.shutdown \in BOOLEAN /\ f.closed \in SUBSET Tickets
  BY <1>1, TopFacts DEF ExecutorFrame, Frame
<1>3. /\ Tail(f.work) \in Seq(Work)
      /\ \A i \in 1 .. Len(Tail(f.work)) : \E j \in 1 .. Len(f.work) : Tail(f.work)[i] = f.work[j]
      /\ \E j \in 1 .. Len(f.work) : Head(f.work) = f.work[j]
      /\ Head(f.work) \in Work
  <2> DEFINE s == f.work
  <2>1. s \in Seq(Work) /\ s # <<>>
    BY <1>2
  <2> HIDE DEF s, Work
  <2>2. /\ Tail(s) \in Seq(Work) /\ Head(s) \in Work
        /\ Len(s) >= 1 /\ Len(s) \in Nat /\ Len(Tail(s)) = Len(s) - 1 /\ Head(s) = s[1]
        /\ \A i \in 1 .. Len(Tail(s)) : Tail(s)[i] = s[i + 1]
    BY <2>1
  <2>3. \A i \in 1 .. Len(Tail(s)) : i + 1 \in 1 .. Len(s)
    BY <2>2
  <2> QED
    BY <2>2, <2>3 DEF s
<1>4. PICK j \in 1 .. Len(f.work) : Head(f.work) = f.work[j]
  BY <1>3
<1>5. /\ t \in Tickets /\ t \in was_scheduled
      /\ Head(f.work).call = "discard" => t \notin NonCancelable
  BY <1>1, <1>2, <1>3, <1>4 DEF FrameHolds
<1>6. PICK x : x = RestOfWork(f)
  OBVIOUS
<1>7. /\ x \in ExecutorFrame /\ x.at = "clearing" /\ x.work = Tail(f.work)
      /\ x.closed = f.closed \cup {t} /\ x.shutdown = f.shutdown
  BY <1>2, <1>3, <1>5, <1>6 DEF RestOfWork, ClearFrame, ExecutorFrame
<1>8. FrameHolds(x)
  <2> HIDE DEF f, t
  <2> QED
    BY <1>1, <1>2, <1>3, <1>5, <1>7 DEF FrameHolds
<1> QED
  BY <1>5, <1>6, <1>7, <1>8

(* clear calls wait_ticket, and nothing else happens. *)
LEMMA ClearCallsWait ==
    ASSUME ExecutorIInv, NEW th \in Threads, In(th, "clearing"), Top(th).work # <<>>,
           GoesOnAndEnters(th, RestOfWork(Top(th)), At("wait", Head(Top(th).work).ticket)),
           UNCHANGED <<poolVars, ticketVars, executorVars>>
    PROVE  ExecutorIInv'
<1> DEFINE n == Len(frames[th])
           f == Top(th)
           t == Head(f.work).ticket
<1>1. frames[th] # <<>> /\ f.at = "clearing" /\ f.work # <<>> /\ In(th, "clearing")
  BY DEF In
<1>2. CalmData /\ LoopData /\ (ExecutorFrames' => ExecutorTypes')
  BY OnlyFrames, TypesOfInv DEF executorVars
<1>3. /\ f \in ExecutorFrame /\ FrameHolds(f) /\ n \in Nat /\ n >= 1 /\ f = frames[th][n]
      /\ f.work \in Seq([call : {"discard", "wait"}, ticket : Tickets])
      /\ f.policy \in Policies /\ f.shutdown \in BOOLEAN /\ f.closed \in SUBSET Tickets
  BY <1>1, TopFacts DEF ExecutorFrame, Frame
<1>4. PICK x : x = RestOfWork(f)
  OBVIOUS
<1>5. PICK y : y = At("wait", t)
  OBVIOUS
<1>7. /\ t \in Tickets /\ t \in was_scheduled
      /\ x \in ExecutorFrame /\ x.at = "clearing" /\ x.closed = f.closed \cup {t}
      /\ FrameHolds(x)
  BY <1>1, <1>4, WorkFacts
<1>9. y \in ExecutorFrame /\ y.at = "wait" /\ y.ticket = t
  BY <1>5, <1>7 DEF At, ExecutorFrame, Frame
<1>10. GoesOnAndEnters(th, x, y)
  BY <1>4, <1>5
<1>11. FrameHolds(x)' /\ FrameHolds(y)'
  <2>1. FrameHolds(y)
    BY <1>9 DEF FrameHolds
  <2> QED
    BY <1>2, <1>7, <1>9, <2>1, CalmFrames
<1>12. /\ Rewrites(th, n - 1, n + 1) /\ frames'[th][n] = x /\ frames'[th][n + 1] = y
       /\ Top(th)' = y /\ CallsAndLoop(th)
       /\ th \in Clients => n = 1 /\ Len(frames'[th]) = 2
  BY <1>1, <1>2, <1>7, <1>9, <1>10, GoesOnAndDown
<1> HIDE DEF n, f, t
<1>13. \A i \in 1 .. n + 1 : i > n - 1 => frames'[th][i] = x \/ frames'[th][i] = y
  BY <1>3, <1>12
<1>14. \A i \in 1 .. n + 1 : i > n - 1 => FrameHolds(frames[th][i])'
  BY <1>11, <1>13, Zenon DEF FrameHolds
<1>15. ~Begun(x) /\ ~Begun(y) /\ ~Begun(f)
  BY <1>1, <1>7, <1>9 DEF Begun
<1>16. /\ \A i \in 1 .. n + 1 : i > n - 1 => ~Begun(frames'[th][i])
       /\ \A i \in 1 .. n : i > n - 1 => ~Begun(frames[th][i])
  <2>1. \A i \in 1 .. n : i > n - 1 => i = n
    BY <1>3
  <2> QED
    BY <1>3, <1>13, <1>15, <2>1
<1>17. ~Posting(th)'
  BY <1>9, <1>12 DEF Posting, In
<1>18. /\ StackOfFrames' /\ TicketPlaces' /\ FramesHold' /\ PostedOnce' /\ AfterShutdown'
       /\ \A c \in Clients : c # th => ClosedAreGone(c)'
  BY <1>2, <1>12, <1>14, <1>16, <1>17, CalmStep DEF CallsAndLoop, n
<1>19. ASSUME th \in Clients PROVE ClosedAreGone(th)'
  <2>1. n = 1 /\ frames[th][1] = f
    BY <1>3, <1>12, <1>19
  <2>2. f.closed \cap registry = {}
    BY <1>1, <1>19, <2>1 DEF ExecutorIInv, ClosedAreGone, n
  <2>3. frames'[th][1] = x /\ frames'[th][2] = y /\ Len(frames'[th]) = 2 /\ registry' = registry
    BY <1>2, <1>12, <1>19, <2>1 DEF CalmData
  <2> QED
    BY <1>7, <1>9, <2>2, <2>3 DEF ClosedAreGone
<1>20. ExecutorTypes'
  BY <1>2, <1>12 DEF Rewrites
<1> QED
  BY <1>12, <1>18, <1>19, <1>20 DEF ExecutorIInv, CallsAndLoop

(* clear waits for a ticket. *)
LEMMA ClearWaitsKeeps ==
    ASSUME ExecutorIInv, NEW th \in Threads, ClearWaits(th)
    PROVE  ExecutorIInv'
<1>1. GoesOnAndEnters(th, RestOfWork(Top(th)), At("wait", Head(Top(th).work).ticket))
  BY DEF ClearWaits, GoesOnAndEnters, RestOfWork
<1> QED
  BY <1>1, ClearCallsWait DEF ClearWaits

(* A worker without a task enters its event loop. *)
LEMMA IdleWorkerKeeps ==
    ASSUME ExecutorIInv, NEW w \in Workers, IdleWorker(w), QueueRest
    PROVE  ExecutorIInv'
<1>1. /\ worker[w].at = "check" /\ worker' = [worker EXCEPT ![w] = [at |-> "wait", task |-> NoTask]]
      /\ UNCHANGED <<pool_tasks, pool_close>>
  BY FactsOfInv DEF IdleWorker, EnterOrLeaveEventLoop, WakeToLeave, MoveWorker
<1>2. UNCHANGED <<ticketVars, frames>>
  BY DEF IdleWorker, queueVars
<1>3. CalmData
  BY <1>2, QueueRestCalm DEF CalmData, ticketVars
<1>4. /\ worker \in [Workers -> WorkerState] /\ worker' \in [Workers -> WorkerState]
      /\ ThreadPoolTypeOK'
  BY <1>1, TypesOfInv DEF ThreadPoolTypeOK, WorkerState
<1>5. ExecutorTypes'
  <2>1. /\ UNCHANGED current_ticket_stack /\ completed' \subseteq created \ registry
        /\ UNCHANGED <<pool_close, stop_processing_requested>> /\ is_scheduled' \in BOOLEAN
        /\ processing_thread_id' \in Workers \cup {NoThread} /\ ExecutorFrames'
    BY <1>1, <1>2, TypesOfInv, FactsOfInv DEF ticketVars, ExecutorFrames
  <2> QED
    BY <1>3, <1>4, <2>1, QueueRestCalm, CalmTypes
<1>6. \A v \in Workers : worker'[v].at = "run" <=> worker[v].at = "run"
  BY <1>1, <1>4
<1>7. LoopIsOne' /\ InLoop' = InLoop
  <2>1. InLoop' = InLoop /\ \A c \in Clients : Adding(c)' <=> Adding(c)
    BY <1>2 DEF InLoop, Adding, In, Top
  <2> QED
    BY <1>1, <1>2, <1>6, <2>1 DEF ExecutorIInv, LoopIsOne, ticketVars
<1>8. /\ \A c \in Clients : ClientCalls(c)' /\ ClosedAreGone(c)'
      /\ \A v \in Workers : WorkerCalls(v)'
  BY <1>2 DEF ExecutorIInv, ClientCalls, ClosedAreGone, WorkerCalls, Outermost, ticketVars
<1>9. StackOfFrames' /\ TicketPlaces' /\ PostedOnce' /\ AfterShutdown'
  <2>1. StackOfFrames'
    BY <1>2, <1>7 DEF ExecutorIInv, StackOfFrames, Stacked, Begun, ticketVars
  <2>2. TicketPlaces'
    BY <1>3 DEF ExecutorIInv, TicketPlaces, Queued, Executing, CalmData
  <2>3. PostedOnce'
    BY <1>2 DEF ExecutorIInv, PostedOnce, Posting, In, Top
  <2>4. AfterShutdown'
    BY <1>2, <1>3 DEF ExecutorIInv, AfterShutdown, CalmData
  <2> QED
    BY <2>1, <2>2, <2>3, <2>4
<1>10. FramesHold'
  <2>1. frames' = frames
    BY <1>2
  <2>2. ASSUME NEW u \in Threads, NEW i \in 1 .. Len(frames[u])
        PROVE  FrameHolds(frames[u][i])'
    <3>1. FrameHolds(frames[u][i])
      BY DEF ExecutorIInv, FramesHold
    <3> QED
      BY <1>3, <2>1, <3>1 DEF FrameHolds, CalmData
  <2> QED
    BY <2>1, <2>2 DEF FramesHold
<1> QED
  BY <1>5, <1>7, <1>8, <1>9, <1>10 DEF ExecutorIInv

(* A worker takes the task of the loop. *)
LEMMA StartLoopKeeps ==
    ASSUME ExecutorIInv, NEW w \in Workers, StartLoop(w), QueueRest
    PROVE  ExecutorIInv'
<1> USE ThreadsAssumption
<1>1. w \in Threads /\ w \notin Clients
  BY DEF Threads
<1>2. /\ worker[w].at = "wait" /\ pool_tasks # <<>> /\ pool_tasks' = Tail(pool_tasks)
      /\ worker' = [worker EXCEPT ![w] = [at |-> "run", task |-> Head(pool_tasks)]]
      /\ UNCHANGED <<pool_close, ticketVars>>
  BY DEF StartLoop, TakeTask
<1>3. InLoop = {} /\ Len(pool_tasks) = 1 /\ frames[w] = <<>> /\ is_scheduled
      /\ current_ticket_stack = <<>>
  BY <1>2 DEF ExecutorIInv, LoopIsOne, StackOfFrames
<1>4. /\ worker \in [Workers -> WorkerState] /\ worker' \in [Workers -> WorkerState]
      /\ pool_tasks' = <<>> /\ ThreadPoolTypeOK'
  <2>1. pool_tasks \in Seq(PoolTasks)
    BY TypesOfInv DEF ThreadPoolTypeOK
  <2>2. Tail(pool_tasks) \in Seq(PoolTasks) /\ Len(Tail(pool_tasks)) = 0
        /\ Head(pool_tasks) \in PoolTasks
    BY <1>2, <1>3, <2>1
  <2>3. Tail(pool_tasks) = <<>>
    BY <2>2, EmptySeq
  <2> QED
    BY <1>2, <2>2, <2>3, TypesOfInv DEF ThreadPoolTypeOK, WorkerState
<1>5. CalmData
  BY <1>2, QueueRestCalm DEF CalmData, ticketVars
<1>6. PICK x : x = At("loop", NoTicket)
  OBVIOUS
<1>7. /\ x \in ExecutorFrame /\ x.at = "loop" /\ ~Begun(x) /\ Outermost(x) /\ FrameHolds(x)'
  BY <1>6 DEF At, ExecutorFrame, Frame, Begun, Outermost, FrameHolds
<1>8. Enters(w, x)
  BY <1>6 DEF StartLoop
<1>9. /\ Rewrites(w, 0, 1) /\ frames'[w][1] = x /\ frames'[w] # <<>> /\ Top(w)' = x
      /\ Len(frames[w]) = 0 /\ Len(frames'[w]) = 1
  <2>1. Len(frames[w]) = 0
    BY <1>3
  <2>2. /\ Rewrites(w, Len(frames[w]), Len(frames[w]) + 1) /\ frames'[w][Len(frames[w]) + 1] = x
        /\ frames'[w] # <<>> /\ Top(w)' = x
    BY <1>1, <1>7, <1>8, FactsOfInv, TopAdded
  <2>3. Rewrites(w, 0, 1) /\ frames'[w][1] = x
    BY <2>1, <2>2
  <2> QED
    BY <2>1, <2>2, <2>3 DEF Rewrites
<1>10. \A i \in 1 .. 1 : i > 0 => i = 1
  OBVIOUS
<1>11. \A i \in 1 .. 1 : i > 0 => FrameHolds(frames[w][i])'
  <2>1. \A i \in 1 .. 1 : i > 0 => frames'[w][i] = x
    BY <1>9, <1>10
  <2> QED
    BY <1>7, <2>1, Zenon DEF FrameHolds
<1>12. /\ TicketPlaces' /\ FramesHold' /\ PostedOnce' /\ AfterShutdown'
       /\ \A c \in Clients : ClosedAreGone(c)'
  <2>1. ~Posting(w)'
    BY <1>7, <1>9 DEF Posting, In
  <2>2. \A i \in 1 .. 1 : i > 0 => ~Begun(frames'[w][i])
    BY <1>7, <1>9, <1>10
  <2> QED
    BY <1>1, <1>5, <1>9, <1>11, <2>1, <2>2, CalmRest
<1>13. \A o \in Threads : o # w => frames'[o] = frames[o] /\ Top(o)' = Top(o)
  BY <1>9 DEF Rewrites, Top
<1>14. InLoop' = {w}
  BY <1>3, <1>9, <1>13 DEF InLoop, Threads
<1>15. StackOfFrames'
  <2>1. \A i \in 1 .. 1 : ~Begun(frames'[w][i])
    BY <1>7, <1>9
  <2>2. current_ticket_stack' = <<>>
    BY <1>2, <1>3 DEF ticketVars
  <2>3. Stacked(frames'[w], <<>>)
    BY <1>9, <2>1 DEF Stacked
  <2>4. Stacked(frames'[w], current_ticket_stack')
    BY <2>2, <2>3
  <2>5. \A v \in InLoop' : Stacked(frames'[v], current_ticket_stack')
    BY <1>14, <2>4
  <2>6. \A v \in InLoop' : Stacked(frames[v], current_ticket_stack)'
    BY <2>5, Zenon DEF Stacked, Begun
  <2> QED
    BY <1>14, <2>6 DEF StackOfFrames
<1>16. LoopIsOne'
  <2>1. \A c \in Clients : ~Adding(c)'
    <3>1. \A c \in Clients : Adding(c)' <=> Adding(c)
      BY <1>1, <1>13 DEF Adding, In, Threads
    <3> QED
      BY <1>2, <3>1 DEF ExecutorIInv, LoopIsOne
  <2>2. \A v \in Workers : frames'[v] = <<>> <=> worker'[v].at # "run"
    <3>1. ASSUME NEW v \in Workers, v # w
          PROVE  frames'[v] = frames[v] /\ worker'[v] = worker[v]
      BY <1>2, <1>4, <1>13, <3>1 DEF Threads
    <3>2. worker'[w].at = "run"
      BY <1>2, <1>4
    <3> QED
      BY <1>9, <3>1, <3>2 DEF ExecutorIInv, LoopIsOne
  <2> QED
    BY <1>2, <1>3, <1>4, <1>14, <2>1, <2>2 DEF LoopIsOne, ticketVars
<1>17. (\A c \in Clients : ClientCalls(c)') /\ (\A v \in Workers : WorkerCalls(v)')
  <2>1. WorkerCalls(w)'
    <3>1. WorkerCalls(w) /\ Len(frames[w]) \in Nat
      BY <1>9 DEF ExecutorIInv
    <3>2. \A i \in 1 .. 1 : i > 0 =>
               /\ frames'[w][i].at \notin {"posted", "add_task", "idle", "join"}
               /\ Outermost(frames'[w][i]) <=> i = 1
      BY <1>7, <1>9, <1>10
    <3>3. \A i \in 1 .. 1 - 1 : i >= 0 => frames'[w][i].at \in {"check", "run", "clearing"}
      OBVIOUS
    <3> QED
      BY <1>9, <3>1, <3>2, <3>3, WorkerCallsKept
  <2> QED
    BY <1>1, <1>9, <2>1, OtherCalls
<1>18. ExecutorTypes'
  <2>1. /\ UNCHANGED <<current_ticket_stack, stop_processing_requested, pool_close>>
        /\ completed' \subseteq created \ registry /\ is_scheduled' \in BOOLEAN
        /\ processing_thread_id' \in Workers \cup {NoThread} /\ ExecutorFrames'
    BY <1>2, <1>9, TypesOfInv DEF ticketVars, Rewrites
  <2> QED
    BY <1>4, <1>5, <2>1, QueueRestCalm, CalmTypes
<1> QED
  BY <1>12, <1>15, <1>16, <1>17, <1>18 DEF ExecutorIInv

(* schedule_ticket gives the loop to the pool. *)
LEMMA ScheduleLoopKeeps ==
    ASSUME ExecutorIInv, NEW c \in Threads, ScheduleProcessingLoop(c), QueueRest
    PROVE  ExecutorIInv'
<1> USE ThreadsAssumption
<1>1. frames[c] # <<>> /\ Top(c).at = "add_task" /\ In(c, "add_task")
  BY DEF ScheduleProcessingLoop, In
<1>2. /\ c \in Clients /\ c \notin Workers /\ Adding(c) /\ Len(frames[c]) = 2
      /\ frames[c][1].at = "posted"
  <2>1. c \notin Workers
    BY <1>1, TopFacts
  <2> QED
    BY <1>1, <2>1, TopFacts DEF Threads, Adding, ClientCallSet
<1>3. /\ InLoop = {} /\ pool_tasks = <<>> /\ is_scheduled /\ current_ticket_stack = <<>>
      /\ \A d \in Clients : Adding(d) => d = c
  BY <1>2 DEF ExecutorIInv, LoopIsOne, StackOfFrames
<1>4. pool_tasks' = <<LoopTask>> /\ UNCHANGED <<pool_close, worker, ticketVars>>
  BY <1>3, FactsOfInv DEF ScheduleProcessingLoop, AddTask
<1>5. CalmData
  BY <1>4, QueueRestCalm DEF CalmData, ticketVars
<1>6. /\ Rewrites(c, 1, 1) /\ frames'[c] # <<>> /\ Len(frames'[c]) = 1
      /\ frames'[c][1].at = "posted" /\ Top(c)'.at = "posted"
  <2>1. Rewrites(c, Len(frames[c]) - 1, Len(frames[c]) - 1)
        /\ (frames'[c] = <<>> <=> Len(frames[c]) = 1)
    BY <1>1, FactsOfInv, TopEnded DEF ScheduleProcessingLoop
  <2>2. Rewrites(c, 1, 1)
    BY <1>2, <2>1
  <2> QED
    BY <1>2, <2>1, <2>2 DEF Rewrites, Top, Last
<1>7. \A i \in 1 .. 1 : ~(i > 1)
  OBVIOUS
<1>8. /\ TicketPlaces' /\ FramesHold' /\ PostedOnce' /\ AfterShutdown'
      /\ \A d \in Clients : d # c => ClosedAreGone(d)'
  <2>1. ~Posting(c)'
    BY <1>6 DEF Posting, In
  <2> QED
    BY <1>5, <1>6, <1>7, <2>1, CalmRest
<1>9. ClosedAreGone(c)'
  BY <1>6 DEF ClosedAreGone
<1>10. \A o \in Threads : o # c => frames'[o] = frames[o] /\ Top(o)' = Top(o)
  BY <1>6 DEF Rewrites, Top
<1>11. InLoop' = InLoop
  BY <1>2, <1>10 DEF InLoop, Threads
<1>12. StackOfFrames'
  BY <1>3, <1>4, <1>11 DEF StackOfFrames, ticketVars
<1>13. LoopIsOne'
  <2>1. \A d \in Clients : ~Adding(d)'
    BY <1>3, <1>6, <1>10 DEF Adding, In, Threads
  <2>2. \A w \in Workers : frames'[w] = <<>> <=> worker'[w].at # "run"
    BY <1>2, <1>4, <1>10 DEF ExecutorIInv, LoopIsOne, Threads
  <2>3. is_scheduled' /\ Len(pool_tasks') = 1
    BY <1>3, <1>4 DEF ticketVars
  <2> QED
    BY <1>3, <1>11, <2>1, <2>2, <2>3 DEF LoopIsOne
<1>14. (\A d \in Clients : ClientCalls(d)') /\ (\A w \in Workers : WorkerCalls(w)')
  <2>1. ClientCalls(c)'
    BY <1>6 DEF ClientCalls
  <2> QED
    BY <1>2, <1>6, <2>1, OtherCalls
<1>15. ExecutorTypes'
  <2>1. ThreadPoolTypeOK'
    BY <1>4, LoopTaskAssumption, TypesOfInv DEF ThreadPoolTypeOK
  <2>2. /\ UNCHANGED <<current_ticket_stack, stop_processing_requested, pool_close>>
        /\ completed' \subseteq created \ registry /\ is_scheduled' \in BOOLEAN
        /\ processing_thread_id' \in Workers \cup {NoThread} /\ ExecutorFrames'
    BY <1>4, <1>6, TypesOfInv DEF ticketVars, Rewrites
  <2> QED
    BY <1>5, <2>1, <2>2, QueueRestCalm, CalmTypes
<1> QED
  BY <1>8, <1>9, <1>12, <1>13, <1>14, <1>15 DEF ExecutorIInv

-----------------------------------------------------------------------------
(* Lists of tickets *)

(* The elements of a sequence that is changed at an end, ... *)
LEMMA TailRange ==
    ASSUME NEW S, NEW s \in Seq(S), s # <<>>, IsInjective(s)
    PROVE  /\ Tail(s) \in Seq(S) /\ IsInjective(Tail(s))
           /\ Range(Tail(s)) = Range(s) \ {Head(s)}
           /\ Head(s) \in Range(s) /\ Head(s) \in S
<1>1. /\ Tail(s) \in Seq(S) /\ Len(s) \in Nat /\ Len(s) >= 1 /\ Head(s) = s[1]
      /\ Len(Tail(s)) = Len(s) - 1
      /\ \A i \in 1 .. Len(s) - 1 : Tail(s)[i] = s[i + 1]
      /\ DOMAIN s = 1 .. Len(s) /\ DOMAIN Tail(s) = 1 .. Len(s) - 1
      /\ s[1] \in S
  OBVIOUS
<1>2. \A i, j \in 1 .. Len(s) : s[i] = s[j] => i = j
  BY <1>1 DEF IsInjective
<1> DEFINE r == Tail(s)
           n == Len(s)
<1> HIDE DEF r, n
<1>3. \A i \in 1 .. n - 1 : i + 1 \in 1 .. n /\ i + 1 # 1 /\ r[i] = s[i + 1]
  BY <1>1 DEF r, n
<1>4. IsInjective(r)
  <2>1. ASSUME NEW i \in 1 .. n - 1, NEW j \in 1 .. n - 1, r[i] = r[j] PROVE i = j
    <3>1. i + 1 = j + 1
      BY <1>2, <1>3, <2>1 DEF n
    <3> QED
      BY <3>1
  <2> QED
    BY <1>1, <2>1 DEF IsInjective, r, n
<1>5. Range(r) \subseteq Range(s) \ {s[1]}
  <2>1. ASSUME NEW i \in 1 .. n - 1 PROVE r[i] \in Range(s) /\ r[i] # s[1]
    BY <1>1, <1>2, <1>3 DEF Range, n
  <2> QED
    BY <1>1, <2>1 DEF Range, r, n
<1>6. Range(s) \ {s[1]} \subseteq Range(r)
  <2>1. ASSUME NEW i \in 1 .. n, s[i] # s[1] PROVE s[i] \in Range(r)
    <3>1. i - 1 \in 1 .. n - 1 /\ (i - 1) + 1 = i
      BY <1>1, <2>1 DEF n
    <3>2. r[i - 1] = s[i]
      BY <1>3, <3>1
    <3> QED
      BY <1>1, <3>1, <3>2 DEF Range, r, n
  <2> QED
    BY <1>1, <2>1 DEF Range, n
<1>7. s[1] \in Range(s)
  BY <1>1 DEF Range
<1> QED
  BY <1>1, <1>4, <1>5, <1>6, <1>7 DEF r

(* ... at the other end, ... *)
LEMMA FrontRange ==
    ASSUME NEW S, NEW s \in Seq(S), s # <<>>, IsInjective(s)
    PROVE  Range(Front(s)) = Range(s) \ {Last(s)} /\ Last(s) \in Range(s)
<1> DEFINE r == Front(s)
           n == Len(s)
<1>1. /\ r \in Seq(S) /\ n \in Nat \ {0} /\ Len(r) = n - 1 /\ Last(s) = s[n]
      /\ \A i \in 1 .. n - 1 : r[i] = s[i]
  BY FrontFacts
<1>2. DOMAIN s = 1 .. n /\ DOMAIN r = 1 .. n - 1
  <2>1. DOMAIN s = 1 .. n
    OBVIOUS
  <2>2. DOMAIN r = 1 .. Len(r)
    <3> HIDE DEF r
    <3> QED
      BY <1>1
  <2> QED
    BY <1>1, <2>1, <2>2
<1>3. \A i, j \in 1 .. n : s[i] = s[j] => i = j
  BY <1>2 DEF IsInjective
<1> HIDE DEF r, n
<1>4. Range(r) \subseteq Range(s) \ {s[n]}
  BY <1>1, <1>2, <1>3 DEF Range
<1>5. Range(s) \ {s[n]} \subseteq Range(r)
  BY <1>1, <1>2 DEF Range
<1>6. s[n] \in Range(s)
  BY <1>1, <1>2 DEF Range
<1> QED
  BY <1>1, <1>4, <1>5, <1>6 DEF r

(* ... with one more, ... *)
LEMMA AppendRange ==
    ASSUME NEW S, NEW s \in Seq(S), NEW x \in S
    PROVE  /\ Append(s, x) \in Seq(S)
           /\ Range(Append(s, x)) = Range(s) \cup {x}
           /\ IsInjective(s) /\ x \notin Range(s) => IsInjective(Append(s, x))
<1> DEFINE r == Append(s, x)
           n == Len(s)
<1>1. /\ r \in Seq(S) /\ n \in Nat /\ Len(r) = n + 1 /\ r[n + 1] = x
      /\ \A i \in 1 .. n : r[i] = s[i]
      /\ DOMAIN s = 1 .. n /\ DOMAIN r = 1 .. n + 1
  OBVIOUS
<1> HIDE DEF r, n
<1>2. Range(r) = Range(s) \cup {x}
  <2>1. Range(r) \subseteq Range(s) \cup {x}
    BY <1>1 DEF Range
  <2>2. Range(s) \subseteq Range(r)
    BY <1>1 DEF Range
  <2>3. x \in Range(r)
    BY <1>1 DEF Range
  <2> QED
    BY <2>1, <2>2, <2>3
<1>3. ASSUME IsInjective(s), x \notin Range(s) PROVE IsInjective(r)
  <2>1. \A i, j \in 1 .. n : s[i] = s[j] => i = j
    BY <1>1, <1>3 DEF IsInjective
  <2>2. \A i \in 1 .. n : s[i] # x
    BY <1>1, <1>3 DEF Range
  <2>3. ASSUME NEW i \in 1 .. n + 1, NEW j \in 1 .. n + 1, r[i] = r[j] PROVE i = j
    BY <1>1, <2>1, <2>2, <2>3
  <2> QED
    BY <1>1, <2>3 DEF IsInjective
<1> QED
  BY <1>1, <1>2, <1>3 DEF r

(* ... and without one of them. *)
LEMMA RemoveFirstRange ==
    ASSUME NEW S, NEW s \in Seq(S), NEW e, IsInjective(s)
    PROVE  /\ RemoveFirst(s, e) \in Seq(S) /\ IsInjective(RemoveFirst(s, e))
           /\ Range(RemoveFirst(s, e)) = Range(s) \ {e}
<1> DEFINE r == RemoveFirst(s, e)
<1>1. DOMAIN s = 1 .. Len(s) /\ \A i, j \in 1 .. Len(s) : s[i] = s[j] => i = j
  BY DEF IsInjective
<1>2. /\ r \in Seq(S)
      /\ \A i \in 1 .. Len(r) : r[i] # e /\ \E j \in 1 .. Len(s) : r[i] = s[j]
      /\ \A i, j \in 1 .. Len(r) : r[i] = r[j] => i = j
      /\ \A j \in 1 .. Len(s) : s[j] # e => \E i \in 1 .. Len(r) : r[i] = s[j]
  BY <1>1, RemoveFirstFacts
<1> HIDE DEF r
<1>3. DOMAIN r = 1 .. Len(r)
  BY <1>2
<1>4. IsInjective(r)
  BY <1>2, <1>3 DEF IsInjective
<1>5. Range(r) \subseteq Range(s) \ {e}
  BY <1>1, <1>2, <1>3 DEF Range
<1>6. Range(s) \ {e} \subseteq Range(r)
  BY <1>1, <1>2, <1>3 DEF Range
<1> QED
  BY <1>2, <1>4, <1>5, <1>6 DEF r

(* The stack of the frames names no ticket twice. *)
LEMMA StackedInjective ==
    ASSUME NEW f, NEW s \in Seq(Tickets), Stacked(f, s)
    PROVE  IsInjective(s)
<1>1. DOMAIN s = 1 .. Len(s) /\ Len(s) \in Nat
  OBVIOUS
<1>2. ASSUME NEW a \in 1 .. Len(s), NEW b \in 1 .. Len(s), s[a] = s[b] PROVE a = b
  <2>1. PICK i \in 1 .. Len(f) : Begun(f[i]) /\ f[i].ticket = s[a]
    BY DEF Stacked
  <2>2. (~(a < b) /\ ~(b < a)) \/ i < i
    BY <1>2, <2>1 DEF Stacked
  <2>3. (i < i <=> a < b) /\ (i < i <=> b < a)
    BY <1>2, <2>1 DEF Stacked
  <2> QED
    BY <1>1, <2>2, <2>3
<1> QED
  BY <1>1, <1>2 DEF IsInjective

(* A function begins: its ticket goes on the stack. *)
LEMMA StackedPush ==
    ASSUME NEW f, NEW g, NEW n \in Nat, n >= 1, Len(f) = n, Len(g) = n + 1,
           \A i \in 1 .. n - 1 : g[i] = f[i], ~Begun(f[n]), ~Begun(g[n]), Begun(g[n + 1]),
           NEW s \in Seq(Tickets), NEW t \in Tickets, g[n + 1].ticket = t,
           t \notin Range(s), Stacked(f, s)
    PROVE  Stacked(g, Append(s, t))
<1> DEFINE r == Append(s, t)
           m == Len(s)
<1>1. /\ m \in Nat /\ Len(r) = m + 1 /\ r[m + 1] = t /\ \A a \in 1 .. m : r[a] = s[a]
      /\ \A a \in 1 .. m : s[a] # t
  BY DEF Range
<1> HIDE DEF r, m
<1>2. /\ \A i \in 1 .. n - 1 : Begun(f[i]) => \E a \in 1 .. m : f[i].ticket = s[a]
      /\ \A a \in 1 .. m : \E i \in 1 .. n - 1 : Begun(f[i]) /\ f[i].ticket = s[a]
      /\ \A i, j \in 1 .. n - 1, a, b \in 1 .. m :
            Begun(f[i]) /\ Begun(f[j]) /\ f[i].ticket = s[a] /\ f[j].ticket = s[b]
                => (i < j <=> a < b)
  <2>1. \A i \in 1 .. n : Begun(f[i]) => i \in 1 .. n - 1
    OBVIOUS
  <2>2. \A i \in 1 .. n - 1 : i \in 1 .. n
    OBVIOUS
  <2> QED
    BY <2>1, <2>2 DEF Stacked, m
<1>3. \A i \in 1 .. n + 1 : Begun(g[i]) => (i = n + 1 \/ (i \in 1 .. n - 1 /\ Begun(f[i]) /\ g[i] = f[i]))
  OBVIOUS
<1>4. ASSUME NEW i \in 1 .. n + 1, Begun(g[i]) PROVE \E a \in 1 .. m + 1 : g[i].ticket = r[a]
  <2>1. CASE i = n + 1
    BY <1>1, <2>1
  <2>2. CASE i \in 1 .. n - 1 /\ Begun(f[i]) /\ g[i] = f[i]
    <3>1. PICK a \in 1 .. m : f[i].ticket = s[a]
      BY <1>2, <2>2
    <3> QED
      BY <1>1, <2>2, <3>1
  <2> QED
    BY <1>3, <1>4, <2>1, <2>2
<1>5. ASSUME NEW a \in 1 .. m + 1 PROVE \E i \in 1 .. n + 1 : Begun(g[i]) /\ g[i].ticket = r[a]
  <2>1. CASE a = m + 1
    BY <1>1, <2>1
  <2>2. CASE a \in 1 .. m
    <3>1. PICK i \in 1 .. n - 1 : Begun(f[i]) /\ f[i].ticket = s[a]
      BY <1>2, <2>2
    <3>2. i \in 1 .. n + 1 /\ g[i] = f[i]
      OBVIOUS
    <3> QED
      BY <1>1, <2>2, <3>1, <3>2
  <2> QED
    BY <1>1, <2>1, <2>2
<1>6. ASSUME NEW i \in 1 .. n + 1, NEW j \in 1 .. n + 1, NEW a \in 1 .. m + 1, NEW b \in 1 .. m + 1,
             Begun(g[i]), Begun(g[j]), g[i].ticket = r[a], g[j].ticket = r[b]
      PROVE  i < j <=> a < b
  <2>1. /\ i = n + 1 \/ (i \in 1 .. n - 1 /\ Begun(f[i]) /\ g[i] = f[i])
        /\ j = n + 1 \/ (j \in 1 .. n - 1 /\ Begun(f[j]) /\ g[j] = f[j])
    BY <1>3, <1>6
  <2>2. /\ i = n + 1 => a = m + 1
        /\ j = n + 1 => b = m + 1
    BY <1>1, <1>6
  <2>3. ASSUME NEW l \in 1 .. n - 1, Begun(f[l]), NEW d \in 1 .. m + 1, f[l].ticket = r[d]
        PROVE  d \in 1 .. m /\ f[l].ticket = s[d]
    <3>1. f[l].ticket # t
      BY <1>1, <1>2, <2>3
    <3> QED
      BY <1>1, <2>3, <3>1
  <2>4. CASE i = n + 1 /\ j = n + 1
    BY <1>1, <2>2, <2>4
  <2>5. CASE i = n + 1 /\ j \in 1 .. n - 1 /\ Begun(f[j]) /\ g[j] = f[j]
    <3>1. b \in 1 .. m
      BY <1>6, <2>3, <2>5
    <3> QED
      BY <1>1, <2>2, <2>5, <3>1
  <2>6. CASE j = n + 1 /\ i \in 1 .. n - 1 /\ Begun(f[i]) /\ g[i] = f[i]
    <3>1. a \in 1 .. m
      BY <1>6, <2>3, <2>6
    <3> QED
      BY <1>1, <2>2, <2>6, <3>1
  <2>7. CASE /\ i \in 1 .. n - 1 /\ Begun(f[i]) /\ g[i] = f[i]
             /\ j \in 1 .. n - 1 /\ Begun(f[j]) /\ g[j] = f[j]
    <3>1. a \in 1 .. m /\ f[i].ticket = s[a] /\ b \in 1 .. m /\ f[j].ticket = s[b]
      BY <1>6, <2>3, <2>7
    <3> QED
      BY <1>2, <2>7, <3>1
  <2> QED
    BY <2>1, <2>4, <2>5, <2>6, <2>7
<1>7. Stacked(g, r)
  BY <1>1, <1>4, <1>5, <1>6 DEF Stacked
<1> QED
  BY <1>7 DEF r

(* The function that ends is the stack's last. *)
LEMMA StackedPop ==
    ASSUME NEW f, NEW g, NEW n \in Nat, n >= 1, Len(f) = n, Len(g) = n,
           \A i \in 1 .. n - 1 : g[i] = f[i], Begun(f[n]), ~Begun(g[n]),
           NEW s \in Seq(Tickets), Stacked(f, s)
    PROVE  s # <<>> /\ f[n].ticket = Last(s) /\ Stacked(g, Front(s))
<1> DEFINE m == Len(s)
           r == Front(s)
<1>1. PICK c \in 1 .. m : f[n].ticket = s[c]
  BY DEF Stacked
<1>2. m \in Nat /\ m >= 1 /\ s # <<>>
  <2>1. m \in Nat
    OBVIOUS
  <2>2. m >= 1
    BY <1>1, <2>1
  <2> QED
    BY <2>1, <2>2
<1>3. /\ r \in Seq(Tickets) /\ Len(r) = m - 1 /\ Last(s) = s[m]
      /\ \A a \in 1 .. m - 1 : r[a] = s[a]
  BY <1>2, FrontFacts
<1> HIDE DEF m, r
<1>4. /\ \A i \in 1 .. n : Begun(f[i]) => \E a \in 1 .. m : f[i].ticket = s[a]
      /\ \A a \in 1 .. m : \E i \in 1 .. n : Begun(f[i]) /\ f[i].ticket = s[a]
      /\ \A i, j \in 1 .. n, a, b \in 1 .. m :
            Begun(f[i]) /\ Begun(f[j]) /\ f[i].ticket = s[a] /\ f[j].ticket = s[b]
                => (i < j <=> a < b)
  BY DEF Stacked, m
<1>5. c = m
  <2>1. PICK j \in 1 .. n : Begun(f[j]) /\ f[j].ticket = s[m]
    BY <1>2, <1>4
  <2>2. n < j <=> c < m
    BY <1>1, <1>2, <1>4, <2>1
  <2> QED
    BY <1>1, <1>2, <2>2
<1>6. ASSUME NEW i \in 1 .. n - 1, Begun(f[i]), NEW a \in 1 .. m, f[i].ticket = s[a]
      PROVE  a \in 1 .. m - 1
  <2>1. i < n <=> a < m
    BY <1>1, <1>2, <1>4, <1>5, <1>6
  <2> QED
    BY <1>2, <1>6, <2>1
<1>7. \A i \in 1 .. n : Begun(g[i]) => i \in 1 .. n - 1 /\ g[i] = f[i] /\ Begun(f[i])
  OBVIOUS
<1>8. ASSUME NEW i \in 1 .. n, Begun(g[i]) PROVE \E a \in 1 .. m - 1 : g[i].ticket = r[a]
  <2>1. i \in 1 .. n - 1 /\ g[i] = f[i] /\ Begun(f[i])
    BY <1>7, <1>8
  <2>2. PICK a \in 1 .. m : f[i].ticket = s[a]
    BY <1>4, <2>1
  <2>3. a \in 1 .. m - 1
    BY <1>6, <2>1, <2>2
  <2> QED
    BY <1>3, <2>1, <2>2, <2>3
<1>9. ASSUME NEW a \in 1 .. m - 1 PROVE \E i \in 1 .. n : Begun(g[i]) /\ g[i].ticket = r[a]
  <2>1. PICK i \in 1 .. n : Begun(f[i]) /\ f[i].ticket = s[a]
    BY <1>2, <1>4
  <2>2. i < n <=> a < m
    BY <1>1, <1>2, <1>4, <1>5, <2>1
  <2>3. i \in 1 .. n - 1 /\ g[i] = f[i]
    BY <1>2, <2>2
  <2> QED
    BY <1>3, <2>1, <2>3
<1>10. ASSUME NEW i \in 1 .. n, NEW j \in 1 .. n, NEW a \in 1 .. m - 1, NEW b \in 1 .. m - 1,
              Begun(g[i]), Begun(g[j]), g[i].ticket = r[a], g[j].ticket = r[b]
       PROVE  i < j <=> a < b
  <2>1. Begun(f[i]) /\ Begun(f[j]) /\ f[i].ticket = s[a] /\ f[j].ticket = s[b]
    BY <1>3, <1>7, <1>10
  <2>2. a \in 1 .. m /\ b \in 1 .. m
    BY <1>2
  <2> QED
    BY <1>4, <2>1, <2>2
<1>11. Stacked(g, r)
  BY <1>3, <1>8, <1>9, <1>10 DEF Stacked
<1> QED
  BY <1>1, <1>2, <1>3, <1>5, <1>11 DEF r

-----------------------------------------------------------------------------
(* The loop at work *)

(* The outermost loop ends, or goes on. *)
LEMMA LeaveLoopKeeps ==
    ASSUME ExecutorIInv, NEW w \in Workers, LeaveLoop(w), QueueRest
    PROVE  ExecutorIInv'
<1> USE ThreadsAssumption
<1>1. /\ w \in Threads /\ w \notin Clients /\ frames[w] # <<>> /\ Top(w).at = "leave"
      /\ In(w, "leave") /\ w \in InLoop
  BY DEF LeaveLoop, In, Threads, InLoop
<1>2. Outermost(Top(w)) /\ ~Begun(Top(w)) /\ Len(frames[w]) = 1 /\ Top(w) = frames[w][1]
  <2>1. Outermost(Top(w)) /\ ~Begun(Top(w))
    BY <1>1 DEF Outermost, Begun
  <2>2. Len(frames[w]) = 1
    BY <1>1, <2>1, TopFacts
  <2>3. Top(w) = frames[w][1]
    BY <1>1, <2>2, TopFacts
  <2> QED
    BY <2>1, <2>2, <2>3
<1>3. InLoop = {w} /\ is_scheduled /\ pool_tasks = <<>> /\ \A c \in Clients : ~Adding(c)
  BY <1>1 DEF ExecutorIInv, LoopIsOne, InLoop
<1>4. /\ UNCHANGED <<registry, processing_queue, was_scheduled, current_ticket_stack,
                     stop_processing_requested, completed, created>>
      /\ CalmData
  BY QueueRestCalm DEF LeaveLoop, CalmData
<1>5. CASE ~IsDone
  <2>1. UNCHANGED <<processing_thread_id, poolVars>> /\ is_scheduled'
        /\ GoesTo(w, At("check", NoTicket))
    BY <1>5 DEF LeaveLoop
  <2>2. LoopData /\ ThreadPoolTypeOK'
    BY <2>1, TypesOfInv DEF LoopData, poolVars, ThreadPoolTypeOK
  <2>3. ExecutorFrames' => ExecutorTypes'
    <3>1. is_scheduled' \in BOOLEAN
      BY <1>5 DEF LeaveLoop
    <3> QED
      BY <1>4, <2>1, <2>2, <3>1, TypesOfInv, QueueRestCalm, CalmTypes DEF poolVars
  <2>4. PICK x : x = At("check", NoTicket)
    OBVIOUS
  <2>5. x \in ExecutorFrame /\ x.at = "check" /\ ~Begun(x) /\ Outermost(x) /\ FrameHolds(x)'
    BY <2>4 DEF At, ExecutorFrame, Frame, Begun, Outermost, FrameHolds
  <2>6. GoesTo(w, x)
    BY <2>1, <2>4
  <2> QED
    BY <1>1, <1>2, <1>4, <2>2, <2>3, <2>5, <2>6, CalmGoesOn
<1>6. CASE IsDone
  <2>1. /\ ~is_scheduled' /\ is_scheduled' \in BOOLEAN /\ processing_thread_id' = NoThread
        /\ Returns(w) /\ worker[w].at = "run"
        /\ worker' = [worker EXCEPT ![w] = [at |-> "check", task |-> NoTask]]
        /\ UNCHANGED <<pool_tasks, pool_close>>
    BY <1>6 DEF LeaveLoop, TaskReturns, MoveWorker
  <2>2. worker \in [Workers -> WorkerState] /\ worker' \in [Workers -> WorkerState]
        /\ ThreadPoolTypeOK'
    BY <2>1, TypesOfInv DEF ThreadPoolTypeOK, WorkerState
  <2>3. Rewrites(w, 0, 0) /\ frames'[w] = <<>>
    <3>1. Rewrites(w, Len(frames[w]) - 1, Len(frames[w]) - 1)
          /\ (frames'[w] = <<>> <=> Len(frames[w]) = 1)
      BY <1>1, <2>1, FactsOfInv, TopEnded
    <3> QED
      BY <1>2, <3>1
  <2>4. \A i \in 1 .. 0 : ~(i > 0)
    OBVIOUS
  <2>5. /\ TicketPlaces' /\ FramesHold' /\ PostedOnce' /\ AfterShutdown'
        /\ \A c \in Clients : ClosedAreGone(c)'
    <3>1. ~Posting(w)'
      BY <2>3 DEF Posting, In
    <3> QED
      BY <1>1, <1>4, <2>3, <2>4, <3>1, CalmRest
  <2>6. \A o \in Threads : o # w => frames'[o] = frames[o] /\ Top(o)' = Top(o)
    BY <2>3 DEF Rewrites, Top
  <2>7. InLoop' = {}
    BY <1>3, <2>3, <2>6 DEF InLoop, Threads
  <2>8. StackOfFrames'
    <3>1. Stacked(frames[w], current_ticket_stack)
      BY <1>1 DEF ExecutorIInv, StackOfFrames
    <3>2. \A a \in 1 .. Len(current_ticket_stack) : FALSE
      <4>1. \A i \in 1 .. Len(frames[w]) : ~Begun(frames[w][i])
        BY <1>2
      <4> QED
        BY <3>1, <4>1 DEF Stacked
    <3>3. current_ticket_stack \in Seq(Tickets)
      BY TypesOfInv
    <3>4. Len(current_ticket_stack) = 0
      BY <3>2, <3>3
    <3>5. current_ticket_stack = <<>>
      BY <3>3, <3>4, EmptySeq
    <3> QED
      BY <1>4, <2>7, <3>5 DEF StackOfFrames
  <2>9. LoopIsOne'
    <3>1. \A c \in Clients : ~Adding(c)'
      BY <1>1, <1>3, <2>6 DEF Adding, In, Threads
    <3>2. \A v \in Workers : frames'[v] = <<>> <=> worker'[v].at # "run"
      <4>1. ASSUME NEW v \in Workers, v # w
            PROVE  frames'[v] = frames[v] /\ worker'[v] = worker[v]
        BY <2>1, <2>2, <2>6, <4>1 DEF Threads
      <4>2. worker'[w].at = "check"
        BY <2>1, <2>2
      <4> QED
        BY <2>3, <4>1, <4>2 DEF ExecutorIInv, LoopIsOne
    <3> QED
      BY <1>3, <2>1, <2>7, <3>1, <3>2 DEF LoopIsOne
  <2>10. (\A c \in Clients : ClientCalls(c)') /\ (\A v \in Workers : WorkerCalls(v)')
    <3>1. WorkerCalls(w)'
      BY <2>3 DEF WorkerCalls
    <3> QED
      BY <1>1, <2>3, <3>1, OtherCalls
  <2>11. ExecutorTypes'
    <3>1. /\ completed' \subseteq created \ registry /\ ExecutorFrames'
          /\ processing_thread_id' \in Workers \cup {NoThread}
      BY <1>4, <2>1, <2>3, TypesOfInv DEF Rewrites
    <3> QED
      BY <1>4, <2>1, <2>2, <3>1, QueueRestCalm, CalmTypes
  <2> QED
    BY <2>5, <2>8, <2>9, <2>10, <2>11 DEF ExecutorIInv
<1> QED
  BY <1>5, <1>6

(* The loop begins the first ticket of the queue. *)
LEMMA FetchKeeps ==
    ASSUME ExecutorIInv, NEW w \in Workers, FetchTicket(w), QueueRest
    PROVE  ExecutorIInv'
<1> DEFINE n == Len(frames[w])
           t == Head(processing_queue)
<1> USE ThreadsAssumption
<1>1. /\ w \in Threads /\ w \notin Clients /\ frames[w] # <<>> /\ Top(w).at = "fetch"
      /\ w \in InLoop /\ processing_queue # <<>>
  BY DEF FetchTicket, In, Threads, InLoop
<1>2. /\ n \in Nat /\ n >= 1 /\ Top(w) = frames[w][n] /\ Top(w) \in ExecutorFrame
      /\ Outermost(Top(w)) <=> n = 1
      /\ Top(w).ticket \in Tickets \cup {NoTicket}
  BY <1>1, TopFacts DEF ExecutorFrame, Frame
<1>3. /\ processing_queue \in Seq(Tickets) /\ current_ticket_stack \in Seq(Tickets)
      /\ IsInjective(processing_queue)
  BY TypesOfInv DEF ExecutorIInv, TicketPlaces
<1>4. /\ t \in Tickets /\ t \in Queued
      /\ Tail(processing_queue) \in Seq(Tickets) /\ IsInjective(Tail(processing_queue))
      /\ Range(Tail(processing_queue)) = Queued \ {t}
  BY <1>1, <1>3, TailRange DEF Queued
<1>5. t \in registry /\ t \in was_scheduled /\ t \in Range(tickets) /\ t \notin Executing
  BY <1>4 DEF ExecutorIInv, TicketPlaces
<1>6. PICK x : x = At("check", Top(w).ticket)
  OBVIOUS
<1>7. PICK y : y = At("run", t)
  OBVIOUS
<1>8. /\ x \in ExecutorFrame /\ x.at = "check" /\ ~Begun(x) /\ (Outermost(x) <=> n = 1)
      /\ y \in ExecutorFrame /\ y.at = "run" /\ Begun(y) /\ ~Outermost(y) /\ y.ticket = t
      /\ ~Begun(Top(w))
  BY <1>1, <1>2, <1>4, <1>6, <1>7 DEF At, ExecutorFrame, Frame, Begun, Outermost
<1>9. GoesOnAndEnters(w, x, y)
  <2>1. Last(frames[w]) = Top(w)
    BY DEF Top
  <2>2. frames' = [frames EXCEPT ![w] = Front(frames[w]) \o <<x, y>>]
    BY <1>6, <1>7, <2>1 DEF FetchTicket, At
  <2> QED
    BY <2>2 DEF GoesOnAndEnters
<1>10. /\ current_ticket_stack' = Append(current_ticket_stack, t)
       /\ processing_queue' = Tail(processing_queue)
       /\ UNCHANGED <<poolVars, registry, was_scheduled, stop_processing_requested,
                      is_scheduled, processing_thread_id, completed, created>>
       /\ UNCHANGED <<tickets, closing, cancelled, shutDown, calls>>
  BY DEF FetchTicket, QueueRest
<1>11. /\ Append(current_ticket_stack, t) \in Seq(Tickets)
       /\ Executing' = Executing \cup {t} /\ Queued' = Queued \ {t}
       /\ started' = started \cup Executing'
  BY <1>3, <1>4, <1>10, AppendRange DEF Executing, Queued, QueueRest
<1>12. /\ Rewrites(w, n - 1, n + 1) /\ frames'[w][n] = x /\ frames'[w][n + 1] = y
       /\ Top(w)' = y /\ frames'[w] # <<>>
  BY <1>1, <1>8, <1>9, FactsOfInv, TopReplacedAndAdded
<1>13. n + 1 = Len(frames'[w]) /\ \A i \in 1 .. n - 1 : frames'[w][i] = frames[w][i]
  BY <1>12 DEF Rewrites
<1>14. \A i \in 1 .. n + 1 : i > n - 1 => i = n \/ i = n + 1
  BY <1>2
<1> HIDE DEF n, t
<1>15. ~shutDown
  BY <1>1 DEF ExecutorIInv, AfterShutdown
<1>16. LoopIsOne' /\ InLoop' = InLoop
  BY <1>1, <1>10, <1>12, LoopStays DEF poolVars
<1>17. (\A c \in Clients : ClientCalls(c)') /\ (\A v \in Workers : WorkerCalls(v)')
  <2>1. WorkerCalls(w)
    BY DEF ExecutorIInv
  <2>2. \A i \in 1 .. n + 1 : i > n - 1 =>
             /\ frames'[w][i].at \notin {"posted", "add_task", "idle", "join"}
             /\ Outermost(frames'[w][i]) <=> i = 1
    <3> SUFFICES ASSUME NEW i \in 1 .. n + 1, i > n - 1
                 PROVE  /\ frames'[w][i].at \notin {"posted", "add_task", "idle", "join"}
                        /\ Outermost(frames'[w][i]) <=> i = 1
      OBVIOUS
    <3>1. CASE i = n
      BY <1>8, <1>12, <3>1
    <3>2. CASE i = n + 1
      BY <1>2, <1>8, <1>12, <3>2
    <3> QED
      BY <1>14, <3>1, <3>2
  <2>3. \A i \in 1 .. (n + 1) - 1 : i >= n - 1 => frames'[w][i].at \in {"check", "run", "clearing"}
    <3> SUFFICES ASSUME NEW i \in 1 .. (n + 1) - 1, i >= n - 1
                 PROVE  frames'[w][i].at \in {"check", "run", "clearing"}
      OBVIOUS
    <3>1. CASE i = n
      BY <1>8, <1>12, <3>1
    <3>2. CASE i = n - 1
      <4>1. frames'[w][i] = frames[w][i] /\ i \in 1 .. Len(frames[w]) - 1
        BY <1>2, <1>13, <3>2 DEF n
      <4> QED
        BY <2>1, <4>1 DEF WorkerCalls
    <3> QED
      BY <1>2, <3>1, <3>2
  <2>4. WorkerCalls(w)'
    BY <1>2, <1>12, <2>1, <2>2, <2>3, WorkerCallsKept DEF n
  <2> QED
    BY <1>1, <1>12, <2>4, OtherCalls
<1>18. StackOfFrames'
  <2>1. Stacked(frames[w], current_ticket_stack) /\ \A v \in InLoop : v = w
    BY <1>1 DEF ExecutorIInv, StackOfFrames, LoopIsOne
  <2>2. Stacked(frames'[w], Append(current_ticket_stack, t))
    <3>1. ~Begun(frames[w][n]) /\ ~Begun(frames'[w][n]) /\ Begun(frames'[w][n + 1])
          /\ frames'[w][n + 1].ticket = t /\ t \notin Range(current_ticket_stack)
      BY <1>2, <1>5, <1>8, <1>12 DEF Executing
    <3> QED
      BY <1>2, <1>3, <1>4, <1>13, <2>1, <3>1, StackedPush DEF n
  <2>3. \A v \in InLoop' : Stacked(frames'[v], current_ticket_stack')
    BY <1>10, <1>16, <2>1, <2>2
  <2>4. \A v \in InLoop' : Stacked(frames[v], current_ticket_stack)'
    BY <2>3, Zenon DEF Stacked, Begun
  <2> QED
    BY <1>1, <1>16, <2>4 DEF StackOfFrames
<1>19. TicketPlaces'
  <2>1. IsInjective(processing_queue)'
    BY <1>4, <1>10
  <2> QED
    BY <1>4, <1>5, <1>10, <1>11, <2>1 DEF ExecutorIInv, TicketPlaces
<1>20. FramesHold'
  <2>1. \A f \in ExecutorFrame : FrameHolds(f) => FrameHolds(f)'
    BY <1>10 DEF FrameHolds
  <2>2. FrameHolds(x)' /\ FrameHolds(y)'
    BY <1>5, <1>8, <1>10 DEF FrameHolds
  <2>3. \A i \in 1 .. n + 1 : i > n - 1 => frames'[w][i] = x \/ frames'[w][i] = y
    BY <1>12, <1>14
  <2>4. \A i \in 1 .. n + 1 : i > n - 1 => FrameHolds(frames[w][i])'
    BY <2>2, <2>3, Zenon DEF FrameHolds
  <2> QED
    BY <1>1, <1>12, <2>1, <2>4, FramesHoldAfter
<1>21. PostedOnce'
  <2>1. ~Posting(w)'
    BY <1>8, <1>12 DEF Posting, In
  <2> QED
    BY <1>1, <1>12, <2>1, PostedStays
<1>22. \A c \in Clients : ClosedAreGone(c)'
  BY <1>1, <1>10, <1>12, ClosedStays
<1>23. AfterShutdown'
  BY <1>10, <1>15 DEF AfterShutdown
<1>24. ExecutorTypes'
  <2>1. ExecutorFrames' /\ ThreadPoolTypeOK'
    BY <1>10, <1>12, TypesOfInv DEF Rewrites, poolVars, ThreadPoolTypeOK
  <2>2. started' \subseteq created'
    BY <1>5, <1>10, <1>11, TypesOfInv DEF ExecutorIInv, TicketPlaces
  <2> QED
    BY <1>4, <1>10, <1>11, <2>1, <2>2, TypesOfInv
       DEF ExecutorIInv, ExecutorTypes, ExecutorTypeOK, ExecutorFrames, poolVars
<1> QED
  BY <1>16, <1>17, <1>18, <1>19, <1>20, <1>21, <1>22, <1>23, <1>24 DEF ExecutorIInv

(* The function's ticket leaves the stack and the registry. *)
LEMMA UnstackKeeps ==
    ASSUME ExecutorIInv, NEW w \in Workers, Unstack(w), QueueRest
    PROVE  ExecutorIInv'
<1> DEFINE n == Len(frames[w])
           t == Top(w).ticket
           s == current_ticket_stack
<1> USE ThreadsAssumption
<1>1. /\ w \in Threads /\ w \notin Clients /\ frames[w] # <<>> /\ Top(w).at = "unstack"
      /\ w \in InLoop
  BY DEF Unstack, In, Threads, InLoop
<1>2. /\ n \in Nat /\ n >= 1 /\ Top(w) = frames[w][n] /\ Top(w) \in ExecutorFrame
      /\ Begun(Top(w)) /\ ~Outermost(Top(w)) /\ t \in Tickets
  BY <1>1, TopFacts DEF ExecutorFrame, Frame, Begun, Outermost
<1>3. PICK x : x = At("complete", t)
  OBVIOUS
<1>4. x \in ExecutorFrame /\ x.at = "complete" /\ x.ticket = t /\ ~Begun(x) /\ ~Outermost(x)
  BY <1>2, <1>3 DEF At, ExecutorFrame, Frame, Begun, Outermost
<1>5. GoesTo(w, x)
  BY <1>3 DEF Unstack
<1>6. /\ s' = Front(s) /\ registry' = registry \ {t}
      /\ UNCHANGED <<poolVars, processing_queue, was_scheduled, stop_processing_requested,
                     is_scheduled, processing_thread_id, completed, created>>
      /\ UNCHANGED <<tickets, closing, cancelled, shutDown, calls>>
  BY DEF Unstack, QueueRest
<1>7. LoopData
  BY <1>6 DEF LoopData, poolVars
<1>8. /\ Rewrites(w, n - 1, n) /\ frames'[w][n] = x /\ Top(w)' = x /\ CallsAndLoop(w)
  BY <1>1, <1>2, <1>4, <1>5, <1>7, GoesOn
<1>9. /\ n = Len(frames'[w]) /\ \A i \in 1 .. n - 1 : frames'[w][i] = frames[w][i]
      /\ \A i \in 1 .. n : i > n - 1 => i = n
  BY <1>2, <1>8 DEF Rewrites
<1>10. Stacked(frames[w], s) /\ s \in Seq(Tickets) /\ \A v \in InLoop : v = w
  BY <1>1, TypesOfInv DEF ExecutorIInv, StackOfFrames, LoopIsOne
<1>11. s # <<>> /\ t = Last(s) /\ Stacked(frames'[w], Front(s))
  <2>1. Begun(frames[w][n]) /\ ~Begun(frames'[w][n])
    BY <1>2, <1>4, <1>8
  <2>2. Len(frames[w]) = n /\ t = frames[w][n].ticket
    BY <1>2
  <2> HIDE DEF n, t, s
  <2>3. s # <<>> /\ frames[w][n].ticket = Last(s) /\ Stacked(frames'[w], Front(s))
    BY <1>2, <1>9, <1>10, <2>1, <2>2, StackedPop
  <2> QED
    BY <2>2, <2>3
<1>12. /\ Executing' = Executing \ {t} /\ t \in Executing /\ Front(s) \in Seq(Tickets)
       /\ Queued' = Queued
  <2>1. IsInjective(s)
    BY <1>10, StackedInjective
  <2> QED
    BY <1>6, <1>10, <1>11, <2>1, FrontRange, FrontFacts DEF Executing, Queued
<1>13. t \in registry /\ t \in was_scheduled /\ t \in started /\ t \notin Queued /\ t \in created
  BY <1>12, TypesOfInv DEF ExecutorIInv, TicketPlaces
<1>14. started' = started
  <2>1. started' = started \cup Executing'
    BY DEF QueueRest, Executing
  <2> QED
    BY <1>12, <2>1 DEF ExecutorIInv, TicketPlaces
<1> HIDE DEF n, t, s
<1>15. StackOfFrames'
  <2>1. \A v \in InLoop' : Stacked(frames'[v], current_ticket_stack')
    BY <1>6, <1>8, <1>10, <1>11 DEF CallsAndLoop, s
  <2>2. \A v \in InLoop' : Stacked(frames[v], current_ticket_stack)'
    BY <2>1, Zenon DEF Stacked, Begun
  <2> QED
    BY <1>1, <1>8, <2>2 DEF StackOfFrames, CallsAndLoop
<1>16. TicketPlaces'
  <2>1. IsInjective(processing_queue)'
    BY <1>6 DEF ExecutorIInv, TicketPlaces
  <2> QED
    BY <1>6, <1>12, <1>13, <1>14, <2>1 DEF ExecutorIInv, TicketPlaces
<1>17. FramesHold'
  <2>1. \A f \in ExecutorFrame : FrameHolds(f) => FrameHolds(f)'
    BY <1>6, <1>13 DEF FrameHolds
  <2>2. FrameHolds(x)'
    BY <1>4, <1>6, <1>13 DEF FrameHolds
  <2>3. \A i \in 1 .. n : i > n - 1 => frames'[w][i] = x
    BY <1>8, <1>9
  <2>4. \A i \in 1 .. n : i > n - 1 => FrameHolds(frames[w][i])'
    BY <2>2, <2>3, Zenon DEF FrameHolds
  <2> QED
    BY <1>1, <1>8, <2>1, <2>4, FramesHoldAfter
<1>18. PostedOnce'
  <2>1. ~Posting(w)'
    BY <1>4, <1>8 DEF Posting, In
  <2> QED
    BY <1>1, <1>8, <2>1, PostedStays
<1>19. \A c \in Clients : ClosedAreGone(c)'
  BY <1>1, <1>6, <1>8, ClosedStays
<1>20. AfterShutdown'
  <2>1. \A i \in 1 .. n : i > n - 1 /\ shutDown => frames'[w][i].at # "run"
    BY <1>4, <1>8, <1>9
  <2>2. shutDown => processing_queue' = <<>>
    BY <1>6 DEF ExecutorIInv, AfterShutdown
  <2> QED
    BY <1>1, <1>6, <1>8, <1>14, <2>1, <2>2, AfterStays
<1>21. ExecutorTypes'
  <2>1. ExecutorFrames' /\ ThreadPoolTypeOK'
    BY <1>6, <1>8, TypesOfInv DEF Rewrites, poolVars, ThreadPoolTypeOK
  <2> QED
    BY <1>6, <1>12, <1>14, <2>1, TypesOfInv
       DEF ExecutorIInv, ExecutorTypes, ExecutorTypeOK, ExecutorFrames, poolVars, s
<1> QED
  BY <1>8, <1>15, <1>16, <1>17, <1>18, <1>19, <1>20, <1>21 DEF ExecutorIInv, CallsAndLoop

(* A step of the queue: nobody stops it, or closes the pool.               *)
LEMMA QueueStepKeeps ==
    ASSUME ExecutorIInv, NEW th \in Threads, QueueStep(th)
    PROVE  ExecutorIInv'
<1>1. Step(th) /\ QueueRest
  BY DEF QueueStep, QueueRest
<1>2. CASE ScheduleProcessingLoop(th)
  BY <1>1, <1>2, ScheduleLoopKeeps
<1>3. CASE ResolveDiscarded(th) \/ WaitTicket(th) \/ FutureReady(th)
  BY <1>1, <1>3, ResolveKeeps, WaitKeeps, FutureKeeps
<1>4. CASE th \in Clients /\ (StopReturns(th) \/ JoinReturns(th))
  <2>1. frames[th] # <<>> /\ Top(th).at \in {"idle", "join"}
    BY <1>4 DEF StopReturns, JoinReturns, In
  <2> QED
    BY <1>4, <2>1, TopFacts DEF ClientCallSet
<1>5. CASE th \in Workers /\ (IdleWorker(th) \/ StartLoop(th) \/ SetProcessingThread(th))
  BY <1>1, <1>5, IdleWorkerKeeps, StartLoopKeeps, SetProcessingKeeps
<1>6. CASE th \in Workers /\ (LoopCondition(th) \/ FetchTicket(th) \/ FetchStopped(th))
  <2>1. ~FetchStopped(th)
    BY FactsOfInv DEF FetchStopped
  <2> QED
    BY <1>1, <1>6, <2>1, LoopConditionKeeps, FetchKeeps
<1>7. CASE th \in Workers /\ (Unstack(th) \/ Complete(th) \/ LeaveLoop(th))
  BY <1>1, <1>7, UnstackKeeps, CompleteKeeps, LeaveLoopKeeps
<1> QED
  BY <1>1, <1>2, <1>3, <1>4, <1>5, <1>6, <1>7, Zenon DEF Step

-----------------------------------------------------------------------------
(* execute *)

(* A thread that calls execute does nothing else in the meantime, and no   *)
(* other thread has the same ticket.                                       *)
LEMMA OtherPosts ==
    ASSUME ExecutorIInv, NEW th \in Threads, Posting(th),
           NEW f, Kept(th, Len(frames[th]) - 1, f), f.at \in {"create", "post"}
    PROVE  f.ticket # Top(th).ticket
<1>1. PICK u \in Threads : \E i \in 1 .. Len(frames[u]) :
          f = frames[u][i] /\ (u = th => i <= Len(frames[th]) - 1)
  BY DEF Kept
<1>2. PICK i \in 1 .. Len(frames[u]) : f = frames[u][i] /\ (u = th => i <= Len(frames[th]) - 1)
  BY <1>1
<1> DEFINE n == Len(frames[u])
<1>3. n \in Nat /\ frames[u] # <<>> /\ Top(u) = frames[u][n]
  BY <1>2, FactsOfInv, FramesOfThread
<1> HIDE DEF n
<1>4. i = n
  <2>1. CASE u \in Workers
    <3>1. \A j \in 1 .. n - 1 : frames[u][j].at \in {"check", "run", "clearing"}
      BY <2>1 DEF ExecutorIInv, WorkerCalls, n
    <3>2. i \in 1 .. n - 1 \/ i = n
      BY <1>2, <1>3 DEF n
    <3> QED
      BY <1>2, <3>1, <3>2
  <2>2. CASE u \in Clients
    <3>1. ClientCalls(u)
      BY <2>2 DEF ExecutorIInv
    <3>2. n = 1 \/ (n = 2 /\ frames[u][1].at \in {"posted", "clearing"})
      BY <1>3, <3>1 DEF ClientCalls, n
    <3>3. CASE n = 1
      BY <1>2, <3>3 DEF n
    <3>4. CASE n = 2 /\ frames[u][1].at \in {"posted", "clearing"}
      <4>1. i = 1 \/ i = 2
        BY <1>2, <3>4 DEF n
      <4> QED
        BY <1>2, <3>4, <4>1
    <3> QED
      BY <3>2, <3>3, <3>4
  <2> QED
    BY <2>1, <2>2 DEF Threads
<1>5. Posting(u) /\ Top(u) = f
  BY <1>2, <1>3, <1>4 DEF Posting, In
<1>6. u # th
  BY <1>2, <1>3, <1>4 DEF n
<1> QED
  BY <1>5, <1>6 DEF ExecutorIInv, PostedOnce

(* The ticket is created. *)
LEMMA ExecuteCreatesKeeps ==
    ASSUME ExecutorIInv, NEW th \in Threads, ExecuteCreates(th)
    PROVE  ExecutorIInv'
<1> DEFINE n == Len(frames[th])
           t == Top(th).ticket
<1>1. frames[th] # <<>> /\ Top(th).at = "create" /\ Posting(th)
  BY DEF ExecuteCreates, In, Posting
<1>2. /\ n \in Nat /\ n >= 1 /\ Top(th) = frames[th][n] /\ Top(th) \in ExecutorFrame
      /\ ~Begun(Top(th)) /\ ~Outermost(Top(th)) /\ t \in Tickets /\ t \notin created
      /\ th \in Clients => n = 1
  BY <1>1, TopFacts DEF ExecutorFrame, Frame, Begun, Outermost, FrameHolds
<1>3. PICK x : x = At("post", t)
  OBVIOUS
<1>4. /\ x \in ExecutorFrame /\ x.at = "post" /\ x.ticket = t /\ ~Begun(x) /\ ~Outermost(x)
      /\ x.at \in ClientCallSet
  BY <1>2, <1>3 DEF At, ExecutorFrame, Frame, Begun, Outermost, ClientCallSet
<1>5. GoesTo(th, x)
  BY <1>3 DEF ExecuteCreates
<1>6. /\ created' = created \cup {t} /\ registry' = registry \cup {t}
      /\ UNCHANGED <<poolVars, processing_queue, was_scheduled, current_ticket_stack,
                     stop_processing_requested, is_scheduled, processing_thread_id, completed>>
      /\ UNCHANGED <<tickets, closing, started, cancelled, shutDown, calls>>
  BY DEF ExecuteCreates, executorVars
<1>7. LoopData
  BY <1>6 DEF LoopData, poolVars
<1>8. /\ Rewrites(th, n - 1, n) /\ frames'[th][n] = x /\ Top(th)' = x /\ CallsAndLoop(th)
  <2>1. th \in Clients => Len(frames[th]) # 2
    <3>1. th \in Clients => n = 1
      BY <1>2
    <3> HIDE DEF n
    <3>2. th \in Clients => n # 2
      BY <3>1
    <3> QED
      BY <3>2 DEF n
  <2>2. x.at \notin {"posted", "add_task", "idle", "join"}
    BY <1>4
  <2> HIDE DEF t
  <2> QED
    BY <1>1, <1>2, <1>4, <1>5, <1>7, <2>1, <2>2, GoesOn
<1>9. \A i \in 1 .. n : i > n - 1 => i = n
  BY <1>2
<1>10. t \notin registry /\ t \notin was_scheduled /\ t \notin completed
  BY <1>2, TypesOfInv
<1>11. \A f : Kept(th, n - 1, f) /\ f.at = "create" => f.ticket # t
  BY <1>1, OtherPosts
<1> HIDE DEF n, t
<1>12. StackOfFrames'
  <2>1. BegunStays(th, n - 1, n)
    BY <1>2, <1>4, <1>8, <1>9 DEF BegunStays, n
  <2> QED
    BY <1>6, <1>8, <2>1, StackStays DEF CallsAndLoop
<1>13. TicketPlaces'
  BY <1>6, <1>10 DEF ExecutorIInv, TicketPlaces, Queued, Executing
<1>14. FramesHold'
  <2>1. \A f \in ExecutorFrame : Kept(th, n - 1, f) /\ FrameHolds(f) => FrameHolds(f)'
    <3> SUFFICES ASSUME NEW f \in ExecutorFrame, Kept(th, n - 1, f), FrameHolds(f)
                 PROVE  FrameHolds(f)'
      OBVIOUS
    <3>1. f.at = "create" => f.ticket # t
      BY <1>11
    <3> QED
      BY <1>2, <1>6, <3>1 DEF FrameHolds
  <2>2. FrameHolds(x)'
    BY <1>4, <1>6, <1>10 DEF FrameHolds
  <2>3. \A i \in 1 .. n : i > n - 1 => frames'[th][i] = x
    BY <1>8, <1>9
  <2>4. \A i \in 1 .. n : i > n - 1 => FrameHolds(frames[th][i])'
    BY <2>2, <2>3, Zenon DEF FrameHolds
  <2> QED
    BY <1>8, <2>1, <2>4, FramesHoldAfter
<1>15. PostedOnce'
  BY <1>1, <1>4, <1>8, PostedStays DEF t
<1>16. \A c \in Clients : ClosedAreGone(c)'
  <2>1. \A c \in Clients : c # th => ClosedAreGone(c)'
    BY <1>2, <1>6, <1>8, ClosedStays
  <2>2. th \in Clients => ClosedAreGone(th)'
    BY <1>2, <1>4, <1>8 DEF ClosedAreGone
  <2> QED
    BY <2>1, <2>2
<1>17. AfterShutdown'
  <2>1. \A i \in 1 .. n : i > n - 1 /\ shutDown => frames'[th][i].at # "run"
    BY <1>4, <1>8, <1>9
  <2>2. shutDown => processing_queue' = <<>>
    BY <1>6 DEF ExecutorIInv, AfterShutdown
  <2> QED
    BY <1>6, <1>8, <2>1, <2>2, AfterStays
<1>18. ExecutorTypes'
  <2>1. ExecutorFrames' /\ ThreadPoolTypeOK'
    BY <1>6, <1>8, TypesOfInv DEF Rewrites, poolVars, ThreadPoolTypeOK
  <2> QED
    BY <1>2, <1>6, <1>10, <2>1, TypesOfInv
       DEF ExecutorIInv, ExecutorTypes, ExecutorTypeOK, ExecutorFrames, poolVars
<1> QED
  BY <1>8, <1>12, <1>13, <1>14, <1>15, <1>16, <1>17, <1>18 DEF ExecutorIInv, CallsAndLoop

(* The executor was closed in the meantime. *)
LEMMA ExecuteDiscardsKeeps ==
    ASSUME ExecutorIInv, NEW th \in Threads, ExecuteDiscards(th)
    PROVE  ExecutorIInv'
<1> DEFINE n == Len(frames[th])
           t == Top(th).ticket
<1>1. frames[th] # <<>> /\ Top(th).at = "post" /\ Posting(th)
  BY DEF ExecuteDiscards, In, Posting
<1>2. /\ n \in Nat /\ n >= 1 /\ Top(th) = frames[th][n] /\ Top(th) \in ExecutorFrame
      /\ ~Begun(Top(th)) /\ ~Outermost(Top(th)) /\ t \in Tickets
      /\ t \in registry /\ t \notin was_scheduled /\ t \in created
      /\ th \in Clients => n = 1
  BY <1>1, TopFacts, TypesOfInv DEF ExecutorFrame, Frame, Begun, Outermost, FrameHolds
<1>3. PICK x : x = At("resolve", t)
  OBVIOUS
<1>4. /\ x \in ExecutorFrame /\ x.at = "resolve" /\ x.ticket = t /\ ~Begun(x) /\ ~Outermost(x)
      /\ x.at \in ClientCallSet
  BY <1>2, <1>3 DEF At, ExecutorFrame, Frame, Begun, Outermost, ClientCallSet
<1>5. GoesTo(th, x)
  BY <1>3 DEF ExecuteDiscards
<1>6. /\ registry' = registry \ {t}
      /\ UNCHANGED <<poolVars, processing_queue, was_scheduled, current_ticket_stack, created,
                     stop_processing_requested, is_scheduled, processing_thread_id, completed>>
      /\ UNCHANGED <<tickets, closing, started, cancelled, shutDown, calls>>
  BY DEF ExecuteDiscards, executorVars
<1>7. LoopData
  BY <1>6 DEF LoopData, poolVars
<1>8. /\ Rewrites(th, n - 1, n) /\ frames'[th][n] = x /\ Top(th)' = x /\ CallsAndLoop(th)
  BY <1>1, <1>2, <1>4, <1>5, <1>7, GoesOn
<1>9. \A i \in 1 .. n : i > n - 1 => i = n
  BY <1>2
<1>11. \A f : Kept(th, n - 1, f) /\ f.at = "post" => f.ticket # t
  BY <1>1, OtherPosts
<1> HIDE DEF n, t
<1>12. StackOfFrames'
  <2>1. BegunStays(th, n - 1, n)
    BY <1>2, <1>4, <1>8, <1>9 DEF BegunStays, n
  <2> QED
    BY <1>6, <1>8, <2>1, StackStays DEF CallsAndLoop
<1>13. TicketPlaces'
  BY <1>2, <1>6 DEF ExecutorIInv, TicketPlaces, Queued, Executing
<1>14. FramesHold'
  <2>1. \A f \in ExecutorFrame : Kept(th, n - 1, f) /\ FrameHolds(f) => FrameHolds(f)'
    <3> SUFFICES ASSUME NEW f \in ExecutorFrame, Kept(th, n - 1, f), FrameHolds(f)
                 PROVE  FrameHolds(f)'
      OBVIOUS
    <3>1. f.at = "post" => f.ticket # t
      BY <1>11
    <3> QED
      BY <1>2, <1>6, <3>1 DEF FrameHolds
  <2>2. FrameHolds(x)'
    BY <1>2, <1>4, <1>6 DEF FrameHolds
  <2>3. \A i \in 1 .. n : i > n - 1 => frames'[th][i] = x
    BY <1>8, <1>9
  <2>4. \A i \in 1 .. n : i > n - 1 => FrameHolds(frames[th][i])'
    BY <2>2, <2>3, Zenon DEF FrameHolds
  <2> QED
    BY <1>8, <2>1, <2>4, FramesHoldAfter
<1>15. PostedOnce'
  <2>1. ~Posting(th)'
    BY <1>4, <1>8 DEF Posting, In
  <2> QED
    BY <1>8, <2>1, PostedStays
<1>16. \A c \in Clients : ClosedAreGone(c)'
  <2>1. \A c \in Clients : c # th => ClosedAreGone(c)'
    BY <1>6, <1>8, ClosedStays
  <2>2. th \in Clients => ClosedAreGone(th)'
    BY <1>2, <1>4, <1>8 DEF ClosedAreGone
  <2> QED
    BY <2>1, <2>2
<1>17. AfterShutdown'
  <2>1. \A i \in 1 .. n : i > n - 1 /\ shutDown => frames'[th][i].at # "run"
    BY <1>4, <1>8, <1>9
  <2>2. shutDown => processing_queue' = <<>>
    BY <1>6 DEF ExecutorIInv, AfterShutdown
  <2> QED
    BY <1>6, <1>8, <2>1, <2>2, AfterStays
<1>18. ExecutorTypes'
  <2>1. ExecutorFrames' /\ ThreadPoolTypeOK'
    BY <1>6, <1>8, TypesOfInv DEF Rewrites, poolVars, ThreadPoolTypeOK
  <2> QED
    BY <1>6, <2>1, TypesOfInv
       DEF ExecutorIInv, ExecutorTypes, ExecutorTypeOK, ExecutorFrames, poolVars
<1> QED
  BY <1>8, <1>12, <1>13, <1>14, <1>15, <1>16, <1>17, <1>18 DEF ExecutorIInv, CallsAndLoop

(* The ticket is posted, and the loop is started when there is none.       *)
LEMMA ExecutePostsKeeps ==
    ASSUME ExecutorIInv, NEW th \in Threads, ExecutePosts(th)
    PROVE  ExecutorIInv'
<1> DEFINE n == Len(frames[th])
           t == Top(th).ticket
<1> USE ThreadsAssumption
<1>1. frames[th] # <<>> /\ Top(th).at = "post" /\ Posting(th)
  BY DEF ExecutePosts, In, Posting
<1>2. /\ n \in Nat /\ n >= 1 /\ Top(th) = frames[th][n] /\ Top(th) \in ExecutorFrame
      /\ ~Begun(Top(th)) /\ ~Outermost(Top(th)) /\ t \in Tickets
      /\ t \in registry /\ t \notin was_scheduled /\ t \in created
      /\ th \in Clients => n = 1
  BY <1>1, TopFacts, TypesOfInv DEF ExecutorFrame, Frame, Begun, Outermost, FrameHolds
<1>3. /\ tickets' = Append(tickets, t) /\ was_scheduled' = was_scheduled \cup {t}
      /\ processing_queue' = Append(processing_queue, t) /\ is_scheduled'
      /\ UNCHANGED <<poolVars, registry, current_ticket_stack, stop_processing_requested,
                     processing_thread_id, completed, created>>
      /\ UNCHANGED <<closing, started, cancelled, shutDown, calls>>
      /\ ~closing
  BY DEF ExecutePosts, historyVars
<1>4. ~shutDown
  BY <1>3 DEF ExecutorIInv, AfterShutdown
<1>5. /\ tickets \in Seq(was_scheduled) /\ IsInjective(tickets)
      /\ processing_queue \in Seq(Tickets) /\ IsInjective(processing_queue)
      /\ Range(tickets) \subseteq was_scheduled
      /\ Queued \subseteq was_scheduled /\ Executing \subseteq was_scheduled
  BY TypesOfInv DEF ExecutorIInv, TicketPlaces, Range
<1>6. /\ tickets' \in Seq(was_scheduled') /\ IsInjective(tickets')
      /\ Range(tickets') = Range(tickets) \cup {t}
      /\ processing_queue' \in Seq(Tickets) /\ IsInjective(processing_queue')
      /\ Queued' = Queued \cup {t} /\ Executing' = Executing
  <2>1. tickets \in Seq(was_scheduled \cup {t})
    BY <1>5
  <2> HIDE DEF t
  <2>2. /\ Append(tickets, t) \in Seq(was_scheduled \cup {t}) /\ IsInjective(Append(tickets, t))
        /\ Range(Append(tickets, t)) = Range(tickets) \cup {t}
    BY <1>2, <1>5, <2>1, AppendRange
  <2>3. /\ Append(processing_queue, t) \in Seq(Tickets)
        /\ IsInjective(Append(processing_queue, t))
        /\ Range(Append(processing_queue, t)) = Queued \cup {t}
    BY <1>2, <1>5, AppendRange DEF Queued
  <2> QED
    BY <1>3, <2>2, <2>3 DEF Queued, Executing
<1>7. \A f : Kept(th, n - 1, f) /\ f.at = "post" => f.ticket # t
  BY <1>1, OtherPosts
<1> HIDE DEF n, t
<1>8. \A f \in ExecutorFrame : Kept(th, n - 1, f) /\ FrameHolds(f) => FrameHolds(f)'
  <2> SUFFICES ASSUME NEW f \in ExecutorFrame, Kept(th, n - 1, f), FrameHolds(f)
               PROVE  FrameHolds(f)'
    OBVIOUS
  <2>1. f.at = "post" => f.ticket # t
    BY <1>7
  <2> QED
    BY <1>3, <1>6, <2>1 DEF FrameHolds
<1>9. TicketPlaces' /\ AfterShutdown'
  <2>1. TicketPlaces'
    BY <1>2, <1>3, <1>5, <1>6 DEF ExecutorIInv, TicketPlaces
  <2>2. AfterShutdown'
    BY <1>3, <1>4 DEF AfterShutdown
  <2> QED
    BY <2>1, <2>2
<1>10. ExecutorFrames' => ExecutorTypes'
  <2>1. ThreadPoolTypeOK'
    BY <1>3, TypesOfInv DEF poolVars, ThreadPoolTypeOK
  <2>2. is_scheduled' \in BOOLEAN
    BY DEF ExecutePosts
  <2>3. /\ registry' \cup was_scheduled' \cup completed' \cup started' \cup cancelled' \subseteq created'
        /\ created' \subseteq Tickets /\ completed' \cap registry' = {}
    BY <1>2, <1>3, TypesOfInv
  <2> QED
    BY <1>3, <1>6, <2>1, <2>2, <2>3, TypesOfInv
       DEF ExecutorIInv, ExecutorTypes, ExecutorTypeOK, ExecutorFrames, poolVars
<1>11. CASE is_scheduled
  <2>1. Returns(th) /\ UNCHANGED <<pool_tasks, worker>>
    BY <1>3, <1>11 DEF ExecutePosts, poolVars
  <2>2. Rewrites(th, n - 1, n - 1) /\ CallsAndLoop(th) /\ ~Posting(th)'
    BY <1>1, <1>2, <1>3, <2>1, GoesBack DEF n
  <2>3. \A i \in 1 .. n - 1 : ~(i > n - 1)
    BY <1>2
  <2>4. StackOfFrames'
    <3>1. \A i \in 1 .. n : i > n - 1 => ~Begun(frames[th][i])
      <4>1. \A i \in 1 .. n : i > n - 1 => i = n
        BY <1>2
      <4> QED
        BY <1>2, <4>1
    <3>2. BegunStays(th, n - 1, n - 1)
      BY <2>3, <3>1 DEF BegunStays, n
    <3> QED
      BY <1>3, <2>2, <3>2, StackStays DEF CallsAndLoop
  <2>5. FramesHold'
    BY <1>8, <2>2, <2>3, FramesHoldAfter
  <2>6. PostedOnce'
    BY <2>2, PostedStays
  <2>7. \A c \in Clients : ClosedAreGone(c)'
    <3>1. \A c \in Clients : c # th => ClosedAreGone(c)'
      BY <1>3, <2>2, ClosedStays
    <3>2. th \in Clients => ClosedAreGone(th)'
      BY <1>1, <1>3, <2>2, ClosedAfterReturn DEF n
    <3> QED
      BY <3>1, <3>2
  <2>8. ExecutorTypes'
    BY <1>10, <2>2 DEF Rewrites
  <2> QED
    BY <1>9, <2>2, <2>4, <2>5, <2>6, <2>7, <2>8 DEF ExecutorIInv, CallsAndLoop
<1>12. CASE ~is_scheduled
  <2>1. InLoop = {} /\ pool_tasks = <<>> /\ \A c \in Clients : ~Adding(c)
    BY <1>12 DEF ExecutorIInv, LoopIsOne
  <2>2. th \in Clients /\ th \notin Workers /\ n = 1
    BY <1>1, <1>2, <2>1 DEF InLoop, Threads
  <2>3. PICK x : x = At("posted", t)
    OBVIOUS
  <2>4. PICK y : y = At("add_task", NoTicket)
    OBVIOUS
  <2>5. x \in ExecutorFrame /\ x.at = "posted" /\ y \in ExecutorFrame /\ y.at = "add_task"
    BY <1>2, <2>3, <2>4 DEF At, ExecutorFrame, Frame
  <2>6. GoesOnAndEnters(th, x, y)
    BY <1>12, <2>3, <2>4 DEF ExecutePosts, GoesOnAndEnters, t
  <2>7. /\ Rewrites(th, 0, 2) /\ frames'[th][1] = x /\ frames'[th][2] = y
        /\ frames'[th] # <<>> /\ Top(th)' = y /\ Len(frames'[th]) = 2
    <3>1. /\ Rewrites(th, n - 1, n + 1) /\ frames'[th][n] = x /\ frames'[th][n + 1] = y
          /\ frames'[th] # <<>> /\ Top(th)' = y
      BY <1>1, <2>5, <2>6, FactsOfInv, TopReplacedAndAdded DEF n
    <3>2. n - 1 = 0 /\ n + 1 = 2
      BY <2>2
    <3> QED
      BY <2>2, <3>1, <3>2 DEF Rewrites
  <2>8. \A o \in Threads : o # th => frames'[o] = frames[o] /\ Top(o)' = Top(o)
    BY <2>7 DEF Rewrites, Top
  <2>9. InLoop' = {}
    BY <2>1, <2>2, <2>8 DEF InLoop, Threads
  <2>10. StackOfFrames'
    BY <1>3, <2>1, <2>9 DEF ExecutorIInv, StackOfFrames
  <2>11. LoopIsOne'
    <3>1. \A c \in Clients : Adding(c)' => c = th
      BY <2>1, <2>8 DEF Adding, In, Threads
    <3>2. \A w \in Workers : frames'[w] = <<>> <=> worker'[w].at # "run"
      BY <1>3, <2>2, <2>8 DEF ExecutorIInv, LoopIsOne, Threads, poolVars
    <3> QED
      BY <1>3, <2>1, <2>9, <3>1, <3>2 DEF LoopIsOne, poolVars
  <2>12. (\A c \in Clients : ClientCalls(c)') /\ (\A w \in Workers : WorkerCalls(w)')
    <3>1. ClientCalls(th)'
      BY <2>5, <2>7 DEF ClientCalls
    <3> QED
      BY <2>2, <2>7, <3>1, OtherCalls
  <2>13. FramesHold'
    <3>1. FrameHolds(x)' /\ FrameHolds(y)'
      BY <2>5 DEF FrameHolds
    <3>2. \A i \in 1 .. 2 : i > 0 => frames'[th][i] = x \/ frames'[th][i] = y
      <4>1. \A i \in 1 .. 2 : i = 1 \/ i = 2
        OBVIOUS
      <4> QED
        BY <2>7, <4>1
    <3>3. \A i \in 1 .. 2 : i > 0 => FrameHolds(frames[th][i])'
      BY <3>1, <3>2, Zenon DEF FrameHolds
    <3>4. \A f \in ExecutorFrame : Kept(th, 0, f) /\ FrameHolds(f) => FrameHolds(f)'
      <4>1. n - 1 = 0
        BY <2>2
      <4> QED
        BY <1>8, <4>1
    <3> QED
      BY <2>7, <3>3, <3>4, FramesHoldAfter
  <2>14. PostedOnce'
    <3>1. ~Posting(th)'
      BY <2>5, <2>7 DEF Posting, In
    <3> QED
      BY <2>7, <3>1, PostedStays
  <2>15. \A c \in Clients : ClosedAreGone(c)'
    <3>1. \A c \in Clients : c # th => ClosedAreGone(c)'
      BY <1>3, <2>7, ClosedStays
    <3>2. ClosedAreGone(th)'
      BY <2>5, <2>7 DEF ClosedAreGone
    <3> QED
      BY <3>1, <3>2
  <2>16. ExecutorTypes'
    BY <1>10, <2>7 DEF Rewrites
  <2> QED
    BY <1>9, <2>10, <2>11, <2>12, <2>13, <2>14, <2>15, <2>16 DEF ExecutorIInv
<1> QED
  BY <1>11, <1>12

-----------------------------------------------------------------------------
(* Functions that end, and tickets that are discarded *)

(* The function of the ticket returns. *)
LEMMA FunctionReturnsKeeps ==
    ASSUME ExecutorIInv, NEW w \in Workers, FunctionReturns(w)
    PROVE  ExecutorIInv'
<1> DEFINE n == Len(frames[w])
           t == Top(w).ticket
           s == current_ticket_stack
<1> USE ThreadsAssumption
<1>1. /\ w \in Threads /\ w \notin Clients /\ frames[w] # <<>> /\ Top(w).at = "run"
      /\ w \in InLoop
  BY DEF FunctionReturns, InvocableReturns, In, Threads, InLoop
<1>2. /\ n \in Nat /\ n >= 1 /\ Top(w) = frames[w][n] /\ Top(w) \in ExecutorFrame
      /\ Begun(Top(w)) /\ ~Outermost(Top(w)) /\ t \in Tickets
  BY <1>1, TopFacts DEF ExecutorFrame, Frame, Begun, Outermost
<1>3. PICK x : x = At("unstack", t)
  OBVIOUS
<1>4. x \in ExecutorFrame /\ x.at = "unstack" /\ x.ticket = t /\ Begun(x) /\ ~Outermost(x)
  BY <1>2, <1>3 DEF At, ExecutorFrame, Frame, Begun, Outermost
<1>5. GoesTo(w, x)
  BY <1>3 DEF FunctionReturns, InvocableReturns
<1>6. /\ tickets' = RemoveFirst(tickets, t)
      /\ UNCHANGED <<pool_tasks, worker, pool_close>>
      /\ UNCHANGED <<registry, processing_queue, was_scheduled, current_ticket_stack, created,
                     stop_processing_requested, is_scheduled, processing_thread_id, completed>>
      /\ UNCHANGED <<closing, started, cancelled, shutDown, calls>>
  BY DEF FunctionReturns, InvocableReturns, historyVars, poolVars, ticketVars
<1>7. LoopData
  BY <1>6 DEF LoopData
<1>8. /\ Rewrites(w, n - 1, n) /\ frames'[w][n] = x /\ Top(w)' = x /\ CallsAndLoop(w)
  BY <1>1, <1>2, <1>4, <1>5, <1>7, GoesOn
<1>9. \A i \in 1 .. n : i > n - 1 => i = n
  BY <1>2
<1>10. Stacked(frames[w], s) /\ s \in Seq(Tickets) /\ \A v \in InLoop : v = w
  BY <1>1, TypesOfInv DEF ExecutorIInv, StackOfFrames, LoopIsOne
<1>11. PICK a \in 1 .. Len(s) : t = s[a]
  BY <1>2, <1>10 DEF Stacked
<1>12. t \in Executing /\ t \notin Queued
  <2>1. t \in Executing
    BY <1>10, <1>11 DEF Executing, Range
  <2> QED
    BY <2>1 DEF ExecutorIInv, TicketPlaces
<1>13. /\ tickets' \in Seq(was_scheduled) /\ IsInjective(tickets')
       /\ Range(tickets') = Range(tickets) \ {t}
  BY <1>6, TypesOfInv, RemoveFirstRange
<1>14. ASSUME NEW f \in ExecutorFrame, Kept(w, n - 1, f), f.at = "run"
       PROVE  f.ticket # t
  <2>0. PICK u \in Threads : \E i \in 1 .. Len(frames[u]) :
            f = frames[u][i] /\ (u = w => i <= n - 1)
    BY <1>14 DEF Kept
  <2>1. PICK i \in 1 .. Len(frames[u]) : f = frames[u][i] /\ (u = w => i <= n - 1)
    BY <2>0
  <2>2. u \notin Clients
    <3>1. ASSUME u \in Clients PROVE frames[u][i].at # "run"
      <4>1. ClientCalls(u)
        BY <3>1 DEF ExecutorIInv
      <4>2. Len(frames[u]) \in Nat
        BY FactsOfInv, FramesOfThread
      <4>3. i = 1 \/ i = 2
        BY <2>1, <4>1, <4>2, <3>1 DEF ClientCalls
      <4> QED
        BY <2>1, <4>1, <4>3 DEF ClientCalls
    <3> QED
      BY <1>14, <2>1, <3>1
  <2>3. u = w
    <3>1. frames[u] # <<>>
      BY <2>1, FactsOfInv, FramesOfThread
    <3> QED
      BY <1>10, <2>2, <3>1 DEF InLoop, Threads
  <2>4. i < n /\ i \in 1 .. n
    BY <1>2, <2>1, <2>3
  <2>5. Begun(frames[w][i]) /\ Begun(frames[w][n]) /\ n \in 1 .. n /\ frames[w][n].ticket = s[a]
    BY <1>2, <1>11, <1>14, <2>1, <2>3 DEF Begun
  <2> HIDE DEF n, t, s
  <2>6. ASSUME frames[w][i].ticket = s[a] PROVE FALSE
    <3> DEFINE f1 == frames[w]
    <3>1. \A k, l \in 1 .. Len(f1), b, d \in 1 .. Len(s) :
             Begun(f1[k]) /\ Begun(f1[l]) /\ f1[k].ticket = s[b] /\ f1[l].ticket = s[d]
                 => (k < l <=> b < d)
      BY <1>10 DEF Stacked
    <3>2. i \in 1 .. Len(f1) /\ n \in 1 .. Len(f1) /\ a \in 1 .. Len(s)
      BY <1>11, <2>4, <2>5 DEF n
    <3>3. Begun(f1[i]) /\ Begun(f1[n]) /\ f1[i].ticket = s[a] /\ f1[n].ticket = s[a]
      BY <2>5, <2>6
    <3> HIDE DEF f1
    <3>4. i < n <=> a < a
      BY <3>1, <3>2, <3>3
    <3>5. a \in Int
      BY <1>11
    <3> QED
      BY <2>4, <3>4, <3>5
  <2> QED
    BY <1>11, <2>1, <2>3, <2>6
<1> HIDE DEF n, t, s
<1>15. StackOfFrames'
  <2>1. BegunStays(w, n - 1, n)
    BY <1>2, <1>4, <1>8, <1>9 DEF BegunStays, n, t
  <2> QED
    BY <1>1, <1>6, <1>8, <2>1, StackStays DEF CallsAndLoop
<1>16. TicketPlaces'
  BY <1>6, <1>12, <1>13 DEF ExecutorIInv, TicketPlaces, Queued, Executing
<1>17. FramesHold'
  <2>1. \A f \in ExecutorFrame : Kept(w, n - 1, f) /\ FrameHolds(f) => FrameHolds(f)'
    <3> SUFFICES ASSUME NEW f \in ExecutorFrame, Kept(w, n - 1, f), FrameHolds(f)
                 PROVE  FrameHolds(f)'
      OBVIOUS
    <3>1. f.at = "run" => f.ticket # t
      BY <1>14
    <3> QED
      BY <1>6, <1>13, <3>1 DEF FrameHolds
  <2>2. FrameHolds(x)'
    BY <1>4 DEF FrameHolds
  <2>3. \A i \in 1 .. n : i > n - 1 => frames'[w][i] = x
    BY <1>8, <1>9
  <2>4. \A i \in 1 .. n : i > n - 1 => FrameHolds(frames[w][i])'
    BY <2>2, <2>3, Zenon DEF FrameHolds
  <2> QED
    BY <1>1, <1>8, <2>1, <2>4, FramesHoldAfter
<1>18. PostedOnce'
  <2>1. ~Posting(w)'
    BY <1>4, <1>8 DEF Posting, In
  <2> QED
    BY <1>1, <1>8, <2>1, PostedStays
<1>19. \A c \in Clients : ClosedAreGone(c)'
  BY <1>1, <1>6, <1>8, ClosedStays
<1>20. AfterShutdown'
  <2>1. \A i \in 1 .. n : i > n - 1 /\ shutDown => frames'[w][i].at # "run"
    BY <1>4, <1>8, <1>9
  <2>2. shutDown => processing_queue' = <<>>
    BY <1>6 DEF ExecutorIInv, AfterShutdown
  <2> QED
    BY <1>1, <1>6, <1>8, <2>1, <2>2, AfterStays
<1>21. ExecutorTypes'
  <2>1. ExecutorFrames' /\ ThreadPoolTypeOK'
    BY <1>6, <1>8, TypesOfInv DEF Rewrites, ThreadPoolTypeOK
  <2> QED
    BY <1>6, <1>13, <2>1, TypesOfInv
       DEF ExecutorIInv, ExecutorTypes, ExecutorTypeOK, ExecutorFrames
<1> QED
  BY <1>8, <1>15, <1>16, <1>17, <1>18, <1>19, <1>20, <1>21 DEF ExecutorIInv, CallsAndLoop

(* A ticket that is queued is discarded: it is in no place any more, and   *)
(* shutdown has not returned.                                              *)
LEMMA DiscardQueued ==
    ASSUME ExecutorIInv, NEW t, t \in registry, t \in was_scheduled, t \notin Executing,
           registry' = registry \ {t}, processing_queue' = RemoveFirst(processing_queue, t),
           UNCHANGED <<poolVars, was_scheduled, current_ticket_stack, stop_processing_requested,
                       is_scheduled, processing_thread_id, completed, created>>,
           UNCHANGED <<tickets, closing, started, shutDown>>, calls' \in 0 .. MaxCalls,
           cancelled \subseteq cancelled', cancelled' \subseteq created,
           t \in NonCancelable => t \in cancelled'
    PROVE  /\ TicketPlaces' /\ AfterShutdown'
           /\ \A f \in ExecutorFrame : FrameHolds(f) => FrameHolds(f)'
           /\ ExecutorFrames' => ExecutorTypes'
<1>1. processing_queue \in Seq(Tickets) /\ IsInjective(processing_queue)
  BY TypesOfInv DEF ExecutorIInv, TicketPlaces
<1>2. /\ processing_queue' \in Seq(Tickets) /\ IsInjective(processing_queue')
      /\ Queued' = Queued \ {t} /\ Executing' = Executing
  BY <1>1, RemoveFirstRange DEF Queued, Executing
<1>3. TicketPlaces'
  <2>1. /\ Queued' \subseteq registry' \cap was_scheduled' \cap Range(tickets')
        /\ Executing' \subseteq registry' \cap was_scheduled' \cap started'
        /\ Queued' \cap Executing' = {}
    BY <1>2 DEF ExecutorIInv, TicketPlaces
  <2>2. was_scheduled' \cap registry' \subseteq Queued' \cup Executing'
    BY <1>2 DEF ExecutorIInv, TicketPlaces
  <2>3. (was_scheduled' \cap NonCancelable) \ registry' \subseteq started' \cup cancelled'
    BY DEF ExecutorIInv, TicketPlaces
  <2> QED
    BY <1>2, <2>1, <2>2, <2>3 DEF TicketPlaces
<1>4. ~shutDown
  <2>1. t \in Queued
    BY DEF ExecutorIInv, TicketPlaces
  <2>2. processing_queue # <<>>
    BY <2>1 DEF Queued, Range
  <2> QED
    BY <2>2 DEF ExecutorIInv, AfterShutdown
<1>5. AfterShutdown'
  BY <1>4 DEF AfterShutdown
<1>6. \A f \in ExecutorFrame : FrameHolds(f) => FrameHolds(f)'
  BY DEF FrameHolds
<1>7. ExecutorFrames' => ExecutorTypes'
  <2>1. ThreadPoolTypeOK'
    BY TypesOfInv DEF poolVars, ThreadPoolTypeOK
  <2>2. /\ registry' \cup was_scheduled' \cup completed' \cup started' \cup cancelled' \subseteq created'
        /\ created' \subseteq Tickets /\ completed' \cap registry' = {}
    BY TypesOfInv
  <2> QED
    BY <1>2, <2>1, <2>2, TypesOfInv
       DEF ExecutorIInv, ExecutorTypes, ExecutorTypeOK, ExecutorFrames, poolVars
<1> QED
  BY <1>3, <1>5, <1>6, <1>7

(* QueueExecutorOperation::cancel. *)
LEMMA OperationCancelsKeeps ==
    ASSUME ExecutorIInv, NEW th \in Threads, NEW t \in Tickets, OperationCancels(th, t)
    PROVE  ExecutorIInv'
<1> DEFINE n == Len(frames[th])
<1>1. /\ calls' \in 0 .. MaxCalls /\ MayCall(th) /\ t \in registry /\ t \in was_scheduled
      /\ cancelled \subseteq cancelled' /\ t \in cancelled' /\ cancelled' \subseteq created
      /\ UNCHANGED <<tickets, closing, started, shutDown>>
      /\ UNCHANGED <<poolVars, was_scheduled, current_ticket_stack, stop_processing_requested,
                     is_scheduled, processing_thread_id, completed, created>>
  BY MaxCallsAssumption, TypesOfInv DEF OperationCancels, CountCall, DiscardTicket
<1>2. CASE InCurrentTicketStack(t)
  <2>1. UNCHANGED <<registry, processing_queue>> /\ Enters(th, At("wait", t))
    BY <1>2 DEF OperationCancels, DiscardTicket
  <2>2. CalmData /\ LoopData /\ (ExecutorFrames' => ExecutorTypes')
    BY <1>1, <2>1, OnlyFrames, TypesOfInv DEF ticketVars
  <2>3. PICK x : x = At("wait", t)
    OBVIOUS
  <2>4. Enters(th, x)
    BY <2>1, <2>3
  <2>5. /\ x \in ExecutorFrame /\ x.at = "wait" /\ ~Begun(x) /\ FrameHolds(x)'
        /\ x.at \in ClientCallSet \ {"posted"}
    BY <2>3 DEF At, ExecutorFrame, Frame, Begun, ClientCallSet, FrameHolds
  <2> QED
    BY <1>1, <2>2, <2>4, <2>5, CalmGoesDown
<1>3. CASE ~InCurrentTicketStack(t)
  <2>1. /\ processing_queue' = RemoveFirst(processing_queue, t) /\ registry' = registry \ {t}
        /\ Enters(th, At("resolve", t))
    BY <1>3 DEF OperationCancels, DiscardTicket
  <2>2. t \notin Executing
    BY <1>3 DEF InCurrentTicketStack, Executing
  <2>3. /\ TicketPlaces' /\ AfterShutdown'
        /\ \A f \in ExecutorFrame : FrameHolds(f) => FrameHolds(f)'
        /\ ExecutorFrames' => ExecutorTypes'
    BY <1>1, <2>1, <2>2, DiscardQueued
  <2>4. PICK x : x = At("resolve", t)
    OBVIOUS
  <2>5. Enters(th, x) /\ LoopData
    BY <1>1, <2>1, <2>4 DEF LoopData, poolVars
  <2>6. /\ x \in ExecutorFrame /\ x.at = "resolve" /\ x.ticket = t /\ ~Begun(x)
        /\ x.at \in ClientCallSet \ {"posted"}
    BY <2>4 DEF At, ExecutorFrame, Frame, Begun, ClientCallSet
  <2>7. FrameHolds(x)'
    BY <1>1, <2>1, <2>6, TypesOfInv DEF FrameHolds
  <2>8. /\ Rewrites(th, n, n + 1) /\ frames'[th][n + 1] = x /\ Top(th)' = x /\ CallsAndLoop(th)
        /\ th \in Clients => Len(frames'[th]) = 1 /\ frames'[th][1] = x
    BY <1>1, <2>5, <2>6, GoesDown
  <2>9. n \in Nat
    BY FactsOfInv, FramesOfThread
  <2> HIDE DEF n
  <2>10. \A i \in 1 .. n + 1 : i > n => i = n + 1
    BY <2>9
  <2>11. FramesHold'
    <3>1. \A i \in 1 .. n + 1 : i > n => frames'[th][i] = x
      BY <2>8, <2>10
    <3>2. \A i \in 1 .. n + 1 : i > n => FrameHolds(frames[th][i])'
      BY <2>7, <3>1, Zenon DEF FrameHolds
    <3> QED
      BY <2>3, <2>8, <3>2, FramesHoldAfter
  <2>12. StackOfFrames'
    <3>1. /\ \A i \in 1 .. n + 1 : i > n => ~Begun(frames'[th][i])
          /\ \A i \in 1 .. n : ~(i > n)
      BY <2>6, <2>8, <2>9, <2>10
    <3>2. BegunStays(th, n, n + 1)
      BY <3>1 DEF BegunStays, n
    <3> QED
      BY <1>1, <2>8, <3>2, StackStays DEF CallsAndLoop
  <2>13. PostedOnce'
    <3>1. ~Posting(th)'
      BY <2>6, <2>8 DEF Posting, In
    <3> QED
      BY <2>8, <3>1, PostedStays
  <2>14. \A c \in Clients : ClosedAreGone(c)'
    <3>1. \A c \in Clients : c # th => ClosedAreGone(c)'
      BY <2>1, <2>8, ClosedStays
    <3>2. th \in Clients => ClosedAreGone(th)'
      BY <2>6, <2>8 DEF ClosedAreGone
    <3> QED
      BY <3>1, <3>2
  <2>15. ExecutorTypes'
    BY <2>3, <2>8 DEF Rewrites
  <2> QED
    BY <2>3, <2>8, <2>11, <2>12, <2>13, <2>14, <2>15 DEF ExecutorIInv, CallsAndLoop
<1> QED
  BY <1>2, <1>3

(* What is not in a sequence cannot be removed. *)
LEMMA NothingToRemove ==
    ASSUME NEW S, NEW s \in Seq(S), NEW e, e \notin Range(s)
    PROVE  RemoveFirst(s, e) = s
<1>1. ~\E i \in 1 .. Len(s) : s[i] = e
  BY DEF Range
<1> QED
  BY <1>1 DEF RemoveFirst

(* clear discards a ticket that is gone, one that executes, or one that is *)
(* queued.                                                                 *)
LEMMA ClearDiscardsKeeps ==
    ASSUME ExecutorIInv, NEW th \in Threads, ClearDiscards(th)
    PROVE  ExecutorIInv'
<1> DEFINE n == Len(frames[th])
           f == Top(th)
           t == Head(f.work).ticket
<1>1. /\ frames[th] # <<>> /\ f.at = "clearing" /\ f.work # <<>> /\ In(th, "clearing")
      /\ Head(f.work).call = "discard"
  BY DEF ClearDiscards, In
<1>2. /\ n \in Nat /\ n >= 1 /\ f = frames[th][n] /\ ~Begun(f) /\ ~Outermost(f)
      /\ th \in Clients => n = 1
  BY <1>1, TopFacts DEF Begun, Outermost
<1>3. /\ UNCHANGED <<poolVars, was_scheduled, current_ticket_stack, stop_processing_requested,
                     is_scheduled, processing_thread_id, completed, created>>
      /\ UNCHANGED executorVars
      /\ UNCHANGED <<tickets, closing, started, cancelled, shutDown, calls>>
  BY DEF ClearDiscards, executorVars
<1>4. PICK x : x = RestOfWork(f)
  OBVIOUS
<1>5. /\ t \in Tickets /\ t \in was_scheduled /\ t \notin NonCancelable
      /\ x \in ExecutorFrame /\ x.at = "clearing" /\ x.closed = f.closed \cup {t}
      /\ FrameHolds(x) /\ ~Begun(x) /\ ~Outermost(x)
  BY <1>1, <1>4, WorkFacts DEF Begun, Outermost
<1>6. th \in Clients => f.closed \cap registry = {}
  BY <1>1, <1>2 DEF ExecutorIInv, ClosedAreGone
<1>7. CASE t \notin registry
  <2>1. t \notin Executing /\ t \notin Queued /\ ~InCurrentTicketStack(t)
    BY <1>7 DEF ExecutorIInv, TicketPlaces, InCurrentTicketStack, Executing
  <2>2. UNCHANGED <<registry, processing_queue>>
    <3>1. RemoveFirst(processing_queue, t) = processing_queue
      BY <2>1, TypesOfInv, NothingToRemove DEF Queued
    <3>2. registry' = registry \ {t} /\ processing_queue' = RemoveFirst(processing_queue, t)
      BY <2>1 DEF ClearDiscards
    <3> QED
      BY <1>7, <3>1, <3>2
  <2>3. GoesTo(th, x)
    <3>1. frames[th] \in Seq(ExecutorFrame)
      BY FactsOfInv, FramesOfThread
    <3>2. Front(frames[th]) \o <<x>> = Append(Front(frames[th]), x)
      <4>1. Front(frames[th]) \in Seq(ExecutorFrame)
        BY <1>1, <3>1, FrontFacts
      <4> QED
        BY <1>5, <4>1
    <3>3. frames' = [frames EXCEPT ![th] = Front(frames[th]) \o <<x>>]
      BY <1>4, <1>7 DEF ClearDiscards, RestOfWork
    <3> QED
      BY <3>2, <3>3 DEF GoesTo
  <2>4. CalmData /\ LoopData /\ (ExecutorFrames' => ExecutorTypes')
    BY <1>3, <2>2, OnlyFrames, TypesOfInv DEF ticketVars
  <2>5. FrameHolds(x)'
    BY <1>5, <2>4, CalmFrames
  <2>6. ASSUME th \in Clients, frames'[th][n] = x PROVE ClosedAreGone(th)'
    <3>1. frames'[th][1].closed \cap registry' = {}
      BY <1>2, <1>5, <1>6, <1>7, <2>2, <2>6
    <3> QED
      BY <3>1 DEF ClosedAreGone
  <2>7. th \in Clients => Len(frames[th]) # 2
    <3>1. th \in Clients => n = 1
      BY <1>2
    <3> HIDE DEF n
    <3>2. th \in Clients => n # 2
      BY <3>1
    <3> QED
      BY <3>2 DEF n
  <2>8. x.at \in ClientCallSet /\ x.at \notin {"posted", "add_task", "idle", "join", "create", "post"}
    BY <1>5 DEF ClientCallSet
  <2> HIDE DEF t, f
  <2> QED
    BY <1>1, <1>2, <1>5, <2>3, <2>4, <2>5, <2>6, <2>7, <2>8, CalmGoesOn DEF f
<1>8. CASE t \in registry /\ InCurrentTicketStack(t)
  <2>1. GoesOnAndEnters(th, RestOfWork(f), At("wait", t))
    BY <1>8 DEF ClearDiscards, GoesOnAndEnters, RestOfWork
  <2>2. UNCHANGED <<poolVars, ticketVars, executorVars>>
    BY <1>3, <1>8 DEF ClearDiscards, ticketVars
  <2> QED
    BY <1>1, <2>1, <2>2, ClearCallsWait
<1>9. CASE t \in registry /\ ~InCurrentTicketStack(t)
  <2>1. PICK y : y = At("resolve", t)
    OBVIOUS
  <2>2. y \in ExecutorFrame /\ y.at = "resolve" /\ y.ticket = t /\ ~Begun(y)
    BY <1>5, <2>1 DEF At, ExecutorFrame, Frame, Begun
  <2>3. GoesOnAndEnters(th, x, y)
    BY <1>4, <1>9, <2>1 DEF ClearDiscards, GoesOnAndEnters, RestOfWork
  <2>4. registry' = registry \ {t} /\ processing_queue' = RemoveFirst(processing_queue, t)
    BY <1>9 DEF ClearDiscards
  <2>5. t \notin Executing
    BY <1>9 DEF InCurrentTicketStack, Executing
  <2> HIDE DEF n, f, t
  <2>6. /\ TicketPlaces' /\ AfterShutdown'
        /\ \A g \in ExecutorFrame : FrameHolds(g) => FrameHolds(g)'
        /\ ExecutorFrames' => ExecutorTypes'
    BY <1>3, <1>5, <1>9, <2>4, <2>5, DiscardQueued, TypesOfInv
  <2>7. LoopData
    BY <1>3 DEF LoopData, poolVars
  <2>8. /\ Rewrites(th, n - 1, n + 1) /\ frames'[th][n] = x /\ frames'[th][n + 1] = y
        /\ Top(th)' = y /\ CallsAndLoop(th)
        /\ th \in Clients => n = 1 /\ Len(frames'[th]) = 2
    BY <1>1, <1>5, <2>2, <2>3, <2>7, GoesOnAndDown DEF n
  <2>9. \A i \in 1 .. n + 1 : i > n - 1 => frames'[th][i] = x \/ frames'[th][i] = y
    BY <1>2, <2>8
  <2>10. FramesHold'
    <3>1. FrameHolds(y)'
      BY <1>3, <1>9, <2>2, <2>4, TypesOfInv DEF FrameHolds
    <3>2. FrameHolds(x)'
      BY <1>5, <2>6
    <3>3. \A i \in 1 .. n + 1 : i > n - 1 => FrameHolds(frames[th][i])'
      BY <2>9, <3>1, <3>2, Zenon DEF FrameHolds
    <3> QED
      BY <2>6, <2>8, <3>3, FramesHoldAfter
  <2>11. StackOfFrames'
    <3>1. \A i \in 1 .. n + 1 : i > n - 1 => ~Begun(frames'[th][i])
      BY <1>5, <2>2, <2>9
    <3>2. \A i \in 1 .. n : i > n - 1 => ~Begun(frames[th][i])
      <4>1. \A i \in 1 .. n : i > n - 1 => i = n
        BY <1>2
      <4> QED
        BY <1>2, <4>1
    <3>3. BegunStays(th, n - 1, n + 1)
      BY <3>1, <3>2 DEF BegunStays, n
    <3> QED
      BY <1>3, <2>8, <3>3, StackStays DEF CallsAndLoop
  <2>12. PostedOnce'
    <3>1. ~Posting(th)'
      BY <2>2, <2>8 DEF Posting, In
    <3> QED
      BY <2>8, <3>1, PostedStays
  <2>13. \A c \in Clients : ClosedAreGone(c)'
    <3>1. \A c \in Clients : c # th => ClosedAreGone(c)'
      BY <2>4, <2>8, ClosedStays
    <3>2. ASSUME th \in Clients PROVE ClosedAreGone(th)'
      <4>1. frames'[th][1] = x
        BY <2>8, <3>2
      <4>2. frames'[th][1].closed \cap registry' = {}
        BY <1>5, <1>6, <2>4, <3>2, <4>1
      <4> QED
        BY <4>2 DEF ClosedAreGone
    <3> QED
      BY <3>1, <3>2
  <2>14. ExecutorTypes'
    BY <2>6, <2>8 DEF Rewrites
  <2> QED
    BY <2>6, <2>8, <2>10, <2>11, <2>12, <2>13, <2>14 DEF ExecutorIInv, CallsAndLoop
<1> QED
  BY <1>7, <1>8, <1>9

-----------------------------------------------------------------------------
(* clear looks at the tickets *)

(* The places at which a sequence has an element of a set, numbered from   *)
(* the first.                                                              *)
LEMMA PlacesCounted ==
    ASSUME NEW n \in Nat, NEW K \in SUBSET (1 .. n)
    PROVE  /\ Cardinality(K) \in Nat
           /\ \A i \in K : Cardinality({j \in K : j < i}) + 1 \in 1 .. Cardinality(K)
           /\ \A i, l \in K :
                 Cardinality({j \in K : j < i}) = Cardinality({j \in K : j < l}) => i = l
           /\ \A k \in 1 .. Cardinality(K) :
                 \E i \in K : Cardinality({j \in K : j < i}) = k - 1
<1> DEFINE Before(i) == {j \in K : j < i}
           c == Cardinality(K)
           rank == [i \in K |-> Cardinality(Before(i))]
<1>1. IsFiniteSet(K) /\ c \in Nat
  <2>1. IsFiniteSet(1 .. n)
    BY FS_Interval
  <2>2. IsFiniteSet(K)
    BY <2>1, FS_Subset
  <2> QED
    BY <2>2, FS_CardinalityType
<1>2. ASSUME NEW i \in K PROVE IsFiniteSet(Before(i)) /\ rank[i] \in 0 .. c - 1
  <2>1. Before(i) \in SUBSET K /\ Before(i) # K
    <3>1. i \notin Before(i)
      OBVIOUS
    <3> QED
      BY <3>1
  <2>2. rank[i] = Cardinality(Before(i))
    OBVIOUS
  <2> HIDE DEF Before, rank
  <2>3. IsFiniteSet(Before(i)) /\ Cardinality(Before(i)) <= c /\ Cardinality(Before(i)) # c
    BY <1>1, <2>1, FS_Subset
  <2>4. Cardinality(Before(i)) \in Nat
    BY <2>3, FS_CardinalityType
  <2> QED
    BY <1>1, <2>2, <2>3, <2>4
<1>3. ASSUME NEW i \in K, NEW l \in K, i < l PROVE rank[i] < rank[l]
  <2>1. Before(i) \in SUBSET Before(l) /\ Before(i) # Before(l)
    <3>1. i \in Before(l) /\ i \notin Before(i)
      BY <1>3
    <3>2. \A j \in K : j < i => j < l
      BY <1>3
    <3> QED
      BY <3>1, <3>2
  <2>2. /\ IsFiniteSet(Before(l)) /\ rank[i] \in 0 .. c - 1 /\ rank[l] \in 0 .. c - 1
    BY <1>2
  <2>3. rank[i] = Cardinality(Before(i)) /\ rank[l] = Cardinality(Before(l))
    OBVIOUS
  <2> HIDE DEF Before, rank
  <2>4. Cardinality(Before(i)) <= Cardinality(Before(l))
        /\ Cardinality(Before(i)) # Cardinality(Before(l))
    BY <2>1, <2>2, FS_Subset
  <2> QED
    BY <1>1, <2>2, <2>3, <2>4
<1>4. ASSUME NEW i \in K, NEW l \in K, rank[i] = rank[l] PROVE i = l
  <2>1. rank[i] \in 0 .. c - 1
    BY <1>2
  <2> HIDE DEF rank
  <2>2. ~(i < l) /\ ~(l < i)
    BY <1>1, <1>3, <1>4, <2>1
  <2> QED
    BY <2>2
<1>5. \A k \in 0 .. c - 1 : \E i \in K : rank[i] = k
  <2>1. rank \in [K -> 0 .. c - 1]
    <3>1. \A i \in K : rank[i] \in 0 .. c - 1
      BY <1>2
    <3> QED
      BY <3>1
  <2>2. IsFiniteSet(0 .. c - 1) /\ Cardinality(0 .. c - 1) = c
    <3>1. c - 1 \in Int /\ 0 \in Int
      BY <1>1
    <3>2. /\ IsFiniteSet(0 .. c - 1)
          /\ Cardinality(0 .. c - 1) = IF 0 > c - 1 THEN 0 ELSE (c - 1) - 0 + 1
      BY <3>1, FS_Interval
    <3> QED
      BY <1>1, <3>2
  <2> HIDE DEF rank
  <2>3. rank \in Injection(K, 0 .. c - 1)
    BY <1>4, <2>1 DEF Injection, IsInjective
  <2>4. rank \in Surjection(K, 0 .. c - 1)
    BY <1>1, <2>2, <2>3, FS_Injection
  <2> QED
    BY <2>4 DEF Surjection
<1>6. \A i \in K : rank[i] = Cardinality({j \in K : j < i})
  OBVIOUS
<1> HIDE DEF rank, c
<1>7. \A i \in K : Cardinality({j \in K : j < i}) + 1 \in 1 .. c
  <2>1. \A i \in K : rank[i] \in 0 .. c - 1
    BY <1>2
  <2>2. \A k \in 0 .. c - 1 : k + 1 \in 1 .. c
    BY <1>1
  <2>3. \A i \in K : rank[i] + 1 \in 1 .. c
    BY <2>1, <2>2
  <2> QED
    BY <1>6, <2>3
<1>8. \A i, l \in K :
          Cardinality({j \in K : j < i}) = Cardinality({j \in K : j < l}) => i = l
  BY <1>4, <1>6
<1>9. \A k \in 1 .. c : \E i \in K : Cardinality({j \in K : j < i}) = k - 1
  <2>1. \A k \in 1 .. c : k - 1 \in 0 .. c - 1
    BY <1>1
  <2> QED
    BY <1>5, <1>6, <2>1
<1> QED
  BY <1>1, <1>7, <1>8, <1>9 DEF c

(* remove_if leaves the elements of the set, each as often as before.      *)
LEMMA PickedFacts ==
    ASSUME NEW T, NEW s \in Seq(T), NEW S
    PROVE  /\ Picked(s, S) \in Seq(T \cap S)
           /\ Range(Picked(s, S)) = Range(s) \cap S
           /\ IsInjective(s) => IsInjective(Picked(s, S))
<1> DEFINE n == Len(s)
           K == {i \in DOMAIN s : s[i] \in S}
           c == Cardinality(K)
           place(k) == CHOOSE i \in K : Cardinality({j \in K : j < i}) = k - 1
           r == Picked(s, S)
<1>1. n \in Nat /\ DOMAIN s = 1 .. n /\ \A i \in 1 .. n : s[i] \in T
  OBVIOUS
<1>2. K \in SUBSET (1 .. n) /\ \A i \in K : s[i] \in T \cap S
  BY <1>1
<1>3. r = [k \in 1 .. c |-> s[place(k)]]
  BY DEF Picked
<1>4. \A i \in DOMAIN s : s[i] \in S => i \in K
  OBVIOUS
<1> HIDE DEF K, r, n
<1>5. /\ c \in Nat
      /\ \A i \in K : Cardinality({j \in K : j < i}) + 1 \in 1 .. c
      /\ \A i, l \in K :
            Cardinality({j \in K : j < i}) = Cardinality({j \in K : j < l}) => i = l
      /\ \A k \in 1 .. c : \E i \in K : Cardinality({j \in K : j < i}) = k - 1
  BY <1>1, <1>2, PlacesCounted
<1>6. \A k \in 1 .. c : place(k) \in K /\ Cardinality({j \in K : j < place(k)}) = k - 1
  BY <1>5
<1>7. ASSUME NEW i \in K PROVE \E k \in 1 .. c : place(k) = i
  <2> DEFINE k == Cardinality({j \in K : j < i}) + 1
  <2>1. k \in 1 .. c
    BY <1>5
  <2>2. k - 1 = Cardinality({j \in K : j < i})
    <3>1. Cardinality({j \in K : j < i}) \in Int
      <4> DEFINE L == {j \in K : j < i}
      <4>1. L \in SUBSET (1 .. n)
        BY <1>2
      <4>2. IsFiniteSet(1 .. n)
        BY <1>1, FS_Interval
      <4> HIDE DEF L
      <4>3. IsFiniteSet(L)
        BY <4>1, <4>2, FS_Subset
      <4>4. Cardinality(L) \in Nat
        BY <4>3, FS_CardinalityType
      <4> QED
        BY <4>4 DEF L
    <3> QED
      BY <3>1
  <2> HIDE DEF k
  <2>3. place(k) \in K /\ Cardinality({j \in K : j < place(k)}) = k - 1
    BY <1>6, <2>1
  <2>4. place(k) = i
    BY <1>5, <2>2, <2>3
  <2> QED
    BY <2>1, <2>4
<1> HIDE DEF c
<1>8. r \in Seq(T \cap S) /\ DOMAIN r = 1 .. c
  <2>1. \A k \in 1 .. c : s[place(k)] \in T \cap S
    BY <1>2, <1>6
  <2> HIDE DEF place
  <2> QED
    BY <1>3, <1>5, <2>1
<1>9. Range(r) = Range(s) \cap S
  <2>1. Range(r) \subseteq Range(s) \cap S
    <3>1. ASSUME NEW k \in 1 .. c PROVE r[k] \in Range(s) \cap S
      <4>1. r[k] = s[place(k)] /\ place(k) \in K
        BY <1>3, <1>6
      <4> HIDE DEF place
      <4>2. place(k) \in DOMAIN s /\ s[place(k)] \in S
        BY <1>1, <1>2, <4>1
      <4> QED
        BY <4>1, <4>2 DEF Range
    <3> QED
      BY <1>8, <3>1 DEF Range
  <2>2. Range(s) \cap S \subseteq Range(r)
    <3>1. ASSUME NEW i \in DOMAIN s, s[i] \in S PROVE s[i] \in Range(r)
      <4>1. i \in K
        BY <1>4, <3>1
      <4>2. PICK k \in 1 .. c : place(k) = i
        BY <1>7, <4>1
      <4>3. r[k] = s[i]
        BY <1>3, <4>2
      <4> QED
        BY <1>8, <4>3 DEF Range
    <3> QED
      BY <3>1 DEF Range
  <2> QED
    BY <2>1, <2>2
<1>10. ASSUME IsInjective(s) PROVE IsInjective(r)
  <2>1. ASSUME NEW k \in 1 .. c, NEW l \in 1 .. c, r[k] = r[l] PROVE k = l
    <3>1. /\ r[k] = s[place(k)] /\ place(k) \in K
          /\ r[l] = s[place(l)] /\ place(l) \in K
      BY <1>3, <1>6
    <3>2. Cardinality({j \in K : j < place(k)}) = k - 1
          /\ Cardinality({j \in K : j < place(l)}) = l - 1
      BY <1>6
    <3> HIDE DEF place
    <3>3. place(k) = place(l)
      BY <1>1, <1>2, <1>10, <2>1, <3>1 DEF IsInjective
    <3>4. k - 1 = l - 1
      BY <3>2, <3>3
    <3> QED
      BY <3>4
  <2> QED
    BY <1>8, <2>1 DEF IsInjective
<1> QED
  BY <1>8, <1>9, <1>10 DEF r

(* What clear has to do in a turn of its loop. *)
TurnWork(left, policy) ==
    LET discards == Reverse(Picked(left, Tickets \ WaitsFor(policy)))
        waits    == Picked(left, WaitsFor(policy))
    IN [i \in DOMAIN discards |-> [call |-> "discard", ticket |-> discards[i]]]
       \o [i \in DOMAIN waits |-> [call |-> "wait", ticket |-> waits[i]]]

(* It names only tickets that are left, and discards no NON_CANCELABLE one.*)
LEMMA WorkOfTurn ==
    ASSUME NEW W \in SUBSET Tickets, NEW left \in Seq(W), NEW policy
    PROVE  LET work == TurnWork(left, policy)
           IN /\ work \in Seq([call : {"discard", "wait"}, ticket : Tickets])
              /\ \A i \in 1 .. Len(work) :
                    /\ work[i].ticket \in W
                    /\ work[i].call = "discard" => work[i].ticket \notin NonCancelable
<1> DEFINE D == W \cap (Tickets \ WaitsFor(policy))
           P == Picked(left, Tickets \ WaitsFor(policy))
           discards == Reverse(P)
           waits == Picked(left, WaitsFor(policy))
           a == [i \in DOMAIN discards |-> [call |-> "discard", ticket |-> discards[i]]]
           b == [i \in DOMAIN waits |-> [call |-> "wait", ticket |-> waits[i]]]
           Item == {r \in [call : {"discard", "wait"}, ticket : Tickets] :
                      /\ r.ticket \in W
                      /\ r.call = "discard" => r.ticket \notin NonCancelable}
<1>1. \A t \in D : t \in W /\ t \in Tickets /\ t \notin NonCancelable
  BY NonCancelableAssumption DEF WaitsFor
<1>2. P \in Seq(D) /\ waits \in Seq(W)
  <2>1. waits \in Seq(W \cap WaitsFor(policy))
    BY PickedFacts
  <2> HIDE DEF waits
  <2>2. waits \in Seq(W)
    BY <2>1
  <2> QED
    BY <2>2, PickedFacts
<1> HIDE DEF P, waits, D
<1>3. discards \in Seq(D)
  <2>1. Len(P) \in Nat /\ \A i \in 1 .. Len(P) : (Len(P) - i) + 1 \in 1 .. Len(P)
    BY <1>2
  <2>2. \A i \in 1 .. Len(P) : P[(Len(P) - i) + 1] \in D
    BY <1>2, <2>1
  <2>3. discards = [i \in 1 .. Len(P) |-> P[(Len(P) - i) + 1]]
    BY DEF Reverse
  <2> QED
    BY <2>1, <2>2, <2>3
<1> HIDE DEF discards
<1>4. a \in Seq(Item)
  <2>1. Len(discards) \in Nat /\ DOMAIN discards = 1 .. Len(discards)
        /\ \A i \in 1 .. Len(discards) : discards[i] \in D
    BY <1>3
  <2>2. \A i \in 1 .. Len(discards) : [call |-> "discard", ticket |-> discards[i]] \in Item
    BY <1>1, <2>1
  <2> HIDE DEF Item
  <2> QED
    BY <2>1, <2>2
<1>5. b \in Seq(Item)
  <2>1. Len(waits) \in Nat /\ DOMAIN waits = 1 .. Len(waits)
        /\ \A i \in 1 .. Len(waits) : waits[i] \in W
    BY <1>2
  <2>2. \A i \in 1 .. Len(waits) : [call |-> "wait", ticket |-> waits[i]] \in Item
    BY <2>1
  <2> HIDE DEF Item
  <2> QED
    BY <2>1, <2>2
<1>6. \A r \in Item : /\ r \in [call : {"discard", "wait"}, ticket : Tickets]
                      /\ r.ticket \in W
                      /\ r.call = "discard" => r.ticket \notin NonCancelable
  OBVIOUS
<1> HIDE DEF a, b, Item
<1>7. a \o b \in Seq(Item)
  BY <1>4, <1>5
<1>8. PICK work : work = a \o b
  OBVIOUS
<1>9. work \in Seq(Item) /\ \A i \in 1 .. Len(work) : work[i] \in Item
  BY <1>7, <1>8
<1>10. /\ work \in Seq([call : {"discard", "wait"}, ticket : Tickets])
       /\ \A i \in 1 .. Len(work) :
             /\ work[i].ticket \in W
             /\ work[i].call = "discard" => work[i].ticket \notin NonCancelable
  <2> DEFINE R == [call : {"discard", "wait"}, ticket : Tickets]
  <2>1. \A r \in Item : r \in R
    BY <1>6
  <2> HIDE DEF R
  <2>2. work \in Seq(R)
    BY <1>9, <2>1
  <2>3. \A i \in 1 .. Len(work) :
           /\ work[i].ticket \in W
           /\ work[i].call = "discard" => work[i].ticket \notin NonCancelable
    BY <1>6, <1>9
  <2> QED
    BY <2>2, <2>3 DEF R
<1>11. TurnWork(left, policy) = work
  BY <1>8 DEF TurnWork, a, b, discards, waits, P
<1> QED
  BY <1>10, <1>11

(* A function runs only while its ticket is on the stack. *)
LEMMA RunIsExecuting ==
    ASSUME ExecutorIInv, NEW u \in Threads, NEW i \in 1 .. Len(frames[u]),
           frames[u][i].at = "run"
    PROVE  frames[u][i].ticket \in Executing \cap Range(tickets)
<1>1. u \notin Clients
  <2>1. ASSUME u \in Clients PROVE FALSE
    <3>1. ClientCalls(u)
      BY <2>1 DEF ExecutorIInv
    <3>2. Len(frames[u]) \in Nat
      BY FactsOfInv, FramesOfThread
    <3>3. i = 1 \/ i = 2
      BY <3>1, <3>2 DEF ClientCalls
    <3> QED
      BY <3>1, <3>3 DEF ClientCalls
  <2> QED
    BY <2>1
<1>2. u \in InLoop
  <2>1. frames[u] # <<>>
    BY FactsOfInv, FramesOfThread
  <2> QED
    BY <1>1, <2>1 DEF InLoop, Threads
<1>3. Stacked(frames[u], current_ticket_stack) /\ current_ticket_stack \in Seq(Tickets)
  BY <1>2, TypesOfInv DEF ExecutorIInv, StackOfFrames
<1>4. PICK a \in 1 .. Len(current_ticket_stack) : frames[u][i].ticket = current_ticket_stack[a]
  BY <1>3 DEF Stacked, Begun
<1>5. frames[u][i].ticket \in Executing
  BY <1>3, <1>4 DEF Executing, Range
<1>6. FrameHolds(frames[u][i])
  BY DEF ExecutorIInv, FramesHold
<1> QED
  BY <1>5, <1>6 DEF FrameHolds

(* clear at the head of its loop.  When the shutdown of a client finds     *)
(* nothing left, nothing runs and nothing is queued.                       *)
LEMMA ClearLooksKeeps ==
    ASSUME ExecutorIInv, NEW th \in Threads, ClearLooks(th)
    PROVE  ExecutorIInv'
<1> DEFINE n == Len(frames[th])
           f == Top(th)
           left == Picked(tickets', Tickets \ f.closed)
           W == was_scheduled \cap registry
<1>1. frames[th] # <<>> /\ f.at = "clear" /\ In(th, "clear")
  BY DEF ClearLooks, In
<1>2. /\ n \in Nat /\ n >= 1 /\ f = frames[th][n] /\ ~Begun(f) /\ ~Outermost(f)
      /\ f \in ExecutorFrame /\ FrameHolds(f)
      /\ f.policy \in Policies /\ f.shutdown \in BOOLEAN /\ f.closed \in SUBSET Tickets
      /\ th \in Clients => n = 1
  BY <1>1, TopFacts DEF ExecutorFrame, Frame, Begun, Outermost
<1>3. /\ tickets' = Picked(tickets, registry)
      /\ UNCHANGED <<pool_tasks, worker, pool_close>>
      /\ UNCHANGED <<registry, processing_queue, was_scheduled, current_ticket_stack, created,
                     stop_processing_requested, is_scheduled, processing_thread_id, completed>>
      /\ UNCHANGED <<closing, started, cancelled, calls>>
  BY DEF ClearLooks, poolVars, ticketVars
<1>4. tickets \in Seq(was_scheduled) /\ IsInjective(tickets)
  BY TypesOfInv
<1>5. tickets' \in Seq(W) /\ IsInjective(tickets') /\ Range(tickets') = Range(tickets) \cap registry
  BY <1>3, <1>4, PickedFacts
<1> HIDE DEF f, W, left
<1>6. left \in Seq(W) /\ Range(left) = Range(tickets') \cap (Tickets \ f.closed)
  <2>1. /\ left \in Seq(W \cap (Tickets \ f.closed))
        /\ Range(left) = Range(tickets') \cap (Tickets \ f.closed)
    <3>1. PICK s : s = tickets'
      OBVIOUS
    <3>2. s \in Seq(W)
      BY <1>5, <3>1
    <3>3. /\ Picked(s, Tickets \ f.closed) \in Seq(W \cap (Tickets \ f.closed))
          /\ Range(Picked(s, Tickets \ f.closed)) = Range(s) \cap (Tickets \ f.closed)
      BY <3>2, PickedFacts
    <3> QED
      BY <3>1, <3>3 DEF left
  <2> QED
    BY <2>1
<1>7. LoopData /\ Range(tickets) \subseteq Tickets
  BY <1>3, <1>4, TypesOfInv DEF LoopData, Range
<1>8. TicketPlaces'
  BY <1>3, <1>5 DEF ExecutorIInv, TicketPlaces, Queued, Executing
<1>9. ASSUME NEW k, NEW g \in ExecutorFrame, Kept(th, k, g), FrameHolds(g)
      PROVE  FrameHolds(g)'
  <2>1. g.at = "run" => g.ticket \in Range(tickets')
    <3> SUFFICES ASSUME g.at = "run" PROVE g.ticket \in Range(tickets')
      OBVIOUS
    <3>1. PICK u \in Threads : \E i \in 1 .. Len(frames[u]) : g = frames[u][i]
      BY <1>9 DEF Kept
    <3>2. PICK i \in 1 .. Len(frames[u]) : g = frames[u][i]
      BY <3>1
    <3>3. g.ticket \in Executing \cap Range(tickets)
      BY <3>2, RunIsExecuting
    <3> QED
      BY <1>5, <3>3 DEF ExecutorIInv, TicketPlaces
  <2> QED
    BY <1>3, <1>9, <2>1 DEF FrameHolds
<1>10. ExecutorFrames' /\ shutDown' \in BOOLEAN => ExecutorTypes'
  <2>1. ThreadPoolTypeOK'
    BY <1>3, TypesOfInv DEF ThreadPoolTypeOK
  <2>2. tickets' \in Seq(was_scheduled')
    <3>1. tickets' \in Seq(was_scheduled)
      BY <1>5 DEF W
    <3> QED
      BY <1>3, <3>1
  <2> QED
    BY <1>3, <1>5, <2>1, <2>2, TypesOfInv
       DEF ExecutorIInv, ExecutorTypes, ExecutorTypeOK, ExecutorFrames
<1>11. CASE left = <<>>
  <2>1. Returns(th) /\ shutDown' = (shutDown \/ (f.shutdown /\ th \in Clients))
    BY <1>11 DEF ClearLooks, left, f
  <2>2. Rewrites(th, n - 1, n - 1) /\ CallsAndLoop(th) /\ ~Posting(th)'
    BY <1>1, <1>2, <1>3, <2>1, GoesBack DEF n, f
  <2> HIDE DEF n
  <2>3. \A i \in 1 .. n - 1 : ~(i > n - 1)
    BY <1>2
  <2>4. StackOfFrames'
    <3>1. \A i \in 1 .. n : i > n - 1 => ~Begun(frames[th][i])
      <4>1. \A i \in 1 .. n : i > n - 1 => i = n
        BY <1>2
      <4> QED
        BY <1>2, <4>1
    <3>2. BegunStays(th, n - 1, n - 1)
      BY <2>3, <3>1 DEF BegunStays, n
    <3> QED
      BY <1>3, <2>2, <3>2, StackStays DEF CallsAndLoop
  <2>5. FramesHold'
    BY <1>9, <2>2, <2>3, FramesHoldAfter
  <2>6. PostedOnce'
    BY <2>2, PostedStays
  <2>7. \A c \in Clients : ClosedAreGone(c)'
    <3>1. \A c \in Clients : c # th => ClosedAreGone(c)'
      BY <1>3, <2>2, ClosedStays
    <3>2. th \in Clients => ClosedAreGone(th)'
      BY <1>1, <1>3, <2>2, ClosedAfterReturn DEF n, f
    <3> QED
      BY <3>1, <3>2
  <2>8. AfterShutdown'
    <3>1. CASE shutDown' = shutDown
      <4>1. shutDown => processing_queue' = <<>>
        BY <1>3 DEF ExecutorIInv, AfterShutdown
      <4> QED
        BY <1>3, <2>2, <2>3, <3>1, <4>1, AfterStays
    <3>2. CASE f.shutdown /\ th \in Clients
      <4>1. Range(tickets) \cap registry = {}
        <5>1. f.closed \cap registry = {}
          BY <1>1, <1>2, <3>2 DEF ExecutorIInv, ClosedAreGone, n
        <5>2. Range(left) = {}
          BY <1>11 DEF Range
        <5> QED
          BY <1>5, <1>6, <1>7, <5>1, <5>2
      <4>2. processing_queue = <<>>
        <5>1. Queued = {}
          BY <4>1 DEF ExecutorIInv, TicketPlaces
        <5>2. processing_queue \in Seq(Tickets)
          BY TypesOfInv
        <5>3. Len(processing_queue) = 0
          <6>1. \A i \in 1 .. Len(processing_queue) : processing_queue[i] \in Queued
            BY <5>2 DEF Queued, Range
          <6>2. Len(processing_queue) \in Nat
            BY <5>2
          <6>3. Len(processing_queue) >= 1 => 1 \in 1 .. Len(processing_queue)
            BY <6>2
          <6> QED
            BY <5>1, <6>1, <6>2, <6>3
        <5> QED
          BY <5>2, <5>3, EmptySeq
      <4>3. \A u \in Threads : \A i \in 1 .. Len(frames'[u]) : frames'[u][i].at # "run"
        <5>1. ASSUME NEW u \in Threads, NEW i \in 1 .. Len(frames'[u])
              PROVE  i \in 1 .. Len(frames[u]) /\ frames'[u][i] = frames[u][i]
          <6>1. CASE u = th
            BY <1>2, <2>2, <6>1 DEF Rewrites, n
          <6>2. CASE u # th
            BY <2>2, <6>2 DEF Rewrites
          <6> QED
            BY <6>1, <6>2
        <5>2. \A u \in Threads : \A i \in 1 .. Len(frames[u]) : frames[u][i].at # "run"
          BY <4>1, RunIsExecuting DEF ExecutorIInv, TicketPlaces
        <5> QED
          BY <5>1, <5>2
      <4>4. was_scheduled \cap NonCancelable \subseteq started \cup cancelled
        <5>1. Queued = {}
          BY <4>2 DEF Queued, Range
        <5> QED
          BY <5>1 DEF ExecutorIInv, TicketPlaces
      <4>5. closing
        BY <1>1, <1>2, <3>2 DEF FrameHolds
      <4> QED
        BY <1>3, <4>2, <4>3, <4>4, <4>5 DEF AfterShutdown
    <3> QED
      BY <2>1, <3>1, <3>2, TypesOfInv
  <2>9. ExecutorTypes'
    BY <1>2, <1>10, <2>1, <2>2, TypesOfInv DEF Rewrites
  <2> QED
    BY <1>8, <2>2, <2>4, <2>5, <2>6, <2>7, <2>8, <2>9 DEF ExecutorIInv, CallsAndLoop
<1>12. CASE left # <<>>
  <2> DEFINE work == TurnWork(left, f.policy)
  <2>1. GoesTo(th, ClearFrame("clearing", f, work, f.closed)) /\ UNCHANGED shutDown
    BY <1>12 DEF ClearLooks, TurnWork, left, f
  <2>2. /\ work \in Seq([call : {"discard", "wait"}, ticket : Tickets])
        /\ \A i \in 1 .. Len(work) :
              /\ work[i].ticket \in W
              /\ work[i].call = "discard" => work[i].ticket \notin NonCancelable
    <3>1. W \in SUBSET Tickets
      BY TypesOfInv DEF W
    <3> QED
      BY <1>6, <3>1, WorkOfTurn
  <2> HIDE DEF work
  <2>3. PICK x : x = ClearFrame("clearing", f, work, f.closed)
    OBVIOUS
  <2>4. /\ x \in ExecutorFrame /\ x.at = "clearing" /\ x.work = work
        /\ x.closed = f.closed /\ x.shutdown = f.shutdown
    BY <1>2, <2>2, <2>3 DEF ClearFrame, ExecutorFrame
  <2>5. ~Begun(x) /\ ~Outermost(x) /\ x.at \in ClientCallSet
    BY <2>4 DEF Begun, Outermost, ClientCallSet
  <2>6. FrameHolds(x)'
    <3>1. /\ \A i \in 1 .. Len(x.work) : x.work[i].ticket \in was_scheduled'
          /\ \A i \in 1 .. Len(x.work) :
                x.work[i].call = "discard" => x.work[i].ticket \notin NonCancelable
      BY <1>3, <2>2, <2>4 DEF W
    <3>2. (x.shutdown => closing') /\ x.closed \subseteq was_scheduled'
      BY <1>1, <1>2, <1>3, <2>4 DEF FrameHolds
    <3> QED
      BY <2>4, <3>1, <3>2 DEF FrameHolds
  <2>7. GoesTo(th, x)
    BY <2>1, <2>3
  <2>8. th \in Clients => Len(frames[th]) # 2
    <3>1. th \in Clients => n = 1
      BY <1>2
    <3> HIDE DEF n
    <3>2. th \in Clients => n # 2
      BY <3>1
    <3> QED
      BY <3>2 DEF n
  <2>9. /\ Rewrites(th, n - 1, n) /\ frames'[th][n] = x /\ Top(th)' = x /\ CallsAndLoop(th)
    <3>1. x.at \notin {"posted", "add_task", "idle", "join"}
      BY <2>4
    <3> QED
      BY <1>1, <1>2, <1>7, <2>4, <2>5, <2>7, <2>8, <3>1, GoesOn DEF f
  <2> HIDE DEF n
  <2>10. \A i \in 1 .. n : i > n - 1 => i = n
    BY <1>2
  <2>11. StackOfFrames'
    <3>1. BegunStays(th, n - 1, n)
      BY <1>2, <2>5, <2>9, <2>10 DEF BegunStays, n
    <3> QED
      BY <1>3, <2>9, <3>1, StackStays DEF CallsAndLoop
  <2>12. FramesHold'
    <3>1. \A i \in 1 .. n : i > n - 1 => frames'[th][i] = x
      BY <2>9, <2>10
    <3>2. \A i \in 1 .. n : i > n - 1 => FrameHolds(frames[th][i])'
      BY <2>6, <3>1, Zenon DEF FrameHolds
    <3> QED
      BY <1>9, <2>9, <3>2, FramesHoldAfter
  <2>13. PostedOnce'
    <3>1. ~Posting(th)'
      BY <2>4, <2>9 DEF Posting, In
    <3> QED
      BY <2>9, <3>1, PostedStays
  <2>14. \A c \in Clients : ClosedAreGone(c)'
    <3>1. \A c \in Clients : c # th => ClosedAreGone(c)'
      BY <1>3, <2>9, ClosedStays
    <3>2. ASSUME th \in Clients PROVE ClosedAreGone(th)'
      <4>1. n = 1 /\ frames[th][1] = f /\ frames'[th][1] = x
        BY <1>2, <2>9, <3>2
      <4>2. f.closed \cap registry = {}
        BY <1>1, <3>2, <4>1 DEF ExecutorIInv, ClosedAreGone, n
      <4>3. frames'[th][1].closed \cap registry' = {}
        BY <1>3, <2>4, <4>1, <4>2
      <4> QED
        BY <4>3 DEF ClosedAreGone
    <3> QED
      BY <3>1, <3>2
  <2>15. AfterShutdown'
    <3>1. \A i \in 1 .. n : i > n - 1 /\ shutDown => frames'[th][i].at # "run"
      BY <2>4, <2>9, <2>10
    <3>2. shutDown => processing_queue' = <<>>
      BY <1>3 DEF ExecutorIInv, AfterShutdown
    <3> QED
      BY <1>3, <2>1, <2>9, <3>1, <3>2, AfterStays
  <2>16. ExecutorTypes'
    BY <1>10, <2>1, <2>9, TypesOfInv DEF Rewrites
  <2> QED
    BY <1>8, <2>9, <2>11, <2>12, <2>13, <2>14, <2>15, <2>16 DEF ExecutorIInv, CallsAndLoop
<1> QED
  BY <1>11, <1>12

-----------------------------------------------------------------------------
(* The executor *)

(* The invariant holds of the new executor, ...                          *)
LEMMA InitExecutor == ASSUME ExecutorInit PROVE ExecutorIInv
<1> USE ThreadsAssumption, NoTaskAssumption, MaxCallsAssumption
<1>1. /\ registry = {} /\ processing_queue = <<>> /\ was_scheduled = {}
      /\ current_ticket_stack = <<>> /\ stop_processing_requested = FALSE
      /\ is_scheduled = FALSE /\ processing_thread_id = NoThread /\ completed = {}
      /\ created = {} /\ frames = [th \in Threads |-> <<>>]
      /\ pool_tasks = <<>> /\ pool_close = FALSE
      /\ worker = [w \in Workers |-> [at |-> "check", task |-> NoTask]]
      /\ tickets = <<>> /\ closing = FALSE /\ started = {} /\ cancelled = {}
      /\ shutDown = FALSE /\ calls = 0
  BY DEF ExecutorInit, Init, ThreadPoolInit
<1>2. \A th \in Threads : frames[th] = <<>> /\ Len(frames[th]) = 0
  BY <1>1
<1>3. \A th \in Threads : \A i \in 1 .. Len(frames[th]) : FALSE
  BY <1>2
<1>4. ExecutorTypes
  <2>1. ThreadPoolTypeOK
    <3>1. [at |-> "check", task |-> NoTask] \in WorkerState
      BY DEF WorkerState
    <3>2. worker \in [Workers -> WorkerState]
      BY <1>1, <3>1
    <3>3. <<>> \in Seq(PoolTasks)
      BY EmptySeq
    <3>4. pool_tasks \in Seq(PoolTasks)
      BY <1>1, <3>3, Zenon
    <3>5. pool_close \in BOOLEAN
      BY <1>1, Zenon
    <3> QED
      BY <3>2, <3>4, <3>5, Zenon DEF ThreadPoolTypeOK
  <2>2. frames \in [Threads -> Seq(ExecutorFrame)]
    <3>1. <<>> \in Seq(ExecutorFrame)
      OBVIOUS
    <3> QED
      BY <1>1, <3>1
  <2>3. tickets \in Seq(was_scheduled) /\ IsInjective(tickets)
        /\ processing_queue \in Seq(Tickets) /\ current_ticket_stack \in Seq(Tickets)
    BY <1>1 DEF IsInjective
  <2>4. calls \in 0 .. MaxCalls
    BY <1>1
  <2> QED
    BY <1>1, <2>1, <2>2, <2>3, <2>4 DEF ExecutorTypes, ExecutorTypeOK, Threads
<1>5. \A c \in Clients : ClientCalls(c) /\ ClosedAreGone(c)
  BY <1>2 DEF ClientCalls, ClosedAreGone, Threads
<1>6. \A w \in Workers : WorkerCalls(w)
  <2> SUFFICES ASSUME NEW w \in Workers PROVE WorkerCalls(w)
    OBVIOUS
  <2>1. Len(frames[w]) = 0
    BY <1>2 DEF Threads
  <2>2. 1 .. Len(frames[w]) = {} /\ 1 .. Len(frames[w]) - 1 = {}
    BY <2>1
  <2> QED
    BY <2>2, Zenon DEF WorkerCalls
<1>7. InLoop = {} /\ \A c \in Clients : ~Adding(c)
  BY <1>2 DEF InLoop, Adding, In, Threads
<1>8. LoopIsOne
  <2>1. \A w \in Workers : frames[w] = <<>> /\ worker[w].at = "check"
    BY <1>1, <1>2 DEF Threads
  <2> QED
    BY <1>1, <1>7, <2>1 DEF LoopIsOne
<1>9. StackOfFrames
  BY <1>1, <1>7 DEF StackOfFrames
<1>10. TicketPlaces
  BY <1>1 DEF TicketPlaces, Queued, Executing, Range, IsInjective
<1>11. FramesHold
  BY <1>3 DEF FramesHold
<1>12. PostedOnce
  BY <1>2 DEF PostedOnce, Posting, In
<1>13. AfterShutdown
  BY <1>1 DEF AfterShutdown
<1> QED
  BY <1>4, <1>5, <1>6, <1>8, <1>9, <1>10, <1>11, <1>12, <1>13 DEF ExecutorIInv

(* ... and every step keeps it, of the queue and of the executor.        *)
LEMMA NextExecutor == ASSUME ExecutorIInv, [ExecutorNext]_allVars PROVE ExecutorIInv'
<1>1. ASSUME NEW th \in Threads, ExecutorStep(th) PROVE ExecutorIInv'
  <2>1. CASE QueueStep(th)
    BY <2>1, QueueStepKeeps
  <2>2. CASE ExecuteCreates(th) \/ ExecutePosts(th) \/ ExecuteReturns(th) \/ ExecuteDiscards(th)
    BY <2>2, ExecuteCreatesKeeps, ExecutePostsKeeps, ExecuteReturnsKeeps, ExecuteDiscardsKeeps
  <2>3. CASE ClearLooks(th) \/ ClearDiscards(th) \/ ClearWaits(th) \/ ClearLoops(th)
    BY <2>3, ClearLooksKeeps, ClearDiscardsKeeps, ClearWaitsKeeps, ClearLoopsKeeps
  <2> QED
    BY <1>1, <2>1, <2>2, <2>3, Zenon DEF ExecutorStep
<1>2. ASSUME NEW th \in Threads, ExecutorCall(th) PROVE ExecutorIInv'
  <2>1. ASSUME NEW t \in Tickets, Execute(th, t) \/ OperationWaits(th, t) \/ OperationCancels(th, t)
        PROVE  ExecutorIInv'
    BY <2>1, ExecuteKeeps, OperationWaitsKeeps, OperationCancelsKeeps
  <2>2. ASSUME NEW policy \in Policies, CallClear(th, policy) PROVE ExecutorIInv'
    BY <2>2, CallClearKeeps
  <2>3. CASE Shutdown(th)
    BY <2>3, ShutdownKeeps
  <2> QED
    BY <1>2, <2>1, <2>2, <2>3, Zenon DEF ExecutorCall
<1>3. ASSUME NEW w \in Workers, FunctionReturns(w) PROVE ExecutorIInv'
  BY <1>3, FunctionReturnsKeeps
<1>4. CASE UNCHANGED allVars
  <2> USE <1>4
  <2>1. /\ UNCHANGED <<pool_tasks, pool_close, worker, frames>>
        /\ UNCHANGED <<registry, processing_queue, was_scheduled, current_ticket_stack, created,
                       stop_processing_requested, is_scheduled, processing_thread_id, completed>>
        /\ UNCHANGED <<tickets, closing, started, cancelled, shutDown, calls>>
    BY DEF allVars, vars, poolVars, queueVars, ticketVars, executorVars
  <2>2. ExecutorTypes'
    BY <2>1 DEF ExecutorIInv, ExecutorTypes, ExecutorTypeOK, ThreadPoolTypeOK
  <2>3. \A c \in Clients : ClientCalls(c)' /\ ClosedAreGone(c)'
    BY <2>1 DEF ExecutorIInv, ClientCalls, ClosedAreGone
  <2>4. \A w \in Workers : WorkerCalls(w)'
    BY <2>1 DEF ExecutorIInv, WorkerCalls, Outermost
  <2>5. LoopIsOne'
    BY <2>1 DEF ExecutorIInv, LoopIsOne, InLoop, Adding, In, Top
  <2>6. StackOfFrames'
    BY <2>1 DEF ExecutorIInv, StackOfFrames, Stacked, Begun, InLoop
  <2>7. TicketPlaces' /\ AfterShutdown'
    BY <2>1 DEF ExecutorIInv, TicketPlaces, Queued, Executing, AfterShutdown
  <2>8. FramesHold' /\ PostedOnce'
    BY <2>1 DEF ExecutorIInv, FramesHold, FrameHolds, PostedOnce, Posting, In, Top
  <2> QED
    BY <2>2, <2>3, <2>4, <2>5, <2>6, <2>7, <2>8 DEF ExecutorIInv
<1> QED
  BY <1>1, <1>2, <1>3, <1>4, Zenon DEF ExecutorNext

(* The invariant, whatever the clients and the functions call. *)
THEOREM ExecutorInvariance == ExecutorSpec => []ExecutorIInv
<1>1. ExecutorInit => ExecutorIInv
  BY InitExecutor
<1>2. ExecutorIInv /\ [ExecutorNext]_allVars => ExecutorIInv'
  BY NextExecutor
<1> QED
  BY <1>1, <1>2, PTL DEF ExecutorSpec

(***************************************************************************)
(* shutdown "stops all incoming requests processing, discards cancelable   *)
(* requests and waits other requests to be executed" (QueueExecutor.h:71): *)
(* once it has returned to a client no function runs or is queued, and     *)
(* every NON_CANCELABLE one was started or cancelled.                      *)
(***************************************************************************)
THEOREM ExecutorKeepsPromise == ExecutorSpec => []ShutdownKeepsPromise
<1>1. ExecutorIInv => ShutdownKeepsPromise
  <2> SUFFICES ASSUME ExecutorIInv PROVE ShutdownKeepsPromise
    OBVIOUS
  <2>1. ExecutorTypeOK
    BY DEF ExecutorIInv, ExecutorTypes
  <2>2. \A th \in Threads : DOMAIN frames[th] = 1 .. Len(frames[th])
    <3>1. \A th \in Threads : frames[th] \in Seq(ExecutorFrame)
      BY FactsOfInv, FramesOfThread
    <3> QED
      BY <3>1
  <2>3. ShutdownIsFinal
    BY <2>2 DEF ExecutorIInv, AfterShutdown, ShutdownIsFinal
  <2>4. NonCancelableFunctionsRun
    BY DEF ExecutorIInv, AfterShutdown, NonCancelableFunctionsRun
  <2> QED
    BY <2>1, <2>3, <2>4 DEF ShutdownKeepsPromise
<1> QED
  BY <1>1, ExecutorInvariance, PTL

(***************************************************************************)
(* A ticket that has not begun when QueueExecutorOperation::cancel or      *)
(* clear discards it never begins: started grows by what FetchTicket takes *)
(* from the queue, and that is registered.                                 *)
(***************************************************************************)
THEOREM DiscardedStaysUnstarted == ExecutorSpec => DiscardedNeverStarts
<1>1. ASSUME ExecutorIInv, [ExecutorNext]_allVars, NEW t \in created \ (registry \cup started)
      PROVE  t \notin started'
  <2>1. Executing' \subseteq registry' /\ t \notin registry'
    <3>1. Executing' \subseteq registry'
      BY <1>1, NextExecutor DEF ExecutorIInv, TicketPlaces
    <3>2. registry' \cap created \subseteq registry
      <4>1. ASSUME NEW th \in Threads, ExecutorStep(th) PROVE registry' \cap created \subseteq registry
        <5>1. CASE QueueStep(th)
          <6>1. registry' \subseteq registry
            BY <5>1 DEF QueueStep, Step, ScheduleProcessingLoop, ResolveDiscarded, WaitTicket,
                        FutureReady, StopReturns, JoinReturns, IdleWorker, StartLoop,
                        SetProcessingThread, LoopCondition, FetchTicket, FetchStopped, Unstack,
                        Complete, LeaveLoop, ticketVars, queueVars
          <6> QED
            BY <6>1
        <5>2. CASE ExecuteCreates(th)
          <6>1. frames[th] # <<>> /\ Top(th).at = "create"
            BY <5>2 DEF ExecuteCreates, In
          <6>2. Top(th).ticket \notin created
            BY <1>1, <6>1, TopFacts DEF FrameHolds
          <6> QED
            BY <5>2, <6>2 DEF ExecuteCreates
        <5>3. CASE ExecutePosts(th) \/ ExecuteReturns(th) \/ ExecuteDiscards(th)
          BY <5>3 DEF ExecutePosts, ExecuteReturns, ExecuteDiscards, ticketVars
        <5>4. CASE ClearLooks(th) \/ ClearDiscards(th) \/ ClearWaits(th) \/ ClearLoops(th)
          <6>1. registry' \subseteq registry
            BY <5>4 DEF ClearLooks, ClearDiscards, ClearWaits, ClearLoops, ticketVars
          <6> QED
            BY <6>1
        <5> QED
          BY <4>1, <5>1, <5>2, <5>3, <5>4, Zenon DEF ExecutorStep
      <4>2. ASSUME NEW th \in Threads, ExecutorCall(th) PROVE registry' \cap created \subseteq registry
        BY <4>2 DEF ExecutorCall, Execute, OperationWaits, CallWaitTicket, OperationCancels,
                    DiscardTicket, CallClear, Shutdown, ticketVars
      <4>3. ASSUME NEW w \in Workers, FunctionReturns(w) PROVE registry' \cap created \subseteq registry
        BY <4>3 DEF FunctionReturns, InvocableReturns, ticketVars
      <4>4. CASE UNCHANGED allVars
        BY <4>4 DEF allVars, vars, queueVars, ticketVars
      <4> QED
        BY <1>1, <4>1, <4>2, <4>3, <4>4, Zenon DEF ExecutorNext
    <3> QED
      BY <3>1, <3>2
  <2>2. started' \subseteq started \cup Executing'
    <3>1. ASSUME NEW th \in Threads, ExecutorStep(th) PROVE started' \subseteq started \cup Executing'
      BY <3>1 DEF ExecutorStep, QueueStep, Executing, ExecuteCreates, ExecutePosts, ExecuteReturns,
                  ExecuteDiscards, ClearLooks, ClearDiscards, ClearWaits, ClearLoops,
                  executorVars, historyVars
    <3>2. ASSUME NEW th \in Threads, ExecutorCall(th) PROVE started' \subseteq started \cup Executing'
      BY <3>2 DEF ExecutorCall, Execute, OperationWaits, OperationCancels, CallClear, Shutdown,
                  executorVars
    <3>3. ASSUME NEW w \in Workers, FunctionReturns(w) PROVE started' \subseteq started \cup Executing'
      BY <3>3 DEF FunctionReturns, historyVars
    <3>4. CASE UNCHANGED allVars
      BY <3>4 DEF allVars, executorVars
    <3> QED
      BY <1>1, <3>1, <3>2, <3>3, <3>4, Zenon DEF ExecutorNext
  <2> QED
    BY <2>1, <2>2
<1>2. ExecutorIInv /\ [ExecutorNext]_allVars =>
          [\A t \in Tickets : t \in created \ (registry \cup started) => t \notin started']_allVars
  BY <1>1
<1> QED
  BY <1>2, ExecutorInvariance, PTL DEF ExecutorSpec, DiscardedNeverStarts
=============================================================================
