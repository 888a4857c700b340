--------------------------- MODULE ThreadPoolCpp ---------------------------
(***************************************************************************)
(* The std::thread pool of ThreadPoolCpp/ThreadPool.h.  Its owner enqueues *)
(* tasks and at last destroys it; a task may enqueue tasks of its own      *)
(* while it runs, before or after the destructor has started.              *)
(*                                                                         *)
(* tasks and stop are read and written with queue_mutex held and with      *)
(* nothing else in between, so every critical section is one step.  The    *)
(* notifications come after the mutex is released: steps of their own.     *)
(***************************************************************************)
EXTENDS CondVar, Naturals, Sequences, FiniteSets

CONSTANTS
  Workers,
  Owner,     \* the thread whose stack the pool lives on
  MaxTasks   \* bound on the calls of enqueue

ASSUME PoolAssumption ==
  /\ Owner \notin Workers /\ Workers # {} /\ IsFiniteSet(Workers)
  /\ MaxTasks \in Nat

VARIABLES
  tasks,     \* the queue; the n-th call of enqueue carries task n
  stop,
  pc,        \* where each thread is
  current,   \* the task a worker has moved out of the queue, 0 for none
  calls,     \* number of calls of enqueue so far
  refused,   \* tasks whose enqueue threw
  done       \* tasks that have returned

vars == <<tasks, stop, pc, current, calls, refused, done, waiters>>

Threads == Workers \union {Owner}
Goto(t, label) == pc' = [pc EXCEPT ![t] = label]

Init ==
  /\ tasks = <<>> /\ stop = FALSE /\ waiters = {}
  /\ pc = [t \in Threads |-> IF t = Owner THEN "open" ELSE "idle"]
  /\ current = [w \in Workers |-> 0]
  /\ calls = 0 /\ refused = {} /\ done = {}
-----------------------------------------------------------------------------
(* The loop of a worker.  condition.wait(lock, pred) tests pred before it  *)
(* sleeps and each time it wakes, so a worker that is "idle" and not asleep *)
(* is at that test, with or without a wait behind it.                      *)

Awake(w) == pc[w] = "idle" /\ w \notin waiters

Wait(w) ==
  /\ Awake(w)
  /\ ~stop /\ tasks = <<>>
  /\ Sleeps(w)
  /\ UNCHANGED <<tasks, stop, pc, current, calls, refused, done>>

\* "if (stop) return": what is still queued is abandoned.
Return_OnStop(w) ==
  /\ Awake(w)
  /\ stop
  /\ Goto(w, "exited")
  /\ UNCHANGED <<tasks, stop, current, calls, refused, done, waiters>>

Return(w) ==
  /\ Awake(w)
  /\ stop /\ tasks = <<>>
  /\ Goto(w, "exited")
  /\ UNCHANGED <<tasks, stop, current, calls, refused, done, waiters>>

Take(w) ==
  /\ Awake(w)
  /\ tasks # <<>>
  /\ current' = [current EXCEPT ![w] = Head(tasks)]
  /\ tasks' = Tail(tasks)
  /\ Goto(w, "run")
  /\ UNCHANGED <<stop, calls, refused, done, waiters>>

\* task() returns.
Run(w) ==
  /\ pc[w] = "run"
  /\ done' = done \union {current[w]}
  /\ current' = [current EXCEPT ![w] = 0]
  /\ Goto(w, "idle")
  /\ UNCHANGED <<tasks, stop, calls, refused, waiters>>
-----------------------------------------------------------------------------
(* enqueue: called by the owner, or from within the task a worker runs.    *)

CanCall(t) == pc[t] = IF t = Owner THEN "open" ELSE "run"

Enqueue(t) ==
  /\ CanCall(t) /\ calls < MaxTasks
  /\ ~stop
  /\ calls' = calls + 1
  /\ tasks' = Append(tasks, calls + 1)
  /\ Goto(t, "notify")
  /\ UNCHANGED <<stop, current, refused, done, waiters>>

\* The exception ends up in the future of the task that called.
Throw(t) ==
  /\ CanCall(t) /\ calls < MaxTasks
  /\ stop
  /\ calls' = calls + 1
  /\ refused' = refused \union {calls + 1}
  /\ UNCHANGED <<tasks, stop, pc, current, done, waiters>>

\* enqueue returns without having told anybody.
NotifyOne_Missing(t) ==
  /\ pc[t] = "notify"
  /\ Goto(t, IF t = Owner THEN "open" ELSE "run")
  /\ UNCHANGED <<tasks, stop, current, calls, refused, done, waiters>>

NotifyOne(t) ==
  /\ pc[t] = "notify"
  /\ Signal
  /\ Goto(t, IF t = Owner THEN "open" ELSE "run")
  /\ UNCHANGED <<tasks, stop, current, calls, refused, done>>
-----------------------------------------------------------------------------
(* The destructor *)

SetStop ==
  /\ pc[Owner] = "open"
  /\ stop' = TRUE
  /\ Goto(Owner, "notifyAll")
  /\ UNCHANGED <<tasks, current, calls, refused, done, waiters>>

\* notify_one where the destructor needs notify_all.
NotifyAll_One ==
  /\ pc[Owner] = "notifyAll"
  /\ Signal
  /\ Goto(Owner, "join")
  /\ UNCHANGED <<tasks, stop, current, calls, refused, done>>

NotifyAll ==
  /\ pc[Owner] = "notifyAll"
  /\ Broadcast
  /\ Goto(Owner, "join")
  /\ UNCHANGED <<tasks, stop, current, calls, refused, done>>

Join ==
  /\ pc[Owner] = "join"
  /\ \A w \in Workers : pc[w] = "exited"
  /\ Goto(Owner, "exited")
  /\ UNCHANGED <<tasks, stop, current, calls, refused, done, waiters>>

Spurious(w) ==
  /\ SpuriousWakeup(w)
  /\ UNCHANGED <<tasks, stop, pc, current, calls, refused, done>>
-----------------------------------------------------------------------------
WorkerLoop(w) == Wait(w) \/ Return(w) \/ Take(w) \/ Run(w)

Next ==
  \/ \E w \in Workers : WorkerLoop(w) \/ Spurious(w)
  \/ \E t \in Threads : Enqueue(t) \/ Throw(t) \/ NotifyOne(t)
  \/ SetStop \/ NotifyAll \/ Join

Spec == Init /\ [][Next]_vars

\* Threads are scheduled, and a task returns sooner or later.  Nobody has to
\* enqueue a task or to destroy the pool.
Fairness ==
  /\ \A w \in Workers : WF_vars(WorkerLoop(w))
  /\ \A t \in Threads : WF_vars(NotifyOne(t))
  /\ WF_vars(NotifyAll) /\ WF_vars(Join)

FairSpec == Spec /\ Fairness
-----------------------------------------------------------------------------
\* Every variable keeps its type; there are no tasks but those enqueue was given.
TypeOK ==
  /\ tasks \in Seq(1..MaxTasks)
  /\ stop \in BOOLEAN
  /\ pc \in [Threads -> {"idle", "run", "notify", "open", "notifyAll", "join", "exited"}]
  /\ current \in [Workers -> 0..MaxTasks]
  /\ calls \in 0..MaxTasks
  /\ refused \subseteq 1..MaxTasks
  /\ done \subseteq 1..MaxTasks
  /\ waiters \subseteq Workers

\* A task in the queue is never overlooked: some worker is awake to take it, or
\* the thread that queued it is about to notify one (lines 41 to 45 against 22).
NoLostWakeup ==
  tasks # <<>> =>
    \/ \E w \in Workers : w \notin waiters /\ pc[w] # "exited"
    \/ \E t \in Threads : pc[t] = "notify"

\* Once the destructor has notified (line 54) no worker is asleep or falls
\* asleep again: it can only join threads that are on their way out.
NoSleeperAfterStop ==
  pc[Owner] \in {"join", "exited"} => waiters = {}

\* No sequence of calls, wakeups and returns leaves a task to nobody or a worker asleep for good.
PoolInv == TypeOK /\ NoLostWakeup /\ NoSleeperAfterStop

\* The abstract pool: tasks queued, running and done.
Pool == INSTANCE TaskPool WITH
  Tasks   <- 1..MaxTasks,
  queue   <- tasks,
  running <- {current[w] : w \in Workers} \ {0},
  phase   <- IF pc[Owner] = "exited" THEN "halted" ELSE IF stop THEN "closed" ELSE "open"

\* The pool implements the abstract pool: tasks start in the order of enqueue,
\* each once, none is accepted after the destructor has set stop, and the
\* destructor returns only when every accepted task has been run.
ImplementsPool == Pool!Spec

\* A future obtained from enqueue becomes ready (main.cpp line 18 waits for it).
EveryTaskFinishes == Pool!EveryTaskFinishes

\* The destructor ends, whatever the workers were doing when it began.
DestructorReturns == stop ~> pc[Owner] = "exited"
=============================================================================
