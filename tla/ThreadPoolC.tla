---------------------------- MODULE ThreadPoolC ----------------------------
(***************************************************************************)
(* The pthread pool of ThreadPoolC/ThreadPool.cpp driven by                *)
(* ThreadPoolC/main.cpp: the main thread adds NTasks tasks, polls the      *)
(* queue, and stops the pool when it finds the queue empty.                *)
(*                                                                         *)
(* taskList is only touched with the mutex held, so a critical section     *)
(* that reads and writes nothing else is one step.  shutdown is not: the   *)
(* workers read it with the mutex held and stopAll writes it without, so   *)
(* the steps of threadFunc are kept apart at each of its reads.            *)
(***************************************************************************)
EXTENDS PosixSync, Naturals, Sequences, FiniteSets

CONSTANTS
  Workers,   \* the threads create() starts
  Main,      \* the thread that runs main()
  NTasks     \* tasks main() adds: 20 in the code

ASSUME PoolAssumption ==
  /\ Main \notin Workers /\ NoThread \notin Workers \union {Main}
  /\ Workers # {} /\ IsFiniteSet(Workers)
  /\ NTasks \in Nat

VARIABLES
  taskList,   \* queue<CTask*>: the n-th task added is the number n
  shutdown,
  pc,         \* where each thread is
  task,       \* the task a worker holds, 0 when it holds none
  added,      \* number of tasks main() has added
  finished    \* tasks whose run() has returned

vars == <<taskList, shutdown, pc, task, added, finished, mutex, waiters>>

Threads == Workers \union {Main}
Goto(t, label) == pc' = [pc EXCEPT ![t] = label]

Init ==
  /\ SyncInit
  /\ taskList = <<>> /\ shutdown = FALSE
  /\ pc = [t \in Threads |-> IF t = Main THEN "add" ELSE "enter"]
  /\ task = [w \in Workers |-> 0]
  /\ added = 0 /\ finished = {}
-----------------------------------------------------------------------------
(* threadFunc *)

EnterLoop(w) ==
  /\ pc[w] = "enter"
  /\ Lock(w)
  /\ Goto(w, "test")
  /\ UNCHANGED <<taskList, shutdown, task, added, finished, waiters>>

\* while (taskList.size() == 0 && !shutdown): shutdown is read here ...
TestLoop(w) ==
  /\ pc[w] = "test"
  /\ Goto(w, IF taskList = <<>> /\ ~shutdown THEN "sleep" ELSE "leave")
  /\ UNCHANGED <<taskList, shutdown, task, added, finished, mutex, waiters>>

\* ... and pthread_cond_wait comes later; nothing keeps shutdown from changing
\* in between, because stopAll does not take the mutex.
Sleep(w) ==
  /\ pc[w] = "sleep"
  /\ Block(w)
  /\ Goto(w, "waiting")
  /\ UNCHANGED <<taskList, shutdown, task, added, finished>>

\* A thread woken by a condition variable goes on without testing again.
WakeUp_IfInsteadOfWhile(w) ==
  /\ pc[w] = "waiting"
  /\ Relock(w)
  /\ Goto(w, "leave")
  /\ UNCHANGED <<taskList, shutdown, task, added, finished, waiters>>

WakeUp(w) ==
  /\ pc[w] = "waiting"
  /\ Relock(w)
  /\ Goto(w, "test")
  /\ UNCHANGED <<taskList, shutdown, task, added, finished, waiters>>

\* if (shutdown): the second read.
Exit(w) ==
  /\ pc[w] = "leave" /\ shutdown
  /\ Unlock
  /\ Goto(w, "exited")
  /\ UNCHANGED <<taskList, shutdown, task, added, finished, waiters>>

\* The front is read but not popped.
TakeTask_NoPop(w) ==
  /\ pc[w] = "leave" /\ ~shutdown
  /\ task' = [task EXCEPT ![w] = Head(taskList)]
  /\ Unlock
  /\ Goto(w, "run")
  /\ UNCHANGED <<taskList, shutdown, added, finished, waiters>>

TakeTask(w) ==
  /\ pc[w] = "leave" /\ ~shutdown
  /\ task' = [task EXCEPT ![w] = Head(taskList)]
  /\ taskList' = Tail(taskList)
  /\ Unlock
  /\ Goto(w, "run")
  /\ UNCHANGED <<shutdown, added, finished, waiters>>

RunTask(w) ==
  /\ pc[w] = "run"
  /\ finished' = finished \union {task[w]}
  /\ task' = [task EXCEPT ![w] = 0]
  /\ Goto(w, "enter")
  /\ UNCHANGED <<taskList, shutdown, added, mutex, waiters>>
-----------------------------------------------------------------------------
(* addTask, getTaskSize and stopAll, called by main() *)

AddTask ==
  /\ pc[Main] = "add" /\ added < NTasks
  /\ mutex = NoThread
  /\ taskList' = Append(taskList, added + 1)
  /\ added' = added + 1
  /\ Goto(Main, "signal")
  /\ UNCHANGED <<shutdown, task, finished, mutex, waiters>>

\* The task is queued and nobody is told.
SignalTask_Dropped ==
  /\ pc[Main] = "signal"
  /\ Goto(Main, "add")
  /\ UNCHANGED <<taskList, shutdown, task, added, finished, mutex, waiters>>

\* The signal is sent after the mutex has been given back.
SignalTask ==
  /\ pc[Main] = "signal"
  /\ Signal
  /\ Goto(Main, "add")
  /\ UNCHANGED <<taskList, shutdown, task, added, finished, mutex>>

\* main() polls until getTaskSize() is 0; a poll that sees a task changes nothing.
PollSize ==
  /\ pc[Main] = "add" /\ added = NTasks
  /\ mutex = NoThread /\ taskList = <<>>
  /\ Goto(Main, "stop")
  /\ UNCHANGED <<taskList, shutdown, task, added, finished, mutex, waiters>>

SetShutdown ==
  /\ pc[Main] = "stop"
  /\ shutdown' = TRUE
  /\ Goto(Main, "broadcast")
  /\ UNCHANGED <<taskList, task, added, finished, mutex, waiters>>

WakeAll ==
  /\ pc[Main] = "broadcast"
  /\ Broadcast
  /\ Goto(Main, "join")
  /\ UNCHANGED <<taskList, shutdown, task, added, finished, mutex>>

\* pthread_join on every thread, then the mutex and the condition are destroyed.
JoinAll ==
  /\ pc[Main] = "join"
  /\ \A w \in Workers : pc[w] = "exited"
  /\ Goto(Main, "exited")
  /\ UNCHANGED <<taskList, shutdown, task, added, finished, mutex, waiters>>

Spurious(w) ==
  /\ SpuriousWakeup(w)
  /\ UNCHANGED <<taskList, shutdown, pc, task, added, finished, mutex>>
-----------------------------------------------------------------------------
WorkerStep(w) ==
  \/ EnterLoop(w) \/ TestLoop(w) \/ Sleep(w) \/ WakeUp(w)
  \/ Exit(w) \/ TakeTask(w) \/ RunTask(w)

MainStep ==
  \/ AddTask \/ SignalTask \/ PollSize
  \/ SetShutdown \/ WakeAll \/ JoinAll

Next == MainStep \/ \E w \in Workers : WorkerStep(w) \/ Spurious(w)

Spec == Init /\ [][Next]_vars

\* Every thread the scheduler can run, runs.  A thread that wants the mutex
\* gets it if the mutex is free again and again: strong fairness.
Fairness ==
  /\ SF_vars(MainStep)
  /\ \A w \in Workers : SF_vars(WorkerStep(w))

FairSpec == Spec /\ Fairness
-----------------------------------------------------------------------------
\* Every variable keeps its type; tasks are numbered 1 to NTasks.
TypeOK ==
  /\ taskList \in Seq(1..NTasks)
  /\ shutdown \in BOOLEAN
  /\ pc \in [Threads -> {"enter", "test", "sleep", "waiting", "leave", "run", "exited",
                         "add", "signal", "stop", "broadcast", "join"}]
  /\ task \in [Workers -> 0..NTasks]
  /\ added \in 0..NTasks
  /\ finished \subseteq 1..NTasks
  /\ mutex \in Threads \union {NoThread}
  /\ waiters \subseteq Workers

\* front() and pop() are undefined on an empty queue.  A worker that gets past
\* both tests of threadFunc (lines 33 and 37) finds a task, whatever woke it.
NoPopFromEmpty ==
  \A w \in Workers : pc[w] = "leave" /\ ~shutdown => taskList # <<>>

\* stopAll destroys the mutex and the condition variable (lines 100 and 101)
\* only when no thread can use them any more.
DestroyedUnused ==
  pc[Main] = "exited" => mutex = NoThread /\ waiters = {} /\ \A w \in Workers : pc[w] = "exited"

\* The workers are told apart by the mutex and the two tests alone: no step of
\* theirs or of stopAll, which takes no mutex, leads out of these.
PoolInv == TypeOK /\ NoPopFromEmpty /\ DestroyedUnused

\* The abstract pool: tasks queued, running and done.
Pool == INSTANCE TaskPool WITH
  Tasks   <- 1..NTasks,
  queue   <- taskList,
  running <- {task[w] : w \in Workers} \ {0},
  done    <- finished,
  phase   <- IF pc[Main] = "exited" THEN "halted" ELSE IF shutdown THEN "closed" ELSE "open"

\* The pool implements the abstract pool: tasks start in the order added, each
\* once, and when stopAll returns to main() every task added has been run.
ImplementsPool == Pool!Spec

\* addTask's signal is never lost: every task added is run.
EveryTaskRuns == Pool!EveryTaskFinishes

\* stopAll wakes every waiting thread and joins it: it returns (lines 90-95).
StopAllReturns == pc[Main] = "join" ~> pc[Main] = "exited"
=============================================================================
