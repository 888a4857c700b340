------------------------- MODULE ThreadPoolCProofs -------------------------
(***************************************************************************)
(* Proofs about ThreadPoolC, for any set of workers, any number of tasks   *)
(* and with or without spurious wakeups.                                   *)
(***************************************************************************)
EXTENDS ThreadPoolC, TLAPS

Inside == {"test", "sleep", "leave"}

\* A worker and main() are at places of their own, and a worker that runs a task
\* has one while the others have none.
Roles ==
  /\ \A w \in Workers : pc[w] \in Inside \union {"enter", "waiting", "run", "exited"}
  /\ \A w \in Workers : pc[w] = "run" <=> task[w] # 0
  /\ pc[Main] \in {"add", "signal", "stop", "broadcast", "join", "exited"}

\* The mutex is held by the worker that is between its lock and its unlock.
MutexHeld ==
  /\ mutex # Main
  /\ \A w \in Workers : pc[w] \in Inside <=> mutex = w

\* Only a worker that is in pthread_cond_wait is asleep.
SleepersWait == \A w \in waiters : pc[w] = "waiting"

\* main() stops the pool after it has found the list empty, and adds nothing more.
StopsWhenEmpty ==
  /\ shutdown <=> pc[Main] \in {"broadcast", "join", "exited"}
  /\ pc[Main] \in {"stop", "broadcast", "join", "exited"} => taskList = <<>>

\* All threads have been joined.
Joined == pc[Main] = "exited" => \A w \in Workers : pc[w] = "exited"

IInv ==
  /\ TypeOK
  /\ Roles
  /\ MutexHeld
  /\ SleepersWait
  /\ StopsWhenEmpty
  /\ NoPopFromEmpty
  /\ Joined

\* The constructor, main's globals and no thread started yet: the invariant holds.
LEMMA InitIInv == Init => IInv
  <1> SUFFICES ASSUME Init PROVE IInv
    OBVIOUS
  <1> USE PoolAssumption DEF Init, SyncInit, Threads
  <1>1. TypeOK
    <2>1. taskList \in Seq(1..NTasks)
      OBVIOUS
    <2>2. pc \in [Threads -> {"enter", "test", "sleep", "waiting", "leave", "run", "exited",
                              "add", "signal", "stop", "broadcast", "join"}]
      OBVIOUS
    <2>3. task \in [Workers -> 0..NTasks] /\ added \in 0..NTasks
      OBVIOUS
    <2> QED BY <2>1, <2>2, <2>3 DEF TypeOK
  <1>2. Roles /\ MutexHeld
    BY DEF Roles, MutexHeld, Inside
  <1>3. SleepersWait /\ StopsWhenEmpty /\ NoPopFromEmpty /\ Joined
    BY DEF SleepersWait, StopsWhenEmpty, NoPopFromEmpty, Joined
  <1> QED BY <1>1, <1>2, <1>3 DEF IInv

\* The invariant is inductive: one step for every action of main and of a worker.
LEMMA NextIInv == IInv /\ [Next]_vars => IInv'
  <1> SUFFICES ASSUME IInv, [Next]_vars PROVE IInv'
    OBVIOUS
  <1> USE PoolAssumption
  <1> USE DEF IInv, TypeOK, Roles, MutexHeld, SleepersWait, StopsWhenEmpty, NoPopFromEmpty,
              Joined, Inside, Threads, Goto, Lock, Unlock
  <1>1. ASSUME NEW w \in Workers, EnterLoop(w) PROVE IInv'
    BY <1>1 DEF EnterLoop
  <1>2. ASSUME NEW w \in Workers, TestLoop(w) PROVE IInv'
    BY <1>2 DEF TestLoop
  <1>3. ASSUME NEW w \in Workers, Sleep(w) PROVE IInv'
    BY <1>3 DEF Sleep, Block, Sleeps
  <1>4. ASSUME NEW w \in Workers, WakeUp(w) PROVE IInv'
    BY <1>4 DEF WakeUp, Relock
  <1>5. ASSUME NEW w \in Workers, Exit(w) PROVE IInv'
    BY <1>5 DEF Exit
  <1>6. ASSUME NEW w \in Workers, TakeTask(w) PROVE IInv'
    <2>1. Head(taskList) \in 1..NTasks /\ taskList' \in Seq(1..NTasks)
      BY <1>6 DEF TakeTask
    <2>2. TypeOK' /\ Roles'
      BY <1>6, <2>1 DEF TakeTask
    <2>3. MutexHeld' /\ SleepersWait' /\ StopsWhenEmpty' /\ Joined'
      BY <1>6 DEF TakeTask
    <2>4. NoPopFromEmpty'
      \* Nobody else can be past the tests: w had the mutex.
      BY <1>6 DEF TakeTask
    <2> QED BY <2>2, <2>3, <2>4
  <1>7. ASSUME NEW w \in Workers, RunTask(w) PROVE IInv'
    <2>1. task[w] \in 1..NTasks
      BY <1>7 DEF RunTask
    <2>2. finished' \subseteq 1..NTasks
      BY <1>7, <2>1 DEF RunTask
    <2>3. TypeOK'
      BY <1>7, <2>2 DEF RunTask
    <2>4. Roles' /\ MutexHeld' /\ SleepersWait' /\ StopsWhenEmpty' /\ NoPopFromEmpty' /\ Joined'
      BY <1>7 DEF RunTask
    <2> QED BY <2>3, <2>4
  <1>8. CASE AddTask
    <2>1. added + 1 \in 1..NTasks /\ taskList' \in Seq(1..NTasks) /\ taskList' # <<>>
      BY <1>8 DEF AddTask
    <2> QED BY <1>8, <2>1 DEF AddTask
  <1>9. CASE SignalTask
    BY <1>9 DEF SignalTask, Signal
  <1>10. CASE PollSize
    BY <1>10 DEF PollSize
  <1>11. CASE SetShutdown
    BY <1>11 DEF SetShutdown
  <1>12. CASE WakeAll
    BY <1>12 DEF WakeAll, Broadcast
  <1>13. CASE JoinAll
    BY <1>13 DEF JoinAll
  <1>14. ASSUME NEW w \in Workers, Spurious(w) PROVE IInv'
    BY <1>14 DEF Spurious, SpuriousWakeup
  <1>15. CASE UNCHANGED vars
    BY <1>15 DEF vars
  <1> HIDE DEF IInv
  <1> QED
    BY <1>1, <1>2, <1>3, <1>4, <1>5, <1>6, <1>7, <1>8, <1>9, <1>10, <1>11, <1>12, <1>13,
       <1>14, <1>15
    DEF Next, MainStep, WorkerStep

\* The inductive invariant holds in every state the pool and main can reach.
THEOREM Invariance == Spec => []IInv
  BY InitIInv, NextIInv, PTL DEF Spec

\* front() and pop() are never called on an empty queue, whatever wakes a worker
\* and although stopAll changes shutdown without the mutex; and when stopAll
\* destroys the mutex and the condition no thread is using them.
THEOREM PoolInvariant == Spec => []PoolInv
  <1>1. ASSUME IInv, pc[Main] = "exited"
        PROVE  mutex = NoThread /\ waiters = {} /\ \A w \in Workers : pc[w] = "exited"
    <2>1. \A w \in Workers : pc[w] = "exited"
      BY <1>1 DEF IInv, Joined
    <2>2. mutex = NoThread
      BY <1>1, <2>1 DEF IInv, MutexHeld, Inside, TypeOK, Threads
    <2>3. waiters = {}
      BY <1>1, <2>1 DEF IInv, SleepersWait, TypeOK
    <2> QED BY <2>1, <2>2, <2>3
  <1>2. IInv => PoolInv
    BY <1>1 DEF DestroyedUnused, PoolInv, IInv
  <1> QED BY <1>2, Invariance, PTL
-----------------------------------------------------------------------------
(* The pool implements TaskPool: a task is accepted, started and finished  *)
(* once because its number is in one place only.                           *)

Queued == 1 .. Len(taskList)

History ==
  /\ \A i \in Queued : taskList[i] <= added
  /\ \A w \in Workers : task[w] <= added
  /\ \A t \in finished : t <= added
  /\ \A i, j \in Queued : i # j => taskList[i] # taskList[j]
  /\ \A w \in Workers, i \in Queued : task[w] # taskList[i]
  /\ \A v, w \in Workers : v # w => task[v] = 0 \/ task[v] # task[w]

\* Only addTask and a worker's pop and run move task numbers: each stays at one
\* place, and numbers leave the queue in the order they entered it.
LEMMA NextHistory == IInv /\ History /\ [Next]_vars => History'
  <1> SUFFICES ASSUME IInv, History, [Next]_vars PROVE History'
    OBVIOUS
  <1> USE PoolAssumption
  <1> USE DEF IInv, TypeOK, Roles, History, Queued, Threads
  <1>1. CASE UNCHANGED <<taskList, task, added, finished>>
    BY <1>1
  <1>2. ASSUME NEW w \in Workers, TakeTask(w) PROVE History'
    <2>1. /\ Len(taskList') = Len(taskList) - 1
          /\ \A i \in 1..Len(taskList') : taskList'[i] = taskList[i + 1] /\ i + 1 \in Queued
          /\ Head(taskList) = taskList[1] /\ 1 \in Queued
      BY <1>2 DEF TakeTask, NoPopFromEmpty
    <2>2. task' = [task EXCEPT ![w] = taskList[1]] /\ UNCHANGED <<added, finished>>
      BY <1>2, <2>1 DEF TakeTask
    <2>3. ASSUME NEW i \in 1..Len(taskList'), NEW j \in 1..Len(taskList'), i # j
          PROVE  taskList'[i] # taskList'[j]
      <3>1. i + 1 # j + 1
        BY <2>3
      <3>2. /\ taskList'[i] = taskList[i + 1] /\ i + 1 \in Queued
            /\ taskList'[j] = taskList[j + 1] /\ j + 1 \in Queued
        BY <2>1
      <3> HIDE DEF Queued
      <3> QED BY <3>1, <3>2
    <2>4. ASSUME NEW v \in Workers, NEW i \in 1..Len(taskList')
          PROVE  task'[v] # taskList'[i]
      <3>1. taskList'[i] = taskList[i + 1] /\ i + 1 \in Queued
        BY <2>1
      <3>2. task'[v] = IF v = w THEN taskList[1] ELSE task[v]
        BY <2>2
      <3>3. i + 1 # 1 /\ 1 \in Queued
        BY <2>1
      <3> HIDE DEF Queued
      <3> QED BY <3>1, <3>2, <3>3
    <2>5. ASSUME NEW v \in Workers, NEW u \in Workers, v # u
          PROVE  task'[v] = 0 \/ task'[v] # task'[u]
      <3>1. /\ task'[v] = IF v = w THEN taskList[1] ELSE task[v]
            /\ task'[u] = IF u = w THEN taskList[1] ELSE task[u]
        BY <2>2
      <3>2. 1 \in Queued
        BY <2>1
      <3> HIDE DEF Queued
      <3> QED BY <2>5, <3>1, <3>2
    <2>6. ASSUME NEW i \in 1..Len(taskList') PROVE taskList'[i] <= added'
      <3>1. taskList'[i] = taskList[i + 1] /\ i + 1 \in Queued
        BY <2>1
      <3> HIDE DEF Queued
      <3> QED BY <2>2, <3>1
    <2>7. ASSUME NEW v \in Workers PROVE task'[v] <= added'
      <3>1. task'[v] = IF v = w THEN taskList[1] ELSE task[v]
        BY <2>2
      <3>2. 1 \in Queued
        BY <2>1
      <3> HIDE DEF Queued
      <3> QED BY <2>2, <3>1, <3>2
    <2>8. \A t \in finished' : t <= added'
      BY <2>2
    <2>9. Queued' = 1..Len(taskList')
      BY DEF Queued
    <2> HIDE DEF IInv, TypeOK, Roles, Queued, Threads
    <2> QED BY <2>3, <2>4, <2>5, <2>6, <2>7, <2>8, <2>9 DEF History
  <1>3. ASSUME NEW w \in Workers, RunTask(w) PROVE History'
    BY <1>3 DEF RunTask
  <1>4. CASE AddTask
    <2>1. /\ Len(taskList') = Len(taskList) + 1 /\ added' = added + 1
          /\ \A i \in Queued : taskList'[i] = taskList[i]
          /\ taskList'[Len(taskList) + 1] = added + 1
      BY <1>4 DEF AddTask
    <2> QED BY <1>4, <2>1 DEF AddTask
  <1>5. ASSUME NEW w \in Workers, WorkerStep(w) \/ Spurious(w)
        PROVE  History'
    BY <1>1, <1>2, <1>3, <1>5
    DEF WorkerStep, EnterLoop, TestLoop, Sleep, WakeUp, Exit, Spurious
  <1>6. CASE MainStep
    BY <1>1, <1>4, <1>6
    DEF MainStep, SignalTask, PollSize, SetShutdown, WakeAll, JoinAll
  <1> QED BY <1>1, <1>5, <1>6 DEF Next, vars

\* Before main adds the first task the abstract pool is empty and open.
LEMMA InitHistory == Init => History /\ Pool!Init
  <1> SUFFICES ASSUME Init PROVE History /\ Pool!Init
    OBVIOUS
  <1> USE PoolAssumption DEF Init, Threads
  <1>1. History
    BY DEF History, Queued
  <1>2. Pool!Init
    BY DEF Pool!Init
  <1> QED BY <1>1, <1>2

\* The substitutions of Pool, by name.
Running == {task[w] : w \in Workers} \ {0}
Phase   == IF pc[Main] = "exited" THEN "halted" ELSE IF shutdown THEN "closed" ELSE "open"

\* Every action is one action of TaskPool (add, start, finish, close, halt) or
\* leaves its state alone.
LEMMA StepSimulation == IInv /\ History /\ [Next]_vars => [Pool!Next]_Pool!vars
  <1> SUFFICES ASSUME IInv, History, [Next]_vars PROVE [Pool!Next]_Pool!vars
    OBVIOUS
  <1> USE PoolAssumption
  <1> USE DEF IInv, TypeOK, Roles, StopsWhenEmpty, Threads, Goto
  <1>1. ASSUME UNCHANGED <<taskList, task, finished, Phase>> PROVE UNCHANGED Pool!vars
    BY <1>1 DEF Pool!vars, Phase
  <1>2. ASSUME NEW w \in Workers,
               EnterLoop(w) \/ TestLoop(w) \/ Sleep(w) \/ WakeUp(w) \/ Exit(w) \/ Spurious(w)
        PROVE  UNCHANGED Pool!vars
    <2>1. UNCHANGED <<taskList, task, finished, shutdown>> /\ pc'[Main] = pc[Main]
      BY <1>2 DEF EnterLoop, TestLoop, Sleep, WakeUp, Exit, Spurious
    <2> QED BY <1>1, <2>1 DEF Phase
  <1>3. ASSUME NEW w \in Workers, TakeTask(w) PROVE Pool!Start
    <2>1. task[w] = 0 /\ Head(taskList) # 0 /\ taskList # <<>>
      BY <1>3 DEF TakeTask, NoPopFromEmpty
    <2>2. Running' = Running \union {Head(taskList)}
      BY <1>3, <2>1 DEF TakeTask, Running
    <2>3. Phase' = Phase
      BY <1>3 DEF TakeTask, Phase
    <2> QED BY <1>3, <2>1, <2>2, <2>3 DEF TakeTask, Pool!Start, Running, Phase
  <1>4. ASSUME NEW w \in Workers, RunTask(w) PROVE Pool!Next
    <2>1. task[w] \in 1..NTasks /\ \A v \in Workers : v # w => task[v] # task[w]
      BY <1>4 DEF RunTask, History
    <2>2. Running' = Running \ {task[w]} /\ task[w] \in Running
      BY <1>4, <2>1 DEF RunTask, Running
    <2>3. Phase' = Phase
      BY <1>4 DEF RunTask, Phase
    <2>4. Pool!Finish(task[w])
      BY <1>4, <2>2, <2>3 DEF RunTask, Pool!Finish, Running, Phase
    <2> HIDE DEF IInv, TypeOK, Roles, StopsWhenEmpty
    <2> QED BY <2>1, <2>4 DEF Pool!Next, Pool!Finish
  <1>5. ASSUME AddTask PROVE Pool!Next
    <2>1. Phase = "open" /\ Phase' = "open"
      BY <1>5 DEF AddTask, Phase
    <2>2. added + 1 \notin Pool!Known
      BY DEF Pool!Known, History, Queued
    <2>3. Pool!Submit(added + 1)
      BY <1>5, <2>1, <2>2 DEF AddTask, Pool!Submit, Phase
    <2>4. added + 1 \in 1..NTasks
      BY <1>5 DEF AddTask
    <2> HIDE DEF IInv, TypeOK, Roles, StopsWhenEmpty
    <2> QED BY <2>3, <2>4 DEF Pool!Next, Pool!Submit
  <1>6. ASSUME SignalTask \/ PollSize \/ WakeAll PROVE UNCHANGED Pool!vars
    <2>1. UNCHANGED <<taskList, task, finished, shutdown>>
      BY <1>6 DEF SignalTask, PollSize, WakeAll
    <2>2. pc[Main] # "exited" /\ pc'[Main] # "exited"
      BY <1>6 DEF SignalTask, PollSize, WakeAll
    <2> QED BY <1>1, <2>1, <2>2 DEF Phase
  <1>7. ASSUME SetShutdown PROVE Pool!Close
    BY <1>7 DEF SetShutdown, Pool!Close
  <1>8. ASSUME JoinAll PROVE Pool!Halt
    <2>1. taskList = <<>> /\ shutdown /\ Running = {}
      BY <1>8 DEF JoinAll, Running
    <2> QED BY <1>8, <2>1 DEF JoinAll, Pool!Halt, Running
  <1>9. ASSUME UNCHANGED vars PROVE UNCHANGED Pool!vars
    BY <1>1, <1>9 DEF vars, Phase
  <1> HIDE DEF IInv, TypeOK, Roles, StopsWhenEmpty, Threads, Goto
  <1> QED
    BY <1>2, <1>3, <1>4, <1>5, <1>6, <1>7, <1>8, <1>9
    DEF Next, MainStep, WorkerStep, Pool!Next

\* The pool implements TaskPool: whatever the number of workers, tasks start in
\* the order they were added, each once, and stopAll, if it returns, returns when
\* all of them have been run.
THEOREM PoolImplemented == Spec => ImplementsPool
  <1>1. Spec => []History
    BY NextHistory, InitHistory, Invariance, PTL DEF Spec
  <1>2. Init => Pool!Init
    BY InitHistory
  <1> QED BY <1>1, <1>2, StepSimulation, Invariance, PTL DEF Spec, ImplementsPool, Pool!Spec
=============================================================================
