------------------------ MODULE ThreadPoolsProofs ------------------------
(***************************************************************************)
(* Proofs about the two pools of MCThreadPools.  First ThreadPoolCpp, for  *)
(* any set of workers, any number of calls of enqueue and with or without  *)
(* spurious wakeups; then HttpThreadPool, for any finite set of workers,   *)
(* any number of calls of append and any m_max_requests; last the two      *)
(* together, as the run checks them.                                       *)
(***************************************************************************)
EXTENDS MCThreadPools, FiniteSetTheorems, TLAPS

-----------------------------------------------------------------------------
(* What each thread may be doing, which is what TypeOK alone does not say. *)

\* A worker never is where only the owner can be, nor the other way round, and a
\* worker that is running a task has one.
Roles ==
  /\ \A w \in Workers : pc[w] \in {"idle", "run", "notify", "exited"}
  /\ \A w \in Workers : pc[w] \in {"run", "notify"} => current[w] # 0
  /\ pc[Owner] \in {"open", "notify", "notifyAll", "join", "exited"}

\* Only a worker that is at its wait can be asleep in it.
SleepersIdle == \A w \in waiters : pc[w] = "idle"

\* stop is set as long as the destructor runs, and a worker that has returned has
\* seen it set and the queue empty.
StopSet ==
  /\ stop <=> pc[Owner] \in {"notifyAll", "join", "exited"}
  /\ \A w \in Workers : pc[w] = "exited" => stop /\ tasks = <<>>

IInv ==
  /\ TypeOK
  /\ Roles
  /\ SleepersIdle
  /\ StopSet
  /\ NoLostWakeup
  /\ NoSleeperAfterStop

\* The pool as its constructor leaves it satisfies the invariant.
LEMMA InitIInv == Init => IInv
  <1> SUFFICES ASSUME Init PROVE IInv
    OBVIOUS
  <1> USE PoolAssumption DEF Init, Threads
  <1>1. TypeOK
    <2>1. tasks \in Seq(1..MaxTasks)
      OBVIOUS
    <2>2. pc \in [Threads -> {"idle", "run", "notify", "open", "notifyAll", "join", "exited"}]
      OBVIOUS
    <2>3. current \in [Workers -> 0..MaxTasks] /\ calls \in 0..MaxTasks
      OBVIOUS
    <2> QED BY <2>1, <2>2, <2>3 DEF TypeOK
  <1>2. Roles /\ SleepersIdle
    BY DEF Roles, SleepersIdle
  <1>3. StopSet /\ NoLostWakeup /\ NoSleeperAfterStop
    BY DEF StopSet, NoLostWakeup, NoSleeperAfterStop
  <1> QED BY <1>1, <1>2, <1>3 DEF IInv

\* The invariant is inductive: one step for every critical section and call.
LEMMA NextIInv == IInv /\ [Next]_vars => IInv'
  <1> SUFFICES ASSUME IInv, [Next]_vars PROVE IInv'
    OBVIOUS
  <1> USE PoolAssumption
  <1> USE DEF IInv, TypeOK, Roles, SleepersIdle, StopSet, NoLostWakeup,
              NoSleeperAfterStop, Threads, Goto
  <1>1. ASSUME NEW w \in Workers, Wait(w) PROVE IInv'
    BY <1>1 DEF Wait, Awake, Sleeps
  <1>2. ASSUME NEW w \in Workers, Return(w) PROVE IInv'
    BY <1>2 DEF Return, Awake
  <1>3. ASSUME NEW w \in Workers, Take(w) PROVE IInv'
    <2>1. Head(tasks) \in 1..MaxTasks /\ tasks' \in Seq(1..MaxTasks)
      BY <1>3 DEF Take
    <2>2. TypeOK' /\ Roles'
      <3>1. pc' = [pc EXCEPT ![w] = "run"] /\ current' = [current EXCEPT ![w] = Head(tasks)]
        BY <1>3 DEF Take
      <3>2. UNCHANGED <<stop, calls, refused, done, waiters>>
        BY <1>3 DEF Take
      <3>3. TypeOK'
        BY <2>1, <3>1, <3>2
      <3>4. Roles'
        BY <2>1, <3>1
      <3> QED BY <3>3, <3>4
    <2>3. SleepersIdle' /\ StopSet' /\ NoSleeperAfterStop'
      BY <1>3 DEF Take, Awake
    <2>4. NoLostWakeup'
      BY <1>3 DEF Take, Awake
    <2> QED BY <2>2, <2>3, <2>4
  <1>4. ASSUME NEW w \in Workers, Run(w) PROVE IInv'
    <2>1. TypeOK' /\ Roles'
      <3>1. current[w] \in 1..MaxTasks
        BY <1>4 DEF Run
      <3>2. done' \subseteq 1..MaxTasks
        BY <1>4, <3>1 DEF Run
      <3>3. TypeOK'
        BY <1>4, <3>2 DEF Run
      <3>4. Roles'
        BY <1>4 DEF Run
      <3> QED BY <3>3, <3>4
    <2>2. SleepersIdle' /\ StopSet' /\ NoSleeperAfterStop'
      BY <1>4 DEF Run
    <2>3. NoLostWakeup'
      BY <1>4, w \notin waiters DEF Run
    <2> QED BY <2>1, <2>2, <2>3
  <1>5. ASSUME NEW t \in Threads, Enqueue(t) PROVE IInv'
    <2>1. calls + 1 \in 1..MaxTasks /\ tasks' \in Seq(1..MaxTasks) /\ calls' \in 0..MaxTasks
      BY <1>5 DEF Enqueue
    <2> QED BY <1>5, <2>1 DEF Enqueue, CanCall
  <1>6. ASSUME NEW t \in Threads, Throw(t) PROVE IInv'
    BY <1>6 DEF Throw, CanCall
  <1>7. ASSUME NEW t \in Threads, NotifyOne(t) PROVE IInv'
    <2>1. TypeOK' /\ Roles' /\ SleepersIdle' /\ StopSet' /\ NoSleeperAfterStop'
      BY <1>7 DEF NotifyOne, Signal
    <2>2. NoLostWakeup'
      <3>1. CASE waiters = {}
        \* Nobody needs to be woken: every worker is awake, and none has
        \* returned as long as there is a task.
        BY <1>7, <3>1 DEF NotifyOne, Signal
      <3>2. ASSUME NEW w \in waiters, waiters' = waiters \ {w} PROVE NoLostWakeup'
        \* The worker that is woken was at its wait, so it has not returned.
        <4>1. w \in Workers /\ w \notin waiters' /\ pc[w] = "idle" /\ pc'[w] # "exited"
          BY <1>7, <3>2 DEF NotifyOne
        <4> QED BY <4>1
      <3> QED BY <1>7, <3>1, <3>2 DEF NotifyOne, Signal
    <2> QED BY <2>1, <2>2
  <1>8. CASE SetStop
    BY <1>8 DEF SetStop
  <1>9. CASE NotifyAll
    BY <1>9 DEF NotifyAll, Broadcast
  <1>10. CASE Join
    BY <1>10 DEF Join
  <1>11. ASSUME NEW w \in Workers, Spurious(w) PROVE IInv'
    BY <1>11 DEF Spurious, SpuriousWakeup
  <1>12. CASE UNCHANGED vars
    BY <1>12 DEF vars
  <1> QED
    BY <1>1, <1>2, <1>3, <1>4, <1>5, <1>6, <1>7, <1>8, <1>9, <1>10, <1>11, <1>12
    DEF Next, WorkerLoop

\* The inductive invariant holds in every state the pool can reach.
THEOREM Invariance == Spec => []IInv
  BY InitIInv, NextIInv, PTL DEF Spec

\* No task in the queue is overlooked, however many workers and calls there are:
\* the notification enqueue sends after unlocking comes in time.  And once the
\* destructor has notified all, nobody sleeps any more.
THEOREM PoolInvariant == Spec => []PoolInv
  <1>1. IInv => PoolInv
    BY DEF IInv, PoolInv
  <1> QED BY <1>1, Invariance, PTL
-----------------------------------------------------------------------------
(* The pool implements TaskPool.  A task is accepted once, started once and *)
(* finished once because its number is in one place only.                   *)

Queued == 1 .. Len(tasks)

Numbered ==
  /\ \A i \in Queued : tasks[i] <= calls
  /\ \A w \in Workers : current[w] <= calls
  /\ \A t \in done : t <= calls

OnePlace ==
  /\ \A i, j \in Queued : i # j => tasks[i] # tasks[j]
  /\ \A w \in Workers, i \in Queued : current[w] # tasks[i]
  /\ \A v, w \in Workers : v # w => current[v] = 0 \/ current[v] # current[w]

\* A worker that is at its wait or has returned holds no task.
IdleHandsEmpty == \A w \in Workers : pc[w] \in {"idle", "exited"} => current[w] = 0

History == Numbered /\ OnePlace /\ IdleHandsEmpty

\* Only enqueue and a worker's critical section and run move task numbers.
LEMMA NextHistory == IInv /\ History /\ [Next]_vars => History'
  <1> SUFFICES ASSUME IInv, History, [Next]_vars PROVE History'
    OBVIOUS
  <1> USE PoolAssumption
  <1> USE DEF IInv, TypeOK, Roles, History, Numbered, OnePlace, IdleHandsEmpty, Queued,
              Threads, Goto
  <1>1. ASSUME NEW w \in Workers, Wait(w) \/ Return(w) \/ Spurious(w) PROVE History'
    <2>1. UNCHANGED <<tasks, calls, current, done>>
      BY <1>1 DEF Wait, Return, Spurious
    <2>2. \A v \in Workers : pc'[v] \in {"idle", "exited"} => pc[v] \in {"idle", "exited"}
      BY <1>1 DEF Wait, Return, Spurious, Awake
    <2>3. Numbered' /\ OnePlace'
      BY <2>1
    <2>4. IdleHandsEmpty'
      BY <2>1, <2>2
    <2> QED BY <2>3, <2>4
  <1>2. ASSUME NEW w \in Workers, Take(w) PROVE History'
    <2>1. /\ Len(tasks') = Len(tasks) - 1
          /\ \A i \in 1..Len(tasks') : tasks'[i] = tasks[i + 1] /\ i + 1 \in Queued
          /\ Head(tasks) = tasks[1] /\ 1 \in Queued
      BY <1>2 DEF Take
    <2>2. current' = [current EXCEPT ![w] = tasks[1]]
      BY <1>2, <2>1 DEF Take
    <2>3. Numbered'
      BY <1>2, <2>1, <2>2 DEF Take
    <2>4. OnePlace'
      <3>1. ASSUME NEW i \in 1..Len(tasks'), NEW j \in 1..Len(tasks'), i # j
            PROVE  tasks'[i] # tasks'[j]
        <4>1. i + 1 # j + 1
          BY <3>1
        <4>2. /\ tasks'[i] = tasks[i + 1] /\ i + 1 \in Queued
              /\ tasks'[j] = tasks[j + 1] /\ j + 1 \in Queued
          BY <2>1
        <4> HIDE DEF Queued
        <4> QED BY <4>1, <4>2
      <3>2. ASSUME NEW v \in Workers, NEW i \in 1..Len(tasks')
            PROVE  current'[v] # tasks'[i]
        <4>1. /\ tasks'[i] = tasks[i + 1] /\ i + 1 \in Queued /\ i + 1 # 1
              /\ current'[v] = IF v = w THEN tasks[1] ELSE current[v]
              /\ 1 \in Queued
          BY <2>1, <2>2
        <4> HIDE DEF Queued
        <4> QED BY <4>1
      <3>3. ASSUME NEW v \in Workers, NEW u \in Workers, v # u
            PROVE  current'[v] = 0 \/ current'[v] # current'[u]
        <4>1. /\ current'[v] = IF v = w THEN tasks[1] ELSE current[v]
              /\ current'[u] = IF u = w THEN tasks[1] ELSE current[u]
              /\ 1 \in Queued
          BY <2>1, <2>2
        <4> HIDE DEF Queued
        <4> QED BY <3>3, <4>1
      <3>4. Queued' = 1..Len(tasks')
        BY DEF Queued
      <3> HIDE DEF IInv, TypeOK, Roles, Queued, Threads, Numbered, IdleHandsEmpty
      <3> QED BY <3>1, <3>2, <3>3, <3>4
    <2>5. IdleHandsEmpty'
      BY <1>2, <2>2 DEF Take
    <2> QED BY <2>3, <2>4, <2>5
  <1>3. ASSUME NEW w \in Workers, Run(w) PROVE History'
    BY <1>3 DEF Run
  <1>4. ASSUME NEW t \in Threads, Enqueue(t) PROVE History'
    <2>1. /\ Len(tasks') = Len(tasks) + 1 /\ calls' = calls + 1
          /\ \A i \in Queued : tasks'[i] = tasks[i]
          /\ tasks'[Len(tasks) + 1] = calls + 1
      BY <1>4 DEF Enqueue
    <2>2. Numbered' /\ IdleHandsEmpty'
      BY <1>4, <2>1 DEF Enqueue
    <2>3. OnePlace'
      BY <1>4, <2>1 DEF Enqueue
    <2> QED BY <2>2, <2>3
  <1>5. ASSUME NEW t \in Threads, Throw(t) PROVE History'
    BY <1>5 DEF Throw
  <1>6. ASSUME NEW t \in Threads, NotifyOne(t) PROVE History'
    BY <1>6 DEF NotifyOne
  <1>7. CASE SetStop \/ NotifyAll \/ Join
    <2>1. UNCHANGED <<tasks, calls, current, done>>
      BY <1>7 DEF SetStop, NotifyAll, Join
    <2>2. \A w \in Workers : pc'[w] = pc[w]
      BY <1>7 DEF SetStop, NotifyAll, Join
    <2> QED BY <2>1, <2>2
  <1>8. CASE UNCHANGED vars
    BY <1>8 DEF vars
  <1> QED
    BY <1>1, <1>2, <1>3, <1>4, <1>5, <1>6, <1>7, <1>8 DEF Next, WorkerLoop

\* A pool nobody has used yet is the empty abstract pool.
LEMMA InitHistory == Init => History /\ Pool!Init
  <1> SUFFICES ASSUME Init PROVE History /\ Pool!Init
    OBVIOUS
  <1>1. History
    BY PoolAssumption DEF Init, History, Numbered, OnePlace, IdleHandsEmpty, Queued, Threads
  <1>2. Pool!Init
    BY PoolAssumption DEF Init, Pool!Init, Threads
  <1> QED BY <1>1, <1>2

\* The substitutions of Pool, by name.
Running == {current[w] : w \in Workers} \ {0}
Phase   == IF pc[Owner] = "exited" THEN "halted" ELSE IF stop THEN "closed" ELSE "open"

\* Every action is one action of TaskPool or leaves its state alone.
LEMMA StepSimulation == IInv /\ History /\ [Next]_vars => [Pool!Next]_Pool!vars
  <1> SUFFICES ASSUME IInv, History, [Next]_vars PROVE [Pool!Next]_Pool!vars
    OBVIOUS
  <1> USE PoolAssumption
  <1> USE DEF IInv, TypeOK, Roles, Threads, Goto
  <1>0. ASSUME UNCHANGED <<tasks, current, done, Phase>> PROVE UNCHANGED Pool!vars
    BY <1>0 DEF Pool!vars, Phase
  <1>1. ASSUME NEW w \in Workers, Wait(w) \/ Return(w) \/ Spurious(w)
        PROVE  UNCHANGED Pool!vars
    BY <1>0, <1>1 DEF Wait, Return, Spurious, Phase, Awake
  <1>2. ASSUME NEW w \in Workers, Take(w) PROVE Pool!Start
    <2>1. current[w] = 0 /\ Head(tasks) # 0 /\ pc[w] = "idle"
      BY <1>2 DEF Take, Awake, History, IdleHandsEmpty
    <2>2. Running' = Running \union {Head(tasks)}
      BY <1>2, <2>1 DEF Take, Running
    <2>3. Phase' = Phase
      BY <1>2 DEF Take, Phase
    <2> QED BY <1>2, <2>2, <2>3 DEF Take, Pool!Start, Running, Phase
  <1>3. ASSUME NEW w \in Workers, Run(w) PROVE Pool!Finish(current[w])
    <2>1. current[w] # 0 /\ \A v \in Workers : v # w => current[v] # current[w]
      BY <1>3 DEF Run, History, OnePlace
    <2>2. Running' = Running \ {current[w]} /\ current[w] \in Running
      BY <1>3, <2>1 DEF Run, Running
    <2>3. Phase' = Phase
      BY <1>3 DEF Run, Phase
    <2> QED BY <1>3, <2>2, <2>3 DEF Run, Pool!Finish, Running, Phase
  <1>4. ASSUME NEW t \in Threads, Enqueue(t) PROVE Pool!Submit(calls + 1)
    <2>1. Phase = "open" /\ Phase' = "open"
      BY <1>4 DEF Enqueue, Phase, CanCall, StopSet
    <2>2. calls + 1 \notin Pool!Known
      BY DEF Pool!Known, History, Numbered, Queued
    <2> QED BY <1>4, <2>1, <2>2 DEF Enqueue, Pool!Submit, Phase
  <1>5. ASSUME NEW t \in Threads, Throw(t) \/ NotifyOne(t) PROVE UNCHANGED Pool!vars
    BY <1>0, <1>5 DEF Throw, NotifyOne, Phase
  <1>6. ASSUME SetStop PROVE Pool!Close
    BY <1>6 DEF SetStop, Pool!Close, StopSet
  <1>7. ASSUME NotifyAll PROVE UNCHANGED Pool!vars
    BY <1>0, <1>7 DEF NotifyAll, Phase
  <1>8. ASSUME Join PROVE Pool!Halt
    <2>1. tasks = <<>> /\ stop
      BY <1>8 DEF Join, StopSet
    <2>2. Running = {}
      BY <1>8 DEF Join, History, IdleHandsEmpty, Running
    <2> QED BY <1>8, <2>1, <2>2 DEF Join, Pool!Halt, Running
  <1>9. ASSUME UNCHANGED vars PROVE UNCHANGED Pool!vars
    BY <1>0, <1>9 DEF vars, Phase
  <1>10. ASSUME NEW t \in Threads, Enqueue(t) PROVE Pool!Next
    <2>1. calls + 1 \in 1..MaxTasks
      BY <1>10 DEF Enqueue
    <2> QED BY <1>4, <1>10, <2>1 DEF Pool!Next
  <1>11. ASSUME NEW w \in Workers, Take(w) \/ Run(w) PROVE Pool!Next
    <2>1. CASE Take(w)
      BY <1>2, <2>1 DEF Pool!Next
    <2>2. CASE Run(w)
      <3>1. current[w] \in 1..MaxTasks
        BY <2>2 DEF Run
      <3> HIDE DEF IInv, TypeOK, Roles, Threads, Goto
      <3> QED BY <1>3, <2>2, <3>1 DEF Pool!Next, Pool!Finish
    <2> QED BY <1>11, <2>1, <2>2
  <1>12. ASSUME SetStop \/ Join PROVE Pool!Next
    BY <1>6, <1>8, <1>12 DEF Pool!Next
  <1> HIDE DEF IInv, TypeOK, Roles, Threads, Goto
  <1> QED BY <1>1, <1>5, <1>7, <1>9, <1>10, <1>11, <1>12 DEF Next, WorkerLoop

\* The pool implements TaskPool: whatever the number of workers and the moment
\* the destructor is called, accepted tasks start in order, each once, and the
\* destructor returns only when all of them have been run.
THEOREM PoolImplemented == Spec => ImplementsPool
  <1>1. IInv /\ History /\ [Next]_vars => History'
    BY NextHistory
  <1>2. Spec => []History
    BY <1>1, InitHistory, Invariance, PTL DEF Spec
  <1>3. Init => Pool!Init
    BY InitHistory
  <1> QED BY <1>2, <1>3, StepSimulation, Invariance, PTL DEF Spec, ImplementsPool, Pool!Spec
-----------------------------------------------------------------------------
(* The pool of HttpServer: its inductive invariant. *)

\* A worker holds a request exactly while it processes it.
HoldsWhileProcessing == \A w \in Servers : pcHttp[w] = "process" <=> request[w] # 0

\* Posts that append has promised and not made.
Owed == IF posting THEN 1 ELSE 0

HttpIInv ==
  /\ Http!TypeOK
  /\ HoldsWhileProcessing
  /\ Http!TicketsBackRequests
  /\ Http!QueueLimit

\* The instance counts with the same operators.
LEMMA SameCount ==
  ASSUME NEW S
  PROVE  /\ Http!Cardinality(S) = Cardinality(S)
         /\ Http!IsFiniteSet(S) <=> IsFiniteSet(S)
  <1>1. Http!Cardinality(S) = Cardinality(S)
    BY DEF Http!Cardinality, Cardinality
  <1>2. Http!IsFiniteSet(S) <=> IsFiniteSet(S)
    BY DEF Http!IsFiniteSet, IsFiniteSet
  <1> QED BY <1>1, <1>2

\* The workers with a ticket can be counted, and a worker that takes a ticket or
\* uses it changes the count by one.
LEMMA TicketCount ==
  ASSUME Http!PoolAssumption, Http!TypeOK
  PROVE  /\ Cardinality(Http!Ticketed) \in Nat
         /\ \A w \in Http!Ticketed : Cardinality(Http!Ticketed) >= 1
         /\ \A w \in Servers \ Http!Ticketed :
              Cardinality(Http!Ticketed \union {w}) = Cardinality(Http!Ticketed) + 1
         /\ \A w \in Http!Ticketed : Cardinality(Http!Ticketed \ {w}) = Cardinality(Http!Ticketed) - 1
  <1>1. IsFiniteSet(Http!Ticketed)
    BY FS_Subset, SameCount DEF Http!PoolAssumption, Http!Ticketed
  <1>2. Cardinality(Http!Ticketed) \in Nat
    BY <1>1, FS_CardinalityType
  <1>3. ASSUME NEW w \in Http!Ticketed PROVE Cardinality(Http!Ticketed) >= 1
    <2>1. Cardinality(Http!Ticketed) # 0
      BY <1>1, <1>3, FS_EmptySet
    <2> QED BY <1>2, <2>1
  <1>4. ASSUME NEW w \in Servers \ Http!Ticketed
        PROVE  Cardinality(Http!Ticketed \union {w}) = Cardinality(Http!Ticketed) + 1
    BY <1>1, <1>4, FS_AddElement
  <1>5. ASSUME NEW w \in Http!Ticketed
        PROVE  Cardinality(Http!Ticketed \ {w}) = Cardinality(Http!Ticketed) - 1
    BY <1>1, <1>5, FS_RemoveElement
  <1> QED BY <1>2, <1>3, <1>4, <1>5

\* A worker past wait() finds a request: its ticket stands for one.
LEMMA TicketFindsRequest ==
  ASSUME Http!PoolAssumption, HttpIInv
  PROVE  Http!NeverEmptyHanded
  <1> SUFFICES ASSUME NEW w \in Servers, pcHttp[w] = "ticket" PROVE workqueue # <<>>
    BY DEF Http!NeverEmptyHanded
  <1>1. Cardinality(Http!Ticketed) \in Nat /\ Cardinality(Http!Ticketed) >= 1
    BY TicketCount DEF HttpIInv, Http!Ticketed
  <1>2. Len(workqueue) >= 1
    BY <1>1, SameCount DEF HttpIInv, Http!TypeOK, Http!TicketsBackRequests
  <1> QED BY <1>2

\* So the branch of run for an empty list is never taken.
LEMMA FetchTakesHead ==
  ASSUME Http!PoolAssumption, HttpIInv, NEW w \in Servers, Http!Fetch(w)
  PROVE  /\ pcHttp[w] = "ticket" /\ workqueue # <<>>
         /\ request' = [request EXCEPT ![w] = Head(workqueue)]
         /\ workqueue' = Tail(workqueue)
         /\ pcHttp' = [pcHttp EXCEPT ![w] = "process"]
         /\ UNCHANGED <<queuestat, posting, callsHttp, refusedHttp, processed>>
  <1>1. workqueue # <<>>
    BY TicketFindsRequest DEF Http!Fetch, Http!NeverEmptyHanded
  <1> QED BY <1>1 DEF Http!Fetch

\* The pool as its constructor leaves it satisfies the invariant.
LEMMA HttpInitIInv == ASSUME Http!PoolAssumption PROVE Http!Init => HttpIInv
  <1> SUFFICES ASSUME Http!Init PROVE HttpIInv
    OBVIOUS
  <1> USE DEF Http!PoolAssumption, Http!Init
  <1>1. Http!TypeOK /\ HoldsWhileProcessing
    <2>1. workqueue \in Seq(1..MaxCalls)
      OBVIOUS
    <2>2. posting \in BOOLEAN /\ refusedHttp \subseteq 1..MaxCalls /\ processed \subseteq 1..MaxCalls
      OBVIOUS
    <2>3. /\ pcHttp \in [Servers -> {"wait", "ticket", "process"}]
          /\ request \in [Servers -> 0..MaxCalls]
          /\ callsHttp \in 0..MaxCalls /\ queuestat \in Nat
      OBVIOUS
    <2> QED BY <2>1, <2>2, <2>3 DEF Http!TypeOK, HoldsWhileProcessing
  <1>4. Http!QueueLimit
    <2>1. Len(workqueue) = 0
      OBVIOUS
    <2> QED BY <2>1 DEF Http!QueueLimit
  <1>2. Http!Ticketed = {}
    BY DEF Http!Ticketed
  <1>3. Http!TicketsBackRequests
    BY <1>2, FS_EmptySet, SameCount DEF Http!TicketsBackRequests
  <1> QED BY <1>1, <1>3, <1>4 DEF HttpIInv

\* The invariant is inductive: list, counts and tickets change together or, between
\* the unlock and the post of append, by the post that is owed.
LEMMA HttpNextIInv == ASSUME Http!PoolAssumption PROVE HttpIInv /\ [Http!Next]_Http!vars => HttpIInv'
  <1> SUFFICES ASSUME HttpIInv, [Http!Next]_Http!vars PROVE HttpIInv'
    OBVIOUS
  <1>0. /\ Cardinality(Http!Ticketed) \in Nat
        /\ Len(workqueue) = queuestat + Cardinality(Http!Ticketed) + Owed
    BY TicketCount, SameCount DEF HttpIInv, Http!TicketsBackRequests, Owed
  <1> USE DEF Http!PoolAssumption, HttpIInv, Http!TypeOK, HoldsWhileProcessing, Http!QueueLimit
  <1>1. CASE Http!Accept
    <2>1. callsHttp + 1 \in 1..MaxCalls /\ workqueue' = Append(workqueue, callsHttp + 1)
      BY <1>1 DEF Http!Accept, Http!CanAppend
    <2>2. Http!TypeOK' /\ HoldsWhileProcessing' /\ Http!QueueLimit'
      BY <1>1, <2>1 DEF Http!Accept
    <2>3. Http!Ticketed' = Http!Ticketed /\ Len(workqueue') = Len(workqueue) + 1
      BY <1>1, <2>1 DEF Http!Accept, Http!Ticketed
    <2>4. Http!TicketsBackRequests'
      BY <1>0, <1>1, <2>3, SameCount DEF Http!Accept, Http!CanAppend, Http!TicketsBackRequests, Owed
    <2> QED BY <2>2, <2>4
  <1>2. CASE Http!Refuse
    <2>1. Http!TypeOK' /\ HoldsWhileProcessing' /\ Http!QueueLimit'
      BY <1>2 DEF Http!Refuse, Http!CanAppend
    <2>2. Http!Ticketed' = Http!Ticketed
      BY <1>2 DEF Http!Refuse, Http!Ticketed
    <2>3. Http!TicketsBackRequests'
      BY <1>2, <2>2, SameCount DEF Http!Refuse, Http!TicketsBackRequests
    <2> QED BY <2>1, <2>3
  <1>3. CASE Http!Post
    <2>1. Http!TypeOK' /\ HoldsWhileProcessing' /\ Http!QueueLimit'
      <3>1. queuestat' = queuestat + 1 /\ posting' = FALSE
        BY <1>3 DEF Http!Post, Http!SemPost
      <3>2. UNCHANGED <<workqueue, pcHttp, request, callsHttp, refusedHttp, processed>>
        BY <1>3 DEF Http!Post
      <3>3. queuestat' \in Nat /\ posting' \in BOOLEAN
        <4>1. queuestat' \in Nat
          BY <3>1
        <4>2. posting' \in BOOLEAN
          BY <3>1, Zenon
        <4> QED BY <4>1, <4>2
      <3>4. /\ workqueue' \in Seq(1..MaxCalls) /\ callsHttp' \in 0..MaxCalls
            /\ pcHttp' \in [Servers -> {"wait", "ticket", "process"}]
            /\ request' \in [Servers -> 0..MaxCalls]
            /\ refusedHttp' \subseteq 1..MaxCalls /\ processed' \subseteq 1..MaxCalls
        BY <3>2
      <3>5. HoldsWhileProcessing' /\ Http!QueueLimit'
        BY <3>2
      <3> QED BY <3>3, <3>4, <3>5
    <2>2. Http!Ticketed' = Http!Ticketed
      BY <1>3 DEF Http!Post, Http!Ticketed
    <2>3. Http!TicketsBackRequests'
      BY <1>0, <1>3, <2>2, SameCount DEF Http!Post, Http!SemPost, Http!TicketsBackRequests, Owed
    <2> QED BY <2>1, <2>3
  <1>4. ASSUME NEW w \in Servers, Http!Wait(w) PROVE HttpIInv'
    <2>1. Http!TypeOK' /\ HoldsWhileProcessing' /\ Http!QueueLimit'
      BY <1>4 DEF Http!Wait, Http!SemWait
    <2>2. w \in Servers \ Http!Ticketed /\ Http!Ticketed' = Http!Ticketed \union {w}
      BY <1>4 DEF Http!Wait, Http!Ticketed
    <2>3. Cardinality(Http!Ticketed') = Cardinality(Http!Ticketed) + 1
      BY <2>2, TicketCount
    <2>4. queuestat \in Nat /\ queuestat > 0 /\ queuestat' = queuestat - 1
      BY <1>4 DEF Http!Wait, Http!SemWait
    <2>5. UNCHANGED <<workqueue, posting>>
      BY <1>4 DEF Http!Wait
    <2>6. Http!TicketsBackRequests'
      <3> HIDE DEF Http!PoolAssumption, HttpIInv, Http!TypeOK, HoldsWhileProcessing, Http!QueueLimit
      <3>1. Owed \in Nat /\ Owed' = Owed
        BY <2>5 DEF Owed
      <3>2. Len(workqueue') = queuestat' + Cardinality(Http!Ticketed') + Owed'
        BY <1>0, <2>3, <2>4, <2>5, <3>1
      <3> QED BY <3>2, SameCount DEF Http!TicketsBackRequests, Owed
    <2> QED BY <2>1, <2>6
  <1>5. ASSUME NEW w \in Servers, Http!Fetch(w) PROVE HttpIInv'
    <2>1. /\ workqueue # <<>> /\ workqueue' = Tail(workqueue)
          /\ request' = [request EXCEPT ![w] = Head(workqueue)]
          /\ pcHttp' = [pcHttp EXCEPT ![w] = "process"]
          /\ UNCHANGED <<queuestat, posting, callsHttp, refusedHttp, processed>>
      BY <1>5, FetchTakesHead
    <2>2. /\ Head(workqueue) \in 1..MaxCalls
          /\ workqueue' \in Seq(1..MaxCalls) /\ Len(workqueue') = Len(workqueue) - 1
      BY <2>1
    <2>3. Http!TypeOK' /\ HoldsWhileProcessing' /\ Http!QueueLimit'
      <3>1. Http!TypeOK'
        BY <2>1, <2>2
      <3>2. HoldsWhileProcessing'
        BY <2>1, <2>2
      <3>3. Http!QueueLimit'
        BY <2>2
      <3> QED BY <3>1, <3>2, <3>3
    <2>4. w \in Http!Ticketed /\ Http!Ticketed' = Http!Ticketed \ {w}
      BY <1>5, <2>1 DEF Http!Fetch, Http!Ticketed
    <2>5. Cardinality(Http!Ticketed') = Cardinality(Http!Ticketed) - 1
      BY <2>4, TicketCount
    <2>6. Http!TicketsBackRequests'
      BY <1>0, <2>1, <2>2, <2>5, SameCount DEF Http!TicketsBackRequests, Owed
    <2> QED BY <2>3, <2>6
  <1>6. ASSUME NEW w \in Servers, Http!Process(w) PROVE HttpIInv'
    <2>1. request[w] \in 1..MaxCalls
      BY <1>6 DEF Http!Process
    <2>2. Http!TypeOK' /\ HoldsWhileProcessing' /\ Http!QueueLimit'
      <3>1. /\ request' = [request EXCEPT ![w] = 0] /\ pcHttp' = [pcHttp EXCEPT ![w] = "wait"]
            /\ processed' = processed \union {request[w]}
            /\ UNCHANGED <<workqueue, queuestat, posting, callsHttp, refusedHttp>>
        BY <1>6 DEF Http!Process
      <3>2. processed' \subseteq 1..MaxCalls
        BY <2>1, <3>1
      <3>3. Http!TypeOK'
        BY <3>1, <3>2
      <3> QED BY <3>1, <3>3
    <2>3. Http!Ticketed' = Http!Ticketed
      BY <1>6 DEF Http!Process, Http!Ticketed
    <2>4. Http!TicketsBackRequests'
      BY <1>6, <2>3, SameCount DEF Http!Process, Http!TicketsBackRequests
    <2> QED BY <2>2, <2>4
  <1>7. CASE UNCHANGED Http!vars
    <2>1. Http!Ticketed' = Http!Ticketed
      BY <1>7 DEF Http!vars, Http!Ticketed
    <2> QED BY <1>7, <2>1, SameCount DEF Http!vars, Http!TicketsBackRequests
  <1> QED BY <1>1, <1>2, <1>3, <1>4, <1>5, <1>6, <1>7 DEF Http!Next, Http!Run

\* The inductive invariant holds in every state the pool can reach.
THEOREM HttpInvariance == ASSUME Http!PoolAssumption PROVE Http!Spec => []HttpIInv
  BY HttpInitIInv, HttpNextIInv, PTL DEF Http!Spec

\* List, semaphore and workers of the server's pool agree.
LEMMA HttpTickets == ASSUME Http!PoolAssumption PROVE Http!Spec => []Http!TicketsInv
  <1>1. HttpIInv => Http!TicketsInv
    BY TicketFindsRequest DEF HttpIInv, Http!TicketsInv
  <1> QED BY <1>1, HttpInvariance, PTL
-----------------------------------------------------------------------------
(* The pool of HttpServer implements TaskPool: a request's number is in one place only. *)

HttpQueued == 1 .. Len(workqueue)

RequestsNumbered ==
  /\ \A i \in HttpQueued : workqueue[i] <= callsHttp
  /\ \A w \in Servers : request[w] <= callsHttp
  /\ \A r \in processed : r <= callsHttp

RequestInOnePlace ==
  /\ \A i, j \in HttpQueued : i # j => workqueue[i] # workqueue[j]
  /\ \A w \in Servers, i \in HttpQueued : request[w] # workqueue[i]
  /\ \A v, w \in Servers : v # w => request[v] = 0 \/ request[v] # request[w]

HttpHistory == RequestsNumbered /\ RequestInOnePlace

\* Only Accept, Fetch and Process move requests.
LEMMA HttpNextHistory ==
  ASSUME Http!PoolAssumption PROVE HttpIInv /\ HttpHistory /\ [Http!Next]_Http!vars => HttpHistory'
  <1> SUFFICES ASSUME HttpIInv, HttpHistory, [Http!Next]_Http!vars PROVE HttpHistory'
    OBVIOUS
  <1> USE DEF Http!PoolAssumption, HttpIInv, Http!TypeOK, HoldsWhileProcessing, HttpHistory, RequestsNumbered, RequestInOnePlace, HttpQueued
  <1>1. CASE Http!Accept
    <2>1. /\ Len(workqueue') = Len(workqueue) + 1 /\ callsHttp' = callsHttp + 1
          /\ \A i \in HttpQueued : workqueue'[i] = workqueue[i]
          /\ workqueue'[Len(workqueue) + 1] = callsHttp + 1
          /\ UNCHANGED <<request, processed>>
      BY <1>1 DEF Http!Accept
    <2>2. RequestsNumbered'
      BY <2>1
    <2>3. RequestInOnePlace'
      <3>1. \A i \in HttpQueued : workqueue'[i] = workqueue[i] /\ workqueue[i] < callsHttp + 1
        BY <2>1
      <3>2. \A w \in Servers : request'[w] = request[w] /\ request[w] < callsHttp + 1
        BY <2>1
      <3>3. HttpQueued' = HttpQueued \union {Len(workqueue) + 1}
        BY <2>1
      <3>4. ASSUME NEW i \in HttpQueued', NEW j \in HttpQueued', i # j
            PROVE  workqueue'[i] # workqueue'[j]
        <4>1. CASE i \in HttpQueued /\ j \in HttpQueued
          BY <3>1, <3>4, <4>1
        <4>2. CASE i = Len(workqueue) + 1 \/ j = Len(workqueue) + 1
          BY <2>1, <3>1, <3>3, <3>4, <4>2
        <4> QED BY <3>3, <4>1, <4>2
      <3>5. ASSUME NEW w \in Servers, NEW i \in HttpQueued' PROVE request'[w] # workqueue'[i]
        <4> HIDE DEF HttpIInv, Http!TypeOK, HoldsWhileProcessing, HttpHistory, RequestsNumbered, HttpQueued
        <4>1. request'[w] = request[w] /\ request[w] < callsHttp + 1
          BY <3>2
        <4>2. CASE i \in HttpQueued
          \* An old request at an old place.
          <5>1. workqueue'[i] = workqueue[i]
            BY <3>1, <4>2
          <5> QED BY <4>1, <4>2, <5>1 DEF HttpHistory
        <4>3. CASE i = Len(workqueue) + 1
          \* The new request has a number nobody has seen.
          <5>1. workqueue'[i] = callsHttp + 1
            BY <2>1, <4>3
          <5>2. request[w] \in Nat /\ callsHttp \in Nat
            BY DEF HttpIInv, Http!TypeOK
          <5> QED BY <4>1, <5>1, <5>2
        <4>4. i \in HttpQueued \union {Len(workqueue) + 1}
          BY <3>3
        <4> QED BY <4>2, <4>3, <4>4
      <3>6. \A v, w \in Servers : v # w => request'[v] = 0 \/ request'[v] # request'[w]
        BY <2>1
      <3> QED BY <3>4, <3>5, <3>6 DEF RequestInOnePlace
    <2> QED BY <2>2, <2>3
  <1>2. CASE Http!Refuse
    <2>1. UNCHANGED <<workqueue, request, processed>> /\ callsHttp' = callsHttp + 1
      BY <1>2 DEF Http!Refuse
    <2>2. RequestsNumbered'
      BY <2>1
    <2>3. RequestInOnePlace'
      BY <2>1
    <2> QED BY <2>2, <2>3
  <1>3. ASSUME NEW w \in Servers, Http!Fetch(w) PROVE HttpHistory'
    <2>0. /\ workqueue # <<>> /\ workqueue' = Tail(workqueue)
          /\ request' = [request EXCEPT ![w] = Head(workqueue)]
          /\ UNCHANGED <<callsHttp, processed>>
      BY <1>3, FetchTakesHead
    <2>1. /\ Len(workqueue') = Len(workqueue) - 1
          /\ \A i \in 1..Len(workqueue') : workqueue'[i] = workqueue[i + 1] /\ i + 1 \in HttpQueued
          /\ Head(workqueue) = workqueue[1] /\ 1 \in HttpQueued
      BY <2>0
    <2>2. request' = [request EXCEPT ![w] = workqueue[1]] /\ UNCHANGED <<callsHttp, processed>>
      BY <2>0, <2>1
    <2>3. RequestsNumbered'
      BY <2>1, <2>2
    <2>4. RequestInOnePlace'
      <3>1. ASSUME NEW i \in 1..Len(workqueue'), NEW j \in 1..Len(workqueue'), i # j
            PROVE  workqueue'[i] # workqueue'[j]
        <4>1. i + 1 # j + 1
          BY <3>1
        <4>2. /\ workqueue'[i] = workqueue[i + 1] /\ i + 1 \in HttpQueued
              /\ workqueue'[j] = workqueue[j + 1] /\ j + 1 \in HttpQueued
          BY <2>1
        <4> HIDE DEF HttpQueued
        <4> QED BY <4>1, <4>2
      <3>2. ASSUME NEW v \in Servers, NEW i \in 1..Len(workqueue')
            PROVE  request'[v] # workqueue'[i]
        <4>1. /\ workqueue'[i] = workqueue[i + 1] /\ i + 1 \in HttpQueued /\ i + 1 # 1
              /\ request'[v] = IF v = w THEN workqueue[1] ELSE request[v]
              /\ 1 \in HttpQueued
          BY <2>1, <2>2
        <4> HIDE DEF HttpQueued
        <4> QED BY <4>1
      <3>3. ASSUME NEW v \in Servers, NEW u \in Servers, v # u
            PROVE  request'[v] = 0 \/ request'[v] # request'[u]
        <4>1. /\ request'[v] = IF v = w THEN workqueue[1] ELSE request[v]
              /\ request'[u] = IF u = w THEN workqueue[1] ELSE request[u]
              /\ 1 \in HttpQueued
          BY <2>1, <2>2
        <4> HIDE DEF HttpQueued
        <4> QED BY <3>3, <4>1
      <3>4. HttpQueued' = 1..Len(workqueue')
        BY DEF HttpQueued
      <3> HIDE DEF HttpIInv, Http!TypeOK, HoldsWhileProcessing, HttpQueued, RequestsNumbered
      <3> QED BY <3>1, <3>2, <3>3, <3>4
    <2> QED BY <2>3, <2>4
  <1>4. ASSUME NEW w \in Servers, Http!Process(w) PROVE HttpHistory'
    <2>1. /\ request' = [request EXCEPT ![w] = 0]
          /\ processed' = processed \union {request[w]}
          /\ UNCHANGED <<workqueue, callsHttp>>
      BY <1>4 DEF Http!Process
    <2>2. \A v \in Servers : request'[v] = IF v = w THEN 0 ELSE request[v]
      BY <2>1
    <2>3. RequestsNumbered'
      BY <2>1, <2>2
    <2>4. RequestInOnePlace'
      BY <2>1, <2>2
    <2> QED BY <2>3, <2>4
  <1>5. CASE Http!Post \/ (\E w \in Servers : Http!Wait(w)) \/ UNCHANGED Http!vars
    <2>1. UNCHANGED <<workqueue, callsHttp, request, processed>>
      BY <1>5 DEF Http!Post, Http!Wait, Http!vars
    <2> QED BY <2>1
  <1> QED BY <1>1, <1>2, <1>3, <1>4, <1>5 DEF Http!Next, Http!Run

\* A pool nobody has used yet is the empty abstract pool.
LEMMA HttpInitHistory == ASSUME Http!PoolAssumption PROVE Http!Init => HttpHistory /\ Http!Pool!Init
  <1> SUFFICES ASSUME Http!Init PROVE HttpHistory /\ Http!Pool!Init
    OBVIOUS
  <1>1. HttpHistory
    BY DEF Http!PoolAssumption, Http!Init, HttpHistory, RequestsNumbered, RequestInOnePlace, HttpQueued
  <1>2. Http!Pool!Init
    BY DEF Http!PoolAssumption, Http!Init, Http!Pool!Init
  <1> QED BY <1>1, <1>2

\* The substitution of running, by name.
Serving == {request[w] : w \in Servers} \ {0}

\* Every action is one action of TaskPool or leaves its state alone.
LEMMA HttpStepSimulation ==
  ASSUME Http!PoolAssumption
  PROVE  HttpIInv /\ HttpHistory /\ [Http!Next]_Http!vars => [Http!Pool!Next]_Http!Pool!vars
  <1> SUFFICES ASSUME HttpIInv, HttpHistory, [Http!Next]_Http!vars PROVE [Http!Pool!Next]_Http!Pool!vars
    OBVIOUS
  <1> USE DEF Http!PoolAssumption, HttpIInv, Http!TypeOK, HoldsWhileProcessing
  <1>1. CASE Http!Accept
    <2>1. callsHttp + 1 \in 1..MaxCalls
      BY <1>1 DEF Http!Accept, Http!CanAppend
    <2>2. callsHttp + 1 \notin Http!Pool!Known
      BY DEF Http!Pool!Known, HttpHistory, RequestsNumbered, HttpQueued
    <2>3. Http!Pool!Submit(callsHttp + 1)
      BY <1>1, <2>2 DEF Http!Accept, Http!Pool!Submit
    <2> QED BY <2>1, <2>3 DEF Http!Pool!Next
  <1>2. ASSUME NEW w \in Servers, Http!Fetch(w) PROVE Http!Pool!Next
    <2>1. /\ workqueue # <<>> /\ workqueue' = Tail(workqueue) /\ pcHttp[w] = "ticket"
          /\ request' = [request EXCEPT ![w] = Head(workqueue)]
          /\ UNCHANGED processed
      BY <1>2, FetchTakesHead
    <2>2. request[w] = 0 /\ Head(workqueue) # 0
      BY <2>1
    <2>3. Serving' = Serving \union {Head(workqueue)}
      BY <2>1, <2>2 DEF Serving
    <2>4. Http!Pool!Start
      BY <2>1, <2>3 DEF Http!Pool!Start, Serving
    <2> QED BY <2>4 DEF Http!Pool!Next
  <1>3. ASSUME NEW w \in Servers, Http!Process(w) PROVE Http!Pool!Next
    <2>1. request[w] # 0 /\ \A v \in Servers : v # w => request[v] # request[w]
      BY <1>3 DEF Http!Process, HttpHistory, RequestInOnePlace
    <2>2. Serving' = Serving \ {request[w]} /\ request[w] \in Serving
      BY <1>3, <2>1 DEF Http!Process, Serving
    <2>3. Http!Pool!Finish(request[w])
      BY <1>3, <2>2 DEF Http!Process, Http!Pool!Finish, Serving
    <2>4. request[w] \in 1..MaxCalls
      BY <2>1
    <2> HIDE DEF Http!PoolAssumption, HttpIInv, Http!TypeOK, HoldsWhileProcessing
    <2> QED BY <2>3, <2>4 DEF Http!Pool!Next, Http!Pool!Finish
  <1>4. CASE Http!Refuse \/ Http!Post \/ (\E w \in Servers : Http!Wait(w)) \/ UNCHANGED Http!vars
    BY <1>4 DEF Http!Refuse, Http!Post, Http!Wait, Http!vars, Http!Pool!vars
  <1> HIDE DEF Http!PoolAssumption, HttpIInv, Http!TypeOK, HoldsWhileProcessing
  <1> QED BY <1>1, <1>2, <1>3, <1>4 DEF Http!Next, Http!Run, Http!Accept, Http!Pool!Next

\* Requests enter the abstract pool with append and leave it with process().
LEMMA HttpRefinement == ASSUME Http!PoolAssumption PROVE Http!Spec => Http!ImplementsPool
  <1>1. HttpIInv /\ HttpHistory /\ [Http!Next]_Http!vars => HttpHistory'
    BY HttpNextHistory
  <1>2. Http!Spec => []HttpHistory
    BY <1>1, HttpInitHistory, HttpInvariance, PTL DEF Http!Spec
  <1>3. Http!Init => Http!Pool!Init
    BY HttpInitHistory
  <1>4. HttpIInv /\ HttpHistory /\ [Http!Next]_Http!vars => [Http!Pool!Next]_Http!Pool!vars
    BY HttpStepSimulation
  <1> QED BY <1>2, <1>3, <1>4, HttpInvariance, PTL DEF Http!Spec, Http!ImplementsPool, Http!Pool!Spec
-----------------------------------------------------------------------------
(* The two pools together. *)

\* Whichever pool is there takes its own steps and leaves the other as it is.
LEMMA PartsOfComposition == MCSpec => Spec /\ Http!Spec
  <1>1. MCInit => Init /\ Http!Init
    BY DEF MCInit
  <1>2. [MCNext]_everything => [Next]_vars
    BY DEF MCNext, CppStep, HttpStep, everything
  <1>3. [MCNext]_everything => [Http!Next]_Http!vars
    BY DEF MCNext, CppStep, HttpStep, everything, httpVars, Http!vars
  <1> QED BY <1>1, <1>2, <1>3, PTL DEF MCSpec, Spec, Http!Spec

\* List, semaphore and workers agree in every state, whatever the number of
\* workers and the limit of the list: no request and no count is lost between
\* append's two steps and run's two, and no worker finds the list empty.
THEOREM TicketsInvariant == MCSpec => []TicketsInv
  <1>1. Http!Spec => []Http!TicketsInv
    BY HttpAssumption, HttpTickets
  <1> QED BY <1>1, PartsOfComposition, PTL DEF TicketsInv

\* The pool implements TaskPool: the requests append accepts are started in their
\* order, each by one worker, and those it refuses by none.
THEOREM HttpPoolImplemented == MCSpec => HttpImplementsPool
  <1>1. Http!Spec => Http!ImplementsPool
    BY HttpAssumption, HttpRefinement
  <1> QED BY <1>1, PartsOfComposition, PTL DEF HttpImplementsPool
=============================================================================
