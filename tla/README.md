# Verification of C-Project

C-Project is a collection of network and concurrency programs in C and C++: thread
pools, ring buffers, a memory pool, a leak detector, chat servers, a process pool, a
reactor, a bank simulation, HTTP servers. This directory has TLA+ modules that model the
parts of it in which the order of things matters, TLC configurations that check them on
small instances, and proofs, checked by TLAPS, of what holds for every size.

    tlc -workers 2 -config MCReactor.cfg MCReactor     # one run
    tlapm ReactorProofs.tla                            # the proofs of one component

`PROJECT.json` lists components, runs, the source lines of every definition, the
hazards of the code with the properties that stand against them, and the theorems.

## The system

The programs share no code, with one exception (`StackAlloc` uses `MemoryPool`). Within
a program the parts interact as follows.

| component | state | operations | what is hard | what makes it correct |
|---|---|---|---|---|
| `ThreadPoolC` | queue of tasks, `shutdown`, a mutex, a condition variable | `addTask`, `getTaskSize`, `threadFunc`, `stopAll` | `shutdown` written without the mutex, spurious wakeups, signal after the unlock | no pop from an empty queue, tasks run once and in order, nothing destroyed in use |
| `ThreadPoolCpp` | queue, `stop`, mutex, condition | `enqueue` (also from inside a task), worker loop, destructor | `notify_one` outside the lock, tasks still queued at the end | no lost wakeup, every accepted task is run before the destructor returns |
| `HttpServer` pool | list of requests, semaphore, mutex | `append`, `run` | list and semaphore change in different steps, a list at its limit | they agree; each accepted request is processed once |
| `HttpServer` connections | read buffer, three indices, parser state | `read`, `process_read` and what it calls | a request in any number of pieces, cut inside a line's end | complete exactly when all of it has been read |
| `Thread/threadSem.c` | ring buffer, two semaphores, two indices | producer, consumer | no lock at all | mutual exclusion by slot, a bounded FIFO channel |
| `Thread/threadCond.c` | list, its length, mutex, condition | producer, consumer | a test made once, a signal after the unlock | nobody sleeps for ever beside a message |
| `Thread/threadCond.cpp` | queue, `done`, mutex, condition | producer, consumer | a sleep used to synchronise, a test outside the lock | in order, nothing left behind, the program ends when its delays are kept |
| `MemoryPool` | blocks, bump pointer, list of free slots inside the slots | `allocate`, `deallocate`, destructor | the list lies in memory the clients write, padding by unsigned arithmetic | no slot with two owners, every slot aligned, every block freed, a block left only when it is used up |
| `StackAlloc` | chain of nodes in slots of the pool | `push`, `pop`, destructor | a node that is given back is overwritten | it is a stack, and gives everything back |
| `LeakDetector` | list of blocks, a total, counters of the units | `new`, `delete`, report at exit | half of a doubly linked list is maintained | the total is that of the live blocks; leaks are found (they are not, see below) |
| `ChatRoom/MPserver.c` | `users`, `sub_process`, `user_counter`; per child a loop and a flag | accept and fork, SIGCHLD and `waitpid`, SIGTERM | a table compacted while children come and go, merged signals, edge-triggered events | table, map and counter agree; no zombie stays |
| `ChatRoom/server.c` | table of descriptors, buffers that point into each other | `poll` loop | entries move in the middle of a turn, events that are never cleared | each entry is looked at once, nobody is forgotten |
| `ProcessPool` | children's pids, a counter, a pipe per child, signal pipes | `run_parent`, `run_child` | crashes, signals at any time, dispatch to a child that is gone | the parent outlives its children, connections go round among those left, Ctrl-C ends the pool |
| `MyReactor` | list of descriptors, two condition variables, epoll set | main loop, accept thread, workers, `prog_exit` | lost signals, edges that come once, descriptor numbers used again, clients that do not read | no edge dropped, every client accepted and read while a worker is free |
| `QueueServiceSystem` queues | linked list with a back pointer | `enqueue`, `orderEnqueue`, `dequeue`, `clearQueue` | the back pointer must leave a node before the node is freed | the list is the queue it stands for |
| `QueueServiceSystem` bank | event list, queue of customers, windows, totals | arrival, departure, `init`, `run`, `end` | windows, departures and queue are kept apart | they agree, nobody waits in vain, time does not go back |
| `WebServer` | per connection a buffer and the operation under way | accept, read, respond, as chains of handlers | a client that pipelines, bodies read too far, errors, handlers that throw | an exchange of requests and replies in order, accepting stops only with the process |
| `Concurrence`, `Boost_asio`, `Libevent`, `CGIserver`, `MemoryPool/main.cpp` | tables of descriptors, or next to none | echo servers, a benchmark | mostly I/O and library callbacks | *not modelled* |

## Modules

Library contracts, written from how the programs use them: `CondVar` (wait set, signal,
broadcast, spurious wakeup), `PosixSync` (`CondVar` with the mutex a wait gives up),
`Semaphore`. A program that only touches its data with the mutex held has its critical
sections as single steps and uses `CondVar`; `ThreadPoolC`, which reads `shutdown` under
the mutex and writes it without, has the mutex as a variable and a step for each access.

Abstract specifications, which say what a component promises and nothing of how:

* `TaskPool`: tasks start in the order accepted, each once; a stopped pool halts only when
  nothing is left. Three pools implement it: `ThreadPoolC`, `ThreadPoolCpp`, `HttpThreadPool`.
* `BoundedChannel`: a FIFO channel with a capacity; implemented by `ThreadSem`.
* `LifoStack`: implemented by `StackAlloc` over `MemoryPool`.
* `AbstractQueue`: first in, first out, or sorted by `EventOrder`; implemented by
  `LinkedQueue`, for both uses of the template. `QueueSystem` is written over sequences,
  that is over what `LinkedQueue` implements.
* `RequestReply`: over one connection, replies to the client's own requests, in order, none
  twice, each from the whole content of its request; implemented by `WebServer`.

How the components' modules correspond to the code:

* `ThreadPoolC`. `pc` says where each thread is. `TestLoop` and `Sleep` are two steps
  because `stopAll` may write `shutdown` in between; `Exit` and `TakeTask` are the second
  read (line 37). `AddTask` is the critical section of `addTask`, `SignalTask` the signal
  after it. `main` adds tasks, polls `getTaskSize` and calls `stopAll`: `SetShutdown`,
  `BroadcastAll`, `JoinAll`. A task's `run` is one step.
* `ThreadPoolCpp`. `Wait`, `Return` and `Take` are what a worker may do with the lock;
  `Enqueue`, `Throw`, `NotifyOne` are `enqueue` by the owner of the pool or by a worker that is
  running a task; `SetStop`, `NotifyAll`, `Join` the destructor.
* `HttpThreadPool`. `Accept` or `Refuse`, then `Post`, are `append`; `Wait`, `Fetch` and
  `Process` are `run`. `m_workqueue.size` at line 64 is read as `size()`.
* `HttpParser`. `Read` is `http_conn::read` for whatever has arrived; each action after it is one turn
  of the loop in `process_read`: `NoLine` (`parse_line` finds no complete line), `RequestLine`, `Header`,
  `BlankLine`, `Content`. The three indices into the buffer are the code's. A stretch of text
  that `parse_line` passes over without stopping is one unit, and `CR` and `LF` are units of
  their own. `do_request` may answer anything; answering is where the model stops.
* `ThreadSem`. One action for each statement of the two loops; `Unread` maps the array to the
  channel.
* `ThreadCond`, `ThreadCondCpp`. Producer and consumer with a critical section as one step. In the
  first, `WokenTake` has no second test of the list, as line 55 has none, and `Crash` is what
  follows the null pointer then. In the second, the loop at line 28 reads the queue without the
  lock: it may have been compiled into one read (`hoisted`), and the five seconds of line 31
  may or may not be enough (`timely`).
* `MemoryPool`. A slot is `<<block, offset>>`; `word` is the first word of every slot, which is
  the link while the slot is free and the client's while it is live. `Reuse`, `Bump` and
  `NewBlock` are the three ways through `allocate`; `base` is the address of a block modulo the
  alignment, so that the padding of `NewBlock` is computed as in the code. `freed`, `live` and
  `peak` are history, for the properties.
* `StackAlloc` extends `MemoryPool`; its steps are steps of the pool together with the
  assignments to `head_` and `prev`. `clear` is modelled where the code calls it, in the
  destructor.
* `LeakDetector`. A block is an address `malloc` returns; `next` and `prev` are its node. The links are
  maintained as the code does, the line that is commented out (37) included. `UnitStarts`
  and `UnitEnds` are the static objects of the translation units: the last to go walks the list.
* `MPServer`. The parent's loop works through a batch of events (`EpollWait`, `NewUser`,
  `NoNewUser`, `ReadSignals`, `Reap`, `Reaped`, `KillChildren`, `ParentExits`), a child goes
  `forked`, `init`, `test`, `tested`, `blocked` and back until `stop_child`. Signals are bytes in
  a socket pair; equal neighbours are one, as reading both has the effect of reading one.
* `ChatTable`. `Poll` fills in `revents`; then the loop of `server.c` is taken entry by entry, with the
  index `i`: `NewUser`, `Refuse`, `GetError`, `ClientLeft`, `ReceiveFails`, `Receive`, `SendText`, in the order of the
  `if`s. `Remove` moves the last entry to the place of the one that goes and steps back. `write_buf` is the
  descriptor whose `buf` it points into. `events |= ~POLLIN` sets every bit, as it does in C.
* `ProcessPool`. Parent and children share `SetupSigPipe`, `EpollWait`, `Exit`; `Deliver` takes
  the default action before `SetupSigPipe` and the handler's after it. `Dispatch`, `NobodyLeft`,
  `Reap`, `KillChildren` are `run_parent`; `AcceptOne`, `StopOnInt`, `ReportTerm` are `run_child`.
  The call of `process()` at line 271 is left out.
* `LinkedQueue`. Nodes are addresses, `next` and `element` memory. `OrderEnqueueEmpty` has the
  node that `orderEnqueue` allocates and forgets when the list is empty (line 79).
* `QueueSystem`. One step is one turn of the loop in `run`: the handler of the current event and
  the dequeue of the next. A random number is any number it may be.
* `Reactor`. Kernel and clients (`backlog`, `fdOf`, `unread`, `gone`, `watched`, `ready`), the main
  loop, the accept thread, the workers and `prog_exit`. A descriptor number is used again as
  soon as it is closed. A message is taken whole by one `recv`; the handler runs only while the
  main thread is in `epoll_wait`; a section with `g_clientmutex` held is one step.
  `g_acceptmutex`, which only the accept thread takes, and `g_mutex`, which nobody takes, are
  left out. The loop of `send` at lines 261-289 is taken turn by turn (`SendAll`, `SendPart`, `SendFails`):
  a client that does not read is in `full` until it does (`ReadReplies`), and its worker sleeps
  and tries again for as long. A reply is out after two sends at most.
* `WebServer`. Each connection has an operation under way (`op`); `AcceptDone`, `ReadHead`, `Read` complete
  it, `AcceptHandler`, `HeadHandler`, `BodyHandler`, `WriteHandler` are what is run then, and `OperationFails` is an
  error code instead. `need` is what is left of the body, computed as at line 143, in numbers
  modulo `SizeMod`. Part of a request is what the regular expressions find in it: the resource
  that matches, Content-Length, the version, and whether `parse_request` stops at a line that is no
  header before the blank line (`rest`): what is left of the head then stays in the buffer and counts as
  content, as in the code. `crashed` is the end of the process, which no `catch` prevents: `stoull` throws
  on a bad Content-Length (143), `stof` on a bad version after the reply (211), and `/string` reads
  through a null pointer when there was no Content-Length (`handler.h` 16).

Every program has an instance in a module `MC...`. Where several small programs share one,
which of them runs is settled in the initial state, the others never move, and a property
of one says nothing of the others: `MCThreadPools` (`ThreadPoolCpp`, `HttpThreadPool`), `MCThreadSem`
(`ThreadSem`, `ThreadCond`, `ThreadCondCpp`), `MCMemoryPool` (`MemoryPool`, `StackAlloc`, `LeakDetector`), `MCQueueSystem`
(`QueueSystem`, `LinkedQueue`), `MCEventServers` (`WebServer`, `ChatTable`, `HttpParser`). The fairness is that of
the program that runs. `MCProcesses` (`ProcessPool`, `MPServer`) has a specification for each,
`PoolSpec` and `ChatSpec`, and a configuration each; in either, the other server has no connections
and never moves.

Operators named `Action_Variant` stand beside the action they differ from: each is a
plausible mistake, and a property that did not fail with the mistake in place would say
nothing about the code.

## Runs, bounds, fairness

| run | what it shows | instance |
|---|---|---|
| `thread_pool_c` | `PoolInv` (nothing is popped from an empty queue, nothing destroyed in use), refinement of `TaskPool`, every task runs | 3 workers, 4 tasks, spurious wakeups: two sleepers for a signal to choose from while the third holds the mutex |
| `thread_pool_c_stop` | **fails**: `stopAll` need not return | 2 workers, 2 tasks |
| `thread_pools` | `PoolInv` (no lost wakeup, nobody asleep after the stop), refinement, every task finishes, the destructor returns; `TicketsInv` (list, semaphore and workers agree), refinement, every accepted request is processed | 3 workers, 4 calls of `enqueue`, from outside or inside tasks; 3 workers, `m_max_requests` 2, 6 calls: the list is full while workers hold tickets |
| `thread_programs` | `BufferInv` (slots conserved, threads never at one slot), refinement of `BoundedChannel`; `CondInv` (list or queue, counter and signals agree); nobody sleeps for ever | 4 slots: empty, partly full and full at every position, with wraparound; the list of at most 10 messages and the 5 numbers of the code; spurious wakeups |
| `memory_pool` | `SlotsInv`, `GrowthBounded`; `StackInv`, refinement of `LifoStack`, everything is released; `LeakInv` | 2 blocks of 3 slots whose alignment exceeds that of `operator new`, so that both offsets of a block occur; 2 values; 3 chunks, 2 sizes, 2 translation units |
| `leak_detector` | **fails**: the report at exit does not find all leaks | 3 chunks |
| `chat_server` | `TableInv`, every zombie is waited for | 2 children at a time, 3 connections (one to be refused, or a process number used again), 1 message, 1 SIGTERM |
| `process_pool` | `ParentInv`, `RoundRobin`, Ctrl-C ends every process, unless all children died before the parent had its handlers | 2 children, 2 connections, 2 crashes: either child or both may be lost at any time; Ctrl-C or `kill -INT` at any time, before the handlers are set too |
| `bank` | `BankInv`, `NoneWaitsInVain`, `ServedInOrder`, `ClockNeverGoesBack`; `ListInv`, refinement of `AbstractQueue` | 2 windows, closing at 3, at most 4 customers a run, 2 runs; 5 nodes, which are symmetric, two elements for each of two times |
| `reactor` | `EdgesInv`, `NoLostWakeup`, every client is accepted and read unless all workers are held up for ever | 2 workers, 2 clients, which need not read what they are sent; either 3 messages (both workers held up with one unread), or 1 message and clients that leave, or 1 message and a stop at any time |
| `event_servers` | refinement of `RequestReply`, requests are answered and connections accepted unless a request ends the process; `EntriesInv`, `NobodyForgotten`; `AnyChunking` | 2 connections with up to 2 requests each and 3 in all, one pipelining, of seven kinds (no length, 0, 2, or none that `stoull` takes; `/string`, another resource or none; a head that is read whole or not; a version that keeps, closes or throws); 2 users, 3 connections, 2 texts; nine streams of up to 13 units, cut anywhere |
| `chat_poll_stale` | **fails**: a text is replaced before everybody has been sent it | 2 users, 2 texts |

The bounds are constants, named at their declaration (`MaxCalls`, `MaxConns`, `MaxSends`,
`MaxTerms`, `MaxTexts`, `MaxCrashes`, `MaxBlocks`, `MaxCustomers`, `MaxTasks`, `MaxRequests`, `MaxInAll`); except
where they are the code's own (`MaxMsgs`, `Items`, the `MaxRequests` of `HttpThreadPool`), they limit
what the outside does, never what the program does. `CHECK_DEADLOCK FALSE` is set where the
program ends or waits for an outside that has nothing more to do. What lies beyond a bound
is the matter of the proofs, which hold for every value of the constants. `Elements` of `LinkedQueue`
and `Streams` of `HttpParser` are constants for their sake: `MCQueueSystem` and `MCEventServers` give the few
that are checked.

Fairness is that of scheduling, and nothing is asked of clients, callers or whoever sends
signals:

* `ThreadPoolC`: strong fairness for each thread. A thread that waits for a mutex others take
  again and again gets it at some time; weak fairness would let it starve.
* `ThreadPoolCpp`: weak fairness for each worker's loop and for `NotifyOne`, `NotifyAll`, `Join`; critical
  sections are single steps, so no step is disabled by contention. A task returns.
* `HttpThreadPool`: weak fairness for `Post`, for each worker once it has a ticket, and for
  "some worker gets the semaphore" - not for each worker, which `sem_wait` does not promise.
* `ThreadSem`, `ThreadCond`: weak fairness for both threads. `ThreadCondCpp`: weak fairness for the consumer
  and strong for the producer, whose lock the consumer takes again and again.
* `StackAlloc`: a destructor that has begun goes on.
* `MPServer`: weak fairness for the parent alone: what its children do, and when, makes no difference
  to `ZombiesReaped`. `ProcessPool`: weak fairness for each process, and for the delivery of signals.
* `Reactor`: weak fairness for each thread. That makes a worker try `send` again and again, and never
  a client read: the turns at a full socket go on without end, and a worker in them serves nobody
  else. `EveryClientServed` promises service as long as not all workers are in that loop for ever (`AllHeldUp`);
  without that exception it fails in the same run, with as many clients that do not read as
  there are workers.
* `WebServer`: an operation that can complete does, or fails, and its handler is run: that is the
  contract of `io_service::run`. `ChatTable`: the one thread goes on.

There is none for spurious wakeups, crashes, errors, or anything a client does. Where something
the outside does, or may have done, ends or stops a service for others, the liveness property names that
case and nothing else: `AllHeldUp` (`Reactor`), `DiedUnheard` (`ProcessPool`), `EndedByRequest` (`WebServer`). The
last holds only when the process has ended and some client has sent a request that ends it
(`Fatal`), so a server that stops for another reason is an error.

**What fails.** Three runs check what the repository says of a program, and TLC finds it
violated.

* `thread_pool_c_stop`. `stopAll` sets `shutdown` and broadcasts without the mutex. A worker that has
  evaluated `taskList.size() == 0 && !shutdown` and not yet called `pthread_cond_wait` misses the
  broadcast, and `pthread_join` waits for it for ever. The comments at lines 90 and 92 say that
  all waiting threads are woken and waited for. `ThreadPoolCpp`, whose destructor sets `stop` with
  the lock held, is proved to leave no worker asleep.
* `chat_poll_stale`. A text lies in its sender's buffer until the others have been sent it, and
  the sender's next text, or the entry that moves there when it leaves, overwrites it. The
  comment at line 149 says that what one socket sends is sent to all the others.
* `leak_detector`. A new block does not become the `prev` of the one after it, so every `prev` is
  the root: deleting a block makes the root point behind it, and the blocks made after it are
  lost. The README of the program says that looking at the list shows whether there is a leak.

Other places where the models have behaviours that nobody will have wanted, without a
document that promises otherwise:

* a child of the chat server may not act on SIGTERM between its test of `stop_child` and
  `epoll_wait`;
* of several connections announced by one edge one is accepted (`MPserver.c`, `processpool.h`);
* when all children of the process pool have died before the parent has a handler for SIGCHLD
  (line 167), it never hears of them: Ctrl-C then signals zombies, `m_stop` stays false and the
  parent does not end (344-378);
* clients of the reactor that do not read what they are sent hold up a worker each, in the loop of
  `sleep(10)` and `send` (reactor.cpp 261-271), and as many as there are workers stop the service;
* one request ends the web server for everybody: `POST /string` without a Content-Length, a
  Content-Length that is no number or out of range, a version that is none (`handler.h` 16,
  `server_base.h` 143 and 211; nothing catches around `run()`);
* `MemoryPool` takes a new block while one more slot would fit exactly into the current one (`>=` at
  line 77, with `lastSlot_` the last place where a slot fits): `GrowthBounded` counts that slot as used up;
* `pthread_cond_destroy` in `prog_exit` may wait for a thread that sleeps;
* two entries of one descriptor in `g_listClients` let a worker reply to, or release, a client
  another worker has already dealt with;
* the consumer of `threadCond.c`, woken by the signal of a message it has already taken, follows
  a null pointer (line 55);
* in `threadCond.cpp` the program need not end when the consumer is slower than five seconds, or
  line 28 is compiled into one read;
* in `server.c` the last words of a client that sends and leaves at once are dropped, `POLLRDHUP`
  being looked at before `POLLIN` (line 117);
* in `http_conn.cpp`, content that comes in several pieces is searched for line ends and then
  asked for again (lines 197 and 209): `AnyChunking` leaves such cuts out (`ContentSplit`);
* deleting the block that was allocated first follows a null pointer in `LeakDetector`.

They are listed as hazards with their lines, where they are not part of a finding.

## Proofs

Every safety property of a passing run - the invariants, the refinements, `ClockNeverGoesBack` - is
a theorem too: the runs show it on a small instance, the proofs for every value of the
constants. Eight modules have the theorems, each for a program or for a few of a kind; the
lemmas about a program stand beside its theorems.

| module | programs | theorems |
|---|---|---|
| `ThreadPoolCProofs` | `ThreadPoolC` | `PoolInvariant`, `PoolImplemented` |
| `ThreadPoolsProofs` | `ThreadPoolCpp`, `HttpThreadPool` | `PoolInvariant`, `PoolImplemented`, `TicketsInvariant`, `HttpPoolImplemented` |
| `ThreadSemProofs` | `ThreadSem`, `ThreadCond`, `ThreadCondCpp` | `BufferInvariant`, `ChannelImplemented`, `CondInvariant` |
| `MemoryPoolProofs` | `MemoryPool`, `StackAlloc`, `LeakDetector` | `SlotsInvariant`, `GrowthInvariant`, `FirstSlotFits`, `ChainInvariant`, `StackImplemented`, `LeakInvariant` |
| `QueueSystemProofs` | `QueueSystem`, `LinkedQueue` | `BankInvariant`, `NoneWaits`, `ServedInTurn`, `ClockMonotonic`, `ListInvariant`, `QueueImplemented` |
| `ProcessesProofs` | `ProcessPool`, `MPServer` | `ParentInvariant`, `RoundRobinInvariant`, `TableInvariant` |
| `ReactorProofs` | `Reactor` | `EdgesInvariant`, `WakeupInvariant` |
| `EventServersProofs` | `WebServer`, `ChatTable`, `HttpParser` | `ExchangeImplemented`, `EntriesInvariant`, `ChunkingInvariant` |

**Assumptions.** A theorem rests on the assumption of its modules about their constants, which
TLC evaluates in the runs: `PoolAssumption` and `HttpAssumption` (finitely many workers, limits that
are numbers), `BufferAssumption`, `CondAssumption`, `GeometryAssumption` (alignments and sizes as the C++
rules have them), `DetectorAssumption`, `ServerAssumption`, `ReactorAssumption`, `SystemAssumption` (times are
numbers, and no event is `Null`), `QueueAssumption` (nodes are finitely many, `Null` is none of them
and no element), `ChatAssumption` (no more users than descriptors), `WebAssumption` and
`ParserAssumption`. Two of them say something of the world outside. `WebAssumption`: no client sends as many
bytes as there are values of `size_t` (`SizeMod`), since the length that is still to be read is
computed modulo that number. `ParserAssumption`: a header is one unit of a stream, with the end of
another line before it and its own behind it; that is what a unit is, not a limit on clients.

**The plan of a proof.** An inductive invariant (`IInv`, or `ChatIInv`, `WebIInv`, `ParserIInv` and so on where a
module has several), the lemma that the initial states have it, a lemma for each action or each
part that the steps keep it, and the theorem by temporal logic. For a refinement: a lemma that maps the initial
states, and one that maps every step to an abstract step or a stutter.

What has to be known of a function that is defined by recursion - the links of a list, the sum of a
total - is not proved by induction, for which the provers have no rule. `LeastMember` (a set
of numbers has a least one) takes its place: the first number for which a claim fails is no
number after one for which it holds. And where the model walks along links, the invariant says that
there is a sequence of nodes, each once, that the links go along; the operations change that sequence,
and one lemma says that the walk finds it.

* `ThreadPoolC`. `TypeOK` and `NoPopFromEmpty` are not inductive: a worker at `leave` needs to
  be known to hold the mutex, or another one could empty the queue in between. The invariant
  adds `Roles` (who can be where), `MutexHeld` (the mutex belongs to the thread whose `pc` is inside
  a critical section), `SleepersWait` (only a thread at `waiting` is in the wait set),
  `StopsWhenEmpty` (`stopAll` is called when the queue has been seen empty and nobody adds) and
  `Joined`. From it follow `PoolInv` and, with `History` (every task added is queued, held or
  finished, in order), that each step is a step of `TaskPool` or a stutter.
* `ThreadPoolCpp`. `PoolInv` needs that a worker in the wait set is idle
  (`SleepersIdle`), that `stop` agrees with the destructor's place (`StopSet`), and that after
  `NotifyAll` nobody sleeps: a worker exits only when `stop` is set and the queue is empty, so the
  last one awake cannot leave a task behind. The refinement adds the history again.
* `HttpThreadPool`. The list is as long as the semaphore's value, the workers with a ticket
  and the post still owed together (`TicketsBackRequests`). A worker that takes a ticket or uses it
  changes the number of those workers by one (`TicketCount`, from the cardinality theorems), so
  `append`'s two steps and `run`'s two cancel out, and a worker with a ticket finds a request. The
  refinement adds that a request's number is in one place only.
* `ThreadSem`. `SlotsConserved` and `RingInv` (the producer's index is the consumer's plus the
  slots that are full or being consumed, modulo `LEN`) are inductive together; with both threads at
  a slot the distance is neither 0 nor `LEN`, so that the two are apart. For the channel, `LaidOut`
  describes `Unread` without the remainder, which the SMT solver handles badly.
* `ThreadCond`, `ThreadCondCpp`. The invariant of the C program is inductive. That of the C++ program adds
  `AfterSpin`: once the producer is past line 28 all numbers are made and nobody pushes, so
  the empty queue it saw without the lock stays empty.
* `MemoryPool`. The arithmetic comes first: for every address, slot size and alignment the
  padding of `allocateBlock` puts the first slot on the alignment, behind the link, inside the
  block (`FirstSlotFits`). `SlotsInv` then needs that blocks are chained to the one before
  (`BlocksChained`) and that all slots of the current block lie below `currentSlot`, which is
  aligned (`RoomLeft`): so a bump takes a slot apart from all others. `GrowthBounded` is kept with
  it: a slot is carved only when the list of free ones is empty, so never more slots than were
  live at once (`SlotsReused`), and a block is followed by another only when it has no room for two
  more slots (`Filled`).
* `StackAlloc`. The sequence of nodes (`IsChain`) holds the live slots of the pool, so that `push` gets a slot
  that is none of them, and what the pool writes into a slot that is given back is no link of the
  chain. The items of the stack are what those nodes hold.
* `LeakDetector`. `Sums` gives the sum over each subset by taking any member away first; that the
  choice makes no difference, and that one member more adds its size, is shown by a least
  counterexample among the cardinalities. Then `new` and `delete` change total and blocks alike, and
  every `prev` stays the root or null (`LeakIInv`), since line 37 is commented out.
* `QueueSystem`. Pending events and windows are kept apart in the code; `DeparturesServed` and
  `ServedDepart` tie them together, `OnePerType` keeps one event for each window, `QueueSorted`
  ties the queue to those who have been served. `InsertKeeps` says what `orderEnqueue` does to a sequence in order.
* `LinkedQueue`. `IsList` is the sequence, `Placed` where `back` points: at the last node for the queue of
  customers, at any node or the head for the list of events, whose order the search needs. `LinkKeeps` and
  `UnlinkKeeps` are the two changes of links; a node is freed only when neither sequence nor
  `back` has it. `Inserted` says by places what the abstract `Insert` says by a partition.
* `MPServer`. `EntriesAreChildren`: every entry below `user_counter` holds a child that has not
  been waited for, and that child's `sub_process` is the entry. Moving the last entry into the
  gap keeps it whichever child exits, and the cardinality of the children follows the counter.
* `ProcessPool`. `RoundRobin` is about the children the parent still knows of, whichever have
  been lost: it needs to know where the turn is (`Turn`: of those, the ones before `sub_process_counter` have
  been asked once more than the others), and that the search of `run_parent` finds the next of them
  while there is one (`NextChildIsKnown`, a least element and a remainder). With two children one that is
  left is told of everything; the turn among several, after a loss, is the matter of the theorem.
  `ParentInv` follows from `ForgottenAreGone` and `StopsWithoutChildren`.
* `Reactor`. `EdgesInv` is not inductive: it needs that nobody in the backlog has a descriptor
  or is there twice (`Net`), that `main` leaves the loop over the events with none left (`Data`), that
  nothing is watched once `prog_exit` has closed epoll (`Watch`), and that a worker which replies
  owes nothing any more (`Kept`): what arrives after its last `recv` makes a new edge. `accept` finds
  a free number by the pigeonhole principle (`LowestFdIsFree`). `NoLostWakeup` is inductive with the types.
* `ChatTable`. `DueAhead` has the descriptors that poll reported and the loop has not come to at entries from the
  index on, which `Remove` keeps because it steps back to the entry it has just moved. `OpenIsListed` and
  `OneEntry` give a new client a descriptor that has no entry.
* `WebServer`. A step concerns one connection, and `Conn` says what holds of one, whichever it is: the request lines
  in buffer and wire are those of later and later requests, all behind the last that was answered
  (`NewerAhead`), and a content that has been read whole is what was left of the head and what the
  request's length says (`ContentKnown`).
  When a pipelined request is read along with a body, line 143 subtracts more than the length and wraps
  around; `Room` shows that the connection then waits for more than can ever come, so that
  no reply is made from a wrong body.
* `HttpParser`. A connection is in the head (`InHead`: the line that is looked for begins where a
  line ends, and there is no end of it up to `checked_idx`) or in the content (`InContent`: the
  search has stopped where the content begins). `LineInHead` says what `parse_line` finds of a line of which a part has been gone
  through before, a CR without its LF included; `NextLine` that behind a line there is another one of the head, or its end.

**Model-checked only.** All liveness: the prover has neither fairness nor `ENABLED`. That is `EveryTaskRuns`,
`EveryTaskFinishes`, `DestructorReturns`, `EveryRequestProcessed`, `NobodySleepsForEver`, `EverythingReleased`,
`ZombiesReaped`, `CtrlCEndsPool`, `EveryClientServed`, `EveryRequestAnswered`, `EveryClientAccepted` and `NobodyForgotten`.
The three runs that fail are counterexamples and need no proof.

## Not modelled

* `HttpServer`: writing the response (`process_write`, `write`, `unmap`), and the event loop of `main.cpp`. The
  loop closes every connection that sends, since its test for `EPOLLIN | EPOLLHUP | EPOLLERR` (line
  108) comes before the one for `EPOLLIN`, so that `read` is never called; nor does the class compile
  as it is (`parse_header` is declared and `parse_headers` defined). `HttpParser` is what the functions do
  when they are called as the loop means to. The destructor of the pool and class `cond` of
  `locker.h`, which nothing uses.
* `MPserver.c`: what the children relay through shared memory and pipes. A child keeps the index
  it was forked with after its entry has moved (line 288), and writes its next message over the last one before
  the others have sent it (line 131); no promise about the texts is left that could be checked.
* `StackAlloc::clear` called by a client: `head_` then points at a node that has been given back, and
  what follows is undefined.
* `WebServer`: the texts of requests and replies. Lines are taken to end in CRLF (`pop_back` at lines 169 and
  182 takes the CR of each), and a line that begins with what is left of another request's body
  is taken to be no request line.
* `LeakDetector`: the names of files and lines, and `delete` of a null pointer.
* `ChatRoom/client.c`, which copies between terminal and socket.
* `CGIserver.cpp`, which reads a file name and runs the file: parsing and I/O, with no state that
  outlives a call.
* `Concurrence`: echo servers of one thread, each with a table of descriptors; `ChatTable` is the one that
  does more with its table.
* `Boost_asio` and `Libevent`: echo servers that are library calls with next to no state of their own.
* `MemoryPool/main.cpp`, a timing comparison; formatting and logging everywhere.
