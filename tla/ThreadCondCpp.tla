--------------------------- MODULE ThreadCondCpp ---------------------------
(***************************************************************************)
(* Thread/threadCond.cpp: a producer that pushes Items numbers and notifies *)
(* with the mutex held, spins until the queue is empty, sets done, sleeps  *)
(* for five seconds and notifies once more; and a consumer that naps for   *)
(* up to four seconds before each number it takes.                         *)
(*                                                                         *)
(* The spinning test and done are not protected by the mutex.              *)
(***************************************************************************)
EXTENDS CondVar, Naturals, Sequences

CONSTANTS
  Consumer,
  Items         \* 5 in the code

VARIABLES
  timely,       \* the consumer's nap and its lock end within the five seconds
  hoisted,      \* the compiled loop of line 28 reads the queue only once
  produced_nums,
  done,
  i,            \* numbers produced
  producer,     \* "push", "spin", "stuck", "setDone", "notify", "over"
  consumer,     \* "nap", "waiting", "check", "over", "crashed"
  consumed      \* what the consumer has printed

build == <<timely, hoisted>>
vars == <<build, produced_nums, done, i, producer, consumer, consumed, waiters>>

Init ==
  /\ timely \in BOOLEAN /\ hoisted \in BOOLEAN
  /\ produced_nums = <<>> /\ done = FALSE /\ waiters = {}
  /\ i = 0 /\ producer = "push" /\ consumer = "nap"
  /\ consumed = <<>>

Running == consumer # "crashed"

\* The consumer has the mutex between its test of the queue and the end of its
\* round, and has given it up while it waits.
MutexFree == consumer # "check"
-----------------------------------------------------------------------------
\* The producer pushes without notifying.
Push_Silent ==
  /\ Running /\ MutexFree
  /\ producer = "push" /\ i < Items
  /\ produced_nums' = Append(produced_nums, i)
  /\ i' = i + 1
  /\ UNCHANGED <<build, done, producer, consumer, consumed, waiters>>

\* One critical section: push and notify_one.
Push ==
  /\ Running /\ MutexFree
  /\ producer = "push" /\ i < Items
  /\ produced_nums' = Append(produced_nums, i)
  /\ i' = i + 1
  /\ Signal
  /\ UNCHANGED <<build, done, producer, consumer, consumed>>

\* while(!produced_nums.empty()); without the mutex.  A compiler that sees no
\* synchronisation may read once and then loop on the answer.
Spin ==
  /\ Running
  /\ producer = "push" /\ i = Items
  /\ \/ produced_nums = <<>> /\ producer' = "setDone"
     \/ produced_nums # <<>> /\ hoisted /\ producer' = "stuck"
  /\ UNCHANGED <<build, produced_nums, done, i, consumer, consumed, waiters>>

SetDone ==
  /\ Running
  /\ producer = "setDone"
  /\ done' = TRUE
  /\ producer' = "notify"
  /\ UNCHANGED <<build, produced_nums, i, consumer, consumed, waiters>>

\* The producer never notifies again.
LastNotify_Missing ==
  /\ Running
  /\ producer = "notify"
  /\ producer' = "over"
  /\ UNCHANGED <<build, produced_nums, done, i, consumer, consumed, waiters>>

\* Five seconds later.  They outlast the consumer's nap if nothing delays it.
LastNotify ==
  /\ Running
  /\ producer = "notify"
  /\ timely => consumer # "nap"
  /\ Signal
  /\ producer' = "over"
  /\ UNCHANGED <<build, produced_nums, done, i, consumer, consumed>>
-----------------------------------------------------------------------------
\* The nap is over, the mutex is taken, and the queue is tested.
TestQueue ==
  /\ consumer = "nap"
  /\ IF produced_nums = <<>>
       THEN Sleeps(Consumer) /\ consumer' = "waiting"
       ELSE UNCHANGED waiters /\ consumer' = "check"
  /\ UNCHANGED <<build, produced_nums, done, i, producer, consumed>>

WakeUp ==
  /\ consumer = "waiting" /\ Consumer \notin waiters
  /\ consumer' = "check"
  /\ UNCHANGED <<build, produced_nums, done, i, producer, consumed, waiters>>

Break ==
  /\ consumer = "check" /\ done
  /\ consumer' = "over"
  /\ UNCHANGED <<build, produced_nums, done, i, producer, consumed, waiters>>

Consume ==
  /\ consumer = "check" /\ ~done /\ produced_nums # <<>>
  /\ consumed' = Append(consumed, Head(produced_nums))
  /\ produced_nums' = Tail(produced_nums)
  /\ consumer' = "nap"
  /\ UNCHANGED <<build, done, i, producer, waiters>>

\* front() and pop() of an empty queue are undefined.
ConsumeNothing ==
  /\ consumer = "check" /\ ~done /\ produced_nums = <<>>
  /\ consumer' = "crashed"
  /\ UNCHANGED <<build, produced_nums, done, i, producer, consumed, waiters>>

Spurious ==
  /\ SpuriousWakeup(Consumer)
  /\ UNCHANGED <<build, produced_nums, done, i, producer, consumer, consumed>>
-----------------------------------------------------------------------------
Produce  == Push \/ Spin \/ SetDone \/ LastNotify
Consumes == TestQueue \/ WakeUp \/ Break \/ Consume \/ ConsumeNothing

Next == Produce \/ Consumes \/ Spurious

Spec == Init /\ [][Next]_vars

\* Both threads are scheduled, and a thread that wants the mutex gets it.
FairSpec == Spec /\ SF_vars(Produce) /\ WF_vars(Consumes)
-----------------------------------------------------------------------------
\* Every variable keeps its type; the queue holds the numbers that were made.
TypeOK ==
  /\ produced_nums \in Seq(0..Items)
  /\ done \in BOOLEAN
  /\ i \in 0..Items
  /\ producer \in {"push", "stuck", "setDone", "notify", "over"}
  /\ consumer \in {"nap", "waiting", "check", "over", "crashed"}
  /\ consumed \in Seq(0..Items)
  /\ waiters \subseteq {Consumer}

\* Numbers come out in the order they went in, none lost and none twice.
InOrder == consumed \o produced_nums = [n \in 1..i |-> n - 1]

\* done is only set when every number has been consumed (lines 27 to 30), so a
\* consumer that stops at line 44 leaves nothing behind.
DoneMeansAllConsumed == done => Len(consumed) = Items

\* The consumer does not sleep beside a number it was not told about.
NotStranded == Consumer \in waiters => produced_nums = <<>>

\* However the threads are timed and the race of line 28 is compiled: numbers come
\* in order, none is left when done is set, and no sleeper is beside one.
QueueInv == TypeOK /\ InOrder /\ DoneMeansAllConsumed /\ NotStranded

\* If the five seconds are enough and line 28 is compiled as written, one more
\* notification ends the program, as the comment at line 29 has it, unless a wait
\* has returned for nothing.
ProgramEnds ==
  timely /\ ~hoisted ~> (producer = "over" /\ consumer = "over") \/ consumer = "crashed"
=============================================================================
