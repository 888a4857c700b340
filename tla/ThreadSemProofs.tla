-------------------------- MODULE ThreadSemProofs --------------------------
(***************************************************************************)
(* Proofs about the programs of MCThreadSem: ThreadSem for every length of *)
(* the buffer and every set of values, and the two with a condition        *)
(* variable for every limit of the list and every number of items.         *)
(***************************************************************************)
EXTENDS MCThreadSem, TLAPS

\* The step of an index, without the remainder.
Successor(n) == IF n + 1 = LEN THEN 0 ELSE n + 1

\* The remainder the code steps its indices with, without the remainder.
LEMMA Wrap == \A n \in Slots : (n + 1) % LEN = Successor(n)
  BY BufferAssumption DEF Slots, Successor

\* The producer is ahead of the consumer by the slots that have been posted as
\* full and not yet been posted as blank again.
Ahead == full + Consuming

RingInv == p = IF c + Ahead < LEN THEN c + Ahead ELSE c + Ahead - LEN

IInv == TypeOK /\ SlotsConserved /\ RingInv

\* LEN blank slots, none full and both indices at 0: the invariant holds.
LEMMA InitIInv == Init => IInv
  BY BufferAssumption
  DEF Init, IInv, TypeOK, SlotsConserved, RingInv, Ahead, Producing, Consuming, Slots

\* The invariant is inductive: one step for every statement of the two threads.
LEMMA NextIInv == IInv /\ [Next]_vars => IInv'
  <1> SUFFICES ASSUME IInv, [Next]_vars PROVE IInv'
    OBVIOUS
  <1> USE BufferAssumption
  <1> USE DEF IInv, TypeOK, SlotsConserved, RingInv, Ahead, Producing, Consuming, Slots,
              SemWait, SemPost
  <1>1. CASE WaitBlank
    BY <1>1 DEF WaitBlank
  <1>2. CASE Write
    BY <1>2 DEF Write
  <1>3. CASE PostFull
    BY <1>3, Wrap DEF PostFull, Successor
  <1>4. CASE WaitFull
    BY <1>4 DEF WaitFull
  <1>5. CASE Read
    BY <1>5 DEF Read
  <1>6. CASE Clear
    BY <1>6 DEF Clear
  <1>7. CASE PostBlank
    BY <1>7, Wrap DEF PostBlank, Successor
  <1>8. CASE UNCHANGED vars
    BY <1>8 DEF vars
  <1> QED
    BY <1>1, <1>2, <1>3, <1>4, <1>5, <1>6, <1>7, <1>8 DEF Next, Producer, Consumer

\* With both threads at a slot, the producer is 1 to LEN - 1 slots ahead.
LEMMA ApartIfBothInside == IInv => SlotExclusion
  BY BufferAssumption
  DEF IInv, TypeOK, SlotsConserved, RingInv, Ahead, Producing, Consuming, Slots, SlotExclusion

\* The inductive invariant holds in every state the two threads can reach.
THEOREM Invariance == Spec => []IInv
  BY InitIInv, NextIInv, PTL DEF Spec

\* Two threads and no lock, yet never at one slot at the same time, and no slot
\* lost or counted twice: the indices stay in the array, the semaphores in range.
THEOREM BufferInvariant == Spec => []BufferInv
  <1>1. IInv => BufferInv
    BY ApartIfBothInside DEF IInv, BufferInv
  <1> QED BY <1>1, Invariance, PTL
-----------------------------------------------------------------------------
(* The array implements a channel.  Unread lists Written slots from First  *)
(* on; the slot behind them is the producer's.                             *)

Written == full + (IF producer = "post" THEN 1 ELSE 0) + (IF consumer = "read" THEN 1 ELSE 0)
First   == IF consumer \in {"clear", "post"} THEN c + 1 ELSE c

At(k) == IF k < LEN THEN k ELSE k - LEN

\* An index that is at most once round the array, without the remainder.
LEMMA Reduce == \A k \in 0 .. 2 * LEN - 1 : k % LEN = At(k)
  BY BufferAssumption DEF At

\* Unread without the remainder.
LaidOut ==
  /\ Written \in 0..LEN /\ First \in 0..LEN /\ First + Written <= 2 * LEN - 1
  /\ Unread = [n \in 1..Written |-> myQueue[At(First + n - 1)]]
  /\ \A n \in 1..Written : At(First + n - 1) \in Slots
  /\ Unread \in Seq(Values) /\ Len(Unread) = Written

\* In a state of the invariant the unread messages lie where LaidOut says.
LEMMA UnreadLaidOut == IInv => LaidOut
  <1> SUFFICES ASSUME IInv PROVE LaidOut
    OBVIOUS
  <1> USE BufferAssumption
  <1>1. Written \in 0..LEN /\ First \in 0..LEN /\ First + Written <= 2 * LEN - 1
    BY DEF IInv, TypeOK, SlotsConserved, Producing, Consuming, Written, First, Slots
  <1>2. \A n \in 1..Written : First + n - 1 \in 0 .. 2 * LEN - 1
    BY <1>1
  <1>3. Unread = [n \in 1..Written |-> myQueue[(First + n - 1) % LEN]]
    BY DEF Unread, Written, First
  <1>4. Unread = [n \in 1..Written |-> myQueue[At(First + n - 1)]]
    BY <1>2, <1>3, Reduce
  <1>5. \A n \in 1..Written : At(First + n - 1) \in Slots
    BY <1>1, <1>2 DEF At, Slots
  <1>6. \A n \in 1..Written : myQueue[At(First + n - 1)] \in Values
    BY <1>5 DEF IInv, TypeOK
  <1>7. Unread \in Seq(Values) /\ Len(Unread) = Written
    BY <1>1, <1>4, <1>6
  <1> QED BY <1>1, <1>4, <1>5, <1>7 DEF LaidOut

\* The same for the state after a step.
LEMMA UnreadLaidOutNext == IInv' => LaidOut'
  BY UnreadLaidOut, PTL

\* Two lists of slots with the same contents are the same channel.
LEMMA SameUnread ==
  ASSUME LaidOut, LaidOut', Written' = Written,
         \A n \in 1..Written : myQueue'[At(First' + n - 1)] = myQueue[At(First + n - 1)]
  PROVE  Unread' = Unread
  BY DEF LaidOut

\* Writing the slot at p appends its value to the unread messages.
LEMMA WriteSends == IInv /\ IInv' /\ Write => Channel!Send
  <1> SUFFICES ASSUME IInv, IInv', Write PROVE Channel!Send
    OBVIOUS
  <1> USE BufferAssumption
  <1>1. LaidOut /\ LaidOut'
    BY UnreadLaidOut, UnreadLaidOutNext
  <1>2. PICK v \in Values : myQueue' = [myQueue EXCEPT ![p] = v]
    BY DEF Write
  <1>3. Written < LEN /\ Written' = Written + 1 /\ First' = First
    BY DEF Write, IInv, TypeOK, SlotsConserved, Producing, Consuming, Written, First
  <1>4. At(First + Written) = p
    BY DEF Write, IInv, TypeOK, SlotsConserved, RingInv, Ahead, Producing, Consuming,
           Written, First, At, Slots
  <1>5. \A n \in 1..Written : At(First + n - 1) # p
    BY <1>1, <1>3, <1>4 DEF LaidOut, At
  <1>6. \A n \in 1..Written : Unread'[n] = Unread[n]
    <2>1. ASSUME NEW n \in 1..Written PROVE Unread'[n] = Unread[n]
      <3>1. Unread'[n] = myQueue'[At(First + n - 1)] /\ Unread[n] = myQueue[At(First + n - 1)]
        BY <1>1, <1>3 DEF LaidOut
      <3>2. At(First + n - 1) \in DOMAIN myQueue /\ At(First + n - 1) # p
        BY <1>1, <1>5 DEF LaidOut, IInv, TypeOK
      <3> QED BY <1>2, <3>1, <3>2
    <2> QED BY <2>1
  <1>7. Unread'[Written + 1] = v
    <2>1. Unread'[Written + 1] = myQueue'[At(First + Written)]
      BY <1>1, <1>3 DEF LaidOut
    <2>2. p \in DOMAIN myQueue
      BY DEF IInv, TypeOK
    <2> QED BY <1>2, <1>4, <2>1, <2>2
  <1>8. Unread' = Append(Unread, v)
    <2>1. Unread \in Seq(Values) /\ Unread' \in Seq(Values) /\ Len(Unread') = Len(Unread) + 1
      BY <1>1, <1>3 DEF LaidOut
    <2>2. \A n \in 1..Len(Unread) : Unread'[n] = Unread[n]
      BY <1>1, <1>6 DEF LaidOut
    <2>3. Unread'[Len(Unread) + 1] = v
      BY <1>1, <1>7 DEF LaidOut
    <2> HIDE DEF Unread
    <2> QED BY <2>1, <2>2, <2>3
  <1> QED BY <1>1, <1>3, <1>8 DEF Channel!Send, LaidOut, Write

\* Reading the slot at c takes the first of the unread messages.
LEMMA ReadReceives == IInv /\ IInv' /\ Read => Channel!Receive
  <1> SUFFICES ASSUME IInv, IInv', Read PROVE Channel!Receive
    OBVIOUS
  <1> USE BufferAssumption
  <1>1. LaidOut /\ LaidOut'
    BY UnreadLaidOut, UnreadLaidOutNext
  <1>2. Written > 0 /\ Written' = Written - 1 /\ First = c /\ First' = First + 1
    BY DEF Read, IInv, TypeOK, Written, First, Slots
  <1>3. Unread # <<>> /\ Head(Unread) = myQueue[c]
    <2>1. Unread \in Seq(Values) /\ Len(Unread) > 0
      BY <1>1, <1>2 DEF LaidOut
    <2>2. Unread[1] = myQueue[At(c + 1 - 1)]
      BY <1>1, <1>2 DEF LaidOut
    <2>3. At(c + 1 - 1) = c
      BY DEF At, IInv, TypeOK, Slots
    <2> HIDE DEF Unread
    <2> QED BY <2>1, <2>2, <2>3
  <1>4. Unread' = Tail(Unread)
    <2>1. Unread \in Seq(Values) /\ Unread' \in Seq(Values) /\ Len(Unread') = Len(Unread) - 1
      BY <1>1, <1>2 DEF LaidOut
    <2>2. \A n \in 1..Len(Unread') : Unread'[n] = myQueue[At(First + n)]
      BY <1>1, <1>2 DEF LaidOut, Read
    <2>3. \A n \in 1..Len(Unread') : Unread[n + 1] = myQueue[At(First + n)]
      BY <1>1, <1>2 DEF LaidOut
    <2> HIDE DEF Unread
    <2> QED BY <2>1, <2>2, <2>3
  <1> QED BY <1>3, <1>4 DEF Channel!Receive, Read

\* The semaphore calls and the clearing of a slot leave the channel alone.
LEMMA StepSimulation == IInv /\ IInv' /\ [Next]_vars => [Channel!Next]_Channel!vars
  <1> SUFFICES ASSUME IInv, IInv', [Next]_vars PROVE [Channel!Next]_Channel!vars
    OBVIOUS
  <1> USE BufferAssumption
  <1>1. LaidOut /\ LaidOut'
    BY UnreadLaidOut, UnreadLaidOutNext
  <1>2. CASE WaitBlank \/ PostFull \/ WaitFull
    <2>1. Written' = Written /\ First' = First /\ UNCHANGED <<myQueue, consumed>>
      <3>1. CASE WaitBlank
        BY <3>1 DEF WaitBlank, Written, First
      <3>2. CASE PostFull
        BY <3>2 DEF PostFull, SemPost, IInv, TypeOK, Written, First
      <3>3. CASE WaitFull
        BY <3>3 DEF WaitFull, SemWait, IInv, TypeOK, Written, First
      <3> QED BY <1>2, <3>1, <3>2, <3>3
    <2> QED BY <1>1, <2>1 DEF LaidOut, Channel!vars
  <1>3. CASE Write
    BY <1>3, WriteSends DEF Channel!Next
  <1>4. CASE Read
    BY <1>4, ReadReceives DEF Channel!Next
  <1>5. CASE Clear
    <2>1. Written' = Written /\ First' = First /\ First = c + 1 /\ Written < LEN
      BY <1>5 DEF Clear, IInv, TypeOK, SlotsConserved, Producing, Consuming, Written, First
    <2>2. \A n \in 1..Written : At(First + n - 1) # c
      BY <2>1, <1>1 DEF At, IInv, TypeOK, Slots, LaidOut
    <2>3. \A n \in 1..Written : myQueue'[At(First' + n - 1)] = myQueue[At(First + n - 1)]
      BY <1>1, <1>5, <2>1, <2>2 DEF Clear, IInv, TypeOK, LaidOut
    <2> QED BY <1>1, <1>5, <2>1, <2>3, SameUnread DEF Clear, Channel!vars
  <1>6. CASE PostBlank
    <2>1. Written' = Written /\ First = c + 1 /\ First' = Successor(c)
      BY <1>6, Wrap DEF PostBlank, SemPost, IInv, TypeOK, Written, First
    <2>2. \A n \in 1..Written : At(First' + n - 1) = At(First + n - 1)
      BY <1>1, <2>1 DEF At, Successor, IInv, TypeOK, Slots, LaidOut
    <2>3. \A n \in 1..Written : myQueue'[At(First' + n - 1)] = myQueue[At(First + n - 1)]
      BY <1>6, <2>2 DEF PostBlank
    <2> QED BY <1>1, <1>6, <2>1, <2>3, SameUnread DEF PostBlank, Channel!vars
  <1>7. CASE UNCHANGED vars
    BY <1>7 DEF vars, Channel!vars, Unread
  <1> QED
    BY <1>2, <1>3, <1>4, <1>5, <1>6, <1>7 DEF Next, Producer, Consumer

\* The array with its two semaphores is a first in, first out channel of LEN
\* places: nothing is lost, repeated, overtaken or overwritten.
THEOREM ChannelImplemented == Spec => ImplementsChannel
  <1>1. Init => Channel!Init
    BY BufferAssumption DEF Init, Channel!Init, Unread
  <1>2. IInv /\ [Next]_vars => [Channel!Next]_Channel!vars
    BY NextIInv, StepSimulation
  <1> QED BY <1>1, <1>2, Invariance, PTL DEF Spec, ImplementsChannel, Channel!Spec
-----------------------------------------------------------------------------
(* The list of threadCond.c. *)

\* The invariant of the list is inductive: the signal that comes after the unlock
\* finds the consumer that the insertion has left asleep.
LEMMA ListStep == CondC!ListInv /\ [CondC!Next]_CondC!vars => CondC!ListInv'
  <1> SUFFICES ASSUME CondC!ListInv, [CondC!Next]_CondC!vars PROVE CondC!ListInv'
    OBVIOUS
  <1> USE CondAssumption
  <1> USE DEF CondC!ListInv, CondC!TypeOK, CondC!CountMatchesList, CondC!NotStranded
  <1>1. CASE CondC!Insert
    BY <1>1 DEF CondC!Insert, CondC!Running
  <1>2. CASE CondC!SignalConsumer
    <2>1. waitersC' = {}
      BY <1>2 DEF CondC!SignalConsumer, CondC!Signal
    <2> QED BY <1>2, <2>1 DEF CondC!SignalConsumer
  <1>3. CASE CondC!FindEmpty
    BY <1>3 DEF CondC!FindEmpty, CondC!Sleeps
  <1>4. CASE CondC!FindMessage \/ CondC!WokenTake
    BY <1>4 DEF CondC!FindMessage, CondC!WokenTake, CondC!Take
  <1>5. CASE CondC!Crash \/ CondC!Use
    BY <1>5 DEF CondC!Crash, CondC!Use
  <1>6. CASE CondC!Spurious
    BY <1>6 DEF CondC!Spurious, CondC!SpuriousWakeup
  <1>7. CASE UNCHANGED CondC!vars
    BY <1>7 DEF CondC!vars
  <1> QED
    BY <1>1, <1>2, <1>3, <1>4, <1>5, <1>6, <1>7
    DEF CondC!Next, CondC!ProducerStep, CondC!ConsumerStep
-----------------------------------------------------------------------------
(* The queue of threadCond.cpp. *)

\* Past its loop of line 28 the producer has made all numbers and seen the queue
\* empty; done is set from then on.
AfterSpin ==
  /\ producerCpp \in {"setDone", "notify", "over"} => i = Items /\ produced_nums = <<>>
  /\ done => producerCpp \in {"notify", "over"}

QueueIInv == CondCpp!QueueInv /\ AfterSpin

\* An element that goes from the head of one sequence to the end of another.
LEMMA MoveHead ==
  ASSUME NEW S, NEW s \in Seq(S), NEW t \in Seq(S), t # <<>>
  PROVE  Append(s, Head(t)) \o Tail(t) = s \o t
  <1> DEFINE u == Append(s, Head(t)) \o Tail(t)
             v == s \o t
  <1>1. /\ Append(s, Head(t)) \in Seq(S) /\ Len(Append(s, Head(t))) = Len(s) + 1
        /\ Tail(t) \in Seq(S) /\ Len(Tail(t)) = Len(t) - 1
    OBVIOUS
  <1>2. u \in Seq(S) /\ v \in Seq(S) /\ Len(u) = Len(s) + Len(t) /\ Len(v) = Len(s) + Len(t)
    BY <1>1
  <1>3. ASSUME NEW k \in 1 .. Len(s) + Len(t) PROVE u[k] = v[k]
    <2>1. CASE k <= Len(s)
      BY <1>1, <2>1
    <2>2. CASE k = Len(s) + 1
      BY <1>1, <2>2
    <2>3. CASE k > Len(s) + 1
      BY <1>1, <2>3
    <2> QED BY <1>3, <2>1, <2>2, <2>3
  <1> QED BY <1>2, <1>3

\* The invariant is inductive: nobody pushes once the producer has seen the queue
\* empty, so what its unprotected test has found stays true.
LEMMA QueueStep == QueueIInv /\ [CondCpp!Next]_CondCpp!vars => QueueIInv'
  <1> SUFFICES ASSUME QueueIInv, [CondCpp!Next]_CondCpp!vars PROVE QueueIInv'
    OBVIOUS
  <1> USE CondAssumption
  <1> USE DEF QueueIInv, AfterSpin, CondCpp!QueueInv, CondCpp!TypeOK, CondCpp!NotStranded,
              CondCpp!DoneMeansAllConsumed
  <1>1. CASE CondCpp!Push
    <2>1. /\ i + 1 \in 0..Items /\ i \in 0..Items
          /\ produced_nums' = Append(produced_nums, i) /\ i' = i + 1
          /\ UNCHANGED <<done, producerCpp, consumerCpp, consumedCpp>>
          /\ producerCpp = "push"
      BY <1>1 DEF CondCpp!Push
    <2>2. waitersCpp' = {}
      BY <1>1 DEF CondCpp!Push, CondCpp!Signal
    <2>3. CondCpp!TypeOK' /\ CondCpp!NotStranded' /\ AfterSpin'
      BY <2>1, <2>2
    <2>4. CondCpp!InOrder'
      <3>1. consumedCpp \o produced_nums = [n \in 1..i |-> n - 1]
        BY DEF CondCpp!InOrder
      <3>2. consumedCpp' \o produced_nums' = Append(consumedCpp \o produced_nums, i)
        BY <2>1
      <3>3. Append([n \in 1..i |-> n - 1], i) = [n \in 1..(i + 1) |-> n - 1]
        BY <2>1
      <3> QED BY <2>1, <3>1, <3>2, <3>3 DEF CondCpp!InOrder
    <2> QED BY <2>1, <2>3, <2>4
  <1>2. CASE CondCpp!Spin \/ CondCpp!SetDone \/ CondCpp!LastNotify
    <2>1. UNCHANGED <<produced_nums, i, consumerCpp, consumedCpp>>
      BY <1>2 DEF CondCpp!Spin, CondCpp!SetDone, CondCpp!LastNotify
    <2>2. CondCpp!InOrder'
      BY <2>1 DEF CondCpp!InOrder
    <2>3. CondCpp!TypeOK' /\ AfterSpin' /\ CondCpp!NotStranded'
      <3>1. CASE CondCpp!Spin
        BY <3>1 DEF CondCpp!Spin
      <3>2. CASE CondCpp!SetDone
        BY <3>2 DEF CondCpp!SetDone
      <3>3. CASE CondCpp!LastNotify
        BY <3>3 DEF CondCpp!LastNotify, CondCpp!Signal
      <3> QED BY <1>2, <3>1, <3>2, <3>3
    <2>4. CondCpp!DoneMeansAllConsumed'
      <3>1. done' => done \/ (produced_nums = <<>> /\ i = Items)
        BY <1>2 DEF CondCpp!Spin, CondCpp!SetDone, CondCpp!LastNotify
      <3>2. produced_nums = <<>> /\ i = Items => Len(consumedCpp) = Items
        BY DEF CondCpp!InOrder
      <3> QED BY <2>1, <3>1, <3>2
    <2> QED BY <2>2, <2>3, <2>4
  <1>3. CASE CondCpp!TestQueue
    <2>1. CondCpp!InOrder'
      BY <1>3 DEF CondCpp!TestQueue, CondCpp!InOrder
    <2> QED BY <1>3, <2>1 DEF CondCpp!TestQueue, CondCpp!Sleeps
  <1>4. CASE CondCpp!Consume
    <2>1. /\ ~done /\ produced_nums # <<>> /\ produced_nums \in Seq(0..Items)
          /\ consumedCpp' = Append(consumedCpp, Head(produced_nums))
          /\ produced_nums' = Tail(produced_nums)
          /\ consumerCpp' = "nap"
          /\ UNCHANGED <<done, i, producerCpp, waitersCpp>>
      BY <1>4 DEF CondCpp!Consume
    <2>2. Head(produced_nums) \in 0..Items /\ Tail(produced_nums) \in Seq(0..Items)
      BY <2>1
    <2>3. CondCpp!TypeOK' /\ AfterSpin' /\ CondCpp!DoneMeansAllConsumed' /\ CondCpp!NotStranded'
      BY <2>1, <2>2
    <2>4. consumedCpp' \o produced_nums' = consumedCpp \o produced_nums
      <3>1. consumedCpp \in Seq(0..Items)
        OBVIOUS
      <3> QED BY <2>1, <3>1, MoveHead
    <2> QED BY <2>1, <2>3, <2>4 DEF CondCpp!InOrder
  <1>5. CASE CondCpp!WakeUp \/ CondCpp!Break \/ CondCpp!ConsumeNothing \/ CondCpp!Spurious
    <2>1. /\ UNCHANGED <<produced_nums, done, i, producerCpp, consumedCpp>>
          /\ waitersCpp' \subseteq waitersCpp
          /\ consumerCpp' \in {consumerCpp, "check", "over", "crashed"}
      BY <1>5 DEF CondCpp!WakeUp, CondCpp!Break, CondCpp!ConsumeNothing, CondCpp!Spurious,
                  CondCpp!SpuriousWakeup
    <2>2. CondCpp!InOrder'
      BY <2>1 DEF CondCpp!InOrder
    <2> QED BY <2>1, <2>2
  <1>6. CASE UNCHANGED CondCpp!vars
    <2>1. CondCpp!InOrder'
      BY <1>6 DEF CondCpp!vars, CondCpp!InOrder
    <2> QED BY <1>6, <2>1 DEF CondCpp!vars
  <1> QED
    BY <1>1, <1>2, <1>3, <1>4, <1>5, <1>6
    DEF CondCpp!Next, CondCpp!Produce, CondCpp!Consumes

\* An empty queue is in order.
LEMMA QueueInit == CondCpp!Init => QueueIInv
  <1> SUFFICES ASSUME CondCpp!Init PROVE QueueIInv
    OBVIOUS
  <1> USE CondAssumption DEF CondCpp!Init
  <1>1. CondCpp!InOrder
    <2>1. consumedCpp \o produced_nums = <<>> /\ 1..i = {}
      OBVIOUS
    <2>2. [n \in 1..i |-> n - 1] = <<>>
      BY <2>1
    <2> QED BY <2>1, <2>2 DEF CondCpp!InOrder
  <1>2. CondCpp!TypeOK
    <2>1. produced_nums \in Seq(0..Items) /\ consumedCpp \in Seq(0..Items)
      OBVIOUS
    <2>2. i \in 0..Items /\ waitersCpp \subseteq {Sleeper}
      OBVIOUS
    <2>3. done \in BOOLEAN
      OBVIOUS
    <2>4. producerCpp = "push" /\ consumerCpp = "nap"
      OBVIOUS
    <2> QED BY <2>1, <2>2, <2>3, <2>4 DEF CondCpp!TypeOK
  <1> QED
    BY <1>1, <1>2
    DEF QueueIInv, AfterSpin, CondCpp!QueueInv, CondCpp!DoneMeansAllConsumed, CondCpp!NotStranded

\* For any limit of the list, any number of items and any timing: the counter is
\* the length of the list, numbers come out in the order they went in, none is
\* left when done is set, and the consumer never sleeps beside a message nobody
\* will tell it about.
THEOREM CondInvariant == MCSpec => []CondInv
  <1>1. MCInit => CondC!ListInv /\ QueueIInv
    <2>1. CondC!Init => CondC!ListInv
      BY CondAssumption
      DEF CondC!Init, CondC!ListInv, CondC!TypeOK, CondC!CountMatchesList, CondC!NotStranded
    <2> QED BY <2>1, QueueInit DEF MCInit
  <1>2. [MCNext]_everything => [CondC!Next]_CondC!vars /\ [CondCpp!Next]_CondCpp!vars
    BY DEF MCNext, Sem, C, Cpp, everything, cVars, cppVars, CondC!vars, CondCpp!vars, CondCpp!build
  <1>3. CondC!ListInv /\ QueueIInv => CondInv
    BY DEF QueueIInv, CondInv
  <1> QED BY <1>1, <1>2, <1>3, ListStep, QueueStep, PTL DEF MCSpec
=============================================================================
