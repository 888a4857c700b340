----------------------------- MODULE ThreadCond -----------------------------
(***************************************************************************)
(* Thread/threadCond.c: one producer and one consumer around a linked list *)
(* guarded by a mutex, with a condition variable for the consumer.         *)
(*                                                                         *)
(* What the messages hold makes no difference: the list is its length.     *)
(* Everything shared is used with the mutex held, so a critical section is *)
(* one step; the producer signals after it has unlocked.                   *)
(***************************************************************************)
EXTENDS CondVar, Naturals

CONSTANTS
  Consumer,
  MaxMsgs    \* "max", 10 in the code

VARIABLES
  length,    \* messages linked from head; head == NULL when 0
  msgnum,    \* the program's own count of them
  producer,  \* "insert", then "signal"
  consumer   \* "lock", "waiting", "use" or "crashed"

vars == <<length, msgnum, producer, consumer, waiters>>

Init ==
  /\ length = 0 /\ msgnum = 0 /\ waiters = {}
  /\ producer = "insert" /\ consumer = "lock"

\* A null pointer ends the whole process.
Running == consumer # "crashed"
-----------------------------------------------------------------------------
\* A full list: the new message is freed and the consumer signalled all the same.
Insert ==
  /\ Running
  /\ producer = "insert"
  /\ IF msgnum >= MaxMsgs
       THEN UNCHANGED <<length, msgnum>>
       ELSE length' = length + 1 /\ msgnum' = msgnum + 1
  /\ producer' = "signal"
  /\ UNCHANGED <<consumer, waiters>>

\* The producer forgets to signal.
SignalConsumer_Missing ==
  /\ Running
  /\ producer = "signal"
  /\ producer' = "insert"
  /\ UNCHANGED <<length, msgnum, consumer, waiters>>

SignalConsumer ==
  /\ Running
  /\ producer = "signal"
  /\ Signal
  /\ producer' = "insert"
  /\ UNCHANGED <<length, msgnum, consumer>>
-----------------------------------------------------------------------------
FindEmpty ==
  /\ consumer = "lock" /\ length = 0
  /\ Sleeps(Consumer)
  /\ consumer' = "waiting"
  /\ UNCHANGED <<length, msgnum, producer>>

\* mp = head; head = mp->next; --msgnum, with the mutex held.
Take ==
  /\ length > 0
  /\ length' = length - 1
  /\ msgnum' = msgnum - 1
  /\ consumer' = "use"
  /\ UNCHANGED <<producer, waiters>>

FindMessage == consumer = "lock" /\ Take

\* The wait has returned, the mutex is held again, and the list is not looked at
\* a second time: "if", not "while", at line 55.
Woken == consumer = "waiting" /\ Consumer \notin waiters

WokenTake == Woken /\ Take

Crash ==
  /\ Woken /\ length = 0
  /\ consumer' = "crashed"
  /\ UNCHANGED <<length, msgnum, producer, waiters>>

\* The message is printed and freed outside the critical section.
Use ==
  /\ consumer = "use"
  /\ consumer' = "lock"
  /\ UNCHANGED <<length, msgnum, producer, waiters>>

Spurious ==
  /\ SpuriousWakeup(Consumer)
  /\ UNCHANGED <<length, msgnum, producer, consumer>>
-----------------------------------------------------------------------------
ProducerStep == Insert \/ SignalConsumer
ConsumerStep == FindEmpty \/ FindMessage \/ WokenTake \/ Crash \/ Use

Next == ProducerStep \/ ConsumerStep \/ Spurious

Spec == Init /\ [][Next]_vars

\* Both threads are scheduled; the mutex is free between any two steps.
FairSpec == Spec /\ WF_vars(ProducerStep) /\ WF_vars(ConsumerStep)
-----------------------------------------------------------------------------
\* Every variable keeps its type; the list never holds more than MaxMsgs.
TypeOK ==
  /\ length \in 0..MaxMsgs /\ msgnum \in 0..MaxMsgs
  /\ producer \in {"insert", "signal"}
  /\ consumer \in {"lock", "waiting", "use", "crashed"}
  /\ waiters \subseteq {Consumer}

\* The counter the producer limits itself by is the length of the list.
CountMatchesList == msgnum = length

\* The consumer never sleeps beside a message it will not be told about: the
\* signal that belongs to it is still to come.
NotStranded == Consumer \in waiters /\ length > 0 => producer = "signal"

\* The list, its counter and the signal agree although the signal comes after the
\* unlock (threadCond.c 32-64).
ListInv == TypeOK /\ CountMatchesList /\ NotStranded

\* A consumer that sleeps wakes once a message is in the list.
ConsumerServed == Consumer \in waiters /\ length > 0 ~> Consumer \notin waiters
=============================================================================
