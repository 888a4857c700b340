----------------------------- MODULE ThreadSem -----------------------------
(***************************************************************************)
(* Thread/threadSem.c: one producer and one consumer around an array of    *)
(* LEN slots, with the semaphores blank and full and no lock.              *)
(*                                                                         *)
(* Each access to the array is a step of its own.  What the producer       *)
(* stores is any member of Values; rand() % 100 may well store the 0 that  *)
(* the consumer leaves behind in a slot it has emptied.                    *)
(***************************************************************************)
EXTENDS Semaphore, Naturals, Sequences

CONSTANTS
  LEN,
  Values,
  NoValue    \* nothing consumed yet

ASSUME BufferAssumption ==
  /\ LEN \in Nat \ {0}
  /\ 0 \in Values /\ NoValue \notin Values

VARIABLES
  blank, full,   \* the semaphores
  myQueue,       \* the slots
  p, c,          \* the producer's and the consumer's next slot
  producer,      \* "wait", then "write", then "post"
  consumer,      \* "wait", then "read", then "clear", then "post"
  consumed       \* the number printed by the consumer last

vars == <<blank, full, myQueue, p, c, producer, consumer, consumed>>

Slots == 0 .. LEN - 1

Init ==
  /\ blank = LEN /\ full = 0
  /\ myQueue = [i \in Slots |-> 0]
  /\ p = 0 /\ c = 0
  /\ producer = "wait" /\ consumer = "wait"
  /\ consumed = NoValue
-----------------------------------------------------------------------------
\* The producer does not wait for a blank slot.
WaitBlank_Skipped ==
  /\ producer = "wait"
  /\ producer' = "write"
  /\ UNCHANGED <<blank, full, myQueue, p, c, consumer, consumed>>

WaitBlank ==
  /\ producer = "wait"
  /\ SemWait(blank)
  /\ producer' = "write"
  /\ UNCHANGED <<full, myQueue, p, c, consumer, consumed>>

Write ==
  /\ producer = "write"
  /\ \E v \in Values : myQueue' = [myQueue EXCEPT ![p] = v]
  /\ producer' = "post"
  /\ UNCHANGED <<blank, full, p, c, consumer, consumed>>

\* The producer posts the wrong semaphore.
PostFull_Blank ==
  /\ producer = "post"
  /\ SemPost(blank)
  /\ p' = (p + 1) % LEN
  /\ producer' = "wait"
  /\ UNCHANGED <<full, myQueue, c, consumer, consumed>>

\* p is the producer's own, so its step may go with the post.
PostFull ==
  /\ producer = "post"
  /\ SemPost(full)
  /\ p' = (p + 1) % LEN
  /\ producer' = "wait"
  /\ UNCHANGED <<blank, myQueue, c, consumer, consumed>>
-----------------------------------------------------------------------------
WaitFull ==
  /\ consumer = "wait"
  /\ SemWait(full)
  /\ consumer' = "read"
  /\ UNCHANGED <<blank, myQueue, p, c, producer, consumed>>

Read ==
  /\ consumer = "read"
  /\ consumed' = myQueue[c]
  /\ consumer' = "clear"
  /\ UNCHANGED <<blank, full, myQueue, p, c, producer>>

Clear ==
  /\ consumer = "clear"
  /\ myQueue' = [myQueue EXCEPT ![c] = 0]
  /\ consumer' = "post"
  /\ UNCHANGED <<blank, full, p, c, producer, consumed>>

PostBlank ==
  /\ consumer = "post"
  /\ SemPost(blank)
  /\ c' = (c + 1) % LEN
  /\ consumer' = "wait"
  /\ UNCHANGED <<full, myQueue, p, producer, consumed>>
-----------------------------------------------------------------------------
Producer == WaitBlank \/ Write \/ PostFull
Consumer == WaitFull \/ Read \/ Clear \/ PostBlank

Next == Producer \/ Consumer

Spec == Init /\ [][Next]_vars

\* Both threads are scheduled and rand() % 5 seconds pass.  Nobody else waits
\* on either semaphore, so a count that is positive stays so: weak fairness.
Fairness == WF_vars(Producer) /\ WF_vars(Consumer)

FairSpec == Spec /\ Fairness
-----------------------------------------------------------------------------
\* Every variable keeps its type; indices stay in the array, counts below LEN + 1.
TypeOK ==
  /\ blank \in 0..LEN /\ full \in 0..LEN
  /\ myQueue \in [Slots -> Values]
  /\ p \in Slots /\ c \in Slots
  /\ producer \in {"wait", "write", "post"}
  /\ consumer \in {"wait", "read", "clear", "post"}
  /\ consumed \in Values \union {NoValue}

Producing == IF producer = "wait" THEN 0 ELSE 1
Consuming == IF consumer = "wait" THEN 0 ELSE 1

\* Every slot is counted once: by a semaphore or by the thread that holds it.
SlotsConserved == blank + full + Producing + Consuming = LEN

\* Without any lock the two threads are never at the same slot: between its
\* sem_wait and its sem_post each has the slot for itself.
SlotExclusion == producer # "wait" /\ consumer # "wait" => p # c

\* The two semaphores and the two indices, each stepped on its own, together
\* keep the slots: none is lost, none is shared.
BufferInv == TypeOK /\ SlotsConserved /\ SlotExclusion

\* The array with its two semaphores implements a channel of LEN places.  The
\* channel is the slots the producer has written and the consumer not yet read.
Unread ==
  LET n     == full + (IF producer = "post" THEN 1 ELSE 0)
                    + (IF consumer = "read" THEN 1 ELSE 0)
      first == IF consumer \in {"clear", "post"} THEN c + 1 ELSE c
  IN  [i \in 1..n |-> myQueue[(first + i - 1) % LEN]]

Channel == INSTANCE BoundedChannel WITH
  Capacity <- LEN,
  channel  <- Unread,
  got      <- consumed

\* The array with its semaphores is a bounded channel: what is read is what was
\* written, in that order, each value once, and never more than LEN in between.
ImplementsChannel == Channel!Spec

\* Neither thread starves the other: slots are written and read for ever.
NeitherStarves == []<>(producer = "write") /\ []<>(consumer = "read")
=============================================================================
