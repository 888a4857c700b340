---------------------------- MODULE MCThreadSem ----------------------------
(* The three programs of Thread/, which one is settled at the start: ThreadSem  *)
(* with four slots instead of ten, enough for the indices to wrap around and    *)
(* for the buffer to be empty, partly full and full at every position, and the  *)
(* programs with a condition variable.                                          *)
EXTENDS ThreadSem

CONSTANTS Sleeper, MaxMsgs, Items, SpuriousWakeups

ASSUME CondAssumption == MaxMsgs \in Nat /\ Items \in Nat

VARIABLES
  program,
  length, msgnum, producerC, consumerC, waitersC,
  timely, hoisted, produced_nums, done, i, producerCpp, consumerCpp, consumedCpp, waitersCpp

CondC == INSTANCE ThreadCond WITH
  Consumer <- Sleeper, producer <- producerC, consumer <- consumerC, waiters <- waitersC

CondCpp == INSTANCE ThreadCondCpp WITH
  Consumer <- Sleeper, producer <- producerCpp, consumer <- consumerCpp, consumed <- consumedCpp, waiters <- waitersCpp

cVars   == <<length, msgnum, producerC, consumerC, waitersC>>
cppVars == <<timely, hoisted, produced_nums, done, i, producerCpp, consumerCpp, consumedCpp, waitersCpp>>
everything == <<vars, cVars, cppVars, program>>

MCInit ==
  /\ Init /\ CondC!Init /\ CondCpp!Init
  /\ program \in {"threadSem", "threadCond", "threadCondCpp"}

Sem == program = "threadSem" /\ UNCHANGED <<cVars, cppVars, program>>
C   == program = "threadCond" /\ UNCHANGED <<vars, cppVars, program>>
Cpp == program = "threadCondCpp" /\ UNCHANGED <<vars, cVars, program>>

MCNext == (Sem /\ Next) \/ (C /\ CondC!Next) \/ (Cpp /\ CondCpp!Next)

MCSpec ==
  /\ MCInit /\ [][MCNext]_everything
  /\ WF_everything(Sem /\ Producer) /\ WF_everything(Sem /\ Consumer)
  /\ WF_everything(C /\ CondC!ProducerStep) /\ WF_everything(C /\ CondC!ConsumerStep)
  /\ SF_everything(Cpp /\ CondCpp!Produce) /\ WF_everything(Cpp /\ CondCpp!Consumes)

\* The programs with a condition variable keep list or queue, counter and signals
\* in agreement, whatever their timing (threadCond.c 26-69, threadCond.cpp 19-50).
CondInv == CondC!ListInv /\ CondCpp!QueueInv

\* The threads of the ring buffer go on for ever, no consumer sleeps for ever
\* beside a message, and the program that ends by a last notification ends
\* (threadSem.c 20-45, threadCond.c 42, threadCond.cpp 29-33).
NobodySleepsForEver ==
  /\ program = "threadSem" => NeitherStarves
  /\ CondC!ConsumerServed
  /\ program = "threadCondCpp" => CondCpp!ProgramEnds
=============================================================================
