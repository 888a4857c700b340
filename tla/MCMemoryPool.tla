----------------------------- MODULE MCMemoryPool -----------------------------
(* The allocators: MemoryPool with a client that gives slots back in any order, *)
(* or with the stack of StackAlloc as its client, and the one of LeakDetector.  *)
(* Which of them it is is settled at the start.                                 *)
EXTENDS StackAlloc

CONSTANTS Chunks, Sizes, Units, root

VARIABLES
  program,
  next, prevBlock, block, _memory_allocated, callCnt, exiting, reported, status

Leak == INSTANCE LeakDetector WITH Blocks <- Chunks, prev <- prevBlock

ASSUME DetectorAssumption == Leak!DetectorAssumption

pool == <<vars, stackVars>>
detector == <<next, prevBlock, block, _memory_allocated, callCnt, exiting, reported, status>>

MCInit ==
  /\ StackInit /\ Leak!Init
  /\ program \in {"MemoryPool", "StackAlloc", "LeakDetector"}

MCNext ==
  /\ \/ program = "MemoryPool" /\ Next /\ UNCHANGED <<stackVars, detector>>
     \/ program = "StackAlloc" /\ StackNext /\ UNCHANGED detector
     \/ program = "LeakDetector" /\ Leak!Next /\ UNCHANGED pool
  /\ UNCHANGED program

MCSpec ==
  /\ MCInit /\ [][MCNext]_<<pool, detector, program>>
  /\ WF_<<pool, detector, program>>(program = "StackAlloc" /\ Closing /\ UNCHANGED <<detector, program>>)

\* The nodes of the stack are exactly the slots it has from the pool, whatever
\* was pushed, popped and given back (StackAlloc.h 39-67).
StackInv == program = "StackAlloc" => ChainIsLive

\* The detector's total and the links it maintains, whatever the order of new and
\* delete (LeakDetector.cpp 27-72).
LeakInv == Leak!LeakInv
===============================================================================
