--------------------------- MODULE MCQueueSystem ---------------------------
(* The bank with two windows, closing at time 3, simulated twice; or one of    *)
(* its queues on its own, with five nodes, which are interchangeable.  Which   *)
(* of them it is is settled at the start.                                      *)
EXTENDS QueueSystem, TLC

CONSTANTS Nodes, front, Elements

VARIABLES
  program,
  ordered, next, element, back, got

\* Two elements for each time, to tell the order among equals.
MCElements == [occur_time : 1..2, event_type : {0, 1}]

Queue == INSTANCE LinkedQueue

ASSUME QueueAssumption == Queue!QueueAssumption

Symmetry == Permutations(Nodes)

queueVars == <<ordered, next, element, back, got>>

MCInit == Init /\ Queue!Init /\ program \in {"bank", "queue"}

MCNext ==
  /\ \/ program = "bank" /\ Next /\ UNCHANGED queueVars
     \/ program = "queue" /\ Queue!Next /\ UNCHANGED vars
  /\ UNCHANGED program

MCSpec == MCInit /\ [][MCNext]_<<vars, queueVars, program>>

\* The list and its pointers are sound, whatever was put in, taken out or cleared
\* (queue.h 31-96).
ListInv == Queue!ListInv

\* The list of nodes is the queue the bank is written for (queue.h 46-97).
ImplementsQueue == Queue!ImplementsQueue
=============================================================================
