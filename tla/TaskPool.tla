------------------------------ MODULE TaskPool ------------------------------
(***************************************************************************)
(* What a thread pool promises to those who hand it tasks, whatever locks, *)
(* condition variables or semaphores it is made of: tasks are started in   *)
(* the order they were accepted, each exactly once, and a pool that has    *)
(* been stopped halts only when nothing it accepted is left undone.        *)
(***************************************************************************)
EXTENDS Naturals, Sequences

CONSTANT Tasks

VARIABLES
  queue,     \* tasks accepted and not started, in order of acceptance
  running,   \* tasks being executed
  done,      \* tasks executed
  phase      \* "open", then "closed" to new tasks, then "halted"

vars == <<queue, running, done, phase>>

Known == {queue[i] : i \in 1..Len(queue)} \union running \union done

Init ==
  /\ queue = <<>>
  /\ running = {} /\ done = {}
  /\ phase = "open"

Submit(t) ==
  /\ phase = "open"
  /\ t \notin Known
  /\ queue' = Append(queue, t)
  /\ UNCHANGED <<running, done, phase>>

Start ==
  /\ queue # <<>>
  /\ running' = running \union {Head(queue)}
  /\ queue' = Tail(queue)
  /\ UNCHANGED <<done, phase>>

Finish(t) ==
  /\ t \in running
  /\ running' = running \ {t}
  /\ done' = done \union {t}
  /\ UNCHANGED <<queue, phase>>

Close ==
  /\ phase = "open"
  /\ phase' = "closed"
  /\ UNCHANGED <<queue, running, done>>

Halt ==
  /\ phase = "closed"
  /\ queue = <<>> /\ running = {}
  /\ phase' = "halted"
  /\ UNCHANGED <<queue, running, done>>

Next ==
  \/ \E t \in Tasks : Submit(t) \/ Finish(t)
  \/ Start \/ Close \/ Halt

Spec == Init /\ [][Next]_vars

\* Every task the pool accepts is executed.
EveryTaskFinishes == \A t \in Tasks : t \in Known ~> t \in done
=============================================================================
