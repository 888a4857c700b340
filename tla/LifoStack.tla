----------------------------- MODULE LifoStack -----------------------------
(***************************************************************************)
(* A stack: what is popped is what was pushed last.                        *)
(***************************************************************************)
EXTENDS Sequences

CONSTANTS Elements, NoElement

VARIABLES
  items,     \* top first
  popped     \* what the last pop returned

vars == <<items, popped>>

Init == items = <<>> /\ popped = NoElement

Push == \E e \in Elements : items' = <<e>> \o items /\ UNCHANGED popped

Pop ==
  /\ items # <<>>
  /\ popped' = Head(items)
  /\ items' = Tail(items)

\* The stack is emptied from the top without returning anything.
Drop ==
  /\ items # <<>>
  /\ items' = Tail(items)
  /\ UNCHANGED popped

Next == Push \/ Pop \/ Drop

Spec == Init /\ [][Next]_vars
=============================================================================
