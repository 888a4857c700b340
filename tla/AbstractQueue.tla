--------------------------- MODULE AbstractQueue ---------------------------
(***************************************************************************)
(* What the simulation wants of its two queues: the customers first in,    *)
(* first out, and the events by their times.                               *)
(***************************************************************************)
EXTENDS EventOrder

CONSTANTS
  Elements,
  Nothing

VARIABLES
  ordered,   \* by time, or first in, first out
  items,
  got        \* what was taken out last, Nothing if there was nothing

vars == <<ordered, items, got>>

Init == ordered \in BOOLEAN /\ items = <<>> /\ got = Nothing

Put(e) ==
  /\ items' = IF ordered THEN Insert(items, e) ELSE Append(items, e)
  /\ UNCHANGED <<ordered, got>>

Take ==
  /\ got' = IF items = <<>> THEN Nothing ELSE Head(items)
  /\ items' = IF items = <<>> THEN <<>> ELSE Tail(items)
  /\ UNCHANGED ordered

Clear == items' = <<>> /\ UNCHANGED <<ordered, got>>

Next == (\E e \in Elements : Put(e)) \/ Take \/ Clear

Spec == Init /\ [][Next]_vars
=============================================================================
