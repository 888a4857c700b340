----------------------------- MODULE EventOrder -----------------------------
(***************************************************************************)
(* Lists of events in the order of their times, as Queue::orderEnqueue of  *)
(* QueueServiceSystem/queue.h keeps them.  An event goes before those that *)
(* have the same time.                                                     *)
(***************************************************************************)
EXTENDS Naturals, Sequences, FiniteSets

InOrder(list) ==
  \A i, j \in 1..Len(list) : i < j => list[i].occur_time <= list[j].occur_time

\* How many events of a list in order come before time t.
Before(list, t) == Cardinality({i \in 1..Len(list) : list[i].occur_time < t})

Insert(list, e) ==
  LET k == Before(list, e.occur_time)
  IN  SubSeq(list, 1, k) \o <<e>> \o SubSeq(list, k + 1, Len(list))
=============================================================================
