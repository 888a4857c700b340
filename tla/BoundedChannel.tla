--------------------------- MODULE BoundedChannel ---------------------------
(***************************************************************************)
(* What a producer and a consumer want of the buffer between them: a first *)
(* in, first out channel with room for Capacity values.                    *)
(***************************************************************************)
EXTENDS Naturals, Sequences

CONSTANTS Values, Capacity, NoValue

VARIABLES
  channel,
  got        \* the value received last

vars == <<channel, got>>

Init == channel = <<>> /\ got = NoValue

Send ==
  /\ Len(channel) < Capacity
  /\ \E v \in Values : channel' = Append(channel, v)
  /\ UNCHANGED got

Receive ==
  /\ channel # <<>>
  /\ got' = Head(channel)
  /\ channel' = Tail(channel)

Next == Send \/ Receive

Spec == Init /\ [][Next]_vars
=============================================================================
