----------------------------- MODULE MCReactor -----------------------------
(* Reactor with two workers and two clients, in one of three settings: three   *)
(* messages, so that both workers may be held up while something is unread;    *)
(* one message and clients that leave; one message and a stop.                 *)
EXTENDS Reactor

VARIABLE setting

MCInit == Init /\ setting \in {"messages", "leaving", "stop"}

MCNext ==
  /\ Next
  /\ sent' > 1 => setting = "messages"
  /\ gone' # {} => setting = "leaving"
  /\ g_bStop' => setting = "stop"
  /\ UNCHANGED setting

MCSpec == MCInit /\ [][MCNext]_<<vars, setting>> /\ Fairness
=============================================================================
