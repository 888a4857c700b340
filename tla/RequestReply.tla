---------------------------- MODULE RequestReply ----------------------------
(***************************************************************************)
(* What a client may rely on over one connection: the replies it gets are  *)
(* to requests of its own, in the order it made them, none twice, and each *)
(* made from the whole content of its request.  A request may go           *)
(* unanswered.                                                             *)
(***************************************************************************)
EXTENDS Naturals, Sequences

CONSTANTS
  Clients,
  Bodies      \* how much content a reply may be made from

VARIABLES
  asked,      \* for each client, how much content each request wants used
  answered    \* for each client, <<number of the request, bytes of content used>>

vars == <<asked, answered>>

Init == asked = [c \in Clients |-> <<>>] /\ answered = [c \in Clients |-> <<>>]

Ask(c) ==
  /\ \E b \in Bodies : asked' = [asked EXCEPT ![c] = Append(@, b)]
  /\ UNCHANGED answered

\* The request last answered, 0 before the first reply.
LastAnswered(c) == IF answered[c] = <<>> THEN 0 ELSE answered[c][Len(answered[c])][1]

Answer(c) ==
  /\ \E n \in LastAnswered(c) + 1 .. Len(asked[c]) :
       answered' = [answered EXCEPT ![c] = Append(@, <<n, asked[c][n]>>)]
  /\ UNCHANGED asked

Next == \E c \in Clients : Ask(c) \/ Answer(c)

Spec == Init /\ [][Next]_vars
=============================================================================
