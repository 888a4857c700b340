---------------------------- MODULE MCChatTable ----------------------------
(* The poll server with as many users as the code admits. *)
EXTENDS ChatTable
=============================================================================
