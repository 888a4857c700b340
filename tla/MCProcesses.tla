----------------------------- MODULE MCProcesses -----------------------------
(* The two servers that fork their children: ProcessPool, with two children of *)
(* which one may crash, and MPServer, with two process numbers that are used   *)
(* again by later children.  One of the two runs, the other one is not started. *)
EXTENDS ProcessPool

CONSTANTS Pids, USER_LIMIT, NoPid, MaxChatConns, MaxSends, MaxTerms

VARIABLES
  users, sub_process, user_counter, holders, terminate, stop_server, signals, parent,
  child, stop_child, term, conn, sends, terms,
  chatReady, chatBatch, chatSigpipe, chatBacklog, chatConns

\* The chat server; where it uses a name of ProcessPool it is given another one.
Chat == INSTANCE MPServer WITH
  MaxConns <- MaxChatConns, ready <- chatReady, batch <- chatBatch,
  sigpipe <- chatSigpipe, backlog <- chatBacklog, conns <- chatConns

ASSUME ServerAssumption == Chat!ServerAssumption

chatVars == <<users, sub_process, user_counter, holders, terminate, stop_server, signals, parent,
              child, stop_child, term, conn, sends, terms,
              chatReady, chatBatch, chatSigpipe, chatBacklog, chatConns>>

MCInit == Init /\ Chat!Init

PoolNext == Next /\ UNCHANGED chatVars
ChatNext == Chat!Next /\ UNCHANGED vars

PoolSpec == MCInit /\ [][PoolNext]_<<vars, chatVars>> /\ Fairness
ChatSpec == MCInit /\ [][ChatNext]_<<vars, chatVars>> /\ Chat!Fairness

\* The table of users, the map from process numbers and the counter agree after
\* every fork and every waitpid, in any order of exits (MPserver.c 262-341).
TableInv == Chat!TableInv

\* Every child that exits is waited for as long as the parent runs, however many
\* exits are announced by one signal (MPserver.c 317-341).
ZombiesReaped == Chat!ZombiesReaped
=============================================================================
