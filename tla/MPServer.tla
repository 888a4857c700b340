------------------------------ MODULE MPServer ------------------------------
(***************************************************************************)
(* ChatRoom/MPserver.c: a parent that accepts connections and forks a      *)
(* child for each, with a table of children, and signals turned into bytes *)
(* on a socket pair.                                                       *)
(*                                                                         *)
(* This module has the life of the processes: accept, fork, the child's    *)
(* loop as far as it decides whether the child goes on, exit, SIGCHLD,     *)
(* waitpid, SIGTERM.  What the children relay is left out.                 *)
(*                                                                         *)
(* Every descriptor is watched edge-triggered (line 60): an event is       *)
(* reported once after something arrives, and a batch of events that       *)
(* epoll_wait has returned is worked through before the next one.          *)
(***************************************************************************)
EXTENDS Integers, Sequences, FiniteSets

CONSTANTS
  Pids,
  USER_LIMIT,
  NoPid,       \* a users[] entry that was never written
  MaxConns,    \* bound on the connections made to the server
  MaxSends,    \* bound on the messages clients send
  MaxTerms     \* bound on the SIGTERMs and SIGINTs sent to the parent

ServerAssumption ==
  /\ IsFiniteSet(Pids) /\ NoPid \notin Pids
  /\ USER_LIMIT \in Nat \ {0}
  /\ MaxConns \in Nat /\ MaxSends \in Nat /\ MaxTerms \in Nat

VARIABLES
  backlog,       \* connections waiting to be accepted
  users,         \* users[i].pid
  sub_process,   \* pid -> index into users, or -1
  user_counter,
  holders,       \* children that have inherited the parent's end of a child's pipe
  terminate, stop_server,
  ready, batch,  \* events the kernel has, events epoll_wait has returned
  sigpipe,       \* bytes in sig_pipefd
  signals,       \* bytes the parent has read and not acted on yet
  parent,        \* "loop" or "exited"
  child,         \* where each child is: see below
  stop_child,
  term,          \* SIGTERMs sent to a child and not delivered
  conn,          \* connfd of each child: is there data, has the client closed,
                 \* has something arrived since the last event
  conns, sends, terms   \* how often the outside has acted

tableVars == <<users, sub_process, user_counter, holders>>
loopVars  == <<terminate, stop_server, ready, batch, sigpipe, signals, parent>>
childVars == <<child, stop_child, term, conn>>
envVars   == <<backlog, conns, sends, terms>>
vars      == <<tableVars, loopVars, childVars, envVars>>

\* "none": no such process.  "forked": has the parent's handlers and pipe.
\* "init": has closed the pipe, not called addsig.  "test": at while(!stop_child).
\* "tested": on its way into epoll_wait.  "blocked": in it.  "zombie": has exited.
ChildStates == {"none", "forked", "init", "test", "tested", "blocked", "zombie"}

Init ==
  /\ backlog = 0 /\ conns = 0 /\ sends = 0 /\ terms = 0
  /\ users = [i \in 0..USER_LIMIT |-> NoPid]
  /\ sub_process = [p \in Pids |-> -1]
  /\ user_counter = 0 /\ holders = [p \in Pids |-> {}]
  /\ terminate = FALSE /\ stop_server = FALSE
  /\ ready = {} /\ batch = {} /\ sigpipe = <<>> /\ signals = <<>>
  /\ parent = "loop"
  /\ child = [p \in Pids |-> "none"]
  /\ stop_child = [p \in Pids |-> FALSE]
  /\ term = [p \in Pids |-> FALSE]
  /\ conn = [p \in Pids |-> [data |-> FALSE, closed |-> FALSE, edge |-> FALSE]]
-----------------------------------------------------------------------------
(* The outside *)

Connect ==
  /\ parent = "loop" /\ conns < MaxConns
  /\ conns' = conns + 1 /\ backlog' = backlog + 1
  /\ ready' = ready \union {"listen"}
  /\ UNCHANGED <<tableVars, childVars, terminate, stop_server, batch, sigpipe, signals, parent, sends, terms>>

Connected(p) == child[p] \notin {"none", "zombie"} /\ ~conn[p].closed

ClientSends(p) ==
  /\ Connected(p) /\ sends < MaxSends
  /\ sends' = sends + 1
  /\ conn' = [conn EXCEPT ![p] = [@ EXCEPT !.data = TRUE, !.edge = TRUE]]
  /\ UNCHANGED <<tableVars, loopVars, child, stop_child, term, backlog, conns, terms>>

ClientCloses(p) ==
  /\ Connected(p)
  /\ conn' = [conn EXCEPT ![p] = [@ EXCEPT !.closed = TRUE, !.edge = TRUE]]
  /\ UNCHANGED <<tableVars, loopVars, child, stop_child, term, envVars>>

\* sig_handler: a byte on the pipe.  A byte like the one before it is read and
\* acted on together with it: one stands for both.
SignalByte(sig) ==
  /\ sigpipe' = IF sigpipe # <<>> /\ sigpipe[Len(sigpipe)] = sig THEN sigpipe ELSE Append(sigpipe, sig)
  /\ ready' = ready \union {"sig"}

\* SIGTERM and SIGINT share one case.
TerminateServer ==
  /\ parent = "loop" /\ terms < MaxTerms
  /\ terms' = terms + 1
  /\ SignalByte("TERM")
  /\ UNCHANGED <<tableVars, childVars, terminate, stop_server, batch, signals, parent, backlog, conns, sends>>
-----------------------------------------------------------------------------
(* The parent *)

Busy == signals # <<>>   \* in the loop over the signal bytes it has read

EpollWait ==
  /\ parent = "loop" /\ ~stop_server
  /\ batch = {} /\ ~Busy /\ ready # {}
  /\ batch' = ready /\ ready' = {}
  /\ UNCHANGED <<tableVars, childVars, envVars, terminate, stop_server, sigpipe, signals, parent>>

\* What a failed accept, a full table and a failed fork have in common: no child.
NoNewUser ==
  /\ parent = "loop" /\ "listen" \in batch /\ ~Busy
  /\ \/ backlog = 0 /\ UNCHANGED backlog
     \/ backlog > 0 /\ backlog' = backlog - 1   \* full, or fork fails at line 277
  /\ batch' = batch \ {"listen"}
  /\ UNCHANGED <<tableVars, childVars, terminate, stop_server, ready, sigpipe, signals, parent, conns, sends, terms>>

Unreaped == {p \in Pids : child[p] # "none"}

\* fork copies the parent's descriptors, and the child closes only those of its
\* own pipe (line 284): it keeps the parent's ends of its elders' pipes.
Inherit(p) ==
  holders' = [q \in Pids |-> IF q \in Unreaped THEN holders[q] \union {p} ELSE {}]

\* One accept for one event.
NewUser(p) ==
  /\ parent = "loop" /\ "listen" \in batch /\ ~Busy
  /\ backlog > 0 /\ user_counter < USER_LIMIT
  /\ child[p] = "none"
  /\ backlog' = backlog - 1
  /\ users' = [users EXCEPT ![user_counter] = p]
  /\ sub_process' = [sub_process EXCEPT ![p] = user_counter]
  /\ user_counter' = user_counter + 1
  /\ Inherit(p)
  /\ child' = [child EXCEPT ![p] = "forked"]
  /\ stop_child' = [stop_child EXCEPT ![p] = FALSE]
  /\ term' = [term EXCEPT ![p] = FALSE]
  /\ conn' = [conn EXCEPT ![p] = [data |-> FALSE, closed |-> FALSE, edge |-> FALSE]]
  /\ batch' = batch \ {"listen"}
  /\ UNCHANGED <<terminate, stop_server, ready, sigpipe, signals, parent, conns, sends, terms>>

ReadSignals ==
  /\ parent = "loop" /\ "sig" \in batch /\ ~Busy
  /\ signals' = sigpipe /\ sigpipe' = <<>>
  /\ batch' = batch \ {"sig"}
  /\ UNCHANGED <<tableVars, childVars, envVars, terminate, stop_server, ready, parent>>

Zombies == {p \in Pids : child[p] = "zombie"}

\* The entry is emptied and sub_process of the child moved into it is not updated.
Reap_IndexNotMoved(p) ==
  /\ parent = "loop" /\ Busy /\ Head(signals) = "CHLD"
  /\ child[p] = "zombie"
  /\ LET del_user == sub_process[p] IN
       IF del_user < 0 \/ del_user > USER_LIMIT
         THEN /\ sub_process' = [sub_process EXCEPT ![p] = -1]
              /\ UNCHANGED <<users, user_counter>>
         ELSE /\ user_counter' = user_counter - 1
              /\ users' = [users EXCEPT ![del_user] = users[user_counter']]
              /\ sub_process' = [sub_process EXCEPT ![p] = -1]
  /\ child' = [child EXCEPT ![p] = "none"]
  /\ holders' = [q \in Pids |-> IF q = p THEN {} ELSE holders[q] \ {p}]
  /\ UNCHANGED <<loopVars, envVars, stop_child, term, conn>>

\* One turn of the waitpid loop: the last user moves into the place that is free,
\* which is its own place if it is the one that left.
Reap(p) ==
  /\ parent = "loop" /\ Busy /\ Head(signals) = "CHLD"
  /\ child[p] = "zombie"
  /\ LET del_user == sub_process[p]
         cleared  == [sub_process EXCEPT ![p] = -1]
     IN  IF del_user < 0 \/ del_user > USER_LIMIT
           THEN /\ sub_process' = cleared
                /\ UNCHANGED <<users, user_counter>>
           ELSE /\ user_counter' = user_counter - 1
                /\ users' = [users EXCEPT ![del_user] = users[user_counter']]
                /\ sub_process' = [cleared EXCEPT ![users'[del_user]] = del_user]
  /\ child' = [child EXCEPT ![p] = "none"]
  /\ holders' = [q \in Pids |-> IF q = p THEN {} ELSE holders[q] \ {p}]
  /\ UNCHANGED <<loopVars, envVars, stop_child, term, conn>>

\* A single waitpid for each SIGCHLD that was read.
Reaped_Once ==
  /\ parent = "loop" /\ Busy /\ Head(signals) = "CHLD"
  /\ signals' = Tail(signals)
  /\ stop_server' = (stop_server \/ (terminate /\ user_counter = 0))
  /\ UNCHANGED <<tableVars, childVars, envVars, terminate, ready, batch, sigpipe, parent>>

\* waitpid returns 0, or -1 when there are no children at all.
Reaped ==
  /\ parent = "loop" /\ Busy /\ Head(signals) = "CHLD"
  /\ Zombies = {}
  /\ signals' = Tail(signals)
  /\ stop_server' = (stop_server \/ (terminate /\ user_counter = 0))
  /\ UNCHANGED <<tableVars, childVars, envVars, terminate, ready, batch, sigpipe, parent>>

KillChildren ==
  /\ parent = "loop" /\ Busy /\ Head(signals) = "TERM"
  /\ signals' = Tail(signals)
  /\ IF user_counter = 0
       THEN stop_server' = TRUE /\ UNCHANGED <<terminate, term>>
       ELSE /\ terminate' = TRUE
            /\ term' = [p \in Pids |->
                          term[p] \/ (child[p] # "zombie" /\ \E i \in 0 .. user_counter - 1 : users[i] = p)]
            /\ UNCHANGED stop_server
  /\ UNCHANGED <<tableVars, envVars, child, stop_child, conn, ready, batch, sigpipe, parent>>

\* stop_server is looked at when the whole batch has been worked through.
ParentExits ==
  /\ parent = "loop" /\ stop_server /\ batch = {} /\ ~Busy
  /\ parent' = "exited"
  /\ UNCHANGED <<tableVars, childVars, envVars, terminate, stop_server, ready, batch, sigpipe, signals>>
-----------------------------------------------------------------------------
(* A child *)

ChildGoes(p, from, to) ==
  /\ child[p] = from
  /\ child' = [child EXCEPT ![p] = to]

CloseInherited(p) ==
  /\ ChildGoes(p, "forked", "init")
  /\ UNCHANGED <<tableVars, loopVars, envVars, stop_child, term, conn>>

\* Both descriptors are in the epoll set and the child's own handler is set.
AddSig(p) ==
  /\ ChildGoes(p, "init", "test")
  /\ UNCHANGED <<tableVars, loopVars, envVars, stop_child, term, conn>>

TestStop(p) ==
  /\ ~stop_child[p]
  /\ ChildGoes(p, "test", "tested")
  /\ UNCHANGED <<tableVars, loopVars, envVars, stop_child, term, conn>>

Enter(p) ==
  /\ ChildGoes(p, "tested", "blocked")
  /\ UNCHANGED <<tableVars, loopVars, envVars, stop_child, term, conn>>

\* An event on connfd: one recv, which returns data if there are any and 0 only
\* when the client has closed.
RecvConn(p) ==
  /\ conn[p].edge
  /\ ChildGoes(p, "blocked", "test")
  /\ conn' = [conn EXCEPT ![p] = [@ EXCEPT !.edge = FALSE, !.data = FALSE]]
  /\ stop_child' = [stop_child EXCEPT ![p] = @ \/ (~conn[p].data /\ conn[p].closed)]
  /\ UNCHANGED <<tableVars, loopVars, envVars, term>>

\* An event on pipefd when nobody has the other end any more: recv returns 0.
PipeClosed(p) ==
  /\ parent = "exited" /\ \A q \in holders[p] : child[q] \in {"none", "zombie"}
  /\ ChildGoes(p, "blocked", "test")
  /\ stop_child' = [stop_child EXCEPT ![p] = TRUE]
  /\ UNCHANGED <<tableVars, loopVars, envVars, term, conn>>

\* The parent's SIGTERM reaches the child: at first the handler is still the
\* parent's sig_handler, whose pipe is shared, then closed; from addsig on it is
\* child_term_handler, which also interrupts epoll_wait.
DeliverTerm(p) ==
  /\ term[p] /\ child[p] \notin {"none", "zombie"}
  /\ term' = [term EXCEPT ![p] = FALSE]
  /\ IF child[p] = "forked" THEN SignalByte("TERM") ELSE UNCHANGED <<sigpipe, ready>>
  /\ stop_child' = [stop_child EXCEPT ![p] = @ \/ child[p] \notin {"forked", "init"}]
  /\ child' = [child EXCEPT ![p] = IF @ = "blocked" THEN "test" ELSE @]
  /\ UNCHANGED <<tableVars, envVars, conn, terminate, stop_server, batch, signals, parent>>

ChildExits(p) ==
  /\ stop_child[p]
  /\ ChildGoes(p, "test", "zombie")
  /\ IF parent = "loop" THEN SignalByte("CHLD") ELSE UNCHANGED <<sigpipe, ready>>
  /\ UNCHANGED <<tableVars, envVars, stop_child, term, conn, terminate, stop_server, batch, signals, parent>>
-----------------------------------------------------------------------------
Parent ==
  \/ EpollWait \/ NoNewUser \/ (\E p \in Pids : NewUser(p))
  \/ ReadSignals \/ (\E p \in Pids : Reap(p)) \/ Reaped \/ KillChildren
  \/ ParentExits

Child(p) ==
  \/ CloseInherited(p) \/ AddSig(p) \/ TestStop(p) \/ Enter(p)
  \/ RecvConn(p) \/ PipeClosed(p) \/ ChildExits(p)

Next ==
  \/ Connect \/ TerminateServer \/ Parent
  \/ \E p \in Pids : ClientSends(p) \/ ClientCloses(p) \/ Child(p) \/ DeliverTerm(p)

Spec == Init /\ [][Next]_vars

\* The parent is scheduled.  No child has to go on, no signal to reach it, and nobody
\* has to connect, send, close or terminate.
Fairness == WF_vars(Parent)
-----------------------------------------------------------------------------
\* Every variable keeps its type: in particular user_counter never passes
\* USER_LIMIT, and no index points outside users.
TypeOK ==
  /\ backlog \in Nat /\ conns \in 0..MaxConns /\ sends \in 0..MaxSends /\ terms \in 0..MaxTerms
  /\ users \in [0..USER_LIMIT -> Pids \union {NoPid}]
  /\ sub_process \in [Pids -> -1 .. USER_LIMIT]
  /\ user_counter \in 0..USER_LIMIT
  /\ holders \in [Pids -> SUBSET Pids]
  /\ terminate \in BOOLEAN /\ stop_server \in BOOLEAN
  /\ ready \subseteq {"listen", "sig"} /\ batch \subseteq {"listen", "sig"}
  /\ sigpipe \in Seq({"CHLD", "TERM"}) /\ signals \in Seq({"CHLD", "TERM"})
  /\ parent \in {"loop", "exited"}
  /\ child \in [Pids -> ChildStates]
  /\ stop_child \in [Pids -> BOOLEAN] /\ term \in [Pids -> BOOLEAN]
  /\ conn \in [Pids -> [data : BOOLEAN, closed : BOOLEAN, edge : BOOLEAN]]

\* The first user_counter entries of users are the children not yet waited for,
\* each once, and sub_process finds each of them: when a child exits the parent
\* releases that child's entry and no other.
TableConsistent ==
  /\ Cardinality(Unreaped) = user_counter
  /\ \A p \in Unreaped : sub_process[p] \in 0 .. user_counter - 1 /\ users[sub_process[p]] = p

\* The table of users, the map from process numbers and the counter agree after
\* every fork and every waitpid, in any order of exits (MPserver.c 262-341).
TableInv == TypeOK /\ TableConsistent

\* Every child that exits is waited for as long as the parent runs, however many
\* exits are announced by one signal.
ZombiesReaped == \A p \in Pids : child[p] = "zombie" ~> (child[p] = "none" \/ parent = "exited")
=============================================================================
