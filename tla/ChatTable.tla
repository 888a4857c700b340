----------------------------- MODULE ChatTable -----------------------------
(***************************************************************************)
(* ChatRoom/server.c: one thread, poll() and two tables.  fds holds the    *)
(* listening socket and, without gaps, the connections; users is indexed   *)
(* by descriptor and holds what a client sent last (buf) and where what is *)
(* to be sent to it lies (write_buf), which is the buf of another client.  *)
(*                                                                         *)
(* A descriptor's events are POLLIN and the errors until the first         *)
(* "events |= ~POLLIN", which sets every bit; none is ever cleared.        *)
(***************************************************************************)
EXTENDS Naturals, Sequences, FiniteSets

CONSTANTS
  USER_LIMIT,
  MaxFd,       \* descriptors for connections: 1 .. MaxFd
  MaxConns,    \* bound on the connections clients make
  MaxTexts     \* bound on the texts clients send

Fds == 1 .. MaxFd
NULL == 0
Garbage == MaxFd + 1   \* what new client_data[FD_LIMIT] leaves in a pointer
NoText == <<>>         \* ... and in a buffer

\* There are descriptors enough for the clients the server takes (FD_LIMIT).
ChatAssumption ==
  /\ {USER_LIMIT, MaxFd, MaxConns, MaxTexts} \subseteq Nat
  /\ USER_LIMIT <= MaxFd

VARIABLES
  fds,           \* the entries 1 .. user_counter: [fd, all, revents]
  write_buf,     \* users[fd].write_buf: the descriptor whose buf it points to
  buf,           \* users[fd].buf: the texts the last recv took, by number
  i,             \* the loop's variable, 0 while the thread is in poll
  listening,     \* revents of the listening socket
  due,           \* descriptors poll reported and the loop has not come to
  backlog, conns, texts,
  unread,        \* texts sent to the server and not received, for each descriptor
  peer,          \* "none", "here", "closed" or "reset", for each descriptor
  error          \* descriptors with an error pending

server  == <<fds, write_buf, buf, i, listening, due>>
outside == <<backlog, conns, texts, unread, peer, error>>
vars    == <<server, outside>>

user_counter == Len(fds)

Init ==
  /\ fds = <<>> /\ i = 0 /\ listening = FALSE /\ due = {}
  /\ write_buf = [f \in Fds |-> Garbage] /\ buf = [f \in Fds |-> NoText]
  /\ backlog = 0 /\ conns = 0 /\ texts = 0 /\ error = {}
  /\ unread = [f \in Fds |-> <<>>] /\ peer = [f \in Fds |-> "none"]
-----------------------------------------------------------------------------
(* The clients *)

Connect ==
  /\ conns < MaxConns
  /\ conns' = conns + 1 /\ backlog' = backlog + 1
  /\ UNCHANGED <<server, texts, unread, peer, error>>

Send(f) ==
  /\ peer[f] = "here" /\ texts < MaxTexts
  /\ texts' = texts + 1
  /\ unread' = [unread EXCEPT ![f] = Append(@, texts + 1)]
  /\ UNCHANGED <<server, backlog, conns, peer, error>>

Close(f) ==
  /\ peer[f] = "here"
  /\ peer' = [peer EXCEPT ![f] = "closed"]
  /\ UNCHANGED <<server, backlog, conns, texts, unread, error>>

Reset(f) ==
  /\ peer[f] = "here"
  /\ peer' = [peer EXCEPT ![f] = "reset"]
  /\ error' = error \union {f}
  /\ unread' = [unread EXCEPT ![f] = <<>>]
  /\ UNCHANGED <<server, backlog, conns, texts>>
-----------------------------------------------------------------------------
(* poll: what it finds for each entry, in the order the loop asks for it *)

Ready(e) ==
  IF e.fd \in error THEN "POLLERR"
  ELSE IF peer[e.fd] # "here" THEN "POLLRDHUP"
  ELSE IF unread[e.fd] # <<>> THEN "POLLIN"
  ELSE IF e.all THEN "POLLOUT" ELSE "none"

Poll ==
  /\ i = 0
  /\ fds' = [k \in DOMAIN fds |-> [fds[k] EXCEPT !.revents = Ready(fds[k])]]
  /\ due' = {fds[k].fd : k \in {k \in DOMAIN fds : fds'[k].revents # "none"}}
  /\ listening' = (backlog > 0)
  /\ listening' \/ due' # {}
  /\ i' = 1
  /\ UNCHANGED <<write_buf, buf, outside>>

\* accept takes the lowest descriptor that is free.  users[connfd] keeps what it had.
NewUser ==
  /\ i = 1 /\ listening
  /\ user_counter < USER_LIMIT
  /\ LET f == CHOOSE f \in Fds : peer[f] = "none" /\ \A g \in 1 .. f - 1 : peer[g] # "none"
     IN  /\ fds' = Append(fds, [fd |-> f, all |-> FALSE, revents |-> "none"])
         /\ peer' = [peer EXCEPT ![f] = "here"]
  /\ backlog' = backlog - 1 /\ listening' = FALSE
  /\ UNCHANGED <<write_buf, buf, i, due, conns, texts, unread, error>>

\* One too many is told so and closed.
Refuse ==
  /\ i = 1 /\ listening
  /\ user_counter >= USER_LIMIT
  /\ backlog' = backlog - 1 /\ listening' = FALSE
  /\ UNCHANGED <<fds, write_buf, buf, i, due, conns, texts, unread, peer, error>>
-----------------------------------------------------------------------------
(* The loop over the connections *)

At(revents) == i \in 1..user_counter /\ ~listening /\ fds[i].revents = revents
Step == i' = i + 1 /\ due' = due \ {fds[i].fd}

NothingReported == At("none") /\ Step /\ UNCHANGED <<fds, write_buf, buf, listening, outside>>

\* getsockopt clears the error.
GetError ==
  /\ At("POLLERR")
  /\ Step
  /\ error' = error \ {fds[i].fd}
  /\ UNCHANGED <<fds, write_buf, buf, listening, backlog, conns, texts, unread, peer>>

\* i is not taken back: the entry that moves here is passed over.
Remove_NoStepBack ==
  LET f == fds[i].fd  last == fds[user_counter]
  IN  /\ write_buf' = [write_buf EXCEPT ![f] = write_buf[last.fd]]
      /\ buf' = [buf EXCEPT ![f] = buf[last.fd]]
      /\ fds' = SubSeq([fds EXCEPT ![i] = last], 1, user_counter - 1)
      /\ Step
      /\ peer' = [peer EXCEPT ![f] = "none"] /\ error' = error \ {f}
      /\ unread' = [unread EXCEPT ![f] = <<>>]
      /\ UNCHANGED <<listening, backlog, conns, texts>>

\* users[fd] and fds[i] are overwritten with those of the last entry, which comes
\* next; its users entry stays where it is, too.
Remove ==
  LET f == fds[i].fd  last == fds[user_counter]
  IN  /\ write_buf' = [write_buf EXCEPT ![f] = write_buf[last.fd]]
      /\ buf' = [buf EXCEPT ![f] = buf[last.fd]]
      /\ fds' = SubSeq([fds EXCEPT ![i] = last], 1, user_counter - 1)
      /\ due' = due \ {f}
      /\ peer' = [peer EXCEPT ![f] = "none"] /\ error' = error \ {f}
      /\ unread' = [unread EXCEPT ![f] = <<>>]
      /\ UNCHANGED <<i, listening, backlog, conns, texts>>

ClientLeft == At("POLLRDHUP") /\ Remove

\* The connection was reset after poll had reported data.
ReceiveFails == At("POLLIN") /\ unread[fds[i].fd] = <<>> /\ Remove

\* recv takes all there is: BUFFER_SIZE is large enough for MaxTexts texts.  The others
\* are to send what is now in the sender's buf.
Receive ==
  LET f == fds[i].fd  others == {fds[k].fd : k \in DOMAIN fds} \ {f}
  IN  /\ At("POLLIN") /\ unread[f] # <<>>
      /\ Step
      /\ buf' = [buf EXCEPT ![f] = unread[f]]
      /\ unread' = [unread EXCEPT ![f] = <<>>]
      /\ write_buf' = [g \in Fds |-> IF g \in others THEN f ELSE write_buf[g]]
      /\ fds' = [k \in DOMAIN fds |-> [fds[k] EXCEPT !.all = @ \/ fds[k].fd # f]]
      /\ UNCHANGED <<listening, backlog, conns, texts, peer, error>>

\* What was sent is still to be sent.
SendText_NotCleared ==
  /\ At("POLLOUT")
  /\ Step
  /\ UNCHANGED <<fds, write_buf, buf, listening, outside>>

SendText ==
  /\ At("POLLOUT")
  /\ Step
  /\ write_buf' = [write_buf EXCEPT ![fds[i].fd] = NULL]
  /\ UNCHANGED <<fds, buf, listening, outside>>

RoundEnds ==
  /\ i = user_counter + 1 /\ ~listening
  /\ i' = 0
  /\ UNCHANGED <<fds, write_buf, buf, listening, due, outside>>
-----------------------------------------------------------------------------
Server ==
  \/ Poll \/ NewUser \/ Refuse \/ NothingReported \/ GetError \/ ClientLeft
  \/ ReceiveFails \/ Receive \/ SendText \/ RoundEnds

Outside == Connect \/ \E f \in Fds : Send(f) \/ Close(f) \/ Reset(f)

Next == Server \/ Outside

Spec == Init /\ [][Next]_vars

\* The one thread runs whenever poll lets it.
FairSpec == Spec /\ WF_vars(Server)
-----------------------------------------------------------------------------
Listed == {fds[k].fd : k \in DOMAIN fds}

\* fds lists the open connections, each once, through any order of arrivals and
\* departures (server.c 92-146); who is polled for writing has a write_buf.
Consistent ==
  /\ user_counter <= USER_LIMIT
  /\ Listed = {f \in Fds : peer[f] # "none"} /\ Cardinality(Listed) = user_counter
  /\ \A k \in DOMAIN fds : fds[k].all => write_buf[fds[k].fd] # Garbage

\* In one turn of the loop every descriptor that poll reported is looked at once:
\* those still to come are the entries from i on, although entries move.
VisitedOnce ==
  i # 0 => due = {fds[k].fd : k \in {k \in i..user_counter : fds[k].revents # "none"}}

EntriesInv == Consistent /\ VisitedOnce

\* Who has a text to be sent to it, in an entry that is polled for writing.
Pending == {fds[k].fd : k \in {k \in DOMAIN fds : fds[k].all /\ write_buf[fds[k].fd] \in Fds}}

\* No client is forgotten: some time after the last text what came from it has been
\* read and what is to be sent to it has been sent, unless it has left, although the
\* entries of the others move and POLLIN is asked for before POLLOUT (server.c 105-170).
NobodyForgotten ==
  \A f \in Fds : unread[f] # <<>> \/ f \in Pending ~> unread[f] = <<>> /\ f \notin Pending

\* The comment at lines 149 and 150: what one socket has sent is sent to all the
\* others.  Then a client's buffer may not get another text, or another's, while
\* somebody is still to be sent the one that is in it.
TextsKeptUntilSent ==
  [][\A f \in Fds : (\E g \in Pending' : write_buf[g] = f /\ write_buf'[g] = f) => buf'[f] = buf[f]]_vars
=============================================================================
