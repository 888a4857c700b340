------------------------------ MODULE Reactor ------------------------------
(***************************************************************************)
(* The server of MyReactor/reactor.cpp.  The main thread waits for epoll   *)
(* events: for the listening socket (level triggered) it wakes the accept  *)
(* thread, any other descriptor (edge triggered) it puts into              *)
(* g_listClients for the workers, who read until there is nothing left and *)
(* reply.  prog_exit, the handler of SIGINT and SIGTERM, is run by the     *)
(* main thread while it is in epoll_wait.                                  *)
(*                                                                         *)
(* The bytes of a client are messages that one recv takes.  Descriptors    *)
(* are numbers the kernel uses again.  g_acceptmutex is left out: only the *)
(* accept thread takes it; g_mutex is never taken.  A section with         *)
(* g_clientmutex held is one step.                                         *)
(***************************************************************************)
EXTENDS Naturals, Sequences, FiniteSets, SequencesExt

CONSTANTS
  Workers, Main, Acceptor,
  Clients,
  Fds,                 \* the numbers of the sockets of clients
  Listen,              \* g_listenfd
  None,                \* no descriptor
  MaxSends,            \* bound on the messages clients send
  MayStop              \* whether SIGINT or SIGTERM may come

ASSUME ReactorAssumption ==
  /\ IsFiniteSet(Clients) /\ IsFiniteSet(Workers) /\ Workers # {}
  /\ Main # Acceptor /\ {Main, Acceptor} \intersect Workers = {}
  /\ Fds \subseteq Nat /\ IsFiniteSet(Fds) /\ Cardinality(Fds) >= Cardinality(Clients)
  /\ {Listen, None} \intersect Fds = {} /\ Listen # None
  /\ MaxSends \in Nat /\ MayStop \in BOOLEAN

VARIABLES
  \* the kernel and the clients
  backlog,        \* connections made and not accepted, first to last
  fdOf,           \* the descriptor of each client, None without one
  closed,         \* clients whose connection the server has closed
  unread,         \* messages that no recv has taken
  sent,           \* messages sent
  gone,           \* clients that have closed their end
  full,           \* clients who leave so much unread that no more can be sent
  watched,        \* descriptors registered with g_epollfd
  ready,          \* those of them with an edge to report
  \* the program
  g_listClients,
  g_bStop,
  pc,
  batch,          \* what is left of the events epoll_wait returned
  newfd,          \* of the accept thread
  clientfd,       \* of each worker
  strclientmsg,   \* whose messages each worker has read for one reply
  waiters,        \* threads blocked on g_cond
  acceptWaiters   \* threads blocked on g_acceptcond

network == <<backlog, fdOf, closed, unread, sent, gone, full>>
epoll == <<watched, ready>>
work == <<clientfd, strclientmsg>>
conds == <<waiters, acceptWaiters>>
vars == <<network, epoll, g_listClients, g_bStop, pc, batch, newfd, work, conds>>

g_cond == INSTANCE CondVar WITH SpuriousWakeups <- TRUE
g_acceptcond == INSTANCE CondVar WITH SpuriousWakeups <- TRUE, waiters <- acceptWaiters

Goto(t, label) == pc' = [pc EXCEPT ![t] = label]

Init ==
  /\ backlog = <<>>
  /\ fdOf = [c \in Clients |-> None] /\ closed = {} /\ gone = {} /\ full = {}
  /\ unread = [c \in Clients |-> 0] /\ sent = 0
  /\ watched = {} /\ ready = {}
  /\ g_listClients = <<>> /\ g_bStop = FALSE
  /\ pc = [t \in Workers \union {Main, Acceptor} |-> IF t = Main THEN "poll" ELSE "loop"]
  /\ batch = {} /\ newfd = None
  /\ clientfd = [w \in Workers |-> None]
  /\ strclientmsg = [w \in Workers |-> {}]
  /\ waiters = {} /\ acceptWaiters = {}

Connected(c) == fdOf[c] # None \/ c \in ToSet(backlog)
Open == {fdOf[c] : c \in Clients} \ {None}
ClientAt(fd) == CHOOSE c \in Clients : fdOf[c] = fd
-----------------------------------------------------------------------------
(* The clients *)

program == <<g_listClients, g_bStop, pc, batch, newfd, work, conds>>

Connect(c) ==
  /\ ~Connected(c) /\ c \notin closed
  /\ backlog' = Append(backlog, c)
  /\ UNCHANGED <<fdOf, closed, unread, sent, gone, full, epoll, program>>

\* Something new to read makes an edge.
Edge(c) == ready' = ready \union ({fdOf[c]} \intersect watched)

Send(c) ==
  /\ Connected(c) /\ c \notin gone /\ sent < MaxSends
  /\ unread' = [unread EXCEPT ![c] = @ + 1]
  /\ sent' = sent + 1
  /\ Edge(c)
  /\ UNCHANGED <<backlog, fdOf, closed, gone, full, watched, program>>

\* It reads some of what it was sent.
ReadReplies(c) ==
  /\ c \in full
  /\ full' = full \ {c}
  /\ UNCHANGED <<backlog, fdOf, closed, unread, sent, gone, epoll, program>>

\* Who has left keeps nobody waiting: what is sent to it fails.
Leave(c) ==
  /\ Connected(c) /\ c \notin gone
  /\ gone' = gone \union {c} /\ full' = full \ {c}
  /\ Edge(c)
  /\ UNCHANGED <<backlog, fdOf, closed, unread, sent, watched, program>>
-----------------------------------------------------------------------------
(* main *)

Handle == IF batch' = {} THEN "poll" ELSE "batch"

ListenEvent_Once == IF Len(backlog) = 1 THEN {Listen} ELSE {}

ListenEvent == IF backlog = <<>> THEN {} ELSE {Listen}

\* Every edge is reported once, the listening socket while anyone waits there.
EpollWait ==
  /\ pc[Main] = "poll" /\ ~g_bStop
  /\ batch' = ready \union ListenEvent
  /\ batch' # {}
  /\ ready' = {}
  /\ Goto(Main, "batch")
  /\ UNCHANGED <<network, watched, g_listClients, g_bStop, newfd, work, conds>>

SignalAcceptor ==
  /\ pc[Main] = "batch" /\ Listen \in batch
  /\ g_acceptcond!Signal
  /\ batch' = batch \ {Listen}
  /\ Goto(Main, Handle)
  /\ UNCHANGED <<network, epoll, g_listClients, g_bStop, newfd, work, waiters>>

PushClient(fd) ==
  /\ pc[Main] = "batch" /\ fd \in batch \ {Listen}
  /\ g_listClients' = Append(g_listClients, fd)
  /\ batch' = batch \ {fd}
  /\ Goto(Main, "signal")
  /\ UNCHANGED <<network, epoll, g_bStop, newfd, work, conds>>

SignalWorker_Missing ==
  /\ pc[Main] = "signal"
  /\ Goto(Main, IF batch = {} THEN "poll" ELSE "batch")
  /\ UNCHANGED <<network, epoll, g_listClients, g_bStop, batch, newfd, work, conds>>

\* g_clientmutex has been given back by then.
SignalWorker ==
  /\ pc[Main] = "signal"
  /\ g_cond!Signal
  /\ Goto(Main, IF batch = {} THEN "poll" ELSE "batch")
  /\ UNCHANGED <<network, epoll, g_listClients, g_bStop, batch, newfd, work, acceptWaiters>>
-----------------------------------------------------------------------------
(* accept_thread_func *)

AcceptLoop ==
  /\ pc[Acceptor] = "loop"
  /\ Goto(Acceptor, IF g_bStop THEN "exited" ELSE "enter")
  /\ UNCHANGED <<network, epoll, g_listClients, g_bStop, batch, newfd, work, conds>>

\* It waits before it looks at anything.
AcceptWait ==
  /\ pc[Acceptor] = "enter"
  /\ g_acceptcond!Sleeps(Acceptor)
  /\ Goto(Acceptor, "waiting")
  /\ UNCHANGED <<network, epoll, g_listClients, g_bStop, batch, newfd, work, waiters>>

AcceptWoken ==
  /\ pc[Acceptor] = "waiting" /\ Acceptor \notin acceptWaiters
  /\ Goto(Acceptor, IF g_bStop THEN "exited" ELSE "accept")
  /\ UNCHANGED <<network, epoll, g_listClients, g_bStop, batch, newfd, work, conds>>

LowestFd == CHOOSE fd \in Fds \ Open : \A other \in Fds \ Open : fd <= other

\* accept takes the first connection, or fails when there is none or when
\* prog_exit has closed the socket.
Accept ==
  /\ pc[Acceptor] = "accept"
  /\ IF backlog = <<>> \/ g_bStop
       THEN /\ Goto(Acceptor, "loop")
            /\ UNCHANGED <<newfd, fdOf, backlog>>
       ELSE /\ newfd' = LowestFd
            /\ fdOf' = [fdOf EXCEPT ![Head(backlog)] = LowestFd]
            /\ backlog' = Tail(backlog)
            /\ Goto(Acceptor, "add")
  /\ UNCHANGED <<closed, unread, sent, gone, full, epoll, g_listClients, g_bStop, batch, work, conds>>

\* prog_exit has closed g_epollfd.
EpollClosed == pc[Main] \in {"destroy", "blocked", "exited"}

\* EPOLL_CTL_ADD, which fails when the descriptor is closed by now, or g_epollfd,
\* and reports at once what there is to read.
Add ==
  /\ pc[Acceptor] = "add"
  /\ LET added == IF EpollClosed THEN {} ELSE {newfd} \intersect Open
     IN  /\ watched' = watched \union added
         /\ ready' = ready \union
              {fd \in added : unread[ClientAt(fd)] > 0 \/ ClientAt(fd) \in gone}
  /\ newfd' = None
  /\ Goto(Acceptor, "loop")
  /\ UNCHANGED <<network, g_listClients, g_bStop, batch, work, conds>>
-----------------------------------------------------------------------------
(* worker_thread_func *)

WorkerLoop(w) ==
  /\ pc[w] = "loop"
  /\ Goto(w, IF g_bStop THEN "exited" ELSE "enter")
  /\ UNCHANGED <<network, epoll, g_listClients, g_bStop, batch, newfd, work, conds>>

\* while (g_listClients.empty()): a woken worker looks at g_bStop first.
Test(w) ==
  \/ pc[w] = "enter"
  \/ pc[w] = "waiting" /\ w \notin waiters /\ ~g_bStop

WorkerSleep(w) ==
  /\ Test(w) /\ g_listClients = <<>>
  /\ g_cond!Sleeps(w)
  /\ Goto(w, "waiting")
  /\ UNCHANGED <<network, epoll, g_listClients, g_bStop, batch, newfd, work, acceptWaiters>>

Take(w) ==
  /\ Test(w) /\ g_listClients # <<>>
  /\ clientfd' = [clientfd EXCEPT ![w] = Head(g_listClients)]
  /\ strclientmsg' = [strclientmsg EXCEPT ![w] = {}]
  /\ g_listClients' = Tail(g_listClients)
  /\ Goto(w, "recv")
  /\ UNCHANGED <<network, epoll, g_bStop, batch, newfd, conds>>

WorkerExit(w) ==
  /\ pc[w] = "waiting" /\ w \notin waiters /\ g_bStop
  /\ Goto(w, "exited")
  /\ UNCHANGED <<network, epoll, g_listClients, g_bStop, batch, newfd, work, conds>>

Reads(w, c) == fdOf[c] = clientfd[w] /\ unread[c] > 0

AfterRecv_Once == "send"

\* while (true)
AfterRecv == "recv"

\* recv > 0, and the loop goes on.
RecvData(w) ==
  /\ pc[w] = "recv"
  /\ \E c \in Clients :
       /\ Reads(w, c)
       /\ unread' = [unread EXCEPT ![c] = @ - 1]
       /\ strclientmsg' = [strclientmsg EXCEPT ![w] = @ \union {c}]
  /\ Goto(w, AfterRecv)
  /\ UNCHANGED <<backlog, fdOf, closed, sent, gone, full, epoll, g_listClients, g_bStop, batch,
                 newfd, clientfd, conds>>

\* EWOULDBLOCK: everything is read.  An end of stream (0) or a descriptor that
\* another worker has closed (EBADF): the client is released.
RecvEnds(w) ==
  /\ pc[w] = "recv"
  /\ ~ \E c \in Clients : Reads(w, c)
  /\ Goto(w, IF \E c \in Clients \ gone : fdOf[c] = clientfd[w] THEN "send" ELSE "delete")
  /\ UNCHANGED <<network, epoll, g_listClients, g_bStop, batch, newfd, work, conds>>

\* Lines 261-289, send after send until the reply is out; it is out after two at
\* most.  While the client does not read, EWOULDBLOCK, sleep(10) and the next try
\* change nothing, and no step is there for them.
Replies(w) == pc[w] \in {"send", "rest"}

HeldUpBy(w, c) == Replies(w) /\ fdOf[c] = clientfd[w] /\ c \in full

\* What is sent may be all that the client's buffer holds.
SendAll(w) ==
  /\ Replies(w)
  /\ \E c \in Clients \ full :
       /\ fdOf[c] = clientfd[w]
       /\ \/ full' = full
          \/ c \notin gone /\ full' = full \union {c}
  /\ Goto(w, "loop")
  /\ UNCHANGED <<backlog, fdOf, closed, unread, sent, gone, epoll, g_listClients, g_bStop,
                 batch, newfd, work, conds>>

SendPart(w) ==
  /\ pc[w] = "send"
  /\ \E c \in Clients \ (full \union gone) :
       fdOf[c] = clientfd[w] /\ full' = full \union {c}
  /\ Goto(w, "rest")
  /\ UNCHANGED <<backlog, fdOf, closed, unread, sent, gone, epoll, g_listClients, g_bStop,
                 batch, newfd, work, conds>>

\* A descriptor that another worker has closed, or a client that has left.
SendFails(w) ==
  /\ Replies(w)
  /\ \A c \in Clients \ gone : fdOf[c] # clientfd[w]
  /\ Goto(w, "delete")
  /\ UNCHANGED <<network, epoll, g_listClients, g_bStop, batch, newfd, work, conds>>

SendReply(w) == SendAll(w) \/ SendPart(w) \/ SendFails(w)

\* release_client: EPOLL_CTL_DEL, then close, whoever has the number by then.
ReleaseDelete(w) ==
  /\ pc[w] = "delete"
  /\ watched' = watched \ {clientfd[w]}
  /\ ready' = ready \ {clientfd[w]}
  /\ Goto(w, "close")
  /\ UNCHANGED <<network, g_listClients, g_bStop, batch, newfd, work, conds>>

ReleaseClose(w) ==
  /\ pc[w] = "close"
  /\ LET them == {c \in Clients : fdOf[c] = clientfd[w]}
     IN  /\ fdOf' = [c \in Clients |-> IF c \in them THEN None ELSE fdOf[c]]
         /\ closed' = closed \union them /\ full' = full \ them
  /\ watched' = watched \ {clientfd[w]} /\ ready' = ready \ {clientfd[w]}
  /\ Goto(w, "loop")
  /\ UNCHANGED <<backlog, unread, sent, gone, g_listClients, g_bStop, batch, newfd, work, conds>>
-----------------------------------------------------------------------------
(* prog_exit *)

SetStop ==
  /\ MayStop
  /\ pc[Main] = "poll" /\ ~g_bStop
  /\ g_bStop' = TRUE
  /\ Goto(Main, "broadcast")
  /\ UNCHANGED <<network, epoll, g_listClients, batch, newfd, work, conds>>

\* Both broadcasts; then both epoll descriptors are closed.
BroadcastAll ==
  /\ pc[Main] = "broadcast"
  /\ g_cond!Broadcast /\ g_acceptcond!Broadcast
  /\ watched' = {} /\ ready' = {}
  /\ Goto(Main, "destroy")
  /\ UNCHANGED <<network, g_listClients, g_bStop, batch, newfd, work>>

\* A condition variable is destroyed.  If a thread is blocked on it the C
\* library may wait for that thread, or not.  The loop of main ends then, and
\* main's return ends every thread.
DestroyAll ==
  /\ pc[Main] = "destroy"
  /\ \/ pc' = [t \in DOMAIN pc |-> "exited"]
     \/ waiters \union acceptWaiters # {} /\ Goto(Main, "blocked")
  /\ UNCHANGED <<network, epoll, g_listClients, g_bStop, batch, newfd, work, conds>>

\* The C library that waits has seen the last thread leave.
Unblocked ==
  /\ pc[Main] = "blocked"
  /\ waiters \union acceptWaiters = {}
  /\ pc' = [t \in DOMAIN pc |-> "exited"]
  /\ UNCHANGED <<network, epoll, g_listClients, g_bStop, batch, newfd, work, conds>>

Spurious ==
  /\ \/ \E w \in Workers : g_cond!SpuriousWakeup(w) /\ UNCHANGED acceptWaiters
     \/ g_acceptcond!SpuriousWakeup(Acceptor) /\ UNCHANGED waiters
  /\ UNCHANGED <<network, epoll, g_listClients, g_bStop, pc, batch, newfd, work>>
-----------------------------------------------------------------------------
MainStep ==
  \/ EpollWait \/ SignalAcceptor \/ (\E fd \in Fds : PushClient(fd)) \/ SignalWorker
  \/ BroadcastAll \/ DestroyAll \/ Unblocked

AcceptorStep == AcceptLoop \/ AcceptWait \/ AcceptWoken \/ Accept \/ Add

WorkerStep(w) ==
  \/ WorkerLoop(w) \/ WorkerSleep(w) \/ Take(w) \/ WorkerExit(w)
  \/ RecvData(w) \/ RecvEnds(w) \/ SendReply(w) \/ ReleaseDelete(w) \/ ReleaseClose(w)

Next ==
  \/ MainStep \/ AcceptorStep \/ SetStop \/ Spurious
  \/ \E w \in Workers : WorkerStep(w)
  \/ \E c \in Clients : Connect(c) \/ Send(c) \/ ReadReplies(c) \/ Leave(c)

Spec == Init /\ [][Next]_vars

\* Every thread that can go on does; nothing obliges a client, a signal or a
\* spurious wakeup.  epoll_wait and the locks are never refused for good.
Fairness ==
  /\ WF_vars(MainStep)
  /\ WF_vars(AcceptorStep)
  /\ \A w \in Workers : WF_vars(WorkerStep(w))

FairSpec == Spec /\ Fairness
-----------------------------------------------------------------------------
\* Every variable holds a value of the type the code gives it, no two clients
\* have one descriptor, and epoll watches no descriptor that is closed.
TypeOK ==
  /\ backlog \in Seq(Clients) /\ closed \subseteq Clients /\ gone \subseteq Clients
  /\ full \subseteq Clients \ gone
  /\ fdOf \in [Clients -> Fds \union {None}]
  /\ \A c, d \in Clients : fdOf[c] = fdOf[d] /\ fdOf[c] # None => c = d
  /\ unread \in [Clients -> 0..MaxSends] /\ sent \in 0..MaxSends
  /\ watched \subseteq Open /\ ready \subseteq watched
  /\ g_listClients \in Seq(Fds)
  /\ g_bStop \in BOOLEAN
  /\ pc[Main] \in {"poll", "batch", "signal", "broadcast", "destroy", "blocked", "exited"}
  /\ pc[Acceptor] \in {"loop", "enter", "waiting", "accept", "add", "exited"}
  /\ \A w \in Workers :
       pc[w] \in {"loop", "enter", "waiting", "recv", "send", "rest", "delete", "close", "exited"}
  /\ batch \subseteq Fds \union {Listen}
  /\ newfd \in Fds \union {None}
  /\ clientfd \in [Workers -> Fds \union {None}]
  /\ strclientmsg \in [Workers -> SUBSET Clients]
  /\ waiters \subseteq Workers /\ acceptWaiters \subseteq {Acceptor}

\* An edge is reported once.  So whatever a watched client has sent and nobody
\* has read, or its end of stream, is on its way to a worker or in front of one
\* that will still find it (reactor.cpp 165, 206-237, 407-410).
EdgesAreKept ==
  \A c \in Clients :
    fdOf[c] \in watched /\ (unread[c] > 0 \/ c \in gone)
    => \/ fdOf[c] \in ready \union batch \union ToSet(g_listClients)
       \/ \E w \in Workers : clientfd[w] = fdOf[c] /\ pc[w] \in {"recv", "delete"}

\* Descriptors, epoll and the queue of clients agree, through close and reuse of
\* numbers, and no edge is dropped while there is something to read.
EdgesInv == TypeOK /\ EdgesAreKept

\* The workers do not all sleep on a descriptor in the queue (lines 186-193, 410).
NoLostWakeup ==
  g_listClients # <<>> => waiters # Workers \/ pc[Main] = "signal"

\* Nobody is left to read: every worker replies to a client that does not read, and
\* tries again every ten seconds (lines 264-271).
AllHeldUp == \A w \in Workers : \E c \in Clients : HeldUpBy(w, c)

Served(c) == (c \notin ToSet(backlog) /\ unread[c] = 0) \/ c \in closed \/ g_bStop

\* A connection is accepted although the accept thread waits before it looks and
\* the signal to it may find nobody (the event is level triggered), and what the
\* client sends is read although an edge comes once and workers may be held up by
\* other clients for ever: again and again nothing is owed to it, until the server
\* stops, and unless all workers are held up from some time on.
EveryClientServed == \A c \in Clients : []<>Served(c) \/ <>[]AllHeldUp
=============================================================================
