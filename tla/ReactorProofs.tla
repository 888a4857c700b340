--------------------------- MODULE ReactorProofs ---------------------------
(***************************************************************************)
(* Proofs about Reactor, for any number of workers, clients, descriptors   *)
(* and messages.                                                           *)
(***************************************************************************)
EXTENDS Reactor, FiniteSetTheorems, WellFoundedInduction, TLAPS

-----------------------------------------------------------------------------
(* Sequences as sets. *)

\* What is appended is added.
LEMMA AppendAdds ==
  ASSUME NEW S, NEW s \in Seq(S), NEW e \in S
  PROVE  Append(s, e) \in Seq(S) /\ ToSet(Append(s, e)) = ToSet(s) \union {e}
  <1>1. /\ Append(s, e) \in Seq(S) /\ Len(Append(s, e)) = Len(s) + 1 /\ Len(s) \in Nat
        /\ DOMAIN s = 1 .. Len(s) /\ DOMAIN Append(s, e) = 1 .. Len(s) + 1
        /\ \A i \in 1 .. Len(s) : Append(s, e)[i] = s[i]
        /\ Append(s, e)[Len(s) + 1] = e
    OBVIOUS
  <1> QED BY <1>1, Z3 DEF ToSet

\* The first is taken away.
LEMMA TailTakesHead ==
  ASSUME NEW S, NEW s \in Seq(S), s # <<>>
  PROVE  /\ Head(s) \in S /\ Tail(s) \in Seq(S)
         /\ ToSet(s) = ToSet(Tail(s)) \union {Head(s)}
  <1>1. /\ Head(s) = s[1] /\ Tail(s) \in Seq(S) /\ Len(s) \in Nat \ {0}
        /\ DOMAIN s = 1 .. Len(s) /\ DOMAIN Tail(s) = 1 .. Len(s) - 1
        /\ \A i \in 1 .. Len(s) - 1 : Tail(s)[i] = s[i + 1]
        /\ \A i \in DOMAIN s : s[i] \in S
    OBVIOUS
  <1>2. ToSet(Tail(s)) \union {Head(s)} \subseteq ToSet(s)
    BY <1>1 DEF ToSet
  <1>3. ASSUME NEW i \in 1 .. Len(s) PROVE s[i] \in ToSet(Tail(s)) \union {Head(s)}
    <2>1. CASE i = 1
      BY <1>1, <2>1
    <2>2. CASE i # 1
      <3>1. i - 1 \in 1 .. Len(s) - 1 /\ Tail(s)[i - 1] = s[i]
        BY <1>1, <2>2
      <3> QED BY <1>1, <3>1 DEF ToSet
    <2> QED BY <2>1, <2>2
  <1> QED BY <1>1, <1>2, <1>3 DEF ToSet

NoDuplicates(s) == \A i, j \in DOMAIN s : s[i] = s[j] => i = j

\* What is new is there once.
LEMMA AppendNew ==
  ASSUME NEW S, NEW s \in Seq(S), NEW e \in S, e \notin ToSet(s), NoDuplicates(s)
  PROVE  NoDuplicates(Append(s, e))
  <1>1. /\ Len(s) \in Nat
        /\ DOMAIN s = 1 .. Len(s) /\ DOMAIN Append(s, e) = 1 .. Len(s) + 1
        /\ \A i \in 1 .. Len(s) : Append(s, e)[i] = s[i]
        /\ Append(s, e)[Len(s) + 1] = e
    OBVIOUS
  <1>2. \A i \in DOMAIN s : s[i] # e
    BY DEF ToSet
  <1> QED BY <1>1, <1>2 DEF NoDuplicates

\* What was there once is gone.
LEMMA TailLosesHead ==
  ASSUME NEW S, NEW s \in Seq(S), s # <<>>, NoDuplicates(s)
  PROVE  NoDuplicates(Tail(s)) /\ Head(s) \notin ToSet(Tail(s))
  <1>1. /\ Head(s) = s[1] /\ Len(s) \in Nat \ {0}
        /\ DOMAIN s = 1 .. Len(s) /\ DOMAIN Tail(s) = 1 .. Len(s) - 1
        /\ \A i \in 1 .. Len(s) - 1 : Tail(s)[i] = s[i + 1]
    OBVIOUS
  <1>2. NoDuplicates(Tail(s))
    BY <1>1 DEF NoDuplicates
  <1>3. \A i \in DOMAIN Tail(s) : Tail(s)[i] # Head(s)
    BY <1>1 DEF NoDuplicates
  <1> QED BY <1>2, <1>3 DEF ToSet
-----------------------------------------------------------------------------
(* The inductive invariant. *)

Threads == Workers \union {Main, Acceptor}

\* Clients and kernel.  No two clients have one descriptor; a client in the
\* backlog is there once, and has none yet; what can be read has been sent.
Net ==
  /\ backlog \in Seq(Clients) /\ closed \subseteq Clients /\ gone \subseteq Clients
  /\ fdOf \in [Clients -> Fds \union {None}]
  /\ \A c, d \in Clients : fdOf[c] = fdOf[d] /\ fdOf[c] # None => c = d
  /\ unread \in [Clients -> Nat] /\ sent \in 0..MaxSends
  /\ \A c \in Clients : unread[c] <= sent
  /\ NoDuplicates(backlog)
  /\ \A c \in ToSet(backlog) : fdOf[c] = None
  /\ full \subseteq Clients \ gone

\* epoll watches open descriptors, and none once it is closed.
Watch ==
  /\ watched \subseteq Open /\ ready \subseteq watched
  /\ EpollClosed => watched = {}

\* Where the threads are.
Places ==
  /\ pc \in [Threads -> {"poll", "batch", "signal", "broadcast", "destroy", "blocked", "exited",
                         "loop", "enter", "waiting", "accept", "add",
                         "recv", "send", "rest", "delete", "close"}]
  /\ pc[Main] \in {"poll", "batch", "signal", "broadcast", "destroy", "blocked", "exited"}
  /\ pc[Acceptor] \in {"loop", "enter", "waiting", "accept", "add", "exited"}
  /\ \A w \in Workers :
       pc[w] \in {"loop", "enter", "waiting", "recv", "send", "rest", "delete", "close", "exited"}
  /\ waiters \subseteq Workers /\ acceptWaiters \subseteq {Acceptor}
  /\ g_bStop \in BOOLEAN

\* What the threads have.  Main goes back to epoll_wait when it is through with
\* all events.
Data ==
  /\ g_listClients \in Seq(Fds)
  /\ batch \subseteq Fds \union {Listen} /\ (pc[Main] = "poll" => batch = {})
  /\ newfd \in Fds \union {None}
  /\ clientfd \in [Workers -> Fds \union {None}]
  /\ strclientmsg \in [Workers -> SUBSET Clients]

\* EdgesAreKept as the steps keep it.  A worker that replies is through with the
\* descriptor: what comes after its last recv makes a new edge.
Unfinished(c) == fdOf[c] \in watched /\ (unread[c] > 0 \/ c \in gone)

OnItsWay(c) ==
  \/ fdOf[c] \in ready \union batch \union ToSet(g_listClients)
  \/ \E w \in Workers : clientfd[w] = fdOf[c] /\ pc[w] \in {"recv", "delete"}

Kept == \A c \in Clients : Unfinished(c) => OnItsWay(c)

IInv == Net /\ Watch /\ Places /\ Data /\ Kept /\ NoLostWakeup

\* Who the threads are.
LEMMA Things ==
  /\ Main # Acceptor /\ Main \notin Workers /\ Acceptor \notin Workers
  /\ Main \in Threads /\ Acceptor \in Threads /\ Workers \subseteq Threads
  /\ Workers # {} /\ Fds \subseteq Nat
  /\ Listen \notin Fds /\ None \notin Fds /\ Listen # None /\ MaxSends \in Nat
  BY ReactorAssumption DEF Threads

\* Nobody has connected yet.
LEMMA InitIInv == Init => IInv
  <1> SUFFICES ASSUME Init PROVE IInv
    OBVIOUS
  <1> USE Things DEF Init
  <1>1. ToSet(<<>>) = {} /\ NoDuplicates(<<>>)
    BY DEF ToSet, NoDuplicates
  <1>2. Net
    BY <1>1 DEF Net
  <1>3. Watch
    BY DEF Watch, EpollClosed
  <1>4. Places
    BY DEF Places, Threads
  <1>5. Data
    BY DEF Data
  <1>6. Kept
    BY DEF Kept, Unfinished
  <1>7. NoLostWakeup
    BY DEF NoLostWakeup
  <1> QED BY <1>2, <1>3, <1>4, <1>5, <1>6, <1>7 DEF IInv
-----------------------------------------------------------------------------
(* A client that is accepted gets a descriptor nobody has. *)

\* An open descriptor is that of one client.
LEMMA ClientAtIs ==
  ASSUME Net, NEW fd \in Open
  PROVE  ClientAt(fd) \in Clients /\ fdOf[ClientAt(fd)] = fd
  BY DEF Net, Open, ClientAt

\* There is a descriptor for everybody.
LEMMA LowestFdIsFree ==
  ASSUME Net, NEW client \in Clients, fdOf[client] = None
  PROVE  LowestFd \in Fds \ Open
  <1> DEFINE free == Fds \ Open
             others == Clients \ {client}
  <1>1. free # {}
    <2>1. SUFFICES ASSUME Fds \subseteq Open PROVE FALSE
      OBVIOUS
    <2> DEFINE f == [fd \in Fds |-> ClientAt(fd)]
    <2>2. \A fd \in Fds : fd # None /\ ClientAt(fd) \in Clients /\ fdOf[ClientAt(fd)] = fd
      BY <2>1, ClientAtIs, Things
    <2>3. f \in [Fds -> others]
      BY <2>2
    <2>4. /\ IsFiniteSet(Clients) /\ IsFiniteSet(Fds)
          /\ Cardinality(Clients) \in Nat /\ Cardinality(Fds) \in Nat
          /\ Cardinality(Fds) >= Cardinality(Clients)
      BY ReactorAssumption, FS_CardinalityType
    <2>5. IsFiniteSet(others) /\ Cardinality(others) = Cardinality(Clients) - 1
      BY <2>4, FS_RemoveElement
    <2>6. Cardinality(others) < Cardinality(Fds)
      BY <2>4, <2>5
    <2>7. \E x, y \in Fds : x # y /\ f[x] = f[y]
      <3> HIDE DEF f, others
      <3> QED BY <2>3, <2>4, <2>5, <2>6, FS_PigeonHole
    <2> QED BY <2>2, <2>7
  <1>2. free \subseteq Nat
    BY Things
  <1>3. \E fd \in free : \A other \in free : ~ (other < fd)
    <2>1. IsWellFoundedOn(OpToRel(<, Nat), Nat)
      BY NatLessThanWellFounded
    <2>2. PICK fd \in free : \A other \in free : ~ (<<other, fd>> \in OpToRel(<, Nat))
      <3> HIDE DEF free
      <3> QED BY <1>1, <1>2, <2>1, WFMin
    <2> QED BY <1>2, <2>2 DEF OpToRel
  <1>4. \E fd \in free : \A other \in free : fd <= other
    BY <1>2, <1>3
  <1> QED BY <1>4 DEF LowestFd
-----------------------------------------------------------------------------
(* Every step keeps every part. *)

\* Whatever becomes of a send, it changes nothing but who can be sent more and
\* where the worker goes on.
LEMMA ReplyIs ==
  ASSUME NEW w \in Workers, SendReply(w)
  PROVE  /\ pc[w] \in {"send", "rest"}
         /\ \E label \in {"loop", "rest", "delete"} : pc' = [pc EXCEPT ![w] = label]
         /\ UNCHANGED <<backlog, fdOf, closed, unread, sent, gone, watched, ready, epoll,
                        g_listClients, g_bStop, batch, newfd, clientfd, strclientmsg, work,
                        waiters, acceptWaiters, conds>>
  BY DEF SendReply, SendAll, SendPart, SendFails, Replies, Goto, network, epoll, work, conds


\* Every step keeps it: clients and descriptors ...
LEMMA NetStep == ASSUME IInv, [Next]_vars PROVE Net'
  <1>n. Net /\ Data
    BY DEF IInv
  <1> USE DEF Net
  <1>1. ASSUME UNCHANGED network PROVE Net'
    BY <1>n, <1>1 DEF network
  <1>2. ASSUME NEW c \in Clients, Connect(c) PROVE Net'
    <2>1. fdOf[c] = None /\ c \notin ToSet(backlog)
      BY <1>2 DEF Connect, Connected
    <2>2. /\ Append(backlog, c) \in Seq(Clients) /\ NoDuplicates(Append(backlog, c))
          /\ ToSet(Append(backlog, c)) = ToSet(backlog) \union {c}
      BY <1>n, <2>1, AppendAdds, AppendNew
    <2> QED BY <1>n, <1>2, <2>1, <2>2 DEF Connect
  <1>3. ASSUME NEW c \in Clients, Send(c) PROVE Net'
    BY <1>n, <1>3, Things DEF Send
  <1>4. ASSUME NEW c \in Clients, Leave(c) PROVE Net'
    BY <1>n, <1>4 DEF Leave
  <1>8. ASSUME NEW c \in Clients, ReadReplies(c) PROVE Net'
    BY <1>n, <1>8 DEF ReadReplies
  <1>9. ASSUME NEW w \in Workers, SendReply(w) PROVE Net'
    <2>1. full' \subseteq Clients \ gone
      BY <1>n, <1>9 DEF SendReply, SendAll, SendPart, SendFails, network
    <2> QED BY <1>n, <1>9, <2>1, ReplyIs
  <1>5. ASSUME Accept PROVE Net'
    <2>1. CASE UNCHANGED <<newfd, fdOf, backlog>>
      BY <1>n, <1>5, <2>1 DEF Accept
    <2>2. CASE /\ backlog # <<>> /\ backlog' = Tail(backlog)
               /\ fdOf' = [fdOf EXCEPT ![Head(backlog)] = LowestFd]
      <3>1. /\ Head(backlog) \in Clients /\ Tail(backlog) \in Seq(Clients)
            /\ ToSet(backlog) = ToSet(Tail(backlog)) \union {Head(backlog)}
            /\ NoDuplicates(Tail(backlog)) /\ Head(backlog) \notin ToSet(Tail(backlog))
        BY <1>n, <2>2, TailTakesHead, TailLosesHead
      <3>2. fdOf[Head(backlog)] = None
        BY <1>n, <3>1
      <3>3. LowestFd \in Fds \ Open
        BY <1>n, <3>1, <3>2, LowestFdIsFree
      <3>4. \A c \in Clients : fdOf[c] # LowestFd
        BY <3>3, Things DEF Open
      <3>5. fdOf' \in [Clients -> Fds \union {None}]
        BY <1>n, <2>2, <3>3
      <3>6. \A c, d \in Clients : fdOf'[c] = fdOf'[d] /\ fdOf'[c] # None => c = d
        BY <1>n, <2>2, <3>1, <3>4
      <3>7. \A c \in ToSet(backlog') : fdOf'[c] = None
        <4>1. \A c \in ToSet(backlog') : c \in Clients
          BY <2>2, <3>1 DEF ToSet
        <4> QED BY <1>n, <2>2, <3>1, <4>1
      <3> QED BY <1>n, <1>5, <2>2, <3>1, <3>5, <3>6, <3>7 DEF Accept
    <2> QED BY <1>5, <2>1, <2>2 DEF Accept
  <1>6. ASSUME NEW w \in Workers, RecvData(w) PROVE Net'
    <2>1. PICK c \in Clients : Reads(w, c) /\ unread' = [unread EXCEPT ![c] = @ - 1]
      BY <1>6 DEF RecvData
    <2>2. unread[c] \in Nat /\ unread[c] > 0
      BY <1>n, <2>1 DEF Reads
    <2> QED BY <1>n, <1>6, <2>1, <2>2 DEF RecvData
  <1>7. ASSUME NEW w \in Workers, ReleaseClose(w) PROVE Net'
    <2>1. /\ fdOf' \in [Clients -> Fds \union {None}]
          /\ \A c \in Clients : fdOf'[c] # None => fdOf'[c] = fdOf[c]
          /\ \A c \in Clients : fdOf[c] = None => fdOf'[c] = None
          /\ closed' \subseteq Clients
      BY <1>n, <1>7 DEF ReleaseClose
    <2>2. \A c \in ToSet(backlog) : c \in Clients
      BY <1>n DEF ToSet
    <2> QED BY <1>n, <1>7, <2>1, <2>2 DEF ReleaseClose
  <1> QED
    BY <1>1, <1>2, <1>3, <1>4, <1>5, <1>6, <1>7, <1>8, <1>9
    DEF Next, vars, MainStep, AcceptorStep, WorkerStep, EpollWait, SignalAcceptor, PushClient,
        SignalWorker, BroadcastAll, DestroyAll, Unblocked, AcceptLoop, AcceptWait, AcceptWoken,
        Add, WorkerLoop, WorkerSleep, Take, WorkerExit, RecvEnds, ReleaseDelete,
        SetStop, Spurious

\* ... where the threads are ...
LEMMA PlacesStep == ASSUME IInv, [Next]_vars PROVE Places'
  <1>n. Places /\ Data
    BY DEF IInv
  <1> USE Things DEF Places, Goto
  <1>1. ASSUME UNCHANGED <<pc, waiters, acceptWaiters, g_bStop>> PROVE Places'
    BY <1>n, <1>1
  <1>2. ASSUME MainStep \/ SetStop PROVE Places'
    <2>1. ASSUME UNCHANGED conds, g_bStop' \in BOOLEAN,
                 \/ pc' = [t \in DOMAIN pc |-> "exited"]
                 \/ \E label \in {"poll", "batch", "signal", "broadcast", "blocked"} :
                       pc' = [pc EXCEPT ![Main] = label]
          PROVE  Places'
      BY <1>n, <2>1 DEF conds
    <2>2. CASE EpollWait
      BY <1>n, <2>1, <2>2 DEF EpollWait
    <2>3. CASE SignalAcceptor
      <3>1. acceptWaiters' \subseteq acceptWaiters
        BY <2>3 DEF SignalAcceptor, g_acceptcond!Signal
      <3> QED BY <1>n, <2>3, <3>1 DEF SignalAcceptor, Handle
    <2>4. ASSUME NEW fd \in Fds, PushClient(fd) PROVE Places'
      BY <1>n, <2>1, <2>4 DEF PushClient
    <2>5. CASE SignalWorker
      <3>1. waiters' \subseteq waiters
        BY <2>5 DEF SignalWorker, g_cond!Signal
      <3> QED BY <1>n, <2>5, <3>1 DEF SignalWorker
    <2>6. CASE BroadcastAll
      BY <1>n, <2>6 DEF BroadcastAll, g_cond!Broadcast, g_acceptcond!Broadcast
    <2>7. CASE DestroyAll
      BY <1>n, <2>1, <2>7 DEF DestroyAll
    <2>8. CASE Unblocked
      BY <1>n, <2>1, <2>8 DEF Unblocked
    <2>9. CASE SetStop
      BY <1>n, <2>1, <2>9 DEF SetStop
    <2> QED BY <1>2, <2>2, <2>3, <2>4, <2>5, <2>6, <2>7, <2>8, <2>9 DEF MainStep
  <1>3. ASSUME AcceptorStep PROVE Places'
    <2>1. /\ waiters' = waiters /\ acceptWaiters' \subseteq {Acceptor} /\ g_bStop' = g_bStop
      BY <1>n, <1>3
      DEF AcceptorStep, AcceptLoop, AcceptWait, AcceptWoken, Accept, Add, conds, g_acceptcond!Sleeps
    <2>2. \E label \in {"loop", "enter", "waiting", "accept", "add", "exited"} :
            pc' = [pc EXCEPT ![Acceptor] = label]
      BY <1>3 DEF AcceptorStep, AcceptLoop, AcceptWait, AcceptWoken, Accept, Add
    <2> QED BY <1>n, <2>1, <2>2
  <1>4. ASSUME NEW w \in Workers, WorkerStep(w) PROVE Places'
    <2>1. waiters' \subseteq Workers /\ acceptWaiters' = acceptWaiters /\ g_bStop' = g_bStop
      BY <1>n, <1>4, ReplyIs
      DEF WorkerStep, WorkerLoop, WorkerSleep, Take, WorkerExit, RecvData, RecvEnds,
          ReleaseDelete, ReleaseClose, conds, g_cond!Sleeps
    <2>2. \E label \in {"loop", "enter", "waiting", "recv", "send", "rest", "delete", "close", "exited"} :
            pc' = [pc EXCEPT ![w] = label]
      BY <1>4, ReplyIs
      DEF WorkerStep, WorkerLoop, WorkerSleep, Take, WorkerExit, RecvData, RecvEnds,
          ReleaseDelete, ReleaseClose, AfterRecv
    <2> QED BY <1>n, <2>1, <2>2
  <1>5. ASSUME Spurious PROVE Places'
    <2>1. waiters' \subseteq waiters /\ acceptWaiters' \subseteq acceptWaiters
      BY <1>5 DEF Spurious, g_cond!SpuriousWakeup, g_acceptcond!SpuriousWakeup
    <2> QED BY <1>n, <1>5, <2>1 DEF Spurious
  <1>6. ASSUME NEW c \in Clients, Connect(c) \/ Send(c) \/ ReadReplies(c) \/ Leave(c)
        PROVE  Places'
    BY <1>1, <1>6 DEF Connect, Send, ReadReplies, Leave, program, conds
  <1> QED BY <1>1, <1>2, <1>3, <1>4, <1>5, <1>6 DEF Next, vars, conds

\* Only main and the handler it runs move main.
LEMMA MainElsewhere ==
  ASSUME Places,
         \/ AcceptorStep \/ Spurious
         \/ \E w \in Workers : WorkerStep(w)
         \/ \E c \in Clients : Connect(c) \/ Send(c) \/ ReadReplies(c) \/ Leave(c)
  PROVE  pc'[Main] = pc[Main]
  <1> USE Things DEF Places, Goto
  <1>1. CASE AcceptorStep
    BY <1>1 DEF AcceptorStep, AcceptLoop, AcceptWait, AcceptWoken, Accept, Add
  <1>2. CASE Spurious
    BY <1>2 DEF Spurious
  <1>3. ASSUME NEW w \in Workers, WorkerStep(w) PROVE pc'[Main] = pc[Main]
    BY <1>3, ReplyIs
    DEF WorkerStep, WorkerLoop, WorkerSleep, Take, WorkerExit, RecvData, RecvEnds,
        ReleaseDelete, ReleaseClose
  <1>4. ASSUME NEW c \in Clients, Connect(c) \/ Send(c) \/ ReadReplies(c) \/ Leave(c)
        PROVE  pc'[Main] = pc[Main]
    BY <1>4 DEF Connect, Send, ReadReplies, Leave, program
  <1> QED BY <1>1, <1>2, <1>3, <1>4

\* ... the events and the list ...
LEMMA DataStep == ASSUME IInv, [Next]_vars PROVE Data'
  <1>n. Net /\ Watch /\ Places /\ Data
    BY DEF IInv
  <1> USE Things DEF Data
  <1>1. ASSUME UNCHANGED <<g_listClients, batch, newfd, clientfd, strclientmsg>>,
               pc'[Main] = "poll" => pc[Main] = "poll"
        PROVE  Data'
    BY <1>n, <1>1
  <1>o. ready \subseteq Fds
    BY <1>n DEF Watch, Open, Net
  <1>2. ASSUME MainStep \/ SetStop PROVE Data'
    <2> USE DEF Goto, Places
    <2>1. CASE EpollWait
      BY <1>n, <1>o, <2>1 DEF EpollWait, ListenEvent, work
    <2>2. CASE SignalAcceptor
      BY <1>n, <2>2 DEF SignalAcceptor, Handle, work
    <2>3. ASSUME NEW fd \in Fds, PushClient(fd) PROVE Data'
      BY <1>n, <2>3, AppendAdds DEF PushClient, work
    <2>4. CASE SignalWorker
      BY <1>n, <2>4 DEF SignalWorker, work
    <2>5. CASE BroadcastAll \/ DestroyAll \/ Unblocked \/ SetStop
      BY <1>n, <1>1, <2>5 DEF BroadcastAll, DestroyAll, Unblocked, SetStop, work
    <2> QED BY <1>2, <2>1, <2>2, <2>3, <2>4, <2>5 DEF MainStep
  <1>3. ASSUME AcceptorStep PROVE Data'
    <2>1. pc'[Main] = pc[Main]
      BY <1>n, <1>3, MainElsewhere
    <2>2. newfd' \in Fds \union {None}
      <3>1. ASSUME Accept, backlog # <<>> PROVE LowestFd \in Fds
        <4>1. Head(backlog) \in Clients /\ Head(backlog) \in ToSet(backlog)
          BY <1>n, <3>1, TailTakesHead DEF Net
        <4> QED BY <1>n, <4>1, LowestFdIsFree DEF Net
      <3> QED
        BY <1>n, <1>3, <3>1 DEF AcceptorStep, AcceptLoop, AcceptWait, AcceptWoken, Accept, Add
    <2>3. UNCHANGED <<g_listClients, batch, clientfd, strclientmsg>>
      BY <1>3 DEF AcceptorStep, AcceptLoop, AcceptWait, AcceptWoken, Accept, Add, work
    <2> QED BY <1>n, <2>1, <2>2, <2>3
  <1>4. ASSUME NEW w \in Workers, WorkerStep(w) PROVE Data'
    <2>1. pc'[Main] = pc[Main]
      BY <1>n, <1>4, MainElsewhere
    <2>2. CASE Take(w)
      BY <1>n, <2>1, <2>2, TailTakesHead DEF Take
    <2>3. CASE RecvData(w)
      BY <1>n, <2>1, <2>3 DEF RecvData
    <2>4. ASSUME UNCHANGED <<g_listClients, batch, newfd, work>> PROVE Data'
      BY <1>1, <2>1, <2>4 DEF work
    <2> QED
      BY <1>4, <2>2, <2>3, <2>4, ReplyIs
      DEF WorkerStep, WorkerLoop, WorkerSleep, WorkerExit, RecvEnds, ReleaseDelete,
          ReleaseClose
  <1>5. ASSUME \/ Spurious
               \/ \E c \in Clients : Connect(c) \/ Send(c) \/ ReadReplies(c) \/ Leave(c)
        PROVE  Data'
    <2>1. pc'[Main] = pc[Main]
      BY <1>n, <1>5, MainElsewhere
    <2> QED BY <1>1, <1>5, <2>1 DEF Spurious, Connect, Send, ReadReplies, Leave, program, work
  <1> QED BY <1>1, <1>2, <1>3, <1>4, <1>5 DEF Next, vars, work

\* ... what is watched ...
LEMMA WatchStep == ASSUME IInv, [Next]_vars PROVE Watch'
  <1>n. Net /\ Watch /\ Places /\ Data
    BY DEF IInv
  <1> USE Things DEF Watch
  <1>1. ASSUME UNCHANGED <<fdOf, epoll>>, EpollClosed' => EpollClosed PROVE Watch'
    BY <1>n, <1>1 DEF epoll, Open
  <1>2. ASSUME MainStep \/ SetStop PROVE Watch'
    <2> USE DEF Goto, Places
    <2>1. CASE EpollWait
      BY <1>n, <2>1 DEF EpollWait, EpollClosed, network, Open
    <2>2. CASE BroadcastAll
      BY <1>n, <2>2 DEF BroadcastAll
    <2>3. CASE DestroyAll \/ Unblocked
      <3>1. EpollClosed
        BY <2>3 DEF DestroyAll, Unblocked, EpollClosed
      <3> QED BY <1>1, <2>3, <3>1 DEF DestroyAll, Unblocked, network
    <2>4. ASSUME SignalAcceptor \/ SignalWorker \/ SetStop \/ \E fd \in Fds : PushClient(fd)
          PROVE  Watch'
      <3>1. ~EpollClosed'
        BY <1>n, <2>4
        DEF SignalAcceptor, Handle, SignalWorker, SetStop, PushClient, EpollClosed
      <3> QED
        BY <1>1, <2>4, <3>1 DEF SignalAcceptor, SignalWorker, SetStop, PushClient, network
    <2> QED BY <1>2, <2>1, <2>2, <2>3, <2>4 DEF MainStep
  <1>3. ASSUME \/ AcceptorStep \/ Spurious
               \/ \E w \in Workers : WorkerStep(w)
               \/ \E c \in Clients : Connect(c) \/ Send(c) \/ ReadReplies(c) \/ Leave(c)
        PROVE  Watch'
    <2>1. EpollClosed' = EpollClosed
      BY <1>n, <1>3, MainElsewhere DEF EpollClosed
    <2>2. CASE Accept
      <3>1. \A c \in Clients : fdOf[c] # None => fdOf'[c] = fdOf[c]
        <4>1. CASE UNCHANGED fdOf
          BY <4>1
        <4>2. CASE backlog # <<>> /\ fdOf' = [fdOf EXCEPT ![Head(backlog)] = LowestFd]
          <5>1. Head(backlog) \in Clients /\ fdOf[Head(backlog)] = None
            BY <1>n, <4>2, TailTakesHead DEF Net
          <5> QED BY <1>n, <4>2, <5>1 DEF Net
        <4> QED BY <2>2, <4>1, <4>2 DEF Accept
      <3>2. Open \subseteq Open'
        BY <3>1 DEF Open
      <3> QED BY <1>n, <2>1, <2>2, <3>2 DEF Accept, epoll
    <2>3. CASE Add
      BY <1>n, <2>1, <2>3 DEF Add, Open, network
    <2>4. ASSUME NEW w \in Workers, ReleaseDelete(w) PROVE Watch'
      BY <1>n, <2>1, <2>4 DEF ReleaseDelete, Open, network
    <2>5. ASSUME NEW w \in Workers, ReleaseClose(w) PROVE Watch'
      <3>1. \A c \in Clients : fdOf[c] # clientfd[w] => fdOf'[c] = fdOf[c]
        BY <2>5 DEF ReleaseClose
      <3>2. Open \ {clientfd[w]} \subseteq Open'
        BY <3>1 DEF Open
      <3> QED BY <1>n, <2>1, <2>5, <3>2 DEF ReleaseClose
    <2>6. ASSUME NEW c \in Clients, Send(c) \/ Leave(c) PROVE Watch'
      BY <1>n, <2>1, <2>6 DEF Send, Leave, Edge, Open
    <2>7. ASSUME UNCHANGED <<fdOf, epoll>> PROVE Watch'
      BY <1>1, <2>1, <2>7
    <2> QED
      BY <1>3, <2>2, <2>3, <2>4, <2>5, <2>6, <2>7, ReplyIs
      DEF AcceptorStep, AcceptLoop, AcceptWait, AcceptWoken, Spurious, WorkerStep, WorkerLoop,
          WorkerSleep, Take, WorkerExit, RecvData, RecvEnds, Connect, ReadReplies, network
  <1>4. ASSUME UNCHANGED vars PROVE Watch'
    BY <1>1, <1>4 DEF vars, EpollClosed, network
  <1> QED BY <1>2, <1>3, <1>4 DEF Next

\* Nothing is lost by a step after which everything that was to report is still
\* to report, or with main or in the list, and every worker that had a descriptor
\* to read or to release still has it.
LEMMA StillOnItsWay ==
  ASSUME Places, NEW c \in Clients, OnItsWay(c), fdOf'[c] = fdOf[c],
         ready \union batch \union ToSet(g_listClients)
           \subseteq ready' \union batch' \union ToSet(g_listClients'),
         \A w \in Workers : pc[w] \in {"recv", "delete"} =>
                              pc'[w] = pc[w] /\ clientfd'[w] = clientfd[w]
  PROVE  OnItsWay(c)'
  BY DEF OnItsWay

\* The steps of the workers, of which some end what a worker does with a descriptor.
LEMMA WorkersKeep ==
  ASSUME IInv, NEW w \in Workers, WorkerStep(w), NEW c \in Clients, Unfinished(c)'
  PROVE  OnItsWay(c)'
  <1>n. Net /\ Watch /\ Places /\ Data /\ Kept
    BY DEF IInv
  <1> USE Things DEF Goto
  <1>p. \A label : pc' = [pc EXCEPT ![w] = label] =>
             pc'[w] = label /\ \A v \in Workers \ {w} : pc'[v] = pc[v]
    BY <1>n DEF Places
  <1>o. fdOf[c] \in watched => fdOf[c] \in Fds /\ \A d \in Clients : fdOf[d] = fdOf[c] => d = c
    BY <1>n DEF Net, Watch, Open
  <1>1. CASE WorkerLoop(w) \/ WorkerSleep(w) \/ WorkerExit(w) \/ SendReply(w)
    <2>1. Unfinished(c) /\ OnItsWay(c)
      BY <1>n, <1>1, ReplyIs
      DEF WorkerLoop, WorkerSleep, WorkerExit, Unfinished, Kept, network, epoll
    <2>2. pc[w] \notin {"recv", "delete"}
      BY <1>1, ReplyIs DEF WorkerLoop, WorkerSleep, WorkerExit, Test
    <2>3. \A v \in Workers \ {w} : pc'[v] = pc[v]
      BY <1>1, <1>p, ReplyIs DEF WorkerLoop, WorkerSleep, WorkerExit
    <2>4. UNCHANGED <<fdOf, ready, batch, g_listClients, clientfd>>
      BY <1>1, ReplyIs DEF WorkerLoop, WorkerSleep, WorkerExit, network, epoll, work
    <2> QED BY <1>n, <2>1, <2>2, <2>3, <2>4, StillOnItsWay
  <1>2. CASE Take(w)
    <2>1. Unfinished(c) /\ OnItsWay(c) /\ UNCHANGED <<fdOf, ready, batch>>
      BY <1>n, <1>2 DEF Take, Unfinished, Kept, network, epoll
    <2>2. pc[w] \notin {"recv", "delete"}
      BY <1>2 DEF Take, Test
    <2>3. pc'[w] = "recv" /\ \A v \in Workers \ {w} : pc'[v] = pc[v]
      BY <1>2, <1>p DEF Take
    <2>4. /\ clientfd'[w] = Head(g_listClients)
          /\ \A v \in Workers \ {w} : clientfd'[v] = clientfd[v]
      BY <1>n, <1>2 DEF Take, Data
    <2>5. ToSet(g_listClients) = ToSet(g_listClients') \union {Head(g_listClients)}
      BY <1>n, <1>2, TailTakesHead DEF Take, Data
    <2> QED BY <2>1, <2>2, <2>3, <2>4, <2>5 DEF OnItsWay
  <1>3. CASE RecvData(w)
    <2>1. Unfinished(c) /\ UNCHANGED <<fdOf, ready, batch, g_listClients, clientfd>>
      <3>1. PICK d \in Clients : Reads(w, d) /\ unread' = [unread EXCEPT ![d] = @ - 1]
        BY <1>3 DEF RecvData
      <3>2. unread'[c] <= unread[c] /\ unread[c] \in Nat /\ unread'[c] \in Int
        BY <1>n, <3>1 DEF Net
      <3> QED BY <1>3, <3>2 DEF RecvData, Unfinished, epoll
    <2>2. pc[w] = "recv" /\ pc'[w] = "recv" /\ \A v \in Workers \ {w} : pc'[v] = pc[v]
      BY <1>3, <1>p DEF RecvData, AfterRecv
    <2> QED BY <1>n, <2>1, <2>2, StillOnItsWay DEF Kept
  <1>4. CASE RecvEnds(w)
    <2>1. Unfinished(c) /\ UNCHANGED <<fdOf, ready, batch, g_listClients, clientfd>>
      BY <1>4 DEF RecvEnds, Unfinished, network, epoll, work
    <2>2. \A v \in Workers \ {w} : pc'[v] = pc[v]
      BY <1>4, <1>p DEF RecvEnds
    <2>3. clientfd[w] = fdOf[c] => pc'[w] = "delete"
      <3>1. SUFFICES ASSUME clientfd[w] = fdOf[c] PROVE pc'[w] = "delete"
        OBVIOUS
      <3>2. ~ (unread[c] > 0)
        BY <1>4, <3>1 DEF RecvEnds, Reads
      <3>3. c \in gone /\ \A d \in Clients : fdOf[d] = clientfd[w] => d = c
        BY <1>o, <2>1, <3>1, <3>2 DEF Unfinished
      <3> QED BY <1>4, <1>p, <3>3 DEF RecvEnds
    <2> QED BY <1>n, <2>1, <2>2, <2>3 DEF Kept, OnItsWay
  <1>5. CASE ReleaseDelete(w)
    <2>1. /\ Unfinished(c) /\ fdOf[c] # clientfd[w]
          /\ UNCHANGED <<fdOf, batch, g_listClients, clientfd>> /\ ready' = ready \ {clientfd[w]}
      BY <1>5 DEF ReleaseDelete, Unfinished, network, work
    <2>2. \A v \in Workers \ {w} : pc'[v] = pc[v]
      BY <1>5, <1>p DEF ReleaseDelete
    <2> QED BY <1>n, <2>1, <2>2 DEF Kept, OnItsWay
  <1>6. CASE ReleaseClose(w)
    <2>1. fdOf'[c] = fdOf[c] /\ fdOf[c] # clientfd[w]
      <3>1. fdOf'[c] \in watched
        BY <1>6 DEF ReleaseClose, Unfinished
      <3>2. fdOf'[c] # None
        BY <1>n, <3>1 DEF Watch, Open
      <3> QED BY <1>6, <3>2 DEF ReleaseClose
    <2>2. /\ Unfinished(c)
          /\ UNCHANGED <<batch, g_listClients, clientfd>> /\ ready' = ready \ {clientfd[w]}
      BY <1>6, <2>1 DEF ReleaseClose, Unfinished, work
    <2>3. pc[w] = "close" /\ \A v \in Workers \ {w} : pc'[v] = pc[v]
      BY <1>6, <1>p DEF ReleaseClose
    <2> QED BY <1>n, <2>1, <2>2, <2>3 DEF Kept, OnItsWay
  <1> QED BY <1>1, <1>2, <1>3, <1>4, <1>5, <1>6 DEF WorkerStep

\* ... the edges that are still owed ...
LEMMA KeptStep == ASSUME IInv, [Next]_vars PROVE Kept'
  <1>n. Net /\ Watch /\ Places /\ Data /\ Kept
    BY DEF IInv
  <1> USE Things DEF Goto
  <1>p. \A label : \A t \in {Main, Acceptor} :
          pc' = [pc EXCEPT ![t] = label] => \A w \in Workers : pc'[w] = pc[w]
    BY <1>n DEF Places
  \* Neither more to read nor less on its way.
  <1>1. ASSUME UNCHANGED <<fdOf, unread, gone, watched, clientfd>>,
               ready \union batch \union ToSet(g_listClients)
                 \subseteq ready' \union batch' \union ToSet(g_listClients'),
               \A w \in Workers : pc'[w] = pc[w]
        PROVE  Kept'
    BY <1>n, <1>1, StillOnItsWay DEF Kept, Unfinished
  <1>2. ASSUME MainStep \/ SetStop PROVE Kept'
    <2>1. CASE EpollWait
      BY <1>n, <1>1, <1>p, <2>1 DEF EpollWait, network, work, Data
    <2>2. CASE SignalAcceptor
      <3>1. \A c \in Clients : fdOf[c] # Listen
        BY <1>n DEF Net
      <3>2. \A c \in Clients : OnItsWay(c) => OnItsWay(c)'
        BY <1>p, <2>2, <3>1 DEF SignalAcceptor, network, epoll, work, OnItsWay
      <3> QED BY <1>n, <2>2, <3>2 DEF SignalAcceptor, network, epoll, Kept, Unfinished
    <2>3. ASSUME NEW fd \in Fds, PushClient(fd) PROVE Kept'
      <3>1. ToSet(g_listClients') = ToSet(g_listClients) \union {fd}
        BY <1>n, <2>3, AppendAdds DEF PushClient, Data
      <3> QED BY <1>1, <1>p, <2>3, <3>1 DEF PushClient, network, epoll, work
    <2>4. CASE SignalWorker \/ SetStop
      BY <1>1, <1>p, <2>4 DEF SignalWorker, SetStop, network, epoll, work
    <2>5. CASE BroadcastAll
      BY <2>5 DEF BroadcastAll, Kept, Unfinished
    <2>6. CASE DestroyAll \/ Unblocked
      <3>1. watched' = {}
        BY <1>n, <2>6 DEF DestroyAll, Unblocked, Watch, EpollClosed, epoll
      <3> QED BY <3>1 DEF Kept, Unfinished
    <2> QED BY <1>2, <2>1, <2>2, <2>3, <2>4, <2>5, <2>6 DEF MainStep
  <1>3. ASSUME AcceptorStep PROVE Kept'
    <2>p. \A w \in Workers : pc'[w] = pc[w]
      BY <1>3, <1>p DEF AcceptorStep, AcceptLoop, AcceptWait, AcceptWoken, Accept, Add
    <2>1. CASE AcceptLoop \/ AcceptWait \/ AcceptWoken
      BY <1>1, <2>p, <2>1 DEF AcceptLoop, AcceptWait, AcceptWoken, network, epoll, work
    <2>2. CASE Accept
      \* The descriptor it gets is not watched yet.
      <3>1. ASSUME NEW c \in Clients, Unfinished(c)'
            PROVE  fdOf'[c] = fdOf[c]
        <4>1. fdOf'[c] \in watched
          BY <2>2, <3>1 DEF Accept, Unfinished, epoll
        <4>2. fdOf'[c] \in Open
          BY <1>n, <4>1 DEF Watch
        <4>3. CASE backlog # <<>> /\ fdOf' = [fdOf EXCEPT ![Head(backlog)] = LowestFd]
          <5>1. Head(backlog) \in Clients /\ fdOf[Head(backlog)] = None
            BY <1>n, <4>3, TailTakesHead DEF Net
          <5>2. LowestFd \notin Open
            BY <1>n, <5>1, LowestFdIsFree
          <5> QED BY <1>n, <4>2, <4>3, <5>1, <5>2 DEF Net
        <4> QED BY <2>2, <4>3 DEF Accept
      <3>2. ASSUME NEW c \in Clients, Unfinished(c)'
            PROVE  OnItsWay(c)'
        BY <1>n, <2>p, <2>2, <3>1, <3>2, StillOnItsWay DEF Accept, epoll, work, Kept, Unfinished
      <3> QED BY <3>2 DEF Kept
    <2>3. CASE Add
      <3>1. ASSUME NEW c \in Clients, Unfinished(c)' PROVE OnItsWay(c)'
        <4>1. /\ UNCHANGED <<fdOf, unread, gone, batch, g_listClients, clientfd>>
              /\ ready \subseteq ready'
          BY <2>3 DEF Add, network, work
        <4>2. CASE fdOf[c] \in watched
          BY <1>n, <2>p, <3>1, <4>1, <4>2, StillOnItsWay DEF Kept, Unfinished
        <4>3. CASE fdOf[c] \notin watched
          <5>1. fdOf[c] = newfd /\ newfd \in Open /\ ~EpollClosed
            BY <2>3, <3>1, <4>1, <4>3 DEF Add, Unfinished
          <5>2. ClientAt(newfd) = c
            <6>1. ClientAt(newfd) \in Clients /\ fdOf[ClientAt(newfd)] = newfd
              BY <1>n, <5>1, ClientAtIs
            <6>2. newfd # None
              BY <5>1 DEF Open
            <6> QED BY <1>n, <5>1, <6>1, <6>2 DEF Net
          <5>3. fdOf[c] \in ready'
            BY <2>3, <3>1, <4>1, <5>1, <5>2 DEF Add, Unfinished
          <5> QED BY <4>1, <5>3 DEF OnItsWay
        <4> QED BY <4>2, <4>3
      <3> QED BY <3>1 DEF Kept
    <2> QED BY <1>3, <2>1, <2>2, <2>3 DEF AcceptorStep
  <1>4. ASSUME NEW w \in Workers, WorkerStep(w) PROVE Kept'
    BY <1>4, WorkersKeep DEF Kept
  <1>5. CASE Spurious
    BY <1>1, <1>5 DEF Spurious, network, epoll, work
  <1>6. ASSUME NEW d \in Clients, Send(d) \/ Leave(d) PROVE Kept'
    <2>1. /\ UNCHANGED <<fdOf, watched, pc, batch, g_listClients, clientfd>>
          /\ ready' = ready \union ({fdOf[d]} \intersect watched)
      BY <1>6 DEF Send, Leave, Edge, program, work
    <2>2. ASSUME NEW c \in Clients, Unfinished(c)', c # d PROVE Unfinished(c)
      BY <1>n, <1>6, <2>1, <2>2 DEF Send, Leave, Unfinished, Net
    <2>3. ASSUME NEW c \in Clients, Unfinished(c)', c = d PROVE fdOf'[c] \in ready'
      BY <2>1, <2>3 DEF Unfinished
    <2> QED BY <1>n, <2>1, <2>2, <2>3, StillOnItsWay DEF Kept, OnItsWay
  <1>7. ASSUME NEW d \in Clients, Connect(d) \/ ReadReplies(d) PROVE Kept'
    BY <1>1, <1>7 DEF Connect, ReadReplies, epoll, program, work
  <1>8. CASE UNCHANGED vars
    BY <1>1, <1>8 DEF vars, network, epoll, work
  <1> QED BY <1>2, <1>3, <1>4, <1>5, <1>6, <1>7, <1>8 DEF Next

\* ... and somebody awake for what is in the list.
LEMMA WakeStep == ASSUME IInv, [Next]_vars PROVE NoLostWakeup'
  <1>n. Places /\ Data /\ NoLostWakeup
    BY DEF IInv
  <1> USE Things DEF NoLostWakeup
  <1>1. ASSUME g_listClients' # <<>> => g_listClients # <<>>, waiters' \subseteq waiters,
               pc'[Main] = pc[Main] \/ pc[Main] # "signal"
        PROVE  NoLostWakeup'
    BY <1>n, <1>1 DEF Places
  <1>2. ASSUME MainStep \/ SetStop PROVE NoLostWakeup'
    <2> USE DEF Goto, Places
    <2>1. ASSUME NEW fd \in Fds, PushClient(fd) PROVE NoLostWakeup'
      BY <1>n, <2>1 DEF PushClient
    <2>2. CASE SignalWorker
      <3>1. waiters' # Workers
        BY <1>n, <2>2 DEF SignalWorker, g_cond!Signal
      <3> QED BY <3>1
    <2>3. CASE EpollWait \/ SignalAcceptor \/ BroadcastAll \/ DestroyAll \/ Unblocked \/ SetStop
      BY <1>1, <2>3
      DEF EpollWait, SignalAcceptor, BroadcastAll, DestroyAll, Unblocked, SetStop, conds,
          g_cond!Broadcast
    <2> QED BY <1>2, <2>1, <2>2, <2>3 DEF MainStep
  <1>3. ASSUME \/ AcceptorStep \/ Spurious
               \/ \E c \in Clients : Connect(c) \/ Send(c) \/ ReadReplies(c) \/ Leave(c)
        PROVE  NoLostWakeup'
    <2>1. pc'[Main] = pc[Main]
      BY <1>n, <1>3, MainElsewhere
    <2>2. g_listClients' = g_listClients /\ waiters' \subseteq waiters
      BY <1>3
      DEF AcceptorStep, AcceptLoop, AcceptWait, AcceptWoken, Accept, Add, Spurious, Connect, Send,
          ReadReplies, Leave, program, conds, g_cond!SpuriousWakeup
    <2> QED BY <1>1, <2>1, <2>2
  <1>4. ASSUME NEW w \in Workers, WorkerStep(w) PROVE NoLostWakeup'
    <2>1. pc'[Main] = pc[Main]
      BY <1>n, <1>4, MainElsewhere
    <2>2. CASE WorkerSleep(w)
      BY <2>2 DEF WorkerSleep
    <2>3. CASE Take(w)
      BY <1>1, <2>1, <2>3 DEF Take, conds
    <2>4. ASSUME UNCHANGED <<g_listClients, waiters>> PROVE NoLostWakeup'
      BY <1>1, <2>1, <2>4
    <2> QED
      BY <1>4, <2>2, <2>3, <2>4, ReplyIs
      DEF WorkerStep, WorkerLoop, WorkerExit, RecvData, RecvEnds, ReleaseDelete,
          ReleaseClose, conds
  <1>5. CASE UNCHANGED vars
    BY <1>1, <1>5 DEF vars, conds
  <1> QED BY <1>2, <1>3, <1>4, <1>5 DEF Next
-----------------------------------------------------------------------------
(* The theorems. *)

\* The invariant of every reachable state (main, accept_thread_func,
\* worker_thread_func, release_client and prog_exit in reactor.cpp).
THEOREM Invariance == Spec => []IInv
  <1>1. IInv /\ [Next]_vars => IInv'
    BY NetStep, WatchStep, PlacesStep, DataStep, KeptStep, WakeStep DEF IInv
  <1> QED BY InitIInv, <1>1, PTL DEF Spec

\* Descriptors, epoll and the list agree however numbers are used again, and no
\* edge is dropped while a client has bytes nobody has read (lines 116-124,
\* 165, 206-237, 407-410).
THEOREM EdgesInvariant == Spec => []EdgesInv
  <1>1. IInv => EdgesInv
    <2> SUFFICES ASSUME IInv PROVE EdgesInv
      OBVIOUS
    <2>1. Net /\ Watch /\ Places /\ Data /\ Kept
      BY DEF IInv
    <2>2. unread \in [Clients -> 0..MaxSends]
      BY <2>1, Things DEF Net
    <2>3. TypeOK
      BY <2>1, <2>2 DEF TypeOK, Net, Watch, Places, Data
    <2>4. EdgesAreKept
      BY <2>1 DEF EdgesAreKept, Kept, Unfinished, OnItsWay
    <2> QED BY <2>3, <2>4 DEF EdgesInv
  <1> QED BY Invariance, <1>1, PTL

\* With a descriptor in the list a worker is awake, or the signal is on its way
\* (lines 186-197, 407-410).
THEOREM WakeupInvariant == Spec => []NoLostWakeup
  <1>1. IInv => NoLostWakeup
    BY DEF IInv
  <1> QED BY Invariance, <1>1, PTL
=============================================================================
