------------------------- MODULE EventServersProofs -------------------------
(***************************************************************************)
(* Proofs about the servers of MCEventServers, for any number of clients   *)
(* and descriptors, any requests, and any pieces they come in.             *)
(***************************************************************************)
EXTENDS MCEventServers, FiniteSetTheorems, SequenceTheorems, WellFoundedInduction, TLAPS

\* A set of numbers has a least one.
LEMMA LeastMember ==
  ASSUME NEW S \in SUBSET Nat, S # {}
  PROVE  \E m \in S : \A k \in S : m <= k
  <1>1. IsWellFoundedOn(OpToRel(<, Nat), Nat)
    BY NatLessThanWellFounded
  <1>2. PICK m \in S : \A k \in S : ~ (<<k, m>> \in OpToRel(<, Nat))
    BY <1>1, WFMin
  <1>3. \A k \in S : ~ (k < m)
    BY <1>2 DEF OpToRel
  <1> QED BY <1>3

-----------------------------------------------------------------------------
(* The chat server that polls: the inductive invariant. *)

Fds == Chat!Fds

Entries == [fd : Fds, all : BOOLEAN, revents : {"none", "POLLERR", "POLLRDHUP", "POLLIN", "POLLOUT"}]

ChatTypes ==
  /\ fds \in Seq(Entries) /\ Len(fds) <= USER_LIMIT
  /\ i \in 0 .. Len(fds) + 1 /\ listening \in BOOLEAN
  /\ write_buf \in [Fds -> Nat] /\ DOMAIN peer = Fds

\* No descriptor has two entries.
OneEntry == \A j, k \in 1 .. Len(fds) : fds[j].fd = fds[k].fd => j = k

\* The open descriptors are those with an entry.
OpenIsListed == \A f \in Fds : peer[f] # "none" <=> \E k \in 1 .. Len(fds) : fds[k].fd = f

\* Who is polled for writing has been given something to be sent to it once.
AllHaveText == \A k \in 1 .. Len(fds) : fds[k].all => write_buf[fds[k].fd] # Chat!Garbage

\* In a turn the descriptors still to be looked at are those of the entries to come.
DueAhead ==
  i # 0 => \A f : f \in due <=>
             \E k \in 1 .. Len(fds) : k >= i /\ fds[k].revents # "none" /\ fds[k].fd = f

ChatIInv == ChatTypes /\ OneEntry /\ OpenIsListed /\ AllHaveText /\ DueAhead

\* What the assumption says of the numbers of descriptors.
LEMMA ChatConstants ==
  /\ USER_LIMIT \in Nat /\ MaxFd \in Nat /\ USER_LIMIT <= MaxFd
  /\ Fds = 1 .. MaxFd /\ Chat!Garbage = MaxFd + 1 /\ Chat!NULL = 0
  BY ChatAssumption DEF Chat!ChatAssumption, Fds, Chat!Fds, Chat!Garbage, Chat!NULL

\* An empty table.
LEMMA ChatInit == Chat!Init => ChatIInv
  <1> SUFFICES ASSUME Chat!Init PROVE ChatIInv
    OBVIOUS
  <1>1. /\ fds = <<>> /\ i = 0 /\ listening = FALSE
        /\ write_buf = [f \in Fds |-> Chat!Garbage] /\ peer = [f \in Fds |-> "none"]
    BY DEF Chat!Init, Fds
  <1>2. fds \in Seq(Entries) /\ Len(fds) = 0
    BY <1>1
  <1>3. write_buf \in [Fds -> Nat] /\ DOMAIN peer = Fds
    BY <1>1, ChatConstants
  <1>4. i \in 0 .. Len(fds) + 1 /\ listening \in BOOLEAN /\ Len(fds) <= USER_LIMIT
    <2>1. Len(fds) = 0 /\ i = 0 /\ listening = FALSE
      BY <1>1, <1>2
    <2>2. USER_LIMIT \in Nat
      BY ChatConstants
    <2>3. listening \in BOOLEAN
      BY <1>1, Zenon
    <2>4. i \in 0 .. Len(fds) + 1 /\ Len(fds) <= USER_LIMIT
      BY <2>1, <2>2
    <2> QED BY <2>3, <2>4
  <1>5. ChatTypes
    BY <1>2, <1>3, <1>4 DEF ChatTypes
  <1> QED BY <1>1, <1>2, <1>5 DEF ChatIInv, OneEntry, OpenIsListed, AllHaveText, DueAhead

\* An entry is a record.
LEMMA EntryIs ==
  ASSUME ChatTypes, NEW k \in 1 .. Len(fds)
  PROVE  fds[k] \in Entries /\ fds[k].fd \in Fds
  <1>1. fds[k] \in Entries
    BY DEF ChatTypes
  <1> QED BY <1>1 DEF Entries

\* A table is what its entries are.
LEMMA EntriesAre ==
  ASSUME NEW e(_), NEW n \in Nat, \A k \in 1 .. n : e(k) \in Entries
  PROVE  [k \in 1 .. n |-> e(k)] \in Seq(Entries) /\ Len([k \in 1 .. n |-> e(k)]) = n
  OBVIOUS

\* When the entries stay where they are, and get other flags only.
LEMMA SameEntries ==
  ASSUME ChatIInv, fds' \in Seq(Entries), Len(fds') = Len(fds),
         \A k \in 1 .. Len(fds) : fds'[k].fd = fds[k].fd,
         \A f \in Fds : peer'[f] # "none" <=> peer[f] # "none", DOMAIN peer' = Fds,
         i' \in 0 .. Len(fds) + 1, listening' \in BOOLEAN, write_buf' \in [Fds -> Nat]
  PROVE  ChatTypes' /\ OneEntry' /\ OpenIsListed'
  <1>1. Len(fds) \in Nat
    BY DEF ChatIInv, ChatTypes
  <1>2. ChatTypes'
    BY DEF ChatIInv, ChatTypes
  <1>3. OneEntry'
    BY DEF ChatIInv, OneEntry
  <1>4. OpenIsListed'
    BY DEF ChatIInv, OpenIsListed
  <1> QED BY <1>2, <1>3, <1>4

\* What clients do leaves the server alone and opens and closes no descriptor.
LEMMA OutsideKeeps == ASSUME ChatIInv, Chat!Outside \/ UNCHANGED chatVars PROVE ChatIInv'
  <1>1. UNCHANGED <<fds, write_buf, i, listening, due>>
    BY DEF Chat!Outside, Chat!Connect, Chat!Send, Chat!Close, Chat!Reset, Chat!server, chatVars
  <1>2. (\A f \in Fds : peer'[f] # "none" <=> peer[f] # "none") /\ DOMAIN peer' = Fds
    <2>1. CASE UNCHANGED peer
      BY <2>1 DEF ChatIInv, ChatTypes
    <2>2. ASSUME NEW f \in Fds, Chat!Close(f) \/ Chat!Reset(f)
          PROVE  (\A g \in Fds : peer'[g] # "none" <=> peer[g] # "none") /\ DOMAIN peer' = Fds
      <3>1. \E s \in {"closed", "reset"} : peer' = [peer EXCEPT ![f] = s] /\ peer[f] = "here"
        BY <2>2 DEF Chat!Close, Chat!Reset
      <3> QED BY <3>1 DEF ChatIInv, ChatTypes
    <2> QED BY <2>1, <2>2 DEF Chat!Outside, Chat!Connect, Chat!Send, chatVars, Fds
  <1>3. ChatTypes' /\ OneEntry' /\ OpenIsListed'
    BY <1>1, <1>2, SameEntries DEF ChatIInv, ChatTypes
  <1>4. AllHaveText' /\ DueAhead'
    BY <1>1 DEF ChatIInv, AllHaveText, DueAhead
  <1> QED BY <1>3, <1>4 DEF ChatIInv

-----------------------------------------------------------------------------
(* The chat server: the steps that leave the entries where they are. *)

\* The thread comes to the next entry: what it has looked at is not due any more.
LEMMA StepKeepsDue ==
  ASSUME ChatIInv, i \in 1 .. Len(fds), Chat!Step,
         Len(fds') = Len(fds),
         \A k \in 1 .. Len(fds) : fds'[k].fd = fds[k].fd /\ fds'[k].revents = fds[k].revents
  PROVE  DueAhead'
  <1>1. i' = i + 1 /\ due' = due \ {fds[i].fd}
    BY DEF Chat!Step
  <1>2. Len(fds) \in Nat /\ i \in Nat
    BY DEF ChatIInv, ChatTypes
  <1> SUFFICES ASSUME NEW f
               PROVE  f \in due' <=> \E k \in 1 .. Len(fds) :
                        k >= i + 1 /\ fds[k].revents # "none" /\ fds[k].fd = f
    BY <1>1 DEF DueAhead
  <1>3. f \in due <=> \E k \in 1 .. Len(fds) : k >= i /\ fds[k].revents # "none" /\ fds[k].fd = f
    BY <1>2 DEF ChatIInv, DueAhead
  <1>4. \A k \in 1 .. Len(fds) : fds[k].fd = fds[i].fd => k = i
    BY DEF ChatIInv, OneEntry
  <1>5. ASSUME f \in due'
        PROVE  \E k \in 1 .. Len(fds) : k >= i + 1 /\ fds[k].revents # "none" /\ fds[k].fd = f
    BY <1>1, <1>2, <1>3, <1>5
  <1>6. ASSUME NEW k \in 1 .. Len(fds), k >= i + 1, fds[k].revents # "none", fds[k].fd = f
        PROVE  f \in due'
    BY <1>1, <1>2, <1>3, <1>4, <1>6
  <1> QED BY <1>5, <1>6

\* poll reports anew for every entry.
LEMMA PollKeeps == ASSUME ChatIInv, Chat!Poll PROVE ChatIInv'
  <1>1. /\ i' = 1 /\ listening' \in BOOLEAN /\ UNCHANGED <<write_buf, peer>>
        /\ fds' = [k \in DOMAIN fds |-> [fds[k] EXCEPT !.revents = Chat!Ready(fds[k])]]
        /\ due' = {fds[k].fd : k \in {k \in DOMAIN fds : fds'[k].revents # "none"}}
    BY DEF Chat!Poll, Chat!outside
  <1>2. fds \in Seq(Entries) /\ Len(fds) \in Nat /\ DOMAIN fds = 1 .. Len(fds)
    BY DEF ChatIInv, ChatTypes
  <1>3. ASSUME NEW k \in 1 .. Len(fds)
        PROVE  fds'[k] \in Entries /\ fds'[k].fd = fds[k].fd /\ fds'[k].all = fds[k].all
    <2>1. fds[k] \in Entries
      BY EntryIs DEF ChatIInv
    <2>2. Chat!Ready(fds[k]) \in {"none", "POLLERR", "POLLRDHUP", "POLLIN", "POLLOUT"}
      BY DEF Chat!Ready
    <2>3. fds'[k] = [fds[k] EXCEPT !.revents = Chat!Ready(fds[k])]
      BY <1>1, <1>2
    <2> QED BY <2>1, <2>2, <2>3 DEF Entries
  <1>4. fds' \in Seq(Entries) /\ Len(fds') = Len(fds)
    BY <1>1, <1>2, <1>3
  <1>5. (\A f \in Fds : peer'[f] # "none" <=> peer[f] # "none") /\ DOMAIN peer' = Fds
    BY <1>1 DEF ChatIInv, ChatTypes
  <1>6. ChatTypes' /\ OneEntry' /\ OpenIsListed'
    BY <1>1, <1>2, <1>3, <1>4, <1>5, SameEntries DEF ChatIInv, ChatTypes
  <1>7. AllHaveText'
    BY <1>1, <1>3, <1>4 DEF ChatIInv, AllHaveText
  <1>8. DueAhead'
    <2>1. \A k \in 1 .. Len(fds) : k >= 1
      BY <1>2
    <2>2. \A f : f \in due' <=> \E k \in 1 .. Len(fds) : fds'[k].revents # "none" /\ fds[k].fd = f
      BY <1>1, <1>2
    <2>3. ASSUME NEW f
          PROVE  f \in due' <=> \E k \in 1 .. Len(fds') :
                    k >= 1 /\ fds'[k].revents # "none" /\ fds'[k].fd = f
      BY <1>3, <1>4, <2>1, <2>2
    <2> QED BY <1>1, <2>3 DEF DueAhead
  <1> QED BY <1>6, <1>7, <1>8 DEF ChatIInv

\* One connection too many.
LEMMA RefuseKeeps == ASSUME ChatIInv, Chat!Refuse PROVE ChatIInv'
  <1>1. listening' = FALSE /\ UNCHANGED <<fds, write_buf, i, due, peer>>
    BY DEF Chat!Refuse
  <1> QED BY <1>1 DEF ChatIInv, ChatTypes, OneEntry, OpenIsListed, AllHaveText, DueAhead

\* The end of a turn.
LEMMA RoundEndsKeeps == ASSUME ChatIInv, Chat!RoundEnds PROVE ChatIInv'
  <1>1. i' = 0 /\ UNCHANGED <<fds, write_buf, listening, due, peer>>
    BY DEF Chat!RoundEnds, Chat!outside
  <1> QED BY <1>1 DEF ChatIInv, ChatTypes, OneEntry, OpenIsListed, AllHaveText, DueAhead

\* The entries without events, with an error, and with something to send: in the
\* last case the pointer is cleared, which is not what a new one holds.
LEMMA PassKeeps ==
  ASSUME ChatIInv, Chat!NothingReported \/ Chat!GetError \/ Chat!SendText
  PROVE  ChatIInv'
  <1>1. /\ i \in 1 .. Len(fds) /\ Chat!Step /\ UNCHANGED <<fds, listening, peer>>
        /\ \/ UNCHANGED write_buf
           \/ write_buf' = [write_buf EXCEPT ![fds[i].fd] = Chat!NULL]
    BY DEF Chat!NothingReported, Chat!GetError, Chat!SendText, Chat!At, Chat!outside, Chat!user_counter
  <1>2. i' \in 0 .. Len(fds) + 1
    BY <1>1 DEF Chat!Step, ChatIInv, ChatTypes
  <1>3. write_buf' \in [Fds -> Nat]
    <2>1. write_buf \in [Fds -> Nat]
      BY DEF ChatIInv, ChatTypes
    <2>2. Chat!NULL \in Nat
      BY ChatConstants
    <2> QED BY <1>1, <2>1, <2>2
  <1>4. ChatTypes' /\ OneEntry' /\ OpenIsListed'
    BY <1>1, <1>2, <1>3 DEF ChatIInv, ChatTypes, OneEntry, OpenIsListed
  <1>5. AllHaveText'
    <2>1. \A f \in Fds : write_buf'[f] = write_buf[f] \/ write_buf'[f] = 0
      BY <1>1, ChatConstants DEF ChatIInv, ChatTypes
    <2>2. Chat!Garbage # 0
      BY ChatConstants
    <2> SUFFICES ASSUME NEW k \in 1 .. Len(fds), fds[k].all PROVE write_buf'[fds[k].fd] # Chat!Garbage
      BY <1>1 DEF AllHaveText
    <2>3. fds[k].fd \in Fds
      BY EntryIs DEF ChatIInv
    <2> QED BY <2>1, <2>2, <2>3 DEF ChatIInv, AllHaveText
  <1>6. DueAhead'
    BY <1>1, StepKeepsDue
  <1> QED BY <1>4, <1>5, <1>6 DEF ChatIInv

\* A text comes in: the others are to be polled for writing and are given the buffer.
LEMMA ReceiveKeeps == ASSUME ChatIInv, Chat!Receive PROVE ChatIInv'
  <1> DEFINE f == fds[i].fd
             others == {fds[k].fd : k \in DOMAIN fds} \ {f}
  <1>1. /\ i \in 1 .. Len(fds) /\ Chat!Step /\ UNCHANGED <<listening, peer>>
        /\ write_buf' = [g \in Fds |-> IF g \in others THEN f ELSE write_buf[g]]
        /\ fds' = [k \in DOMAIN fds |-> [fds[k] EXCEPT !.all = @ \/ fds[k].fd # f]]
    BY DEF Chat!Receive, Chat!At, Chat!user_counter, Fds
  <1>2. fds \in Seq(Entries) /\ Len(fds) \in Nat /\ DOMAIN fds = 1 .. Len(fds) /\ f \in Fds
    BY <1>1, EntryIs DEF ChatIInv, ChatTypes
  <1>3. ASSUME NEW k \in 1 .. Len(fds)
        PROVE  /\ fds'[k] \in Entries /\ fds'[k].fd = fds[k].fd /\ fds'[k].revents = fds[k].revents
               /\ fds'[k].all => fds[k].all \/ fds[k].fd \in others
    <2>1. fds[k] \in Entries
      BY EntryIs DEF ChatIInv
    <2>2. fds'[k] = [fds[k] EXCEPT !.all = @ \/ fds[k].fd # f]
      BY <1>1, <1>2
    <2>3. fds[k].fd # f => fds[k].fd \in others
      BY <1>2
    <2> QED BY <2>1, <2>2, <2>3 DEF Entries
  <1>4. fds' \in Seq(Entries) /\ Len(fds') = Len(fds)
    <2> DEFINE e(k) == [fds[k] EXCEPT !.all = @ \/ fds[k].fd # f]
    <2>1. fds' = [k \in 1 .. Len(fds) |-> e(k)]
      BY <1>1, <1>2
    <2>2. \A k \in 1 .. Len(fds) : e(k) \in Entries
      BY <2>1, <1>3
    <2> QED BY <2>1, <2>2, <1>2, EntriesAre
  <1>5. (\A g \in Fds : peer'[g] # "none" <=> peer[g] # "none") /\ DOMAIN peer' = Fds
    BY <1>1 DEF ChatIInv, ChatTypes
  <1>6. write_buf' \in [Fds -> Nat] /\ \A g \in others : g \in Fds => write_buf'[g] = f
    BY <1>1, <1>2, ChatConstants DEF ChatIInv, ChatTypes
  <1>7. i' \in 0 .. Len(fds) + 1 /\ listening' \in BOOLEAN
    BY <1>1 DEF Chat!Step, ChatIInv, ChatTypes
  <1>8. ChatTypes' /\ OneEntry' /\ OpenIsListed'
    BY <1>3, <1>4, <1>5, <1>6, <1>7, SameEntries
  <1>9. AllHaveText'
    <2> SUFFICES ASSUME NEW k \in 1 .. Len(fds), fds'[k].all PROVE write_buf'[fds[k].fd] # Chat!Garbage
      BY <1>3, <1>4 DEF AllHaveText
    <2>1. fds[k].fd \in Fds
      BY EntryIs DEF ChatIInv
    <2>2. CASE fds[k].fd \in others
      <3>1. \A g \in Fds : g # Chat!Garbage
        BY ChatConstants
      <3> HIDE DEF f, others
      <3> QED BY <2>1, <2>2, <3>1, <1>2, <1>6
    <2>3. CASE fds[k].fd \notin others
      <3>1. write_buf'[fds[k].fd] = write_buf[fds[k].fd]
        BY <1>1, <2>1, <2>3
      <3>2. fds[k].all
        BY <1>3, <2>3
      <3> QED BY <3>1, <3>2 DEF ChatIInv, AllHaveText
    <2> QED BY <2>2, <2>3
  <1>10. DueAhead'
    BY <1>1, <1>3, <1>4, StepKeepsDue
  <1> QED BY <1>8, <1>9, <1>10 DEF ChatIInv

-----------------------------------------------------------------------------
(* The chat server: connections that come and go. *)

\* While the server takes clients there is a descriptor for one more.
LEMMA FreeDescriptor ==
  ASSUME ChatIInv, Len(fds) < USER_LIMIT
  PROVE  \E f \in Fds : peer[f] = "none" /\ \A g \in 1 .. f - 1 : peer[g] # "none"
  <1> DEFINE n == Len(fds)
             Free == {f \in Fds : peer[f] = "none"}
             to == [k \in 1 .. n |-> fds[k].fd]
  <1>1. n \in Nat
    BY DEF ChatIInv, ChatTypes
  <1>2. Free # {}
    <2> SUFFICES ASSUME Free = {} PROVE FALSE
      OBVIOUS
    <2>1. \A f \in Fds : \E k \in 1 .. n : fds[k].fd = f
      BY DEF ChatIInv, OpenIsListed
    <2>2. \A k \in 1 .. n : fds[k].fd \in Fds
      BY EntryIs DEF ChatIInv
    <2>3. to \in Surjection(1 .. n, Fds)
      BY <2>1, <2>2 DEF Surjection
    <2>4. ExistsSurjection(1 .. n, Fds)
      BY <2>3 DEF ExistsSurjection
    <2>5. Cardinality(Fds) <= n
      BY <1>1, <2>4, FS_SurjCardinalityBound
    <2>6. Cardinality(Fds) = MaxFd
      BY ChatConstants, FS_Interval
    <2> QED BY <1>1, <2>5, <2>6, ChatConstants
  <1>3. Free \in SUBSET Nat
    BY ChatConstants
  <1>4. PICK f \in Free : \A g \in Free : f <= g
    BY <1>2, <1>3, LeastMember
  <1>5. \A g \in 1 .. f - 1 : g \in Fds /\ ~ (f <= g)
    BY <1>4, ChatConstants
  <1> QED BY <1>4, <1>5

\* A client is taken: its entry comes last and asks for nothing yet.
LEMMA NewUserKeepsTable == ASSUME ChatIInv, Chat!NewUser PROVE ChatIInv'
  <1> DEFINE n == Len(fds)
             free(f) == peer[f] = "none" /\ \A g \in 1 .. f - 1 : peer[g] # "none"
             new == CHOOSE f \in Fds : free(f)
             e == [fd |-> new, all |-> FALSE, revents |-> "none"]
  <1>1. /\ i = 1 /\ Len(fds) < USER_LIMIT /\ listening' = FALSE /\ UNCHANGED <<write_buf, i, due>>
        /\ fds' = Append(fds, e) /\ peer' = [peer EXCEPT ![new] = "here"]
    <2>1. i = 1 /\ Len(fds) < USER_LIMIT
      BY ChatConstants DEF Chat!NewUser, Chat!user_counter, ChatIInv, ChatTypes
    <2> QED BY <2>1 DEF Chat!NewUser, Fds
  <1>2. new \in Fds /\ peer[new] = "none"
    <2>1. \E f \in Fds : free(f)
      BY <1>1, FreeDescriptor
    <2> QED BY <2>1
  <1> HIDE DEF new
  <1>3. fds \in Seq(Entries) /\ n \in Nat /\ DOMAIN peer = Fds /\ n + 1 <= USER_LIMIT
    BY <1>1, ChatConstants DEF ChatIInv, ChatTypes
  <1>4. e \in Entries
    BY <1>2 DEF Entries
  <1>5. /\ fds' \in Seq(Entries) /\ Len(fds') = n + 1 /\ fds'[n + 1] = e
        /\ \A k \in 1 .. n : fds'[k] = fds[k]
    BY <1>1, <1>3, <1>4
  <1>6. \A k \in 1 .. n + 1 : k \in 1 .. n \/ k = n + 1
    BY <1>3
  <1>7. e.fd = new /\ ~ e.all /\ e.revents = "none"
    OBVIOUS
  <1> HIDE DEF e
  <1>8. \A k \in 1 .. n : fds[k].fd # new
    BY <1>2 DEF ChatIInv, OpenIsListed
  <1>9. ChatTypes'
    <2>1. i' \in 0 .. n + 1 + 1
      BY <1>1, <1>3
    <2>2. write_buf' \in [Fds -> Nat] /\ DOMAIN peer' = Fds
      BY <1>1, <1>3 DEF ChatIInv, ChatTypes
    <2>3. listening' \in BOOLEAN
      BY <1>1, Zenon
    <2> QED BY <1>3, <1>5, <2>1, <2>2, <2>3 DEF ChatTypes
  <1>10. OneEntry'
    <2> SUFFICES ASSUME NEW j \in 1 .. n + 1, NEW k \in 1 .. n + 1, fds'[j].fd = fds'[k].fd
                 PROVE  j = k
      BY <1>5 DEF OneEntry
    <2> QED BY <1>5, <1>6, <1>7, <1>8 DEF ChatIInv, OneEntry
  <1>11. OpenIsListed'
    <2> SUFFICES ASSUME NEW f \in Fds
                 PROVE  peer'[f] # "none" <=> \E k \in 1 .. n + 1 : fds'[k].fd = f
      BY <1>5 DEF OpenIsListed
    <2>1. peer[f] # "none" <=> \E k \in 1 .. n : fds[k].fd = f
      BY DEF ChatIInv, OpenIsListed
    <2>2. n + 1 \in 1 .. n + 1 /\ \A k \in 1 .. n : k \in 1 .. n + 1
      BY <1>3
    <2>3. CASE f = new
      <3>1. peer'[f] = "here"
        BY <1>1, <1>2, <1>3, <2>3
      <3> QED BY <1>5, <1>7, <2>2, <2>3, <3>1
    <2>4. CASE f # new
      <3>1. peer'[f] = peer[f]
        BY <1>1, <1>3, <2>4
      <3> QED BY <1>5, <1>6, <1>7, <2>1, <2>2, <2>4, <3>1
    <2> QED BY <2>3, <2>4
  <1>12. AllHaveText'
    <2> SUFFICES ASSUME NEW k \in 1 .. n + 1, fds'[k].all PROVE write_buf[fds'[k].fd] # Chat!Garbage
      BY <1>1, <1>5 DEF AllHaveText
    <2> QED BY <1>5, <1>6, <1>7 DEF ChatIInv, AllHaveText
  <1>13. DueAhead'
    <2> SUFFICES ASSUME NEW f
                 PROVE  f \in due <=> \E k \in 1 .. n + 1 :
                          k >= 1 /\ fds'[k].revents # "none" /\ fds'[k].fd = f
      BY <1>1, <1>5 DEF DueAhead
    <2>1. f \in due <=> \E k \in 1 .. n : k >= 1 /\ fds[k].revents # "none" /\ fds[k].fd = f
      BY <1>1 DEF ChatIInv, DueAhead
    <2>2. \A k \in 1 .. n : k \in 1 .. n + 1
      BY <1>3
    <2> QED BY <1>5, <1>6, <1>7, <2>1, <2>2
  <1> QED BY <1>9, <1>10, <1>11, <1>12, <1>13 DEF ChatIInv

\* A client is gone: the last entry takes the place of its own.
LEMMA RemoveKeeps ==
  ASSUME ChatIInv, i \in 1 .. Len(fds), Chat!Remove
  PROVE  ChatIInv'
  <1> DEFINE n == Len(fds)
             f == fds[i].fd
             last == fds[n]
  <1>1. n \in Nat /\ i \in 1 .. n /\ n \in 1 .. n /\ fds \in Seq(Entries)
        /\ write_buf \in [Fds -> Nat] /\ DOMAIN peer = Fds /\ n <= USER_LIMIT /\ USER_LIMIT \in Nat
    BY ChatConstants DEF ChatIInv, ChatTypes
  <1>2. /\ UNCHANGED <<i, listening>>
        /\ write_buf' = [write_buf EXCEPT ![f] = write_buf[last.fd]]
        /\ fds' = SubSeq([fds EXCEPT ![i] = last], 1, n - 1)
        /\ due' = due \ {f} /\ peer' = [peer EXCEPT ![f] = "none"]
    BY DEF Chat!Remove, Chat!user_counter
  <1>3. f \in Fds /\ last \in Entries /\ last.fd \in Fds
    BY <1>1, EntryIs DEF ChatIInv
  <1>4. /\ fds' \in Seq(Entries) /\ Len(fds') = n - 1
        /\ \A k \in 1 .. n - 1 : fds'[k] = IF k = i THEN last ELSE fds[k]
    <2> DEFINE moved == [fds EXCEPT ![i] = last]
    <2>1. moved \in Seq(Entries) /\ Len(moved) = n /\ \A k \in 1 .. n : moved[k] = IF k = i THEN last ELSE fds[k]
      BY <1>1, <1>3
    <2> HIDE DEF moved
    <2> QED BY <1>1, <1>2, <2>1 DEF moved
  \* Where an entry that stays is found.
  <1> DEFINE home(k) == IF k = n THEN i ELSE k
  <1>5. \A k \in 1 .. n : k # i => home(k) \in 1 .. n - 1 /\ fds'[home(k)] = fds[k]
    BY <1>1, <1>4
  <1>6. \A k \in 1 .. n - 1 : \E j \in 1 .. n : j # i /\ home(j) = k /\ fds'[k] = fds[j]
    <2> TAKE k \in 1 .. n - 1
    <2>1. CASE k = i
      <3>1. n # i /\ home(n) = k /\ fds'[k] = fds[n]
        BY <1>1, <1>4, <2>1
      <3> QED BY <1>1, <3>1
    <2>2. CASE k # i
      <3>1. k \in 1 .. n /\ home(k) = k /\ fds'[k] = fds[k]
        BY <1>1, <1>4, <2>2
      <3> QED BY <2>2, <3>1
    <2> QED BY <2>1, <2>2
  <1>7. \A k \in 1 .. n : fds[k].fd = f => k = i
    BY <1>1 DEF ChatIInv, OneEntry
  <1>8. ChatTypes'
    <2>1. i' \in 0 .. n - 1 + 1 /\ n - 1 <= USER_LIMIT
      BY <1>1, <1>2
    <2>2. write_buf' \in [Fds -> Nat] /\ DOMAIN peer' = Fds
      BY <1>1, <1>2, <1>3
    <2>3. listening' \in BOOLEAN
      BY <1>2 DEF ChatIInv, ChatTypes
    <2> QED BY <1>4, <2>1, <2>2, <2>3 DEF ChatTypes
  <1>9. OneEntry'
    <2> SUFFICES ASSUME NEW j \in 1 .. n - 1, NEW k \in 1 .. n - 1, fds'[j].fd = fds'[k].fd
                 PROVE  j = k
      BY <1>4 DEF OneEntry
    <2>1. PICK a \in 1 .. n : a # i /\ home(a) = j /\ fds'[j] = fds[a]
      BY <1>6
    <2>2. PICK b \in 1 .. n : b # i /\ home(b) = k /\ fds'[k] = fds[b]
      BY <1>6
    <2>3. a = b
      BY <2>1, <2>2 DEF ChatIInv, OneEntry
    <2> QED BY <2>1, <2>2, <2>3
  <1>10. OpenIsListed'
    <2> SUFFICES ASSUME NEW g \in Fds
                 PROVE  peer'[g] # "none" <=> \E k \in 1 .. n - 1 : fds'[k].fd = g
      BY <1>4 DEF OpenIsListed
    <2>1. peer[g] # "none" <=> \E k \in 1 .. n : fds[k].fd = g
      BY DEF ChatIInv, OpenIsListed
    <2>2. (\E k \in 1 .. n - 1 : fds'[k].fd = g) <=> \E j \in 1 .. n : j # i /\ fds[j].fd = g
      <3> HIDE DEF home
      <3> QED BY <1>5, <1>6
    <2>3. CASE g = f
      <3>1. peer'[g] = "none"
        BY <1>1, <1>2, <1>3, <2>3
      <3> QED BY <1>7, <2>2, <2>3, <3>1
    <2>4. CASE g # f
      <3>1. peer'[g] = peer[g]
        BY <1>1, <1>2, <2>4
      <3> QED BY <2>1, <2>2, <2>4, <3>1
    <2> QED BY <2>3, <2>4
  <1>11. AllHaveText'
    <2> SUFFICES ASSUME NEW k \in 1 .. n - 1, fds'[k].all PROVE write_buf'[fds'[k].fd] # Chat!Garbage
      BY <1>4 DEF AllHaveText
    <2>1. PICK j \in 1 .. n : j # i /\ fds'[k] = fds[j]
      BY <1>6
    <2>2. fds[j].fd \in Fds /\ fds[j].fd # f
      BY <1>7, <2>1, EntryIs DEF ChatIInv
    <2>3. write_buf'[fds[j].fd] = write_buf[fds[j].fd]
      BY <1>1, <1>2, <2>2
    <2> QED BY <2>1, <2>3 DEF ChatIInv, AllHaveText
  <1>12. DueAhead'
    <2> SUFFICES ASSUME NEW g
                 PROVE  g \in due' <=> \E k \in 1 .. n - 1 :
                          k >= i /\ fds'[k].revents # "none" /\ fds'[k].fd = g
      BY <1>2, <1>4 DEF DueAhead
    <2>1. g \in due <=> \E k \in 1 .. n : k >= i /\ fds[k].revents # "none" /\ fds[k].fd = g
      BY <1>1 DEF ChatIInv, DueAhead
    <2>2. \A j \in 1 .. n : j # i => (home(j) >= i <=> j >= i)
      BY <1>1
    <2>3. g \in due' <=> \E j \in 1 .. n : j # i /\ j >= i /\ fds[j].revents # "none" /\ fds[j].fd = g
      BY <1>1, <1>2, <1>7, <2>1
    <2> DEFINE Stays(j) == j # i /\ j >= i /\ fds[j].revents # "none" /\ fds[j].fd = g
               There(k) == k >= i /\ fds'[k].revents # "none" /\ fds'[k].fd = g
    <2> HIDE DEF home
    <2>4. \A j \in 1 .. n : Stays(j) => home(j) \in 1 .. n - 1 /\ There(home(j))
      BY <1>5, <2>2
    <2>5. \A k \in 1 .. n - 1 : There(k) => \E j \in 1 .. n : Stays(j)
      <3> SUFFICES ASSUME NEW k \in 1 .. n - 1, There(k) PROVE \E j \in 1 .. n : Stays(j)
        OBVIOUS
      <3>1. PICK j \in 1 .. n : j # i /\ home(j) = k /\ fds'[k] = fds[j]
        BY <1>6
      <3> QED BY <2>2, <3>1
    <2> HIDE DEF There
    <2>6. (\E j \in 1 .. n : Stays(j)) <=> \E k \in 1 .. n - 1 : There(k)
      <3> HIDE DEF Stays
      <3> QED BY <2>4, <2>5
    <2> QED BY <2>3, <2>6 DEF There
  <1> QED BY <1>8, <1>9, <1>10, <1>11, <1>12 DEF ChatIInv

-----------------------------------------------------------------------------

\* The invariant of the chat server is inductive.
LEMMA NextChatIInv == ASSUME ChatIInv, [Chat!Next]_chatVars PROVE ChatIInv'
  <1>1. CASE Chat!ClientLeft \/ Chat!ReceiveFails
    <2>1. i \in 1 .. Len(fds) /\ Chat!Remove
      BY <1>1 DEF Chat!ClientLeft, Chat!ReceiveFails, Chat!At, Chat!user_counter
    <2> QED BY <2>1, RemoveKeeps
  <1> QED BY <1>1, OutsideKeeps, PollKeeps, NewUserKeepsTable, RefuseKeeps, PassKeeps, ReceiveKeeps,
             RoundEndsKeeps DEF Chat!Next, Chat!Server

\* The cardinality of the instance is that of this module.
LEMMA SameCardinality == ASSUME NEW S PROVE Chat!Cardinality(S) = Cardinality(S)
  BY DEF Chat!Cardinality, Cardinality

\* What the table and the list of what is due are for the loop.
LEMMA ChatIInvImplies == ChatIInv => EntriesInv
  <1> SUFFICES ASSUME ChatIInv PROVE EntriesInv
    OBVIOUS
  <1> DEFINE n == Len(fds)
             to == [k \in 1 .. n |-> fds[k].fd]
  <1>1. n \in Nat /\ DOMAIN fds = 1 .. n /\ n <= USER_LIMIT
    BY DEF ChatIInv, ChatTypes
  <1>2. \A k \in 1 .. n : fds[k].fd \in Fds
    BY EntryIs DEF ChatIInv
  <1>3. Chat!Listed = {f \in Fds : peer[f] # "none"}
    BY <1>1, <1>2 DEF ChatIInv, OpenIsListed, Chat!Listed
  <1>4. Chat!Cardinality(Chat!Listed) = n
    <2>1. to \in Bijection(1 .. n, Chat!Listed)
      BY <1>1 DEF ChatIInv, OneEntry, Chat!Listed, Bijection, Injection, Surjection, IsInjective
    <2>2. ExistsBijection(1 .. n, Chat!Listed)
      BY <2>1 DEF ExistsBijection
    <2>3. Cardinality(Chat!Listed) = n
      BY <1>1, <2>2, FS_CountingElements
    <2> QED BY <2>3, SameCardinality
  <1>5. Chat!Consistent
    BY <1>1, <1>3, <1>4 DEF ChatIInv, AllHaveText, Chat!Consistent, Chat!user_counter, Fds
  <1>6. Chat!VisitedOnce
    <2> SUFFICES ASSUME i # 0
                 PROVE  due = {fds[k].fd : k \in {k \in i .. n : fds[k].revents # "none"}}
      BY DEF Chat!VisitedOnce, Chat!user_counter
    <2>1. i \in Nat /\ \A k : k \in i .. n <=> k \in 1 .. n /\ k >= i
      BY <1>1 DEF ChatIInv, ChatTypes
    <2>2. \A f : f \in due <=> \E k \in 1 .. n : k >= i /\ fds[k].revents # "none" /\ fds[k].fd = f
      BY DEF ChatIInv, DueAhead
    <2>3. \A f : f \in due <=> f \in {fds[k].fd : k \in {k \in i .. n : fds[k].revents # "none"}}
      BY <2>1, <2>2
    <2> QED BY <2>3
  <1> QED BY <1>5, <1>6 DEF EntriesInv, Chat!EntriesInv

\* The table of the chat server that polls is that of its open connections, and a
\* turn of its loop looks once at each that poll reported, for any number of
\* clients (ChatRoom/server.c 78-171).
THEOREM EntriesInvariant == MCSpec => []EntriesInv
  <1>1. MCInit => ChatIInv
    BY ChatInit DEF MCInit
  <1>2. ChatIInv /\ [MCNext]_everything => ChatIInv'
    <2>1. [MCNext]_everything => [Chat!Next]_chatVars
      BY DEF MCNext, WebStep, ChatStep, HttpStep, everything
    <2> QED BY <2>1, NextChatIInv
  <1> QED BY <1>1, <1>2, ChatIInvImplies, PTL DEF MCSpec

-----------------------------------------------------------------------------
(* The web server: sequences of units, as they are read and dropped. *)

AllUnits == Nat \X {"line", "fields", "end", "body"}

\* Sequences with the same members are the same.
LEMMA SameSequence ==
  ASSUME NEW X, NEW s \in Seq(X), NEW t \in Seq(X), Len(s) = Len(t),
         \A j \in 1 .. Len(s) : s[j] = t[j]
  PROVE  s = t
  OBVIOUS

\* What is left when k members are taken off the front ...
LEMMA DropIs ==
  ASSUME NEW X, NEW s \in Seq(X), NEW k \in 0 .. Len(s)
  PROVE  /\ SubSeq(s, k + 1, Len(s)) \in Seq(X) /\ Len(SubSeq(s, k + 1, Len(s))) = Len(s) - k
         /\ \A j \in 1 .. Len(s) - k : SubSeq(s, k + 1, Len(s))[j] = s[j + k]
  OBVIOUS

\* ... what has been taken ...
LEMMA TakeIs ==
  ASSUME NEW X, NEW s \in Seq(X), NEW k \in 0 .. Len(s)
  PROVE  /\ SubSeq(s, 1, k) \in Seq(X) /\ Len(SubSeq(s, 1, k)) = k
         /\ \A j \in 1 .. k : SubSeq(s, 1, k)[j] = s[j]
  OBVIOUS

\* ... and what two sequences are together.
LEMMA ConcatIs ==
  ASSUME NEW X, NEW s \in Seq(X), NEW t \in Seq(X), NEW st, st = s \o t
  PROVE  /\ st \in Seq(X) /\ Len(st) = Len(s) + Len(t)
         /\ \A j \in 1 .. Len(s) : st[j] = s[j]
         /\ \A j \in 1 .. Len(t) : st[j + Len(s)] = t[j]
  OBVIOUS

\* The request lines in a sequence of units are those of later and later requests ...
LinesGrow(s) ==
  \A j, k \in 1 .. Len(s) : j < k /\ s[j][2] = "line" /\ s[k][2] = "line" => s[j][1] < s[k][1]

\* ... which come behind request a, up to b.
LinesWithin(s, a, b) == \A k \in 1 .. Len(s) : s[k][2] = "line" => a < s[k][1] /\ s[k][1] <= b

\* Both hold of what is left when units are taken off the front, and a first one
\* that is a request line is older than the lines behind it.
LEMMA DropLines ==
  ASSUME NEW s \in Seq(AllUnits), NEW k \in 0 .. Len(s), NEW a \in Nat, NEW b \in Nat,
         LinesGrow(s), LinesWithin(s, a, b), NEW t \in {SubSeq(s, k + 1, Len(s))}
  PROVE  /\ t \in Seq(AllUnits) /\ Len(t) = Len(s) - k
         /\ LinesGrow(t) /\ LinesWithin(t, a, b)
         /\ k # 0 /\ s[1][2] = "line" => LinesWithin(t, s[1][1], b)
  <1>1. t \in Seq(AllUnits) /\ Len(t) = Len(s) - k /\ \A j \in 1 .. Len(s) - k : t[j] = s[j + k]
    <2>1. t = SubSeq(s, k + 1, Len(s))
      OBVIOUS
    <2> QED BY <2>1, DropIs
  <1>2. Len(s) \in Nat /\ k \in Nat /\ \A j \in 1 .. Len(s) - k : j + k \in 1 .. Len(s)
    OBVIOUS
  <1>3. LinesWithin(t, a, b)
    BY <1>1, <1>2 DEF LinesWithin
  <1>4. LinesGrow(t)
    <2> SUFFICES ASSUME NEW j \in 1 .. Len(s) - k, NEW l \in 1 .. Len(s) - k,
                        j < l, t[j][2] = "line", t[l][2] = "line"
                 PROVE  t[j][1] < t[l][1]
      BY <1>1 DEF LinesGrow
    <2>1. j + k < l + k
      BY <1>2
    <2> QED BY <1>1, <1>2, <2>1 DEF LinesGrow
  <1>5. ASSUME k # 0, s[1][2] = "line" PROVE LinesWithin(t, s[1][1], b)
    <2> SUFFICES ASSUME NEW j \in 1 .. Len(s) - k, t[j][2] = "line"
                 PROVE  s[1][1] < t[j][1] /\ t[j][1] <= b
      BY <1>1 DEF LinesWithin
    <2>1. 1 < j + k
      BY <1>2, <1>5
    <2>2. 1 \in 1 .. Len(s)
      BY <1>2, <1>5
    <2> QED BY <1>1, <1>2, <1>5, <2>1, <2>2 DEF LinesGrow, LinesWithin
  <1> QED BY <1>1, <1>3, <1>4, <1>5

\* What is dropped from the buffer is dropped from all that is to come.
LEMMA DropFirst ==
  ASSUME NEW X, NEW b \in Seq(X), NEW w \in Seq(X), NEW k \in 0 .. Len(b)
  PROVE  SubSeq(b, k + 1, Len(b)) \o w = SubSeq(b \o w, k + 1, Len(b \o w))
  <1> DEFINE s == SubSeq(b, k + 1, Len(b))
             bw == b \o w
             sw == s \o w
             t == SubSeq(bw, k + 1, Len(bw))
             m == Len(b)
             n == Len(w)
  <1>1. m \in Nat /\ n \in Nat /\ k \in 0 .. m
    OBVIOUS
  <1>2. s \in Seq(X) /\ Len(s) = m - k /\ \A j \in 1 .. m - k : s[j] = b[j + k]
    BY DropIs
  <1>3. bw \in Seq(X) /\ Len(bw) = m + n
        /\ (\A j \in 1 .. m : bw[j] = b[j]) /\ \A j \in 1 .. n : bw[j + m] = w[j]
    BY ConcatIs
  <1> HIDE DEF s, bw
  <1>4. sw \in Seq(X) /\ Len(sw) = m - k + n
        /\ (\A j \in 1 .. m - k : sw[j] = s[j]) /\ \A j \in 1 .. n : sw[j + (m - k)] = w[j]
    <2>1. sw \in Seq(X) /\ Len(sw) = Len(s) + Len(w)
          /\ (\A j \in 1 .. Len(s) : sw[j] = s[j]) /\ \A j \in 1 .. Len(w) : sw[j + Len(s)] = w[j]
      <3>1. s \in Seq(X) /\ w \in Seq(X) /\ sw = s \o w
        BY <1>2
      <3> HIDE DEF sw
      <3> QED BY <3>1, ConcatIs
    <2> HIDE DEF sw, m
    <2> QED BY <1>2, <2>1
  <1> HIDE DEF m, n
  <1>5. t \in Seq(X) /\ Len(t) = m + n - k /\ \A j \in 1 .. m + n - k : t[j] = bw[j + k]
    <2>1. k \in 0 .. Len(bw)
      BY <1>1, <1>3
    <2>2. t \in Seq(X) /\ Len(t) = Len(bw) - k /\ \A j \in 1 .. Len(bw) - k : t[j] = bw[j + k]
      BY <1>3, <2>1, DropIs
    <2>3. Len(bw) - k = m + n - k
      BY <1>1, <1>3
    <2> HIDE DEF t
    <2> QED BY <2>2, <2>3
  <1> HIDE DEF sw, t
  <1>6. ASSUME NEW j \in 1 .. m + n - k PROVE sw[j] = t[j]
    <2>1. CASE j <= m - k
      <3>1. j \in 1 .. m - k /\ j + k \in 1 .. m
        BY <1>1, <2>1
      <3> QED BY <1>2, <1>3, <1>4, <1>5, <3>1
    <2>2. CASE j > m - k
      <3> DEFINE l == j - (m - k)
      <3>1. l \in 1 .. n /\ l + (m - k) = j /\ l + m = j + k
        BY <1>1, <2>2
      <3> HIDE DEF l
      <3>2. sw[j] = w[l] /\ bw[j + k] = w[l] /\ t[j] = bw[j + k]
        BY <1>3, <1>4, <1>5, <3>1
      <3> QED BY <3>2
    <2> QED BY <1>1, <2>1, <2>2
  <1>7. Len(sw) = Len(t) /\ Len(sw) = m + n - k
    BY <1>1, <1>4, <1>5
  <1>8. sw = t
    BY <1>4, <1>5, <1>6, <1>7, SameSequence
  <1> QED BY <1>8 DEF sw, t, s, bw

\* It does not matter which of three sequences are joined first.
LEMMA Associative ==
  ASSUME NEW b \in Seq(AllUnits), NEW u \in Seq(AllUnits), NEW v \in Seq(AllUnits)
  PROVE  (b \o u) \o v = b \o (u \o v)
  BY ConcatAssociative

\* A read moves units only.
LEMMA MoveFirst ==
  ASSUME NEW b \in Seq(AllUnits), NEW w \in Seq(AllUnits), NEW k \in 1 .. Len(w)
  PROVE  /\ SubSeq(w, 1, k) \in Seq(AllUnits) /\ SubSeq(w, k + 1, Len(w)) \in Seq(AllUnits)
         /\ (b \o SubSeq(w, 1, k)) \o SubSeq(w, k + 1, Len(w)) = b \o w
  <1> DEFINE u == SubSeq(w, 1, k)
             v == SubSeq(w, k + 1, Len(w))
  <1>1. u \in Seq(AllUnits) /\ v \in Seq(AllUnits) /\ b \in Seq(AllUnits)
    OBVIOUS
  <1>2. u \o v = w
    <2>1. Len(w) \in Nat /\ k \in 0 .. Len(w) /\ 1 \in 1 .. Len(w) + 1 /\ k \in (1 - 1) .. Len(w)
          /\ Len(w) \in k .. Len(w)
      OBVIOUS
    <2>2. SubSeq(w, 1, k) \o SubSeq(w, k + 1, Len(w)) = SubSeq(w, 1, Len(w))
      BY <2>1, ConcatAdjacentSubSeq
    <2> QED BY <2>2, SubSeqFull
  <1> HIDE DEF u, v
  <1>3. (b \o u) \o v = b \o (u \o v)
    BY <1>1, Associative
  <1> QED BY <1>1, <1>2, <1>3 DEF u, v

-----------------------------------------------------------------------------
(* The web server: what holds of one connection, of the requests s of its  *)
(* client, what is on the wire and in the buffer, the operation o, what it *)
(* still needs, the request n that is served and the replies r.            *)

\* A length no request's content exceeds.
Most == CHOOSE most \in 0 .. SizeMod :
          /\ \A q \in Requests : BodyLength(q) <= most
          /\ MaxRequests * (most + 3) < SizeMod

Last(r) == IF r = <<>> THEN 0 ELSE r[Len(r)][1]

Serving(o) == o \in {"body", "write"}
Latest(o, n, r) == IF Serving(o) THEN n ELSE Last(r)

ConnTypes(s, w, b, m, n, r) ==
  /\ s \in Seq(Requests) /\ w \in Seq(AllUnits) /\ b \in Seq(AllUnits)
  /\ m \in Nat /\ n \in Nat /\ r \in Seq(Nat \X Nat)

\* What is served is newer than what has been answered, and the client has asked it.
InOrder(s, o, n, r) ==
  /\ Last(r) \in 0 .. Len(s)
  /\ Serving(o) => n \in Last(r) + 1 .. Len(s)

\* What is still to be read begins requests that are newer yet, one after the other.
NewerAhead(s, w, o, b, n, r) ==
  LinesGrow(b \o w) /\ LinesWithin(b \o w, Latest(o, n, r), Len(s))

\* The content is what is left of the head and the length says, or is waited for in
\* vain.
ContentKnown(s, o, b, m, n) ==
  /\ o = "body" => /\ s[n].length \notin {NoLength, BadLength}
                   /\ \/ Len(b) + m = s[n].rest + s[n].length
                      \/ Len(b) + m = s[n].rest + s[n].length + SizeMod
  /\ o = "write" => (IF s[n].resource = "string" THEN Len(b) ELSE 0) = Wanted(s[n])

Counted(s, w, b) == Len(s) <= MaxRequests /\ Len(b \o w) <= Len(s) * (Most + 3)

Conn(s, w, o, b, m, n, r) ==
  /\ ConnTypes(s, w, b, m, n, r) /\ InOrder(s, o, n, r) /\ NewerAhead(s, w, o, b, n, r)
  /\ ContentKnown(s, o, b, m, n) /\ Counted(s, w, b)

\* What the assumption says of numbers and requests.
LEMMA WebConstants ==
  /\ Most \in Nat /\ MaxRequests \in Nat /\ SizeMod \in Nat \ {0}
  /\ MaxRequests * (Most + 3) < SizeMod
  /\ \A q \in Requests :
       /\ BodyLength(q) \in 0 .. Most /\ q.rest \in 0 .. 1 /\ Wanted(q) \in Nat
       /\ q.length \notin {NoLength, BadLength} => BodyLength(q) = q.length
  <1> DEFINE Fits(most) == /\ \A q \in Requests : BodyLength(q) <= most
                           /\ MaxRequests * (most + 3) < SizeMod
  <1>1. MaxRequests \in Nat /\ SizeMod \in Nat \ {0} /\ \E most \in 0 .. SizeMod : Fits(most)
    BY WebAssumption
  <1>2. Most \in 0 .. SizeMod /\ Fits(Most)
    BY <1>1 DEF Most
  <1>3. Most \in Nat
    BY <1>1, <1>2
  <1>4. ASSUME NEW q \in Requests
        PROVE  /\ BodyLength(q) \in Nat /\ q.rest \in 0 .. 1
               /\ q.length \notin {NoLength, BadLength} => BodyLength(q) = q.length
    BY WebAssumption DEF BodyLength
  <1>5. ASSUME NEW q \in Requests PROVE Wanted(q) \in Nat
    BY <1>4 DEF Wanted
  <1> QED BY <1>1, <1>2, <1>3, <1>4, <1>5

\* No connection holds as many units as there are numbers of that type.
LEMMA Room ==
  ASSUME NEW s \in Seq(Requests), NEW w \in Seq(AllUnits), NEW b \in Seq(AllUnits), Counted(s, w, b)
  PROVE  Len(b) + Len(w) < SizeMod /\ (Len(s) # 0 => Most + 3 < SizeMod)
  <1> DEFINE u == Most + 3
             l == Len(s)
  <1>1. u \in Nat /\ l \in Nat /\ MaxRequests \in Nat /\ l <= MaxRequests /\ MaxRequests * u < SizeMod
        /\ SizeMod \in Nat
    BY WebConstants DEF Counted
  <1>2. Len(b \o w) = Len(b) + Len(w)
    BY ConcatIs
  <1>3. Len(b) + Len(w) <= l * u
    BY <1>2 DEF Counted
  <1> HIDE DEF u, l
  <1>4. l * u <= MaxRequests * u
    <2>1. (MaxRequests - l) \in Nat /\ (MaxRequests - l) * u \in Nat
      BY <1>1
    <2>2. MaxRequests * u = l * u + (MaxRequests - l) * u
      BY <1>1
    <2>3. l * u \in Nat /\ MaxRequests * u \in Nat
      BY <1>1
    <2> QED BY <2>1, <2>2, <2>3
  <1>5. l # 0 => u <= l * u
    <2> SUFFICES ASSUME l # 0 PROVE u <= l * u
      OBVIOUS
    <2>1. (l - 1) \in Nat /\ (l - 1) * u \in Nat
      BY <1>1
    <2>2. l * u = u + (l - 1) * u
      BY <1>1
    <2> QED BY <1>1, <2>1, <2>2
  <1>6. l * u \in Nat /\ MaxRequests * u \in Nat /\ Len(b) + Len(w) \in Nat
    BY <1>1
  <1>7. Len(b) + Len(w) < SizeMod /\ (l # 0 => u < SizeMod)
    <2> DEFINE lu == l * u
               mu == MaxRequests * u
               bw == Len(b) + Len(w)
    <2>1. lu \in Nat /\ mu \in Nat /\ bw \in Nat /\ SizeMod \in Nat /\ u \in Nat
      BY <1>1, <1>6
    <2>2. bw <= lu /\ lu <= mu /\ mu < SizeMod /\ (l # 0 => u <= lu)
      BY <1>1, <1>3, <1>4, <1>5
    <2> HIDE DEF lu, mu, bw
    <2>3. bw < SizeMod /\ (l # 0 => u < SizeMod)
      BY <2>1, <2>2
    <2> QED BY <2>3 DEF bw
  <1> QED BY <1>7 DEF u, l

\* What the subtraction of sizes gives.
LEMMA ModIs ==
  ASSUME NEW x \in Int, 0 - SizeMod < x, x < SizeMod
  PROVE  x % SizeMod \in Nat /\ (x % SizeMod = x \/ x % SizeMod = x + SizeMod)
  <1> DEFINE q == x \div SizeMod
             z == x % SizeMod
  <1>1. SizeMod \in Nat \ {0}
    BY WebConstants
  <1>2. x = q * SizeMod + z /\ z \in 0 .. SizeMod - 1 /\ q \in Int
    BY <1>1
  <1> HIDE DEF q, z
  <1>3. q < 1
    <2> SUFFICES ASSUME q >= 1 PROVE FALSE
      BY <1>2
    <2>1. (q - 1) \in Nat /\ (q - 1) * SizeMod \in Nat
      BY <1>1, <1>2
    <2>2. q * SizeMod = SizeMod + (q - 1) * SizeMod
      BY <1>1, <1>2
    <2> QED BY <1>1, <1>2, <2>1, <2>2
  <1>4. q > 0 - 2
    <2> SUFFICES ASSUME q <= 0 - 2 PROVE FALSE
      BY <1>2
    <2>1. (0 - 2 - q) \in Nat /\ (0 - 2 - q) * SizeMod \in Nat
      BY <1>1, <1>2
    <2>2. q * SizeMod = 0 - 2 * SizeMod - (0 - 2 - q) * SizeMod
      BY <1>1, <1>2
    <2> QED BY <1>1, <1>2, <2>1, <2>2
  <1>5. q = 0 \/ q = 0 - 1
    BY <1>2, <1>3, <1>4
  <1>6. z = x \/ z = x + SizeMod
    BY <1>1, <1>2, <1>5
  <1> QED BY <1>2, <1>6 DEF z

-----------------------------------------------------------------------------
(* The web server: what becomes of a connection, step by step. *)

\* The units of one request: its line, and others.
LEMMA UnitsAre ==
  ASSUME NEW k \in Nat, NEW q \in Requests
  PROVE  /\ Units(k, q) \in Seq(AllUnits) /\ Len(Units(k, q)) = 3 + BodyLength(q)
         /\ \A j \in 1 .. 3 + BodyLength(q) :
              Units(k, q)[j][2] = "line" => j = 1 /\ Units(k, q)[j][1] = k
  <1> DEFINE head == <<<<k, "line">>, <<k, "fields">>, <<k, "end">>>>
             l == BodyLength(q)
             body == [j \in 1 .. l |-> <<k, "body">>]
             all == Units(k, q)
  <1>1. l \in Nat
    BY WebConstants
  <1>2. head \in Seq(AllUnits) /\ Len(head) = 3 /\ head[1] = <<k, "line">> /\ head[2] = <<k, "fields">>
        /\ head[3] = <<k, "end">>
    BY DEF AllUnits
  <1> HIDE DEF l
  <1>3. body \in Seq(AllUnits) /\ Len(body) = l /\ \A j \in 1 .. l : body[j] = <<k, "body">>
    BY <1>1 DEF AllUnits
  <1>4. all = head \o body
    BY DEF Units, l
  <1> HIDE DEF head, body, all
  <1>5. /\ all \in Seq(AllUnits) /\ Len(all) = Len(head) + Len(body)
        /\ \A j \in 1 .. Len(head) : all[j] = head[j]
        /\ \A j \in 1 .. Len(body) : all[j + Len(head)] = body[j]
    <2>1. head \in Seq(AllUnits) /\ body \in Seq(AllUnits) /\ all = head \o body
      BY <1>2, <1>3, <1>4
    <2> QED BY <2>1, ConcatIs
  <1>6. Len(all) = 3 + l /\ all[1] = <<k, "line">> /\ all[2] = <<k, "fields">>
        /\ all[3] = <<k, "end">>
    BY <1>1, <1>2, <1>3, <1>5
  <1>7. ASSUME NEW j \in 1 .. 3 + l, all[j][2] = "line" PROVE j = 1 /\ all[j][1] = k
    <2>1. CASE j > 3
      <3>1. j - 3 \in 1 .. l /\ j - 3 + 3 = j
        BY <1>1, <2>1
      <3>2. all[j] = <<k, "body">>
        BY <1>2, <1>3, <1>5, <3>1
      <3> QED BY <1>7, <3>2
    <2>2. CASE j \in 2 .. 3
      BY <1>6, <1>7, <2>2
    <2>3. CASE j = 1
      BY <1>6, <2>3
    <2> QED BY <1>1, <2>1, <2>2, <2>3
  <1> QED BY <1>5, <1>6, <1>7 DEF l, all

\* The client asks.
LEMMA AskConn ==
  ASSUME NEW s, NEW w, NEW o, NEW b, NEW m, NEW n, NEW r, Conn(s, w, o, b, m, n, r),
         NEW q \in Requests, Len(s) < MaxRequests
  PROVE  Conn(Append(s, q), w \o Units(Len(s) + 1, q), o, b, m, n, r)
  <1> DEFINE t == Append(s, q)
             u == Units(Len(s) + 1, q)
             bw == b \o w
             bwu == b \o (w \o u)
             l == BodyLength(q)
  <1>1. ConnTypes(s, w, b, m, n, r) /\ Len(s) \in Nat
    BY DEF Conn, ConnTypes
  <1>2. t \in Seq(Requests) /\ Len(t) = Len(s) + 1 /\ \A j \in 1 .. Len(s) : t[j] = s[j]
    BY <1>1 DEF ConnTypes
  <1>3. /\ u \in Seq(AllUnits) /\ Len(u) = 3 + l /\ l \in 0 .. Most
        /\ \A j \in 1 .. 3 + l : u[j][2] = "line" => j = 1 /\ u[j][1] = Len(s) + 1
    <2>1. l \in 0 .. Most
      BY WebConstants
    <2>2. Len(s) + 1 \in Nat
      BY <1>1
    <2> QED BY <2>1, <2>2, UnitsAre
  <1> HIDE DEF t, u, l
  <1>4. w \o u \in Seq(AllUnits) /\ bwu = bw \o u
    <2>1. b \in Seq(AllUnits) /\ w \in Seq(AllUnits)
      BY <1>1 DEF ConnTypes
    <2>2. w \o u \in Seq(AllUnits)
      BY <1>3, <2>1, ConcatProperties
    <2>3. (b \o w) \o u = b \o (w \o u)
      <3>1. u \in Seq(AllUnits)
        BY <1>3
      <3> QED BY <2>1, <3>1, Associative
    <2> QED BY <2>2, <2>3
  <1>5. bw \in Seq(AllUnits)
    BY <1>1 DEF ConnTypes
  <1> HIDE DEF bw, bwu
  <1>6. /\ bwu \in Seq(AllUnits) /\ Len(bwu) = Len(bw) + Len(u)
        /\ \A j \in 1 .. Len(bw) : bwu[j] = bw[j]
        /\ \A j \in 1 .. Len(u) : bwu[j + Len(bw)] = u[j]
    <2>1. bw \in Seq(AllUnits) /\ u \in Seq(AllUnits) /\ bwu = bw \o u
      BY <1>3, <1>4, <1>5
    <2> QED BY <2>1, ConcatIs
  <1>7. Len(bw) \in Nat /\ LinesGrow(bw) /\ LinesWithin(bw, Latest(o, n, r), Len(s))
    BY <1>5 DEF Conn, NewerAhead, bw
  \* The units that are new are behind the others, and of the newest request.
  <1>8. ASSUME NEW j \in 1 .. Len(bwu), bwu[j][2] = "line"
        PROVE  \/ j \in 1 .. Len(bw) /\ bwu[j] = bw[j]
               \/ j = Len(bw) + 1 /\ bwu[j][1] = Len(s) + 1
    <2>1. CASE j <= Len(bw)
      BY <1>6, <1>7, <2>1
    <2>2. CASE j > Len(bw)
      <3>1. j - Len(bw) \in 1 .. 3 + l /\ j - Len(bw) + Len(bw) = j
        BY <1>3, <1>6, <1>7, <2>2
      <3>2. bwu[j] = u[j - Len(bw)]
        BY <1>3, <1>6, <3>1
      <3>3. j - Len(bw) = 1 /\ bwu[j][1] = Len(s) + 1
        BY <1>3, <1>8, <3>1, <3>2
      <3> QED BY <1>7, <3>3
    <2> QED BY <1>6, <1>7, <2>1, <2>2
  <1>9. Latest(o, n, r) \in 0 .. Len(s)
    BY <1>1 DEF Conn, InOrder, Latest, ConnTypes
  <1>10. LinesWithin(bwu, Latest(o, n, r), Len(t))
    <2> SUFFICES ASSUME NEW j \in 1 .. Len(bwu), bwu[j][2] = "line"
                 PROVE  Latest(o, n, r) < bwu[j][1] /\ bwu[j][1] <= Len(s) + 1
      BY <1>2 DEF LinesWithin
    <2>1. CASE j \in 1 .. Len(bw) /\ bwu[j] = bw[j]
      <3>1. Latest(o, n, r) < bw[j][1] /\ bw[j][1] <= Len(s)
        BY <1>7, <2>1 DEF LinesWithin
      <3>2. bw[j][1] \in Nat
        BY <1>5, <2>1 DEF AllUnits
      <3> QED BY <1>1, <2>1, <3>1, <3>2
    <2>2. CASE bwu[j][1] = Len(s) + 1
      BY <1>1, <1>9, <2>2
    <2> QED BY <1>8, <2>1, <2>2
  <1>11. LinesGrow(bwu)
    <2> SUFFICES ASSUME NEW j \in 1 .. Len(bwu), NEW k \in 1 .. Len(bwu),
                        j < k, bwu[j][2] = "line", bwu[k][2] = "line"
                 PROVE  bwu[j][1] < bwu[k][1]
      BY DEF LinesGrow
    <2>1. j \in 1 .. Len(bw) /\ bwu[j] = bw[j]
      BY <1>6, <1>7, <1>8
    <2>2. CASE k \in 1 .. Len(bw) /\ bwu[k] = bw[k]
      BY <1>7, <2>1, <2>2 DEF LinesGrow
    <2>3. CASE bwu[k][1] = Len(s) + 1
      <3>1. bw[j][1] <= Len(s) /\ bw[j][1] \in Nat
        <4>1. bw[j] \in AllUnits
          BY <1>5, <2>1
        <4> QED BY <1>7, <2>1, <4>1 DEF LinesWithin, AllUnits
      <3> QED BY <1>1, <2>1, <2>3, <3>1
    <2> QED BY <1>8, <2>2, <2>3
  <1>12. InOrder(t, o, n, r)
    BY <1>1, <1>2 DEF Conn, InOrder, ConnTypes
  <1>13. ContentKnown(t, o, b, m, n)
    <2>1. Serving(o) => t[n] = s[n]
      BY <1>1, <1>2 DEF Conn, InOrder, ConnTypes
    <2> QED BY <2>1 DEF Conn, ContentKnown, Serving
  <1>14. Len(t) <= MaxRequests /\ Len(bwu) <= Len(t) * (Most + 3)
    <2> DEFINE x == Most + 3
    <2>1. x \in Nat /\ MaxRequests \in Nat /\ Len(u) <= x /\ Len(u) \in Nat
      BY <1>3, WebConstants
    <2>2. Len(bw) <= Len(s) * x
      BY DEF Conn, Counted, bw
    <2> HIDE DEF x
    <2>3. (Len(s) + 1) * x = Len(s) * x + x /\ Len(s) * x \in Nat
      BY <1>1, <2>1
    <2>4. Len(bwu) <= (Len(s) + 1) * x
      BY <1>6, <1>7, <2>1, <2>2, <2>3
    <2> QED BY <1>1, <1>2, <2>1, <2>4 DEF x
  <1>15. ConnTypes(t, w \o u, b, m, n, r)
    BY <1>1, <1>2, <1>4 DEF ConnTypes
  <1> QED BY <1>10, <1>11, <1>12, <1>13, <1>14, <1>15 DEF Conn, NewerAhead, Counted, bwu, t, u

\* The server reads on, into the same buffer.
LEMMA ReadConn ==
  ASSUME NEW s, NEW w, NEW o, NEW b, NEW m, NEW n, NEW r, Conn(s, w, o, b, m, n, r),
         NEW k \in 1 .. Len(w), NEW l,
         (o = "head" /\ l = m) \/ (o = "body" /\ k <= m /\ l = m - k)
  PROVE  Conn(s, SubSeq(w, k + 1, Len(w)), o, b \o SubSeq(w, 1, k), l, n, r)
  <1> DEFINE u == SubSeq(w, 1, k)
             v == SubSeq(w, k + 1, Len(w))
  <1>1. ConnTypes(s, w, b, m, n, r) /\ b \in Seq(AllUnits) /\ w \in Seq(AllUnits)
    BY DEF Conn, ConnTypes
  <1>2. u \in Seq(AllUnits) /\ v \in Seq(AllUnits) /\ (b \o u) \o v = b \o w
    <2> HIDE DEF u, v
    <2> QED BY <1>1, MoveFirst DEF u, v
  <1>3. Len(u) = k
    BY <1>1, TakeIs
  <1> HIDE DEF u, v
  <1>4. b \o u \in Seq(AllUnits) /\ Len(b \o u) = Len(b) + k
    BY <1>1, <1>2, <1>3, ConcatProperties
  <1>5. l \in Nat /\ k \in Nat /\ m \in Nat /\ Len(b) \in Nat
    BY <1>1 DEF ConnTypes
  <1>6. ConnTypes(s, v, b \o u, l, n, r)
    BY <1>1, <1>2, <1>4, <1>5 DEF ConnTypes
  <1>7. ContentKnown(s, o, b \o u, l, n)
    <2>1. CASE o = "head"
      BY <2>1 DEF ContentKnown
    <2>2. CASE o = "body" /\ k <= m /\ l = m - k
      <3>1. Len(b \o u) + l = Len(b) + m
        BY <1>4, <1>5, <2>2
      <3> QED BY <2>2, <3>1 DEF Conn, ContentKnown
    <2> QED BY <2>1, <2>2
  <1>8. NewerAhead(s, v, o, b \o u, n, r) /\ Counted(s, v, b \o u) /\ InOrder(s, o, n, r)
    BY <1>2 DEF Conn, NewerAhead, Counted
  <1> QED BY <1>6, <1>7, <1>8 DEF Conn, u, v

\* An operation that is neither of the two that serve a request.
LEMMA OtherConn ==
  ASSUME NEW s, NEW w, NEW o, NEW b, NEW m, NEW n, NEW r, Conn(s, w, o, b, m, n, r),
         NEW p, ~ Serving(p)
  PROVE  Conn(s, w, p, b, m, n, r)
  <1>1. ConnTypes(s, w, b, m, n, r) /\ b \in Seq(AllUnits) /\ w \in Seq(AllUnits) /\ Len(s) \in Nat
    BY DEF Conn, ConnTypes
  <1>2. InOrder(s, p, n, r)
    BY DEF Conn, InOrder
  <1>3. Last(r) <= Latest(o, n, r) /\ Last(r) \in Nat /\ Latest(o, n, r) \in Nat
    BY <1>1 DEF Conn, InOrder, Latest, ConnTypes
  <1>4. LinesWithin(b \o w, Latest(p, n, r), Len(s))
    <2> DEFINE bw == b \o w
    <2>1. bw \in Seq(AllUnits)
      BY <1>1, ConcatProperties
    <2>2. LinesWithin(bw, Latest(o, n, r), Len(s))
      BY DEF Conn, NewerAhead
    <2> HIDE DEF bw
    <2>3. LinesWithin(bw, Last(r), Len(s))
      <3> SUFFICES ASSUME NEW k \in 1 .. Len(bw), bw[k][2] = "line"
                   PROVE  Last(r) < bw[k][1] /\ bw[k][1] <= Len(s)
        BY DEF LinesWithin
      <3>1. Latest(o, n, r) < bw[k][1] /\ bw[k][1] <= Len(s)
        BY <2>2 DEF LinesWithin
      <3>2. bw[k] \in AllUnits
        BY <2>1
      <3>3. bw[k][1] \in Nat
        BY <3>2 DEF AllUnits
      <3> QED BY <1>3, <3>1, <3>3
    <2> QED BY <2>3 DEF Latest, bw
  <1>5. ContentKnown(s, p, b, m, n)
    BY DEF ContentKnown, Serving
  <1> QED BY <1>1, <1>2, <1>4, <1>5 DEF Conn, NewerAhead

\* Units are taken out of the buffer: a first one that is a request line is older
\* than all that are left.
LEMMA DropConn ==
  ASSUME NEW s, NEW w, NEW o, NEW b, NEW m, NEW n, NEW r, Conn(s, w, o, b, m, n, r), ~ Serving(o),
         NEW k \in 0 .. Len(b), NEW x \in Nat, NEW c, c = SubSeq(b, k + 1, Len(b))
  PROVE  /\ Conn(s, w, o, c, m, x, r) /\ Len(c) = Len(b) - k
         /\ k # 0 /\ b[1][2] = "line" =>
              /\ b[1][1] \in Last(r) + 1 .. Len(s)
              /\ LinesWithin(c \o w, b[1][1], Len(s))
  <1>1. ConnTypes(s, w, b, m, n, r) /\ b \in Seq(AllUnits) /\ w \in Seq(AllUnits) /\ s \in Seq(Requests)
        /\ Len(s) \in Nat /\ Len(b) \in Nat /\ Len(w) \in Nat /\ k \in Nat /\ k <= Len(b)
    BY DEF Conn, ConnTypes
  <1> DEFINE bw == b \o w
             cw == c \o w
  <1>2. bw \in Seq(AllUnits) /\ Len(bw) = Len(b) + Len(w)
    BY <1>1, ConcatProperties
  <1>3. c \in Seq(AllUnits) /\ Len(c) = Len(b) - k
    BY <1>1, DropIs
  <1>4. cw = SubSeq(bw, k + 1, Len(bw))
    BY <1>1, DropFirst
  <1>5. Last(r) \in Nat /\ Latest(o, n, r) = Last(r) /\ k \in 0 .. Len(bw)
    BY <1>1, <1>2 DEF Conn, InOrder, Latest
  <1>6. LinesGrow(bw) /\ LinesWithin(bw, Last(r), Len(s))
    BY <1>5 DEF Conn, NewerAhead
  <1>7. k # 0 => 1 \in 1 .. Len(bw) /\ bw[1] = b[1] /\ bw[1] \in AllUnits
    <2> SUFFICES ASSUME k # 0 PROVE 1 \in 1 .. Len(bw) /\ bw[1] = b[1] /\ bw[1] \in AllUnits
      OBVIOUS
    <2>1. 1 \in 1 .. Len(b) /\ 1 \in 1 .. Len(bw)
      BY <1>1, <1>2
    <2>2. bw[1] = b[1]
      BY <1>1, <2>1
    <2> QED BY <1>1, <2>1, <2>2
  <1> HIDE DEF bw, cw
  <1>8. Len(cw) = Len(bw) - k /\ LinesGrow(cw) /\ LinesWithin(cw, Last(r), Len(s))
        /\ (k # 0 /\ bw[1][2] = "line" => LinesWithin(cw, bw[1][1], Len(s)))
    <2> DEFINE a == Last(r)
               l == Len(s)
    <2>1. k \in 0 .. Len(bw) /\ a \in Nat /\ l \in Nat /\ bw \in Seq(AllUnits)
          /\ LinesGrow(bw) /\ LinesWithin(bw, a, l) /\ cw \in {SubSeq(bw, k + 1, Len(bw))}
      BY <1>1, <1>2, <1>4, <1>5, <1>6
    <2> HIDE DEF a, l
    <2>2. /\ cw \in Seq(AllUnits) /\ Len(cw) = Len(bw) - k
          /\ LinesGrow(cw) /\ LinesWithin(cw, a, l)
          /\ k # 0 /\ bw[1][2] = "line" => LinesWithin(cw, bw[1][1], l)
      BY <2>1, DropLines
    <2> QED BY <2>2 DEF a, l
  <1>9. Counted(s, w, c)
    <2> DEFINE y == Len(s) * (Most + 3)
    <2>1. Len(bw) <= y /\ y \in Nat /\ Len(s) <= MaxRequests
      BY <1>1, WebConstants DEF Conn, Counted, bw
    <2> HIDE DEF y
    <2>2. Len(cw) <= y
      BY <1>1, <1>2, <1>8, <2>1
    <2> QED BY <2>1, <2>2 DEF Counted, y, cw
  <1>10. Conn(s, w, o, c, m, x, r)
    <2>1. ContentKnown(s, o, c, m, x) /\ InOrder(s, o, x, r) /\ Latest(o, x, r) = Last(r)
      BY <1>5 DEF ContentKnown, Serving, InOrder, Conn, Latest
    <2>2. ConnTypes(s, w, c, m, x, r)
      BY <1>1, <1>3 DEF ConnTypes
    <2> QED BY <1>8, <1>9, <2>1, <2>2 DEF Conn, NewerAhead, cw
  <1>11. ASSUME k # 0, b[1][2] = "line" PROVE b[1][1] \in Last(r) + 1 .. Len(s)
    <2>1. Last(r) < bw[1][1] /\ bw[1][1] <= Len(s)
      BY <1>6, <1>7, <1>11 DEF LinesWithin
    <2>2. bw[1][1] \in Nat
      BY <1>7, <1>11 DEF AllUnits
    <2> QED BY <1>1, <1>5, <1>7, <1>11, <2>1, <2>2
  <1> QED BY <1>3, <1>7, <1>8, <1>10, <1>11 DEF cw

\* A new buffer: the units in the old one are gone.
LEMMA NewBufferConn ==
  ASSUME NEW s, NEW w, NEW o, NEW b, NEW m, NEW n, NEW r, Conn(s, w, o, b, m, n, r), ~ Serving(o)
  PROVE  Conn(s, w, o, <<>>, m, n, r)
  <1> DEFINE k == Len(b)
  <1>1. k \in 0 .. Len(b) /\ k \in Nat /\ n \in Nat
    BY DEF Conn, ConnTypes
  <1>2. <<>> = SubSeq(b, k + 1, Len(b))
    BY <1>1, SubSeqEmpty
  <1> HIDE DEF k
  <1> QED BY <1>1, <1>2, DropConn

\* What respond starts.
Responds(s, n) ==
  IF n # 0 /\ s[n].resource # "none" /\ ~ (s[n].resource = "string" /\ s[n].length = NoLength)
  THEN "write" ELSE "closed"

\* The body has been read, unless the length was wrapped around: then it never is.
LEMMA BodyConn ==
  ASSUME NEW s, NEW w, NEW b, NEW n, NEW r, Conn(s, w, "body", b, 0, n, r)
  PROVE  Conn(s, w, Responds(s, n), b, 0, n, r)
  <1>1. s \in Seq(Requests) /\ n \in 1 .. Len(s) /\ b \in Seq(AllUnits) /\ w \in Seq(AllUnits)
        /\ Last(r) \in Nat
    BY DEF Conn, ConnTypes, InOrder, Serving
  <1>2. s[n] \in Requests
    BY <1>1
  <1>3. /\ s[n].length \notin {NoLength, BadLength} /\ BodyLength(s[n]) = s[n].length
        /\ s[n].length \in Nat /\ s[n].rest \in Nat
    BY <1>2, WebConstants DEF Conn, ContentKnown
  <1>4. Len(b) = s[n].rest + s[n].length
    <2> DEFINE x == s[n].rest
               y == s[n].length
    <2>1. Len(b) + Len(w) < SizeMod /\ Len(b) \in Nat /\ Len(w) \in Nat /\ SizeMod \in Nat
      BY <1>1, Room, WebConstants DEF Conn
    <2>2. Len(b) + 0 = x + y \/ Len(b) + 0 = x + y + SizeMod
      BY DEF Conn, ContentKnown
    <2>3. x \in Nat /\ y \in Nat
      BY <1>3
    <2> HIDE DEF x, y
    <2>4. Len(b) = x + y
      BY <2>1, <2>2, <2>3
    <2> QED BY <2>4 DEF x, y
  <1>5. Conn(s, w, "write", b, 0, n, r)
    <2>1. ContentKnown(s, "write", b, 0, n)
      BY <1>3, <1>4 DEF ContentKnown, Wanted
    <2>2. InOrder(s, "write", n, r) /\ NewerAhead(s, w, "write", b, n, r)
      BY DEF Conn, InOrder, NewerAhead, Latest, Serving
    <2> QED BY <2>1, <2>2 DEF Conn
  <1>6. Conn(s, w, "closed", b, 0, n, r)
    BY <1>5, OtherConn DEF Serving
  <1> QED BY <1>5, <1>6 DEF Responds

\* The end of a head lies in the buffer, at its blank line.
LEMMA HeadEndIs ==
  ASSUME NEW b \in Seq(AllUnits)
  PROVE  HeadEnd(b) \in 0 .. Len(b) /\ (HeadEnd(b) # 0 => b[HeadEnd(b)][2] = "end")
  <1> DEFINE ends == {j \in DOMAIN b : b[j][2] = "end"}
  <1>1. DOMAIN b = 1 .. Len(b) /\ Len(b) \in Nat
    OBVIOUS
  <1>2. CASE ends = {}
    BY <1>1, <1>2 DEF HeadEnd
  <1>3. CASE ends # {}
    <2>1. ends \in SUBSET Nat
      BY <1>1
    <2>2. \E j \in ends : \A k \in ends : j <= k
      BY <1>3, <2>1, LeastMember
    <2>3. HeadEnd(b) = CHOOSE j \in ends : \A k \in ends : j <= k
      BY <1>3 DEF HeadEnd
    <2> HIDE DEF ends
    <2>4. HeadEnd(b) \in ends
      BY <2>2, <2>3
    <2>5. HeadEnd(b) \in 1 .. Len(b) /\ b[HeadEnd(b)][2] = "end"
      BY <1>1, <2>4 DEF ends
    <2> QED BY <1>1, <2>5
  <1> QED BY <1>2, <1>3

\* The request a buffer begins with, the units left of its head, and what stays in
\* the buffer.
NumberIn(b) == IF b[1][2] = "line" THEN b[1][1] ELSE 0
RestOf(s, n) == IF n = 0 THEN 0 ELSE s[n].rest
Behind(b, h) == SubSeq(b, HeadEnd(b) + 1 - h, Len(b))

\* The head is taken out of the buffer, up to the first line that is no header; the
\* length less what is behind the blank line is what the body still needs, or more
\* than ever comes.
LEMMA HeadConn ==
  ASSUME NEW s, NEW w, NEW b, NEW m, NEW n, NEW r, Conn(s, w, "head", b, m, n, r), HeadEnd(b) # 0,
         NEW x, x = NumberIn(b), NEW h, h = RestOf(s, x), NEW c, c = Behind(b, h)
  PROVE  /\ Conn(s, w, "closed", c, m, x, r)
         /\ x = 0 \/ s[x].length = NoLength => Conn(s, w, Responds(s, x), c, m, x, r)
         /\ x # 0 /\ s[x].length \notin {NoLength, BadLength} =>
              Conn(s, w, "body", c, (s[x].length - (Len(b) - HeadEnd(b))) % SizeMod, x, r)
  <1> DEFINE e == HeadEnd(b)
             k == e - h
  <1>1. b \in Seq(AllUnits) /\ w \in Seq(AllUnits) /\ s \in Seq(Requests) /\ Last(r) \in Nat
        /\ Len(s) \in Nat /\ m \in Nat /\ Len(b) \in Nat
    BY DEF Conn, ConnTypes, InOrder
  <1>2. e \in 0 .. Len(b) /\ e # 0 /\ b[e][2] = "end"
    BY <1>1, HeadEndIs
  <1> HIDE DEF e
  <1>3. ~ Serving("head") /\ ~ Serving("closed") /\ Serving("body") /\ Serving("write")
    BY DEF Serving
  \* A request that was understood is one the client has made.
  <1>4. ASSUME x # 0 PROVE x \in Last(r) + 1 .. Len(s) /\ b[1][2] = "line" /\ x = b[1][1]
    <2>1. b[1][2] = "line" /\ x = b[1][1]
      BY <1>4 DEF NumberIn
    <2> DEFINE d == SubSeq(b, e + 1, Len(b))
    <2>2. 0 \in Nat /\ e \in 0 .. Len(b) /\ d = SubSeq(b, e + 1, Len(b))
      BY <1>2
    <2> HIDE DEF d
    <2>3. e # 0 /\ b[1][2] = "line" => b[1][1] \in Last(r) + 1 .. Len(s)
      BY <1>3, <2>2, DropConn
    <2> QED BY <1>2, <2>1, <2>3
  <1>5. ASSUME x # 0 PROVE x \in 1 .. Len(s) /\ x \in Nat /\ s[x] \in Requests
    <2> DEFINE l == Len(s)
               a == Last(r)
    <2>1. l \in Nat /\ a \in Nat /\ x \in a + 1 .. l
      BY <1>1, <1>4, <1>5
    <2> HIDE DEF l, a
    <2>2. x \in 1 .. l /\ x \in Nat
      BY <2>1
    <2> QED BY <1>1, <2>2 DEF l
  <1>6. h \in 0 .. 1 /\ x \in Nat
    <2>1. CASE x = 0
      BY <2>1 DEF RestOf
    <2>2. CASE x # 0
      <3>1. s[x].rest \in 0 .. 1
        BY <1>5, <2>2, WebConstants
      <3> QED BY <1>5, <2>2, <3>1 DEF RestOf
    <2> QED BY <2>1, <2>2
  <1>7. k \in 0 .. Len(b) /\ k + 1 = e + 1 - h /\ Len(b) - k = Len(b) - e + h
    <2> DEFINE l == Len(b)
    <2>1. l \in Nat /\ e \in 0 .. l /\ e # 0 /\ h \in 0 .. 1
      BY <1>1, <1>2, <1>6
    <2> HIDE DEF l
    <2>2. k \in 0 .. l /\ k + 1 = e + 1 - h /\ l - k = l - e + h
      BY <2>1
    <2> QED BY <2>2 DEF l
  \* The blank line is behind the request line.
  <1>8. x # 0 => k # 0
    <2> SUFFICES ASSUME x # 0 PROVE k # 0
      OBVIOUS
    <2>1. e # 1
      BY <1>2, <1>4
    <2> QED BY <1>1, <1>2, <1>6, <2>1
  <1>9. c = SubSeq(b, k + 1, Len(b))
    BY <1>7 DEF e, Behind
  <1>10. /\ Conn(s, w, "head", c, m, x, r) /\ Len(c) = Len(b) - e + h
         /\ x # 0 => LinesWithin(c \o w, x, Len(s))
    <2>2. x \in Nat /\ k \in 0 .. Len(b) /\ ~ Serving("head") /\ c = SubSeq(b, k + 1, Len(b))
      BY <1>3, <1>6, <1>7, <1>9
    <2> HIDE DEF k
    <2>1. /\ Conn(s, w, "head", c, m, x, r) /\ Len(c) = Len(b) - k
          /\ k # 0 /\ b[1][2] = "line" =>
               /\ b[1][1] \in Last(r) + 1 .. Len(s)
               /\ LinesWithin(c \o w, b[1][1], Len(s))
      <3>1. Conn(s, w, "head", c, m, x, r)
        BY <2>2, DropConn
      <3>2. Len(c) = Len(b) - k
        BY <2>2, DropConn
      <3>3. k # 0 /\ b[1][2] = "line" => b[1][1] \in Last(r) + 1 .. Len(s)
        BY <2>2, DropConn
      <3>4. k # 0 /\ b[1][2] = "line" => LinesWithin(c \o w, b[1][1], Len(s))
        BY <2>2, DropConn
      <3> QED BY <3>1, <3>2, <3>3, <3>4
    <2> QED BY <1>4, <1>7, <1>8, <2>1
  <1>11. Conn(s, w, "closed", c, m, x, r)
    <2>1. Conn(s, w, "head", c, m, x, r) /\ ~ Serving("closed")
      BY <1>3, <1>10
    <2> HIDE DEF k
    <2> QED BY <2>1, OtherConn
  \* All but the content.
  <1>12. ASSUME x # 0, NEW o, Serving(o), NEW l \in Nat, ContentKnown(s, o, c, l, x)
         PROVE  Conn(s, w, o, c, l, x, r)
    <2>1. InOrder(s, o, x, r) /\ NewerAhead(s, w, o, c, x, r)
      BY <1>4, <1>10, <1>12 DEF Conn, InOrder, NewerAhead, Latest
    <2>2. ConnTypes(s, w, c, l, x, r)
      BY <1>10, <1>12 DEF Conn, ConnTypes
    <2> QED BY <1>10, <1>12, <2>1, <2>2 DEF Conn
  <1>13. ASSUME x = 0 \/ s[x].length = NoLength PROVE Conn(s, w, Responds(s, x), c, m, x, r)
    <2>1. CASE Responds(s, x) = "closed"
      BY <1>11, <2>1
    <2>2. CASE Responds(s, x) # "closed"
      <3>1. x # 0 /\ s[x].resource # "string" /\ Responds(s, x) = "write"
        BY <1>13, <2>2 DEF Responds
      <3>2. ContentKnown(s, "write", c, m, x)
        BY <3>1 DEF ContentKnown, Wanted
      <3> QED BY <1>1, <1>3, <1>12, <3>1, <3>2
    <2> QED BY <2>1, <2>2
  <1>14. ASSUME x # 0, s[x].length \notin {NoLength, BadLength}
         PROVE  Conn(s, w, "body", c, (s[x].length - (Len(b) - e)) % SizeMod, x, r)
    <2> DEFINE l == s[x].length
               d == l - (Len(b) - e)
    <2>1. l \in 0 .. Most
      BY <1>5, <1>14, WebConstants
    <2>2. Len(c) < SizeMod /\ Most < SizeMod /\ SizeMod \in Nat /\ Most \in Nat /\ Len(c) \in Nat
      <3>1. Counted(s, w, c) /\ c \in Seq(AllUnits)
        BY <1>10 DEF Conn, ConnTypes
      <3>2. Len(c) + Len(w) < SizeMod /\ Most + 3 < SizeMod
        <4>1. Len(s) # 0
          BY <1>1, <1>5, <1>14
        <4> QED BY <1>1, <3>1, <4>1, Room
      <3>3. Len(w) \in Nat /\ Len(c) \in Nat
        BY <1>1, <3>1
      <3>4. SizeMod \in Nat /\ Most \in Nat
        BY WebConstants
      <3> QED BY <3>2, <3>3, <3>4
    <2> HIDE DEF l
    <2> DEFINE y == Len(c)
               v == Len(b) - e
    <2>3. y = v + h /\ v \in Nat /\ h \in 0 .. 1 /\ y \in Nat
      <3> DEFINE g == Len(b)
      <3>1. y = g - e + h /\ g \in Nat /\ e \in 0 .. g /\ h \in 0 .. 1
        BY <1>1, <1>2, <1>6, <1>10
      <3> HIDE DEF g, y
      <3>2. y = g - e + h /\ g - e \in Nat /\ y \in Nat
        BY <3>1
      <3> QED BY <3>1, <3>2 DEF g
    <2>4. l \in Nat /\ l < SizeMod /\ y < SizeMod /\ SizeMod \in Nat
      BY <2>1, <2>2
    <2> HIDE DEF y, v
    <2>5. d = l - v /\ d \in Int /\ 0 - SizeMod < d /\ d < SizeMod
      BY <2>3, <2>4 DEF v
    <2> HIDE DEF d
    <2> DEFINE z == d % SizeMod
    <2>8. z \in Nat /\ (z = d \/ z = d + SizeMod)
      BY <2>5, ModIs
    <2> HIDE DEF z
    <2>9. y + z = h + l \/ y + z = h + l + SizeMod
      BY <2>3, <2>4, <2>5, <2>8
    <2>6. ContentKnown(s, "body", c, z, x)
      <3>1. h = s[x].rest
        BY <1>14 DEF RestOf
      <3> QED BY <1>14, <2>9, <3>1 DEF ContentKnown, l, y
    <2>7. Conn(s, w, "body", c, z, x, r)
      BY <1>3, <1>12, <1>14, <2>6, <2>8
    <2> QED BY <2>7 DEF d, l, z, v
  <1> QED BY <1>11, <1>13, <1>14 DEF e

\* The reply has been written.
LEMMA WriteConn ==
  ASSUME NEW s, NEW w, NEW b, NEW m, NEW n, NEW r, Conn(s, w, "write", b, m, n, r), NEW x \in Nat
  PROVE  /\ Conn(s, w, "head", <<>>, m, n, Append(r, <<n, x>>))
         /\ Conn(s, w, "closed", b, m, n, Append(r, <<n, x>>))
  <1> DEFINE t == Append(r, <<n, x>>)
  <1>1. n \in Last(r) + 1 .. Len(s) /\ Last(r) \in Nat /\ Len(s) \in Nat /\ r \in Seq(Nat \X Nat) /\ n \in Nat
    BY DEF Conn, InOrder, Serving, ConnTypes
  <1>2. t \in Seq(Nat \X Nat) /\ t # <<>> /\ t[Len(t)] = <<n, x>>
    <2> DEFINE a == <<n, x>>
               P == Nat \X Nat
    <2>1. a \in P /\ r \in Seq(P)
      BY <1>1
    <2>2. t = Append(r, a)
      OBVIOUS
    <2> HIDE DEF a, t, P
    <2>3. t \in Seq(P) /\ t # <<>> /\ Len(t) = Len(r) + 1 /\ t[Len(r) + 1] = a
      BY <2>1, <2>2, AppendProperties
    <2> QED BY <2>3 DEF a, P
  <1> HIDE DEF t
  <1>3. Last(t) = n
    BY <1>2 DEF Last
  <1>4. ASSUME NEW o, ~ Serving(o) PROVE Conn(s, w, o, b, m, n, t)
    <2>1. InOrder(s, o, n, t) /\ ContentKnown(s, o, b, m, n)
      BY <1>1, <1>3, <1>4 DEF InOrder, ContentKnown, Serving
    <2>2. Latest(o, n, t) = Latest("write", n, r)
      BY <1>3, <1>4 DEF Latest, Serving
    <2>3. ConnTypes(s, w, b, m, n, t)
      BY <1>2 DEF Conn, ConnTypes
    <2> QED BY <2>1, <2>2, <2>3 DEF Conn, NewerAhead
  <1>5. ~ Serving("head") /\ ~ Serving("closed")
    BY DEF Serving
  <1> QED BY <1>4, <1>5, NewBufferConn DEF t

-----------------------------------------------------------------------------
(* The web server: the steps of the specification. *)

WebDomains ==
  /\ DOMAIN sent = Clients /\ DOMAIN wire = Clients /\ DOMAIN op = Clients /\ DOMAIN buffer = Clients
  /\ DOMAIN need = Clients /\ DOMAIN request = Clients /\ DOMAIN replies = Clients

ConnOf(c) == Conn(sent[c], wire[c], op[c], buffer[c], need[c], request[c], replies[c])

WebIInv == WebDomains /\ \A c \in Clients : ConnOf(c)

\* Nobody has asked for anything yet.
LEMMA WebInit == Init => WebIInv
  <1> SUFFICES ASSUME Init PROVE WebIInv
    OBVIOUS
  <1>1. WebDomains
    BY DEF Init, WebDomains
  <1>2. ASSUME NEW c \in Clients PROVE ConnOf(c)
    <2>1. sent[c] = <<>> /\ wire[c] = <<>> /\ op[c] = "unborn" /\ buffer[c] = <<>> /\ need[c] = 0
          /\ request[c] = 0 /\ replies[c] = <<>>
      BY DEF Init
    <2>2. Conn(<<>>, <<>>, "unborn", <<>>, 0, 0, <<>>)
      <3>1. <<>> \o <<>> = <<>> /\ Len(<<>>) = 0
        OBVIOUS
      <3>2. ConnTypes(<<>>, <<>>, <<>>, 0, 0, <<>>)
        BY DEF ConnTypes
      <3>3. InOrder(<<>>, "unborn", 0, <<>>) /\ ContentKnown(<<>>, "unborn", <<>>, 0, 0)
        BY <3>1 DEF InOrder, ContentKnown, Serving, Last
      <3>4. NewerAhead(<<>>, <<>>, "unborn", <<>>, 0, <<>>)
        BY <3>1 DEF NewerAhead, LinesGrow, LinesWithin
      <3>5. Counted(<<>>, <<>>, <<>>)
        <4>1. 0 * (Most + 3) = 0 /\ 0 <= MaxRequests
          BY WebConstants
        <4> QED BY <3>1, <4>1 DEF Counted
      <3> QED BY <3>2, <3>3, <3>4, <3>5 DEF Conn
    <2> QED BY <2>1, <2>2 DEF ConnOf
  <1> QED BY <1>1, <1>2 DEF WebIInv

WebAction(c) == Call(c) \/ Accept(c) \/ Serve(c)

\* A step is one of one connection.
LEMMA OthersStay ==
  ASSUME WebDomains, NEW c \in Clients, WebAction(c)
  PROVE  /\ WebDomains'
         /\ \A d \in Clients : d # c =>
              /\ sent'[d] = sent[d] /\ wire'[d] = wire[d] /\ op'[d] = op[d] /\ buffer'[d] = buffer[d]
              /\ need'[d] = need[d] /\ request'[d] = request[d] /\ replies'[d] = replies[d]
  <1> DEFINE Goal ==
         /\ WebDomains'
         /\ \A d \in Clients : d # c =>
              /\ sent'[d] = sent[d] /\ wire'[d] = wire[d] /\ op'[d] = op[d] /\ buffer'[d] = buffer[d]
              /\ need'[d] = need[d] /\ request'[d] = request[d] /\ replies'[d] = replies[d]
  <1>1. CASE Connect(c)
    BY <1>1 DEF Connect, WebDomains
  <1>2. CASE Ask(c)
    BY <1>2 DEF Ask, WebDomains, server
  <1>3. CASE Leave(c)
    BY <1>3 DEF Leave, WebDomains, server
  <1>4. CASE AcceptDone(c)
    BY <1>4 DEF AcceptDone, WebDomains
  <1>5. CASE AcceptHandler(c)
    BY <1>5 DEF AcceptHandler, ReadHead, WebDomains
  <1>6. CASE Read(c)
    BY <1>6 DEF Read, WebDomains
  <1>7. CASE HeadHandler(c)
    BY <1>7 DEF HeadHandler, Respond, WebDomains
  <1>8. CASE BodyHandler(c)
    BY <1>8 DEF BodyHandler, Respond, WebDomains
  <1>9. CASE WriteHandler(c)
    BY <1>9 DEF WriteHandler, ReadHead, WebDomains
  <1>10. CASE OperationFails(c)
    BY <1>10 DEF OperationFails, WebDomains
  <1> QED BY <1>1, <1>2, <1>3, <1>4, <1>5, <1>6, <1>7, <1>8, <1>9, <1>10 DEF WebAction, Call, Accept, Serve

\* What becomes of the connection itself.
LEMMA OwnStep ==
  ASSUME WebIInv, NEW c \in Clients, WebAction(c)
  PROVE  ConnOf(c)'
  <1> DEFINE s == sent[c]
             w == wire[c]
             o == op[c]
             b == buffer[c]
             m == need[c]
             n == request[c]
             r == replies[c]
             Goal == Conn(sent'[c], wire'[c], op'[c], buffer'[c], need'[c], request'[c], replies'[c])
  <1>0. WebDomains /\ Conn(s, w, o, b, m, n, r)
    BY DEF WebIInv, ConnOf
  <1> SUFFICES Goal
    BY DEF ConnOf
  <1>1. CASE Connect(c)
    <2>1. /\ op'[c] = "backlog"
          /\ UNCHANGED <<sent, wire, buffer, need, request, replies>>
      BY <1>0, <1>1 DEF Connect, WebDomains
    <2> HIDE DEF s, w, o, b, m, n, r
    <2>2. Conn(s, w, "backlog", b, m, n, r)
      BY <1>0, OtherConn DEF Serving
    <2> QED BY <2>1, <2>2 DEF s, w, o, b, m, n, r
  <1>2. CASE Ask(c)
    <2>1. PICK q \in Requests :
            /\ sent'[c] = Append(sent[c], q)
            /\ wire'[c] = wire[c] \o Units(Len(sent[c]) + 1, q)
      BY <1>0, <1>2 DEF Ask, WebDomains
    <2>2. UNCHANGED <<op, buffer, need, request, replies>> /\ Len(sent[c]) < MaxRequests
      BY <1>2 DEF Ask, server
    <2>3. Conn(Append(s, q), w \o Units(Len(s) + 1, q), o, b, m, n, r)
      <3>1. Len(s) < MaxRequests
        BY <2>2
      <3> HIDE DEF s, w, o, b, m, n, r
      <3> QED BY <1>0, <3>1, AskConn
    <2> QED BY <2>1, <2>2, <2>3
  <1>3. CASE Leave(c)
    BY <1>0, <1>3 DEF Leave, server
  <1>4. CASE AcceptDone(c)
    <2>1. PICK x \in {"accepted", "failed"} : op' = [op EXCEPT ![c] = x]
      BY <1>4 DEF AcceptDone
    <2>2. op'[c] = x /\ UNCHANGED <<sent, wire, buffer, need, request, replies>>
      BY <1>0, <1>4, <2>1 DEF AcceptDone, WebDomains
    <2> HIDE DEF s, w, o, b, m, n, r
    <2>3. Conn(s, w, x, b, m, n, r)
      BY <1>0, OtherConn DEF Serving
    <2> QED BY <2>2, <2>3 DEF s, w, o, b, m, n, r
  <1>5. CASE AcceptHandler(c)
    <2>1. /\ UNCHANGED <<sent, wire, need, request, replies>>
          /\ \/ op'[c] = "head" /\ buffer'[c] = <<>>
             \/ op'[c] = "closed" /\ UNCHANGED buffer
      BY <1>0, <1>5 DEF AcceptHandler, ReadHead, WebDomains
    <2> HIDE DEF s, w, o, b, m, n, r
    <2>2. Conn(s, w, "closed", b, m, n, r) /\ Conn(s, w, "head", b, m, n, r)
      BY <1>0, OtherConn DEF Serving
    <2>3. Conn(s, w, "head", <<>>, m, n, r)
      BY <2>2, NewBufferConn DEF Serving
    <2> QED BY <2>1, <2>2, <2>3 DEF s, w, o, b, m, n, r
  <1>6. CASE Read(c)
    <2>1. PICK k \in 1 .. Len(wire[c]) :
            /\ \/ op[c] = "head" /\ HeadEnd(buffer[c]) = 0 /\ UNCHANGED need
               \/ op[c] = "body" /\ k <= need[c] /\ need' = [need EXCEPT ![c] = @ - k]
            /\ buffer' = [buffer EXCEPT ![c] = @ \o SubSeq(wire[c], 1, k)]
            /\ wire' = [wire EXCEPT ![c] = SubSeq(@, k + 1, Len(@))]
      BY <1>6 DEF Read
    <2>2. /\ (op[c] = "head" /\ need'[c] = need[c]) \/ (op[c] = "body" /\ k <= need[c] /\ need'[c] = need[c] - k)
          /\ buffer'[c] = buffer[c] \o SubSeq(wire[c], 1, k)
          /\ wire'[c] = SubSeq(wire[c], k + 1, Len(wire[c]))
      <3>1. buffer'[c] = buffer[c] \o SubSeq(wire[c], 1, k)
        BY <1>0, <2>1, Zenon DEF WebDomains
      <3>2. wire'[c] = SubSeq(wire[c], k + 1, Len(wire[c]))
        BY <1>0, <2>1, Zenon DEF WebDomains
      <3>3. (op[c] = "head" /\ need'[c] = need[c]) \/ (op[c] = "body" /\ k <= need[c] /\ need'[c] = need[c] - k)
        <4>1. \/ op[c] = "head" /\ UNCHANGED need
              \/ op[c] = "body" /\ k <= need[c] /\ need' = [need EXCEPT ![c] = @ - k]
          BY <2>1, Zenon
        <4>2. CASE op[c] = "head" /\ UNCHANGED need
          <5>1. need'[c] = need[c]
            BY <4>2
          <5> QED BY <4>2, <5>1
        <4>3. CASE op[c] = "body" /\ k <= need[c] /\ need' = [need EXCEPT ![c] = @ - k]
          <5>1. need'[c] = need[c] - k
            BY <1>0, <4>3, Zenon DEF WebDomains
          <5> QED BY <4>3, <5>1
        <4> QED BY <4>1, <4>2, <4>3
      <3> QED BY <3>1, <3>2, <3>3
    <2>3. UNCHANGED <<sent, op, request, replies>>
      BY <1>6 DEF Read
    <2>4. Conn(s, SubSeq(w, k + 1, Len(w)), o, b \o SubSeq(w, 1, k), need'[c], n, r)
      <3> DEFINE l == need'[c]
      <3>1. k \in 1 .. Len(w) /\ ((o = "head" /\ l = m) \/ (o = "body" /\ k <= m /\ l = m - k))
        BY <2>2
      <3> HIDE DEF s, w, o, b, m, n, r, l
      <3>2. Conn(s, SubSeq(w, k + 1, Len(w)), o, b \o SubSeq(w, 1, k), l, n, r)
        BY <1>0, <3>1, ReadConn
      <3> QED BY <3>2 DEF l
    <2> QED BY <2>2, <2>3, <2>4
  <1>7. CASE HeadHandler(c)
    <2> DEFINE e == HeadEnd(b)
               x == IF b[1][2] = "line" THEN b[1][1] ELSE 0
               h == IF x = 0 THEN 0 ELSE s[x].rest
               a == SubSeq(b, e + 1 - h, Len(b))
    <2>1. /\ o = "head" /\ e # 0 /\ UNCHANGED <<sent, wire, replies>>
          /\ request'[c] = x /\ buffer'[c] = a
      BY <1>0, <1>7 DEF HeadHandler, WebDomains
    <2>2. \/ /\ x = 0 \/ s[x].length = NoLength
             /\ op'[c] = Responds(s, x) /\ need'[c] = m
          \/ op'[c] = "closed" /\ need'[c] = m
          \/ /\ x # 0 /\ s[x].length \notin {NoLength, BadLength}
             /\ op'[c] = "body" /\ need'[c] = (s[x].length - (Len(b) - e)) % SizeMod
      BY <1>0, <1>7 DEF HeadHandler, Respond, Matched, NullContent, Responds, WebDomains
    <2>3. /\ Conn(s, w, "closed", a, m, x, r)
          /\ x = 0 \/ s[x].length = NoLength => Conn(s, w, Responds(s, x), a, m, x, r)
          /\ x # 0 /\ s[x].length \notin {NoLength, BadLength} =>
               Conn(s, w, "body", a, (s[x].length - (Len(b) - HeadEnd(b))) % SizeMod, x, r)
      <3>1. HeadEnd(b) # 0 /\ Conn(s, w, "head", b, m, n, r)
            /\ x = NumberIn(b) /\ h = RestOf(s, x) /\ a = Behind(b, h)
        BY <1>0, <2>1 DEF NumberIn, RestOf, Behind
      <3> HIDE DEF s, w, o, b, m, n, r, x, h, a, e
      <3> QED BY <3>1, HeadConn
    <2>4. Conn(s, w, op'[c], a, need'[c], x, r)
      <3> HIDE DEF s, w, o, b, m, n, r, x, h, a
      <3> QED BY <2>2, <2>3
    <2> QED BY <2>1, <2>4
  <1>8. CASE BodyHandler(c)
    <2>1. /\ o = "body" /\ m = 0 /\ op'[c] = Responds(s, n)
          /\ UNCHANGED <<sent, wire, buffer, need, request, replies>>
      BY <1>0, <1>8 DEF BodyHandler, Respond, Matched, NullContent, Responds, WebDomains
    <2>2. Conn(s, w, Responds(s, n), b, 0, n, r)
      <3>1. Conn(s, w, "body", b, 0, n, r)
        BY <1>0, <2>1
      <3> HIDE DEF s, w, o, b, m, n, r
      <3> QED BY <3>1, BodyConn
    <2> QED BY <2>1, <2>2
  <1>9. CASE WriteHandler(c)
    <2> DEFINE x == Content(c)
               t == Append(r, <<n, x>>)
    <2>1. /\ o = "write" /\ UNCHANGED <<sent, wire, need, request>> /\ replies'[c] = t
          /\ \/ op'[c] = "head" /\ buffer'[c] = <<>>
             \/ op'[c] = "closed" /\ UNCHANGED buffer
      BY <1>0, <1>9 DEF WriteHandler, ReadHead, WebDomains
    <2>2. x \in Nat
      BY <1>0 DEF Content, Conn, ConnTypes
    <2>3. Conn(s, w, "head", <<>>, m, n, t) /\ Conn(s, w, "closed", b, m, n, t)
      <3>1. Conn(s, w, "write", b, m, n, r)
        BY <1>0, <2>1
      <3> HIDE DEF s, w, o, b, m, n, r, x
      <3> QED BY <2>2, <3>1, WriteConn
    <2> QED BY <2>1, <2>3
  <1>10. CASE OperationFails(c)
    <2>1. op'[c] = "closed" /\ UNCHANGED <<sent, wire, buffer, need, request, replies>>
      BY <1>0, <1>10 DEF OperationFails, WebDomains
    <2> HIDE DEF s, w, o, b, m, n, r
    <2>2. Conn(s, w, "closed", b, m, n, r)
      BY <1>0, OtherConn DEF Serving
    <2> QED BY <2>1, <2>2 DEF s, w, o, b, m, n, r
  <1> QED BY <1>1, <1>2, <1>3, <1>4, <1>5, <1>6, <1>7, <1>8, <1>9, <1>10 DEF WebAction, Call, Accept, Serve

\* The invariant of the web server is inductive.
LEMMA NextWebIInv == ASSUME WebIInv, [Next]_vars PROVE WebIInv'
  <1>1. CASE UNCHANGED vars
    BY <1>1 DEF WebIInv, WebDomains, ConnOf, vars, server
  <1>2. ASSUME NEW c \in Clients, WebAction(c) PROVE WebIInv'
    <2>1. WebDomains' /\ \A d \in Clients : d # c => ConnOf(d)'
      BY <1>2, OthersStay DEF WebIInv, ConnOf
    <2>2. ConnOf(c)'
      BY <1>2, OwnStep
    <2> QED BY <2>1, <2>2 DEF WebIInv
  <1> QED BY <1>1, <1>2 DEF Next, WebAction

-----------------------------------------------------------------------------
(* The web server implements the exchange of requests and replies. *)

\* What the replies to the requests s are made from.
WantedOf(s) == [j \in DOMAIN s |-> Wanted(s[j])]

\* One more request wants one more reply.
LEMMA WantedAppend ==
  ASSUME NEW s \in Seq(Requests), NEW q \in Requests
  PROVE  WantedOf(Append(s, q)) = Append(WantedOf(s), Wanted(q))
  <1> DEFINE t == Append(s, q)
             e(k) == Wanted(t[k])
             f(k) == Wanted(s[k])
             l == Len(s)
  <1>1. l \in Nat /\ t \in Seq(Requests) /\ Len(t) = l + 1 /\ t[l + 1] = q /\ \A k \in 1 .. l : t[k] = s[k]
    BY AppendProperties
  <1>2. DOMAIN s = 1 .. l /\ DOMAIN t = 1 .. l + 1
    BY <1>1
  <1> HIDE DEF t, l
  <1>3. WantedOf(s) \in Seq(Nat) /\ Len(WantedOf(s)) = l /\ \A k \in 1 .. l : WantedOf(s)[k] = f(k)
    <2>1. \A k \in 1 .. l : f(k) \in Nat
      <3>1. \A k \in 1 .. l : s[k] \in Requests
        BY DEF l
      <3> QED BY <3>1, WebConstants
    <2>2. WantedOf(s) = [k \in 1 .. l |-> f(k)]
      BY <1>2 DEF WantedOf
    <2> HIDE DEF f
    <2>3. WantedOf(s) \in Seq(Nat)
      BY <1>1, <2>1, <2>2
    <2>4. Len(WantedOf(s)) = l
      BY <1>1, <2>2
    <2> QED BY <2>2, <2>3, <2>4
  <1>4. WantedOf(t) \in Seq(Nat) /\ Len(WantedOf(t)) = l + 1 /\ \A k \in 1 .. l + 1 : WantedOf(t)[k] = e(k)
    <2>1. \A k \in 1 .. l + 1 : e(k) \in Nat
      <3>1. \A k \in 1 .. l + 1 : t[k] \in Requests
        BY <1>1, <1>2
      <3> QED BY <3>1, WebConstants
    <2>2. WantedOf(t) = [k \in 1 .. l + 1 |-> e(k)]
      BY <1>2 DEF WantedOf
    <2> HIDE DEF e
    <2> QED BY <1>1, <2>1, <2>2
  <1> DEFINE a == Append(WantedOf(s), Wanted(q))
  <1>5. Wanted(q) \in Nat
    BY WebConstants
  <1>6. a \in Seq(Nat) /\ Len(a) = l + 1 /\ a[l + 1] = Wanted(q) /\ \A k \in 1 .. l : a[k] = WantedOf(s)[k]
    BY <1>3, <1>5, AppendProperties
  <1> HIDE DEF a
  <1>7. ASSUME NEW k \in 1 .. l + 1 PROVE WantedOf(t)[k] = a[k]
    <2>1. CASE k = l + 1
      BY <1>1, <1>4, <1>6, <2>1
    <2>2. CASE k # l + 1
      <3>1. k \in 1 .. l
        BY <1>1, <2>2
      <3> QED BY <1>1, <1>3, <1>4, <1>6, <3>1
    <2> QED BY <2>1, <2>2
  <1>8. WantedOf(t) = a
    BY <1>4, <1>6, <1>7, SeqEqual
  <1> QED BY <1>8 DEF t, a

\* The same of all clients, as the exchange has them.
LEMMA AskedIs == [c \in Clients |-> [j \in DOMAIN sent[c] |-> Wanted(sent[c][j])]]
                   = [c \in Clients |-> WantedOf(sent[c])]
  BY DEF WantedOf

\* The exchange begins without requests.
LEMMA ExchangeInit == Init => Exchange!Init
  <1> SUFFICES ASSUME Init PROVE Exchange!Init
    OBVIOUS
  <1>1. sent = [c \in Clients |-> <<>>] /\ replies = [c \in Clients |-> <<>>]
    BY DEF Init
  <1>2. WantedOf(<<>>) = <<>>
    <2>1. DOMAIN <<>> = 1 .. 0
      OBVIOUS
    <2>2. WantedOf(<<>>) \in Seq(Nat) /\ Len(WantedOf(<<>>)) = 0
      BY <2>1 DEF WantedOf
    <2> QED BY <2>2
  <1>3. [c \in Clients |-> WantedOf(sent[c])] = [c \in Clients |-> <<>>]
    BY <1>1, <1>2
  <1> QED BY <1>1, <1>3, AskedIs DEF Exchange!Init

\* Every step is a request, an answer to one, or none of the two.
LEMMA ExchangeNext ==
  ASSUME WebIInv, [Next]_vars
  PROVE  [Exchange!Next]_(Exchange!vars)
  <1> DEFINE asked == [c \in Clients |-> WantedOf(sent[c])]
  <1>0. WebDomains /\ \A c \in Clients : ConnOf(c)
    BY DEF WebIInv
  <1>1. CASE UNCHANGED <<sent, replies>>
    BY <1>1 DEF Exchange!vars
  <1>2. ASSUME NEW c \in Clients, Ask(c) PROVE Exchange!Next
    <2>1. PICK q \in Requests : sent' = [sent EXCEPT ![c] = Append(@, q)]
      BY <1>2 DEF Ask
    <2>2. replies' = replies /\ Wanted(q) \in {Wanted(x) : x \in Requests}
      BY <1>2 DEF Ask, server
    <2>3. sent[c] \in Seq(Requests)
      BY <1>0 DEF ConnOf, Conn, ConnTypes
    <2>4. asked' = [asked EXCEPT ![c] = Append(@, Wanted(q))]
      <3>1. WantedOf(sent'[c]) = Append(WantedOf(sent[c]), Wanted(q))
        BY <1>0, <2>1, <2>3, WantedAppend DEF WebDomains
      <3>2. \A d \in Clients : d # c => sent'[d] = sent[d]
        BY <1>0, <2>1 DEF WebDomains
      <3> QED BY <3>1, <3>2
    <2>5. Exchange!Ask(c)
      BY <2>2, <2>4 DEF Exchange!Ask, WantedOf
    <2> QED BY <2>5 DEF Exchange!Next
  <1>3. ASSUME NEW c \in Clients, WriteHandler(c) PROVE Exchange!Next
    <2> DEFINE n == request[c]
    <2>1. op[c] = "write" /\ sent' = sent /\ replies' = [replies EXCEPT ![c] = Append(@, <<n, Content(c)>>)]
      BY <1>3 DEF WriteHandler
    <2>2. n \in Last(replies[c]) + 1 .. Len(sent[c]) /\ Content(c) = Wanted(sent[c][n])
          /\ sent[c] \in Seq(Requests) /\ Last(replies[c]) \in Nat
      BY <1>0, <2>1 DEF ConnOf, Conn, InOrder, ContentKnown, Serving, Content, ConnTypes
    <2>3. Len(asked[c]) = Len(sent[c]) /\ asked[c][n] = Content(c)
      <3>1. DOMAIN sent[c] = 1 .. Len(sent[c]) /\ n \in 1 .. Len(sent[c])
        BY <2>2
      <3>2. asked[c] = WantedOf(sent[c])
        OBVIOUS
      <3>3. WantedOf(sent[c]) \in Seq(Nat) /\ Len(WantedOf(sent[c])) = Len(sent[c])
        <4> DEFINE t == sent[c]
                   e(k) == Wanted(t[k])
        <4>1. t \in Seq(Requests)
          BY <2>2
        <4> HIDE DEF t
        <4>2. \A k \in 1 .. Len(t) : e(k) \in Nat
          BY <4>1, WebConstants
        <4>3. WantedOf(t) = [k \in 1 .. Len(t) |-> e(k)]
          BY <4>1 DEF WantedOf
        <4> HIDE DEF e
        <4>4. WantedOf(t) \in Seq(Nat) /\ Len(WantedOf(t)) = Len(t)
          BY <4>1, <4>2, <4>3
        <4> QED BY <4>4 DEF t
      <3> QED BY <2>2, <3>1, <3>2, <3>3 DEF WantedOf
    <2>4. Exchange!LastAnswered(c) = Last(replies[c])
      BY DEF Exchange!LastAnswered, Last
    <2>5. Exchange!Answer(c)
      <3>1. asked' = asked
        BY <2>1
      <3>2. n \in Exchange!LastAnswered(c) + 1 .. Len(asked[c])
        BY <2>2, <2>3, <2>4
      <3>3. replies' = [replies EXCEPT ![c] = Append(@, <<n, asked[c][n]>>)]
        BY <2>1, <2>3
      <3> QED BY <3>1, <3>2, <3>3 DEF Exchange!Answer, WantedOf
    <2> QED BY <2>5 DEF Exchange!Next
  <1>4. ASSUME NEW c \in Clients, WebAction(c), ~ Ask(c), ~ WriteHandler(c)
        PROVE  UNCHANGED <<sent, replies>>
    BY <1>4 DEF WebAction, Call, Accept, Serve, Connect, Leave, AcceptDone, AcceptHandler, Read, HeadHandler,
       BodyHandler, OperationFails, server
  <1>5. UNCHANGED vars => UNCHANGED <<sent, replies>>
    BY DEF vars, server
  <1> QED BY <1>1, <1>2, <1>3, <1>4, <1>5 DEF Next, WebAction

\* Every client of the web server is answered in the order of its requests, each
\* reply from the whole content of its request, for any number of clients, requests
\* and portions they are read in (server_base.h 120-221).
THEOREM ExchangeImplemented == MCSpec => ImplementsExchange
  <1>1. MCInit => Init
    BY DEF MCInit
  <1>2. [MCNext]_everything => [Next]_vars
    BY DEF MCNext, WebStep, ChatStep, HttpStep, everything
  <1>3. WebIInv /\ [Next]_vars => WebIInv'
    BY NextWebIInv
  <1>4. WebIInv /\ [Next]_vars => [Exchange!Next]_(Exchange!vars)
    BY ExchangeNext
  <1> QED BY <1>1, <1>2, <1>3, <1>4, WebInit, ExchangeInit, PTL
          DEF MCSpec, ImplementsExchange, Exchange!Spec

-----------------------------------------------------------------------------
(* HttpServer: the lines of a request. *)

Positions == 1 .. Len(stream)

\* A unit that ends no line.
Text(n) == stream[n] \notin {"CR", "LF"}

HeadSize == Parser!HeadEnd

IsStream == stream \in Seq(STRING) /\ DOMAIN stream = Positions /\ Len(stream) \in Nat

\* Where a request line or a header begins.
BeginsLine(a) == a = 0 \/ a - 1 \in Parser!LineEnds

\* The blank line is the first of those there are.
LEMMA HeadIs ==
  ASSUME IsStream, Parser!Good
  PROVE  /\ HeadSize \in 5 .. Len(stream) /\ HeadSize - 1 \in Parser!LineEnds
         /\ HeadSize - 1 \in Parser!Blank /\ \A n \in Parser!Blank : HeadSize - 1 <= n
  <1> DEFINE B == Parser!Blank
             first(n) == \A m \in B : n <= m
  <1>1. B # {} /\ B \in SUBSET Nat /\ stream[1] = "get" /\ 2 \in Parser!LineEnds
    BY DEF Parser!Good, Parser!Blank, Parser!LineEnds, IsStream
  <1>2. \E n \in B : first(n)
    BY <1>1, LeastMember
  <1>3. PICK n \in B : HeadSize = 1 + n /\ first(n)
    <2> DEFINE n == CHOOSE n \in B : first(n)
    <2>1. n \in B /\ first(n)
      BY <1>2
    <2>2. HeadSize = 1 + n
      BY DEF HeadSize, Parser!HeadEnd
    <2> HIDE DEF n
    <2> QED BY <2>1, <2>2
  <1>4. n \in Parser!LineEnds /\ n \in 1 .. Len(stream) - 1 /\ stream[n] = "CR" /\ stream[n + 1] = "LF"
    BY <1>3 DEF Parser!Blank, Parser!LineEnds, IsStream
  <1>5. n # 1 /\ n # 2 /\ n # 3
    <2>1. n = 1 \/ n - 2 \in Parser!LineEnds
      BY <1>3 DEF Parser!Blank
    <2>2. ~ (0 \in Parser!LineEnds) /\ ~ (1 \in Parser!LineEnds)
      BY <1>1 DEF Parser!LineEnds
    <2> QED BY <1>1, <1>4, <2>1, <2>2
  <1>6. HeadSize \in 5 .. Len(stream) /\ HeadSize - 1 = n
    BY <1>3, <1>4, <1>5 DEF IsStream
  <1> QED BY <1>3, <1>4, <1>6

\* A line that begins in the head ends in it, with CR and LF.
LEMMA LineEndsInHead ==
  ASSUME IsStream, Parser!Good, NEW a \in 0 .. HeadSize - 2, BeginsLine(a)
  PROVE  \E e \in a + 1 .. HeadSize - 1 : e \in Parser!LineEnds /\ \A n \in a + 1 .. e - 1 : Text(n)
  <1> DEFINE h == HeadSize
             S == {n \in a + 1 .. h - 1 : ~ Text(n)}
  <1>1. h \in 5 .. Len(stream) /\ h - 1 \in Parser!LineEnds /\ a \in Nat /\ a <= h - 2 /\ Len(stream) \in Nat
    BY HeadIs DEF IsStream
  <1> HIDE DEF h
  <1>2. h - 1 \in S /\ S \in SUBSET Nat
    BY <1>1 DEF Parser!LineEnds, Text
  <1>3. PICK e \in S : \A n \in S : e <= n
    BY <1>2, LeastMember
  <1>4. e \in a + 1 .. h - 1 /\ ~ Text(e) /\ e \in 1 .. Len(stream) /\ e \in Nat
    BY <1>1, <1>3
  <1>5. \A n \in a + 1 .. e - 1 : Text(n)
    BY <1>1, <1>3, <1>4
  <1>6. e \notin Parser!Stray
    BY <1>1, <1>4 DEF Parser!Good, h, HeadSize
  <1>7. e \in Parser!LineEnds
    <2>1. CASE stream[e] = "CR"
      BY <1>4, <1>6, <2>1 DEF Parser!Stray
    <2>2. CASE stream[e] = "LF"
      <3>1. e - 1 \in Parser!LineEnds
        BY <1>4, <1>6, <2>2 DEF Parser!Stray
      <3>2. stream[e - 1] = "CR" /\ e - 1 \in 1 .. Len(stream)
        BY <3>1 DEF Parser!LineEnds
      <3>3. CASE e - 1 \in a + 1 .. e - 1
        BY <1>5, <3>2, <3>3 DEF Text
      <3>4. CASE e - 1 = a
        <4>1. a - 1 \in Parser!LineEnds
          BY <1>1, <3>2, <3>4 DEF BeginsLine
        <4>2. stream[a] = "LF"
          BY <1>1, <4>1 DEF Parser!LineEnds
        <4> QED BY <3>2, <3>4, <4>2
      <3> QED BY <1>1, <1>4, <3>3, <3>4
    <2> QED BY <1>4, <2>1, <2>2 DEF Text
  <1> QED BY <1>4, <1>5, <1>7 DEF h

\* What parse_line does about it, when it has gone through a part of it.
LEMMA ParseLineIs ==
  ASSUME IsStream, start_line \in Nat, read_idx \in 0 .. Len(stream), checked_idx \in Nat,
         NEW e \in Parser!LineEnds, start_line <= checked_idx, checked_idx < e,
         \A n \in start_line + 1 .. e - 1 : Text(n)
  PROVE  IF read_idx > e
         THEN Parser!parse_line = [status |-> "LINE_OK", checked |-> e + 1,
                                   line |-> SubSeq(stream, start_line + 1, e - 1)]
         ELSE /\ Parser!parse_line.status # "LINE_OK"
              /\ checked_idx <= read_idx =>
                   Parser!parse_line.checked \in checked_idx .. read_idx /\ Parser!parse_line.checked < e
  <1> DEFINE Ends == Parser!Ends
  <1>1. e \in Nat /\ e >= 1 /\ e < Len(stream) /\ stream[e] = "CR" /\ stream[e + 1] = "LF" /\ Len(stream) \in Nat
        /\ read_idx \in Nat
    BY DEF Parser!LineEnds, IsStream
  <1>2. \A n \in Ends : n \in Nat /\ e - 1 <= n /\ n < read_idx
    <2> SUFFICES ASSUME NEW n \in Ends PROVE n \in Nat /\ e - 1 <= n /\ n < read_idx
      OBVIOUS
    <2>1. n \in checked_idx .. read_idx - 1 /\ ~ Text(n + 1)
      BY DEF Parser!Ends, Parser!At, Text
    <2>2. n + 1 \notin start_line + 1 .. e - 1
      BY <2>1
    <2> QED BY <1>1, <2>1, <2>2
  <1>3. CASE read_idx < e
    <2>1. Ends = {}
      BY <1>1, <1>2, <1>3
    <2>2. Parser!parse_line = [status |-> "LINE_OPEN", checked |-> read_idx, line |-> <<>>]
      BY <2>1 DEF Parser!parse_line
    <2> QED BY <1>1, <1>3, <2>2
  <1>4. CASE read_idx >= e
    <2>1. e - 1 \in Ends
      BY <1>1, <1>4 DEF Parser!Ends, Parser!At
    <2>2. Parser!End = e - 1
      <3>1. Parser!End = CHOOSE n \in Ends : \A m \in Ends : n <= m
        BY DEF Parser!End
      <3>2. \A n \in Ends : (\A m \in Ends : n <= m) => n = e - 1
        BY <1>1, <1>2, <2>1
      <3> HIDE DEF Ends
      <3> QED BY <1>2, <2>1, <3>1, <3>2
    <2>3. Parser!At(Parser!End) = "CR" /\ Parser!At(Parser!End + 1) = "LF"
      BY <1>1, <2>2 DEF Parser!At
    <2>4. CASE read_idx = e
      <3>1. Parser!parse_line = [status |-> "LINE_OPEN", checked |-> e - 1, line |-> <<>>]
        BY <1>1, <2>1, <2>2, <2>3, <2>4 DEF Parser!parse_line
      <3> QED BY <1>1, <2>4, <3>1
    <2>5. CASE read_idx > e
      <3>1. Parser!End + 1 # read_idx /\ Parser!End + 2 = e + 1
        BY <1>1, <2>2, <2>5
      <3>2. Parser!parse_line = [status |-> "LINE_OK", checked |-> e + 1,
                                 line |-> SubSeq(stream, start_line + 1, e - 1)]
        BY <2>1, <2>2, <2>3, <3>1 DEF Parser!parse_line
      <3> QED BY <2>5, <3>2
    <2> QED BY <1>1, <1>4, <2>4, <2>5
  <1> QED BY <1>1, <1>3, <1>4

-----------------------------------------------------------------------------
(* HttpServer: the inductive invariant. *)

ParserTypes ==
  /\ stream \in Streams /\ arrived \in 0 .. Len(stream) /\ read_idx \in 0 .. arrived
  \* What is in the buffer is what a read has left there.
  /\ read_idx = 0 \/ read_idx \in stops
  /\ answer # "NO_REQUEST" => line_status = "none"

SizeSeen(a) == IF \E n \in 1 .. a : stream[n] = "length" THEN ContentLength ELSE 0

\* In the head: the line that is looked for begins in it, up to checked_idx there is
\* no end of it, and process_read returns only when the head is not all there.
InHead ==
  /\ \/ check_state = "REQUESTLINE" /\ start_line = 0
     \/ check_state = "HEADER" /\ start_line # 0
  /\ start_line \in 0 .. HeadSize - 2 /\ BeginsLine(start_line)
  /\ checked_idx \in start_line .. read_idx /\ \A n \in start_line + 1 .. checked_idx : Text(n)
  /\ content_length = SizeSeen(start_line)
  /\ line_status \in {"none", "LINE_OK"} /\ (line_status = "none" => read_idx < HeadSize)

\* In the content: it begins where the search for lines has stopped.
InContent ==
  /\ check_state = "CONTENT" /\ checked_idx = HeadSize
  /\ content_length = ContentLength /\ content_length # 0 /\ Parser!HasContent
  /\ read_idx >= HeadSize
  /\ line_status \in {"none", "LINE_OK", "LINE_OPEN"} /\ (line_status # "LINE_OK" => read_idx = HeadSize)

ReadAsExpected ==
  Parser!Good /\ ~ Parser!ContentSplit /\ answer # "CLOSED_CONNECTION" =>
    \/ answer = "NO_REQUEST" /\ (InHead \/ InContent)
    \/ answer # "NO_REQUEST" /\ read_idx >= Parser!Length

ParserIInv == ParserTypes /\ ReadAsExpected

\* What the assumption says of the stream that was chosen.
LEMMA StreamIs ==
  ASSUME ParserTypes
  PROVE  /\ IsStream /\ ContentLength \in Nat
         /\ \A n \in Positions : stream[n] = "length" =>
              /\ n - 1 \in Positions => ~ Text(n - 1)
              /\ n + 1 \in Positions => ~ Text(n + 1)
  <1>1. stream \in Streams
    BY DEF ParserTypes
  <1>2. /\ stream \in Seq(STRING) /\ ContentLength \in Nat
        /\ \A n \in DOMAIN stream : stream[n] = "length" =>
             \A m \in {n - 1, n + 1} \intersect DOMAIN stream : stream[m] \in {"CR", "LF"}
    BY <1>1, ParserAssumption DEF Parser!ParserAssumption
  <1>3. DOMAIN stream = Positions /\ Len(stream) \in Nat
    BY <1>2 DEF Positions
  <1> QED BY <1>2, <1>3 DEF IsStream, Text

\* Nothing that is said of the stream changes.
LEMMA SameStream ==
  ASSUME stream' = stream
  PROVE  /\ HeadSize' = HeadSize /\ (Parser!Good' <=> Parser!Good) /\ Parser!Length' = Parser!Length
         /\ (Parser!HasContent' <=> Parser!HasContent)
         /\ \A a : (BeginsLine(a)' <=> BeginsLine(a)) /\ (Text(a)' <=> Text(a)) /\ SizeSeen(a)' = SizeSeen(a)
  <1>1. Parser!LineEnds' = Parser!LineEnds
    BY DEF Parser!LineEnds
  <1>2. Parser!Blank' = Parser!Blank /\ Parser!Stray' = Parser!Stray
    BY <1>1 DEF Parser!Blank, Parser!Stray
  <1>3. HeadSize' = HeadSize /\ Parser!HeadEnd' = Parser!HeadEnd
    BY <1>2 DEF HeadSize, Parser!HeadEnd
  <1>4. Parser!HasContent' <=> Parser!HasContent
    BY <1>3 DEF Parser!HasContent
  <1>5. Parser!Length' = Parser!Length
    BY <1>3, <1>4 DEF Parser!Length
  <1>6. Parser!Good' <=> Parser!Good
    BY <1>1, <1>2, <1>3 DEF Parser!Good
  <1>7. ASSUME NEW a PROVE (BeginsLine(a)' <=> BeginsLine(a)) /\ (Text(a)' <=> Text(a)) /\ SizeSeen(a)' = SizeSeen(a)
    BY <1>1 DEF BeginsLine, Text, SizeSeen
  <1> QED BY <1>3, <1>4, <1>5, <1>6, <1>7

\* What a line is, from where it begins and where its CR is.
LEMMA LineIs ==
  ASSUME IsStream, NEW a \in Nat, NEW e \in a + 1 .. Len(stream), NEW x
  PROVE  /\ SubSeq(stream, a + 1, e - 1) = <<>> <=> e = a + 1
         /\ SubSeq(stream, a + 1, e - 1) = <<x>> <=> e = a + 2 /\ stream[a + 1] = x
  <1> DEFINE l == SubSeq(stream, a + 1, e - 1)
  <1>1. Len(stream) \in Nat /\ e \in Nat /\ e > a /\ e <= Len(stream) /\ a + 1 \in Int /\ e - 1 \in Int
    BY DEF IsStream
  <1>2. \A k \in a + 1 .. e - 1 : stream[k] \in STRING
    BY <1>1 DEF IsStream
  <1>3. l \in Seq(STRING) /\ Len(l) = (IF a + 1 <= e - 1 THEN (e - 1) - (a + 1) + 1 ELSE 0)
        /\ \A k \in 1 .. (e - 1) - (a + 1) + 1 : l[k] = stream[(a + 1) + k - 1]
    BY <1>1, <1>2, SubSeqProperties
  <1> HIDE DEF l
  <1>4. Len(l) = e - 1 - a
    BY <1>1, <1>3
  <1>5. l = <<>> <=> e = a + 1
    BY <1>1, <1>3, <1>4
  <1>6. l = <<x>> => e = a + 2 /\ stream[a + 1] = x
    <2> SUFFICES ASSUME l = <<x>> PROVE e = a + 2 /\ stream[a + 1] = x
      OBVIOUS
    <2>1. Len(l) = 1 /\ l[1] = x
      OBVIOUS
    <2>2. e = a + 2
      BY <1>1, <1>4, <2>1
    <2>3. l[1] = stream[(a + 1) + 1 - 1]
      BY <1>3, <2>2
    <2> QED BY <2>1, <2>2, <2>3
  <1>7. e = a + 2 /\ stream[a + 1] = x => l = <<x>>
    <2> SUFFICES ASSUME e = a + 2, stream[a + 1] = x PROVE l = <<x>>
      OBVIOUS
    <2>1. Len(l) = 1 /\ l[1] = stream[(a + 1) + 1 - 1]
      BY <1>3, <1>4
    <2>2. Len(l) = 1 /\ l[1] = x
      BY <2>1
    <2> QED BY <1>3, <2>2
  <1> QED BY <1>5, <1>6, <1>7 DEF l

\* Behind a line that is not blank comes another one of the head; the blank line ends it.
LEMMA NextLine ==
  ASSUME IsStream, Parser!Good, NEW a \in 0 .. HeadSize - 2, BeginsLine(a),
         NEW e \in a + 1 .. HeadSize - 1, e \in Parser!LineEnds, \A n \in a + 1 .. e - 1 : Text(n)
  PROVE  /\ e # a + 1 => e + 1 \in 0 .. HeadSize - 2 /\ BeginsLine(e + 1)
         /\ e = a + 1 => e + 1 = HeadSize
  <1> DEFINE h == HeadSize
  <1>1. h \in 5 .. Len(stream) /\ h - 1 \in Parser!LineEnds /\ h - 1 \in Parser!Blank
        /\ (\A n \in Parser!Blank : h - 1 <= n) /\ a \in Nat /\ e \in Nat /\ a < e /\ e <= h - 1
        /\ Len(stream) \in Nat
    BY HeadIs DEF IsStream
  <1>2. stream[e] = "CR" /\ stream[e + 1] = "LF" /\ e \in 1 .. Len(stream) /\ stream[h - 1] = "CR"
    BY <1>1 DEF Parser!LineEnds
  <1> HIDE DEF h
  <1>3. ASSUME e # a + 1 PROVE e + 1 <= h - 2
    <2>1. Text(e - 1)
      BY <1>1, <1>3
    <2>2. e # h - 1
      <3> SUFFICES ASSUME e = h - 1 PROVE FALSE
        OBVIOUS
      <3>1. e = 1 \/ e - 2 \in Parser!LineEnds
        BY <1>1 DEF Parser!Blank
      <3>2. e - 2 \in Parser!LineEnds => stream[e - 1] = "LF"
        <4> SUFFICES ASSUME e - 2 \in Parser!LineEnds PROVE stream[e - 1] = "LF"
          OBVIOUS
        <4>1. stream[e - 2 + 1] = "LF"
          BY DEF Parser!LineEnds
        <4>2. e - 2 + 1 = e - 1
          BY <1>1
        <4> QED BY <4>1, <4>2
      <3> QED BY <1>1, <1>3, <2>1, <3>1, <3>2 DEF Text
    <2>3. e + 1 # h - 1
      BY <1>2
    <2> QED BY <1>1, <2>2, <2>3
  <1>4. BeginsLine(e + 1)
    <2>1. e + 1 - 1 = e
      BY <1>1
    <2> QED BY <2>1 DEF BeginsLine
  <1>5. ASSUME e = a + 1 PROVE e + 1 = h
    <2>1. a # 0
      BY <1>2, <1>5 DEF Parser!Good
    <2>2. a - 1 \in Parser!LineEnds /\ a - 1 = e - 2
      BY <1>1, <1>5, <2>1 DEF BeginsLine
    <2>3. e \in Parser!Blank
      BY <1>1, <2>2 DEF Parser!Blank
    <2> QED BY <1>1, <2>3
  <1> QED BY <1>1, <1>3, <1>4, <1>5 DEF h

\* The length is known behind the line that gives it.
LEMMA SizeSeenNext ==
  ASSUME ParserTypes, NEW a \in Nat, NEW e \in a + 1 .. Len(stream),
         e \in Parser!LineEnds, \A n \in a + 1 .. e - 1 : Text(n)
  PROVE  SizeSeen(e + 1) = IF SubSeq(stream, a + 1, e - 1) = <<"length">> THEN ContentLength ELSE SizeSeen(a)
  <1>1. IsStream /\ e \in Nat /\ a < e /\ Len(stream) \in Nat /\ stream[e] = "CR" /\ stream[e + 1] = "LF"
        /\ e + 1 <= Len(stream)
    BY StreamIs DEF IsStream, Parser!LineEnds
  <1>2. SubSeq(stream, a + 1, e - 1) = <<"length">> <=> e = a + 2 /\ stream[a + 1] = "length"
    <2>1. a \in Nat /\ e \in a + 1 .. Len(stream) /\ IsStream
      BY <1>1
    <2>2. /\ SubSeq(stream, a + 1, e - 1) = <<>> <=> e = a + 1
          /\ SubSeq(stream, a + 1, e - 1) = <<"length">> <=> e = a + 2 /\ stream[a + 1] = "length"
      BY <2>1, LineIs
    <2> QED BY <2>2
  <1>3. ASSUME NEW n \in 1 .. e + 1, stream[n] = "length"
        PROVE  n \in 1 .. a \/ (n = a + 1 /\ e = a + 2)
    <2>1. n # e /\ n # e + 1
      BY <1>1, <1>3
    <2>2. ASSUME n > a PROVE n = a + 1 /\ e = a + 2
      <3>1. n \in a + 1 .. e - 1 /\ n \in Positions /\ n + 1 \in Positions
        BY <1>1, <2>1, <2>2 DEF Positions
      <3>2. n - 1 \in Positions => ~ Text(n - 1)
        BY <1>3, <3>1, StreamIs
      <3>3. ~ Text(n + 1)
        BY <1>3, <3>1, StreamIs
      <3>4. n - 1 \notin a + 1 .. e - 1
        BY <1>1, <3>1, <3>2 DEF Positions
      <3>5. n + 1 \notin a + 1 .. e - 1
        BY <3>3
      <3> QED BY <1>1, <3>1, <3>4, <3>5
    <2> QED BY <2>2
  <1>4. (\E n \in 1 .. e + 1 : stream[n] = "length") <=>
          (e = a + 2 /\ stream[a + 1] = "length") \/ \E n \in 1 .. a : stream[n] = "length"
    <2>1. \A n \in 1 .. a : n \in 1 .. e + 1
      BY <1>1
    <2>2. e = a + 2 => a + 1 \in 1 .. e + 1
      BY <1>1
    <2> QED BY <1>3, <2>1, <2>2
  <1> QED BY <1>2, <1>4 DEF SizeSeen

-----------------------------------------------------------------------------
(* HttpServer: every step keeps it. *)

\* A new connection looks for the first line of the head.
LEMMA ParserInit == Parser!Init => ParserIInv
  <1> SUFFICES ASSUME Parser!Init PROVE ParserIInv
    OBVIOUS
  <1>1. ParserTypes
    <2>1. stream \in Streams /\ arrived = 0 /\ read_idx = 0 /\ answer = "NO_REQUEST"
      BY DEF Parser!Init
    <2>2. Len(stream) \in Nat
      BY <2>1, ParserAssumption DEF Parser!ParserAssumption
    <2> QED BY <2>1, <2>2 DEF ParserTypes
  <1>2. ReadAsExpected
    <2> SUFFICES ASSUME Parser!Good PROVE answer = "NO_REQUEST" /\ InHead
      BY DEF ReadAsExpected
    <2>1. HeadSize \in 5 .. Len(stream) /\ Len(stream) \in Nat
      BY <1>1, StreamIs, HeadIs DEF IsStream
    <2>2. SizeSeen(0) = 0 /\ BeginsLine(0)
      BY DEF SizeSeen, BeginsLine
    <2> QED BY <2>1, <2>2 DEF Parser!Init, InHead
  <1> QED BY <1>1, <1>2 DEF ParserIInv

\* No step leaves the bounds of the buffer.
LEMMA ParserTypesKept == ASSUME ParserTypes, [Parser!Next]_httpVars PROVE ParserTypes'
  <1>0. Len(stream) \in Nat /\ arrived \in 0 .. Len(stream) /\ read_idx \in 0 .. arrived
    BY StreamIs DEF ParserTypes, IsStream
  <1>1. CASE Parser!Send
    <2>1. stream' = stream /\ arrived' \in arrived + 1 .. Len(stream)
          /\ UNCHANGED <<read_idx, stops, answer, line_status>>
      BY <1>1 DEF Parser!Send, Parser!indices, Parser!machine
    <2> QED BY <1>0, <2>1 DEF ParserTypes
  <1>2. CASE Parser!Read
    BY <1>0, <1>2 DEF Parser!Read, ParserTypes
  <1>3. CASE Parser!process_read
    <2>1. UNCHANGED <<stream, arrived, read_idx, stops>>
      BY <1>3 DEF Parser!process_read, Parser!NoLine, Parser!RequestLine, Parser!Header, Parser!BlankLine,
         Parser!Content
    <2>2. line_status # "none"
      BY <1>3 DEF Parser!process_read, Parser!NoLine, Parser!RequestLine, Parser!Header, Parser!BlankLine,
         Parser!Content, Parser!GetLine, Parser!Parsing, Parser!AtContent
    <2>3. answer' # "NO_REQUEST" => line_status' = "none"
      <3>1. answer = "NO_REQUEST"
        BY <2>2 DEF ParserTypes
      <3>2. UNCHANGED answer \/ line_status' = "none"
        BY <1>3 DEF Parser!process_read, Parser!NoLine, Parser!RequestLine, Parser!Header, Parser!BlankLine,
           Parser!Content, Parser!Return, Parser!do_request, Parser!Continue
      <3> QED BY <3>1, <3>2
    <2> QED BY <2>1, <2>3 DEF ParserTypes
  <1>4. CASE UNCHANGED httpVars
    BY <1>4 DEF httpVars, ParserTypes
  <1> QED BY <1>1, <1>2, <1>3, <1>4 DEF Parser!Next

\* While the parts so far are to be read as expected, so were those before.
LEMMA WasExpected ==
  ASSUME ParserIInv, [Parser!Next]_httpVars,
         Parser!Good', ~ Parser!ContentSplit', answer' # "CLOSED_CONNECTION"
  PROVE  /\ stream' = stream /\ Parser!Good /\ ~ Parser!ContentSplit /\ IsStream
         /\ \/ answer = "NO_REQUEST" /\ (InHead \/ InContent)
            \/ answer # "NO_REQUEST" /\ line_status = "none" /\ read_idx >= Parser!Length
  <1>1. stream' = stream /\ stops \subseteq stops'
    BY DEF Parser!Next, Parser!Send, Parser!Read, Parser!process_read, Parser!NoLine, Parser!RequestLine,
       Parser!Header, Parser!BlankLine, Parser!Content, httpVars
  <1>2. Parser!Good /\ ~ Parser!ContentSplit
    <2>1. HeadSize' = HeadSize /\ Parser!Length' = Parser!Length /\ (Parser!Good' <=> Parser!Good)
      BY <1>1, SameStream
    <2> QED BY <1>1, <2>1 DEF Parser!ContentSplit, HeadSize
  <1>3. answer # "CLOSED_CONNECTION"
    <2> SUFFICES ASSUME answer = "CLOSED_CONNECTION" PROVE FALSE
      OBVIOUS
    <2>1. line_status = "none"
      BY DEF ParserIInv, ParserTypes
    <2> QED BY <2>1 DEF Parser!Next, Parser!Send, Parser!Read, Parser!process_read, Parser!NoLine,
       Parser!RequestLine, Parser!Header, Parser!BlankLine, Parser!Content, Parser!GetLine, Parser!Parsing,
       Parser!AtContent, Parser!machine, httpVars
  <1> QED BY <1>1, <1>2, <1>3, StreamIs DEF ParserIInv, ReadAsExpected, ParserTypes

\* The line that is being looked for, and what parse_line finds.
LEMMA LineInHead ==
  ASSUME ParserTypes, IsStream, Parser!Good, InHead
  PROVE  \E e \in start_line + 1 .. HeadSize - 1 :
           /\ e \in Parser!LineEnds /\ \A n \in start_line + 1 .. e - 1 : Text(n)
           /\ IF read_idx > e
              THEN Parser!parse_line = [status |-> "LINE_OK", checked |-> e + 1,
                                        line |-> SubSeq(stream, start_line + 1, e - 1)]
              ELSE /\ Parser!parse_line.status # "LINE_OK"
                   /\ Parser!parse_line.checked \in checked_idx .. read_idx
                   /\ Parser!parse_line.checked < e
  <1>1. PICK e \in start_line + 1 .. HeadSize - 1 :
          e \in Parser!LineEnds /\ \A n \in start_line + 1 .. e - 1 : Text(n)
    BY LineEndsInHead DEF InHead
  <1>2. HeadSize \in 5 .. Len(stream) /\ Len(stream) \in Nat /\ start_line \in Nat
        /\ read_idx \in 0 .. Len(stream) /\ checked_idx \in start_line .. read_idx
    BY HeadIs DEF IsStream, InHead, ParserTypes
  <1>3. checked_idx \in Nat /\ start_line <= checked_idx /\ checked_idx <= read_idx
    BY <1>2
  <1>4. checked_idx < e
    <2>1. ~ Text(e)
      BY <1>1 DEF Parser!LineEnds, Text
    <2>2. e \notin start_line + 1 .. checked_idx
      BY <2>1 DEF InHead
    <2> QED BY <1>1, <1>2, <1>3, <2>2
  <1> QED BY <1>1, <1>2, <1>3, <1>4, ParseLineIs

\* The two kinds of place after a step that leaves the stream alone.
LEMMA NextPlace ==
  ASSUME stream' = stream
  PROVE  /\ \/ check_state' = "REQUESTLINE" /\ start_line' = 0
            \/ check_state' = "HEADER" /\ start_line' # 0
         /\ start_line' \in 0 .. HeadSize - 2 /\ BeginsLine(start_line')
         /\ checked_idx' \in start_line' .. read_idx' /\ \A n \in start_line' + 1 .. checked_idx' : Text(n)
         /\ content_length' = SizeSeen(start_line')
         /\ line_status' \in {"none", "LINE_OK"} /\ (line_status' = "none" => read_idx' < HeadSize)
         => InHead'
  <1>1. HeadSize' = HeadSize /\ Parser!LineEnds' = Parser!LineEnds
    BY SameStream DEF Parser!LineEnds
  <1> QED BY <1>1 DEF InHead, BeginsLine, Text, SizeSeen

\* The same of the content.
LEMMA NextContent ==
  ASSUME stream' = stream
  PROVE  /\ check_state' = "CONTENT" /\ checked_idx' = HeadSize
         /\ content_length' = ContentLength /\ content_length' # 0 /\ Parser!HasContent
         /\ read_idx' >= HeadSize
         /\ line_status' \in {"none", "LINE_OK", "LINE_OPEN"}
         /\ (line_status' # "LINE_OK" => read_idx' = HeadSize)
         => InContent'
  BY SameStream DEF InContent

\* What ParserIInv says of the state a step leads to, and the premises it has there.
Expected ==
  \/ answer = "NO_REQUEST" /\ (InHead \/ InContent)
  \/ answer # "NO_REQUEST" /\ read_idx >= Parser!Length

Reading ==
  /\ ParserTypes /\ IsStream /\ Parser!Good /\ answer = "NO_REQUEST" /\ (InHead \/ InContent)

\* read() adds what has arrived.
LEMMA ReadKept ==
  ASSUME Reading, stream' = stream, Parser!Read, answer' # "CLOSED_CONNECTION"
  PROVE  Expected'
  <1>1. /\ read_idx' = arrived /\ line_status' = "LINE_OK" /\ read_idx < arrived
        /\ UNCHANGED <<answer, checked_idx, start_line, check_state, content_length>>
    BY DEF Parser!Read
  <1>2. HeadSize \in Nat /\ arrived \in Nat /\ read_idx \in Nat
    BY HeadIs DEF Reading, ParserTypes, IsStream
  <1>3. CASE InHead
    <2>1. start_line \in Nat /\ checked_idx \in start_line .. arrived
      BY <1>1, <1>2, <1>3 DEF InHead
    <2>2. InHead'
      BY <1>1, <1>3, <2>1, NextPlace DEF InHead
    <2> QED BY <1>1, <2>2 DEF Expected, Reading
  <1>4. CASE InContent
    <2>1. InContent'
      BY <1>1, <1>2, <1>4, NextContent DEF InContent
    <2> QED BY <1>1, <2>1 DEF Expected, Reading
  <1> QED BY <1>3, <1>4 DEF Reading

\* Where the content begins nothing is behind the head: there is no line to be found.
LEMMA NothingToParse ==
  ASSUME Reading, InContent, Parser!Parsing
  PROVE  Parser!parse_line = [status |-> "LINE_OPEN", checked |-> HeadSize, line |-> <<>>]
  <1>1. HeadSize \in Nat /\ checked_idx = HeadSize /\ read_idx = HeadSize
    BY HeadIs DEF Reading, InContent, Parser!Parsing, Parser!AtContent, IsStream
  <1>2. Parser!Ends = {}
    BY <1>1 DEF Parser!Ends
  <1> QED BY <1>1, <1>2 DEF Parser!parse_line

\* Without a whole line process_read returns, and keeps its place.
LEMMA NoLineKept ==
  ASSUME Reading, stream' = stream, Parser!NoLine
  PROVE  Expected'
  <1>1. /\ checked_idx' = Parser!parse_line.checked /\ answer' = "NO_REQUEST" /\ line_status' = "none"
        /\ Parser!parse_line.status # "LINE_OK" /\ Parser!Parsing
        /\ UNCHANGED <<read_idx, start_line, check_state, content_length>>
    BY DEF Parser!NoLine, Parser!Return
  <1>2. HeadSize \in Nat /\ read_idx \in Nat
    BY HeadIs DEF Reading, ParserTypes, IsStream
  <1>3. CASE InHead
    <2>1. PICK e \in start_line + 1 .. HeadSize - 1 :
            /\ e \in Parser!LineEnds /\ \A n \in start_line + 1 .. e - 1 : Text(n)
            /\ IF read_idx > e
               THEN Parser!parse_line = [status |-> "LINE_OK", checked |-> e + 1,
                                         line |-> SubSeq(stream, start_line + 1, e - 1)]
               ELSE /\ Parser!parse_line.status # "LINE_OK"
                    /\ Parser!parse_line.checked \in checked_idx .. read_idx
                    /\ Parser!parse_line.checked < e
      BY <1>3, LineInHead DEF Reading
    <2>2. start_line \in Nat /\ e \in Nat /\ e < HeadSize /\ checked_idx \in Nat /\ start_line <= checked_idx
      BY <1>2, <1>3, <2>1 DEF InHead
    <2>3. ~ (read_idx > e)
      BY <1>1, <2>1
    <2>4. checked_idx' \in checked_idx .. read_idx /\ checked_idx' < e
      BY <1>1, <2>1, <2>3
    <2>5. checked_idx' \in start_line .. read_idx /\ \A n \in start_line + 1 .. checked_idx' : Text(n)
      BY <1>2, <2>1, <2>2, <2>4
    <2>6. read_idx < HeadSize
      BY <1>2, <2>2, <2>3
    <2>7. InHead'
      BY <1>1, <1>3, <2>5, <2>6, NextPlace DEF InHead
    <2> QED BY <1>1, <2>7 DEF Expected
  <1>4. CASE InContent
    <2>1. checked_idx' = HeadSize /\ line_status # "LINE_OK"
      BY <1>1, <1>4, NothingToParse DEF Parser!Parsing, Parser!AtContent, InContent
    <2>2. InContent'
      BY <1>1, <1>2, <1>4, <2>1, NextContent DEF InContent
    <2> QED BY <1>1, <2>2 DEF Expected
  <1> QED BY <1>3, <1>4 DEF Reading

\* A line that parse_line has found.
LEMMA LineFound ==
  ASSUME Reading, Parser!GetLine
  PROVE  /\ InHead
         /\ \E e \in start_line + 1 .. HeadSize - 1 :
              /\ e \in Parser!LineEnds /\ \A n \in start_line + 1 .. e - 1 : Text(n)
              /\ read_idx > e /\ checked_idx' = e + 1
              /\ Parser!parse_line.line = SubSeq(stream, start_line + 1, e - 1)
  <1>1. Parser!parse_line.status = "LINE_OK" /\ Parser!Parsing /\ checked_idx' = Parser!parse_line.checked
    BY DEF Parser!GetLine
  <1>2. InHead
    <2> SUFFICES ASSUME InContent PROVE FALSE
      BY DEF Reading
    <2> QED BY <1>1, NothingToParse
  <1>3. PICK e \in start_line + 1 .. HeadSize - 1 :
          /\ e \in Parser!LineEnds /\ \A n \in start_line + 1 .. e - 1 : Text(n)
          /\ IF read_idx > e
             THEN Parser!parse_line = [status |-> "LINE_OK", checked |-> e + 1,
                                       line |-> SubSeq(stream, start_line + 1, e - 1)]
             ELSE /\ Parser!parse_line.status # "LINE_OK"
                  /\ Parser!parse_line.checked \in checked_idx .. read_idx
                  /\ Parser!parse_line.checked < e
    BY <1>2, LineInHead DEF Reading
  <1>4. read_idx > e
    BY <1>1, <1>3
  <1>5. checked_idx' = e + 1 /\ Parser!parse_line.line = SubSeq(stream, start_line + 1, e - 1)
    BY <1>1, <1>3, <1>4
  <1> QED BY <1>2, <1>3, <1>4, <1>5

\* What is behind the line: the next one of the head, with what the length is now known to be.
LEMMA BehindLine ==
  ASSUME Reading, stream' = stream, InHead,
         NEW e \in start_line + 1 .. HeadSize - 1, e \in Parser!LineEnds, read_idx > e,
         \A n \in start_line + 1 .. e - 1 : Text(n), e # start_line + 1,
         start_line' = e + 1, checked_idx' = e + 1, read_idx' = read_idx,
         check_state' = "HEADER", line_status' = "LINE_OK", answer' = "NO_REQUEST",
         content_length' = IF SubSeq(stream, start_line + 1, e - 1) = <<"length">>
                           THEN ContentLength ELSE content_length
  PROVE  Expected'
  <1>1. HeadSize \in Nat /\ HeadSize <= Len(stream) /\ Len(stream) \in Nat /\ read_idx \in Nat
    BY HeadIs DEF Reading, ParserTypes, IsStream
  <1>2. start_line \in Nat /\ start_line \in 0 .. HeadSize - 2 /\ BeginsLine(start_line) /\ e \in Nat
        /\ content_length = SizeSeen(start_line) /\ e \in start_line + 1 .. Len(stream)
    BY <1>1 DEF InHead
  <1>3. e + 1 \in 0 .. HeadSize - 2 /\ BeginsLine(e + 1)
    BY <1>2, NextLine DEF Reading
  <1>4. SizeSeen(e + 1) = IF SubSeq(stream, start_line + 1, e - 1) = <<"length">> THEN ContentLength
                          ELSE SizeSeen(start_line)
    BY <1>2, SizeSeenNext DEF Reading
  <1>5. e + 1 \in e + 1 .. read_idx /\ e + 1 # 0 /\ \A n \in e + 1 + 1 .. e + 1 : Text(n)
    BY <1>1, <1>2
  <1>6. InHead'
    BY <1>2, <1>3, <1>4, <1>5, NextPlace
  <1> QED BY <1>6 DEF Expected

\* The first line is the request.
LEMMA RequestLineKept ==
  ASSUME Reading, stream' = stream, Parser!RequestLine
  PROVE  Expected'
  <1>1. Parser!GetLine /\ check_state = "REQUESTLINE" /\ start_line' = checked_idx'
        /\ UNCHANGED <<read_idx, content_length>>
    BY DEF Parser!RequestLine, Parser!Here
  <1>2. InHead /\ start_line = 0
    BY <1>1, LineFound DEF InHead
  <1>3. PICK e \in start_line + 1 .. HeadSize - 1 :
          /\ e \in Parser!LineEnds /\ \A n \in start_line + 1 .. e - 1 : Text(n)
          /\ read_idx > e /\ checked_idx' = e + 1
          /\ Parser!parse_line.line = SubSeq(stream, start_line + 1, e - 1)
    BY <1>1, LineFound
  <1>4. HeadSize \in Nat /\ HeadSize <= Len(stream) /\ Len(stream) \in Nat
    BY HeadIs DEF Reading, IsStream
  <1>5. e = 2
    <2>1. stream[1] = "get" /\ stream[2] = "CR" /\ stream[e] = "CR"
      BY <1>3 DEF Reading, Parser!Good, Parser!LineEnds
    <2>2. e # 1 /\ 2 \notin start_line + 1 .. e - 1
      BY <1>3, <2>1 DEF Text
    <2> QED BY <1>2, <1>3, <1>4, <2>2
  <1>6. SubSeq(stream, start_line + 1, e - 1) = <<"get">>
    <2>1. start_line \in Nat /\ e \in start_line + 1 .. Len(stream) /\ e = start_line + 2
          /\ stream[start_line + 1] = "get"
      BY <1>2, <1>3, <1>4, <1>5 DEF Reading, Parser!Good
    <2>2. ASSUME NEW x
          PROVE  /\ SubSeq(stream, start_line + 1, e - 1) = <<>> <=> e = start_line + 1
                 /\ SubSeq(stream, start_line + 1, e - 1) = <<x>> <=> e = start_line + 2 /\ stream[start_line + 1] = x
      BY <2>1, LineIs DEF Reading
    <2> QED BY <2>1, <2>2
  <1>7. check_state' = "HEADER" /\ line_status' = "LINE_OK" /\ answer' = "NO_REQUEST"
    BY <1>3, <1>6 DEF Parser!RequestLine, Parser!Continue, Reading
  <1>8. e # start_line + 1 /\ <<"get">> # <<"length">>
    BY <1>2, <1>5
  <1>9. content_length' = IF SubSeq(stream, start_line + 1, e - 1) = <<"length">>
                          THEN ContentLength ELSE content_length
    BY <1>1, <1>6, <1>8
  <1> QED BY <1>1, <1>2, <1>3, <1>7, <1>8, <1>9, BehindLine

\* A header, the one with the length or another.
LEMMA HeaderKept ==
  ASSUME Reading, stream' = stream, Parser!Header
  PROVE  Expected'
  <1>1. Parser!GetLine /\ check_state = "HEADER" /\ start_line' = checked_idx' /\ Parser!parse_line.line # <<>>
        /\ UNCHANGED <<read_idx, check_state, answer>> /\ line_status' = "LINE_OK"
        /\ content_length' = IF Parser!parse_line.line = <<"length">> THEN ContentLength ELSE content_length
    BY DEF Parser!Header, Parser!Here, Parser!Continue
  <1>2. InHead
    BY <1>1, LineFound
  <1>3. PICK e \in start_line + 1 .. HeadSize - 1 :
          /\ e \in Parser!LineEnds /\ \A n \in start_line + 1 .. e - 1 : Text(n)
          /\ read_idx > e /\ checked_idx' = e + 1
          /\ Parser!parse_line.line = SubSeq(stream, start_line + 1, e - 1)
    BY <1>1, LineFound
  <1>4. e # start_line + 1
    <2>1. HeadSize \in Nat /\ HeadSize <= Len(stream) /\ Len(stream) \in Nat /\ start_line \in Nat
      BY <1>2, HeadIs DEF Reading, IsStream, InHead
    <2>2. e \in start_line + 1 .. Len(stream)
      BY <1>3, <2>1
    <2>3. /\ SubSeq(stream, start_line + 1, e - 1) = <<>> <=> e = start_line + 1
          /\ SubSeq(stream, start_line + 1, e - 1) = <<0>> <=> e = start_line + 2 /\ stream[start_line + 1] = 0
      BY <2>1, <2>2, LineIs DEF Reading
    <2> QED BY <1>1, <1>3, <2>3
  <1>5. content_length' = IF SubSeq(stream, start_line + 1, e - 1) = <<"length">>
                          THEN ContentLength ELSE content_length
    BY <1>1, <1>3
  <1>6. check_state' = "HEADER" /\ answer' = "NO_REQUEST"
    BY <1>1 DEF Reading
  <1> QED BY <1>1, <1>2, <1>3, <1>4, <1>5, <1>6, BehindLine

\* The blank line is the end of the head: without content, of the request.
LEMMA BlankLineKept ==
  ASSUME Reading, stream' = stream, Parser!BlankLine
  PROVE  Expected'
  <1>1. Parser!GetLine /\ check_state = "HEADER" /\ Parser!parse_line.line = <<>>
        /\ UNCHANGED <<read_idx, content_length>>
    BY DEF Parser!BlankLine
  <1>2. InHead
    BY <1>1, LineFound
  <1>3. PICK e \in start_line + 1 .. HeadSize - 1 :
          /\ e \in Parser!LineEnds /\ \A n \in start_line + 1 .. e - 1 : Text(n)
          /\ read_idx > e /\ checked_idx' = e + 1
          /\ Parser!parse_line.line = SubSeq(stream, start_line + 1, e - 1)
    BY <1>1, LineFound
  <1>4. HeadSize \in Nat /\ HeadSize <= Len(stream) /\ Len(stream) \in Nat /\ start_line \in Nat
        /\ read_idx \in Nat /\ start_line \in 0 .. HeadSize - 2 /\ BeginsLine(start_line)
    BY <1>2, HeadIs DEF Reading, IsStream, InHead, ParserTypes
  <1>5. e \in Nat /\ e \in start_line + 1 .. Len(stream) /\ SubSeq(stream, start_line + 1, e - 1) = <<>>
    BY <1>1, <1>3, <1>4
  <1>6. e = start_line + 1 /\ SubSeq(stream, start_line + 1, e - 1) # <<"length">>
    <2>1. /\ SubSeq(stream, start_line + 1, e - 1) = <<>> <=> e = start_line + 1
          /\ SubSeq(stream, start_line + 1, e - 1) = <<"length">>
                <=> e = start_line + 2 /\ stream[start_line + 1] = "length"
      BY <1>4, <1>5, LineIs DEF Reading
    <2> QED BY <1>4, <1>5, <2>1
  <1>7. e + 1 = HeadSize
    BY <1>3, <1>4, <1>6, NextLine DEF Reading
  <1>8. checked_idx' = HeadSize /\ read_idx' >= HeadSize
    BY <1>1, <1>3, <1>4, <1>5, <1>7
  <1>9. SizeSeen(HeadSize) = content_length
    <2>1. SizeSeen(e + 1) = IF SubSeq(stream, start_line + 1, e - 1) = <<"length">> THEN ContentLength
                            ELSE SizeSeen(start_line)
      BY <1>3, <1>4, <1>5, SizeSeenNext DEF Reading
    <2> QED BY <1>2, <1>6, <1>7, <2>1 DEF InHead
  <1>10. CASE content_length # 0
    <2>1. content_length' = ContentLength /\ content_length' # 0 /\ Parser!HasContent
      BY <1>1, <1>9, <1>10 DEF SizeSeen, Parser!HasContent, HeadSize
    <2>2. check_state' = "CONTENT" /\ line_status' = "LINE_OK" /\ answer' = "NO_REQUEST"
      BY <1>10 DEF Parser!BlankLine, Parser!Continue, Reading
    <2>3. InContent'
      BY <1>8, <2>1, <2>2, NextContent
    <2> QED BY <2>2, <2>3 DEF Expected
  <1>11. CASE content_length = 0
    <2>1. answer' # "NO_REQUEST"
      BY <1>11 DEF Parser!BlankLine, Parser!do_request, Parser!Return, Parser!Results
    <2>2. Parser!Length = HeadSize
      BY <1>4, <1>9, <1>11 DEF Parser!Length, SizeSeen, Parser!HasContent, HeadSize
    <2>3. Parser!Length' = HeadSize
      BY <2>2, SameStream
    <2> QED BY <1>8, <2>1, <2>3 DEF Expected
  <1> QED BY <1>10, <1>11

\* The content is all there, or none of it.
LEMMA ContentKept ==
  ASSUME Reading, stream' = stream, ~ Parser!ContentSplit, Parser!Content
  PROVE  Expected'
  <1>1. InContent
    BY DEF Reading, InHead, Parser!Content, Parser!AtContent
  <1>2. ~ Parser!GetLine
    <2> SUFFICES ASSUME Parser!GetLine PROVE FALSE
      OBVIOUS
    <2>1. Parser!Parsing /\ Parser!parse_line.status = "LINE_OK"
      BY DEF Parser!GetLine
    <2> QED BY <1>1, <2>1, NothingToParse
  <1>3. checked_idx' = HeadSize
    BY <1>1, <1>2 DEF Parser!Content, InContent
  <1>4. HeadSize \in Nat /\ HeadSize >= 5 /\ read_idx \in Nat /\ ContentLength \in Nat
    BY HeadIs, StreamIs DEF Reading, ParserTypes, IsStream
  <1>5. Parser!Length = HeadSize + ContentLength /\ Parser!Length' = Parser!Length
        /\ content_length = ContentLength /\ read_idx >= HeadSize
    BY <1>1, SameStream DEF Parser!Length, InContent, HeadSize
  <1>6. UNCHANGED <<read_idx, check_state, content_length>>
    BY DEF Parser!Content
  <1>7. CASE read_idx >= content_length + HeadSize
    <2>1. Parser!do_request
      BY <1>3, <1>7 DEF Parser!Content, Parser!IsComplete
    <2>2. answer' # "NO_REQUEST"
      BY <2>1 DEF Parser!do_request, Parser!Return, Parser!Results
    <2>3. read_idx' >= Parser!Length'
      BY <1>4, <1>5, <1>6, <1>7
    <2> QED BY <2>2, <2>3 DEF Expected
  <1>8. CASE ~ (read_idx >= content_length + HeadSize)
    <2>1. line_status' = "LINE_OPEN" /\ answer' = "NO_REQUEST"
      BY <1>3, <1>8 DEF Parser!Content, Parser!IsComplete, Reading
    <2>2. read_idx \in stops
      BY <1>4, <1>5 DEF Reading, ParserTypes
    <2>3. read_idx = HeadSize
      BY <1>4, <1>5, <1>8, <2>2 DEF Parser!ContentSplit, HeadSize
    <2>4. InContent'
      BY <1>1, <1>3, <1>5, <1>6, <2>1, <2>3, NextContent DEF InContent
    <2> QED BY <2>1, <2>4 DEF Expected
  <1> QED BY <1>7, <1>8

\* The invariant of the parser is inductive.
LEMMA ParserNext == ASSUME ParserIInv, [Parser!Next]_httpVars PROVE ParserIInv'
  <1>1. ParserTypes'
    BY ParserTypesKept DEF ParserIInv
  <1>2. ReadAsExpected'
    <2> SUFFICES ASSUME Parser!Good', ~ Parser!ContentSplit', answer' # "CLOSED_CONNECTION" PROVE Expected'
      BY DEF ReadAsExpected, Expected
    <2>1. /\ stream' = stream /\ Parser!Good /\ ~ Parser!ContentSplit /\ IsStream
          /\ \/ answer = "NO_REQUEST" /\ (InHead \/ InContent)
             \/ answer # "NO_REQUEST" /\ line_status = "none" /\ read_idx >= Parser!Length
      BY WasExpected
    <2>2. CASE Parser!Send \/ UNCHANGED httpVars
      <3>1. UNCHANGED <<stream, read_idx, checked_idx, start_line, check_state, content_length, line_status, answer>>
        BY <2>2 DEF Parser!Send, Parser!indices, Parser!machine, httpVars
      <3>2. InHead => InHead'
        BY <2>1, <3>1, NextPlace DEF InHead
      <3>3. InContent => InContent'
        BY <2>1, <3>1, NextContent DEF InContent
      <3>4. Parser!Length' = Parser!Length
        BY <3>1, SameStream
      <3> QED BY <2>1, <3>1, <3>2, <3>3, <3>4 DEF Expected
    <2>3. CASE Parser!Read \/ Parser!process_read
      <3>1. answer = "NO_REQUEST"
        BY <2>1, <2>3 DEF Parser!Read, Parser!process_read, Parser!NoLine, Parser!RequestLine, Parser!Header,
           Parser!BlankLine, Parser!Content, Parser!GetLine, Parser!Parsing, Parser!AtContent
      <3>2. Reading
        BY <2>1, <3>1 DEF Reading, ParserIInv
      <3> QED BY <2>1, <2>3, <3>2, ReadKept, NoLineKept, RequestLineKept, HeaderKept, BlankLineKept, ContentKept
           DEF Parser!process_read
    <2> QED BY <2>2, <2>3 DEF Parser!Next
  <1> QED BY <1>1, <1>2 DEF ParserIInv

\* In the head and in the content there is something left to be read.
LEMMA ParserAnswers == ParserIInv => AnyChunking
  <1> SUFFICES ASSUME ParserIInv, line_status = "none", Parser!Good, ~ Parser!ContentSplit,
                      answer # "CLOSED_CONNECTION"
               PROVE  answer # "NO_REQUEST" <=> read_idx >= Parser!Length
    BY DEF AnyChunking, Parser!AnyChunking
  <1>1. \/ answer = "NO_REQUEST" /\ (InHead \/ InContent)
        \/ answer # "NO_REQUEST" /\ read_idx >= Parser!Length
    BY DEF ParserIInv, ReadAsExpected
  <1>2. HeadSize \in Nat /\ read_idx \in Nat /\ ContentLength \in Nat
    BY StreamIs, HeadIs DEF ParserIInv, ParserTypes, IsStream
  <1>3. InHead => read_idx < Parser!Length
    BY <1>2 DEF InHead, Parser!Length, HeadSize
  <1>4. InContent => read_idx < Parser!Length
    BY <1>2 DEF InContent, Parser!Length, HeadSize
  <1>5. Parser!Length \in Nat
    BY <1>2 DEF Parser!Length, HeadSize
  <1> QED BY <1>1, <1>2, <1>3, <1>4, <1>5

\* A request is answered when all of it has been read and not before, in however
\* many pieces it has come, whatever a client sends (http_conn.cpp 83-126, 169-250).
THEOREM ChunkingInvariant == MCSpec => []AnyChunking
  <1>1. MCInit => ParserIInv
    BY ParserInit DEF MCInit
  <1>2. ParserIInv /\ [MCNext]_everything => ParserIInv'
    <2> SUFFICES ASSUME ParserIInv, [MCNext]_everything PROVE ParserIInv'
      OBVIOUS
    <2>1. [Parser!Next]_httpVars
      BY DEF MCNext, WebStep, ChatStep, HttpStep, everything
    <2> QED BY <2>1, ParserNext
  <1> QED BY <1>1, <1>2, ParserAnswers, PTL DEF MCSpec
=============================================================================
