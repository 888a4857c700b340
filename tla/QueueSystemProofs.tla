------------------------- MODULE QueueSystemProofs -------------------------
(***************************************************************************)
(* Proofs about the bank of QueueSystem, for any number of windows, any    *)
(* times and any number of customers and runs; and about its two queues    *)
(* (LinkedQueue), for any number of nodes and any elements.                *)
(***************************************************************************)
EXTENDS MCQueueSystem, FiniteSetTheorems, WellFoundedInduction, TLAPS

-----------------------------------------------------------------------------
(* Numbers. *)

\* A set of numbers has a least member.
LEMMA LeastMember ==
  ASSUME NEW S \in SUBSET Nat, S # {}
  PROVE  \E m \in S : \A k \in S : m <= k
  <1>1. IsWellFoundedOn(OpToRel(<, Nat), Nat)
    BY NatLessThanWellFounded
  <1>2. PICK m \in S : \A k \in S : ~ (<<k, m>> \in OpToRel(<, Nat))
    BY <1>1, WFMin
  <1>3. \A k \in S : ~ (k < m)
    BY <1>2 DEF OpToRel
  <1> QED BY <1>3
-----------------------------------------------------------------------------
(* Lists of events in order. *)

Events == [occur_time : Nat, event_type : Windows \union {-1}]

EventsIn(list) == {list[i] : i \in 1..Len(list)}

OnePerType(list) ==
  \A i, j \in 1..Len(list) : list[i].event_type = list[j].event_type => i = j

\* In a list in order the events before time t are the first ones.
LEMMA BeforeIsPrefix ==
  ASSUME NEW X, \A x \in X : x.occur_time \in Nat,
         NEW list \in Seq(X), InOrder(list), NEW t \in Nat
  PROVE  /\ Before(list, t) \in 0..Len(list)
         /\ \A i \in 1..Before(list, t) : list[i].occur_time < t
         /\ \A i \in Before(list, t) + 1..Len(list) : list[i].occur_time >= t
  <1> DEFINE n == Len(list)
             Early == {i \in 1..n : list[i].occur_time < t}
             Late == (1..n + 1) \ Early
  <1>1. n \in Nat /\ \A i \in 1..n : list[i].occur_time \in Nat
    <2>1. n \in Nat /\ \A i \in 1..n : list[i] \in X
      OBVIOUS
    <2> QED BY <2>1
  <1>2. Late \in SUBSET Nat /\ n + 1 \in Late
    BY <1>1
  <1>3. PICK m \in Late : \A k \in Late : m <= k
    BY <1>2, LeastMember
  <1>4. m \in 1..n + 1
    OBVIOUS
  <1>5. Early = 1..m - 1
    <2>1. ASSUME NEW i \in 1..m - 1 PROVE i \in Early
      BY <1>1, <1>3, <1>4
    <2>2. ASSUME NEW i \in Early PROVE i \in 1..m - 1
      <3>1. SUFFICES ASSUME m <= i PROVE FALSE
        BY <1>4
      <3>2. m \in 1..n /\ i \in 1..n /\ list[i].occur_time < t
        BY <1>4, <3>1
      <3>3. list[m].occur_time <= list[i].occur_time
        BY <1>1, <3>1, <3>2 DEF InOrder
      <3>4. m \in Early
        BY <1>1, <3>2, <3>3
      <3> QED BY <3>4
    <2> QED BY <2>1, <2>2
  <1>6. Before(list, t) = m - 1
    <2>1. Cardinality(1..m - 1) = m - 1
      BY <1>1, <1>4, FS_Interval
    <2> QED BY <1>5, <2>1 DEF Before
  <1>7. ASSUME NEW i \in m..n PROVE list[i].occur_time >= t
    <2>1. i \notin Early /\ i \in 1..n
      BY <1>1, <1>4, <1>5
    <2> QED BY <1>1, <2>1
  <1>8. \A i \in 1..m - 1 : list[i].occur_time < t
    BY <1>5
  <1> HIDE DEF Early, Late
  <1> QED BY <1>1, <1>4, <1>6, <1>7, <1>8

\* Where each event of the list is after an insertion.
LEMMA InsertPlaces ==
  ASSUME NEW X, \A x \in X : x.occur_time \in Nat,
         NEW list \in Seq(X), InOrder(list), NEW e \in X
  PROVE  LET k == Before(list, e.occur_time)
         IN  /\ Insert(list, e) \in Seq(X)
             /\ Len(Insert(list, e)) = Len(list) + 1
             /\ \A i \in 1..k : Insert(list, e)[i] = list[i]
             /\ Insert(list, e)[k + 1] = e
             /\ \A i \in k + 2..Len(list) + 1 : Insert(list, e)[i] = list[i - 1]
  <1> DEFINE k == Before(list, e.occur_time)
             n == Len(list)
             A == SubSeq(list, 1, k)
             B == SubSeq(list, k + 1, n)
  <1>1. e.occur_time \in Nat
    OBVIOUS
  <1>2. k \in 0..n /\ n \in Nat
    BY <1>1, BeforeIsPrefix
  <1> HIDE DEF k
  <1>3. /\ A \in Seq(X) /\ Len(A) = k
        /\ \A i \in 1..k : A[i] = list[i]
    BY <1>2
  <1>4. /\ B \in Seq(X) /\ Len(B) = n - k
        /\ \A i \in 1..n - k : B[i] = list[k + i]
    BY <1>2
  <1>5. Insert(list, e) = A \o <<e>> \o B
    BY DEF Insert, k
  <1> HIDE DEF A, B
  <1> DEFINE C == A \o <<e>>
  <1>6. /\ C \in Seq(X) /\ Len(C) = k + 1
        /\ \A i \in 1..k : C[i] = list[i]
        /\ C[k + 1] = e
    BY <1>2, <1>3
  <1> HIDE DEF C
  <1>7. C \o B \in Seq(X) /\ Len(C \o B) = n + 1
    <2>1. C \in Seq(X) /\ B \in Seq(X)
      BY <1>4, <1>6
    <2>2. Len(C \o B) = Len(C) + Len(B)
      BY <2>1
    <2> QED BY <1>2, <1>4, <1>6, <2>1, <2>2
  <1>8. /\ \A i \in 1..k : (C \o B)[i] = list[i]
        /\ (C \o B)[k + 1] = e
    BY <1>2, <1>4, <1>6
  <1>9. ASSUME NEW i \in k + 2..n + 1 PROVE (C \o B)[i] = list[i - 1]
    <2>1. (C \o B)[i] = B[i - (k + 1)]
      BY <1>2, <1>4, <1>6
    <2>2. i - (k + 1) \in 1..n - k /\ k + (i - (k + 1)) = i - 1
      BY <1>2
    <2>3. B[i - (k + 1)] = list[i - 1]
      BY <1>4, <2>2
    <2> QED BY <2>1, <2>3
  <1> QED BY <1>5, <1>7, <1>8, <1>9 DEF k, C

\* An insertion keeps the order.
LEMMA InsertOrdered ==
  ASSUME NEW X, \A x \in X : x.occur_time \in Nat,
         NEW list \in Seq(X), InOrder(list), NEW e \in X
  PROVE  InOrder(Insert(list, e))
  <1> DEFINE k == Before(list, e.occur_time)
             n == Len(list)
             L == Insert(list, e)
  <1>1. /\ e.occur_time \in Nat /\ n \in Nat /\ k \in 0..n
        /\ \A i \in 1..k : list[i].occur_time < e.occur_time
        /\ \A i \in k + 1..n : list[i].occur_time >= e.occur_time
        /\ \A i \in 1..n : list[i].occur_time \in Nat
    <2>1. e.occur_time \in Nat /\ n \in Nat
      OBVIOUS
    <2>2. \A i \in 1..n : list[i] \in X
      OBVIOUS
    <2> QED BY <2>1, <2>2, BeforeIsPrefix
  <1>2. /\ L \in Seq(X) /\ Len(L) = n + 1
        /\ \A i \in 1..k : L[i] = list[i]
        /\ L[k + 1] = e
        /\ \A i \in k + 2..n + 1 : L[i] = list[i - 1]
    BY InsertPlaces
  <1> HIDE DEF L, k
  <1>3. InOrder(L)
    <2>1. SUFFICES ASSUME NEW i \in 1..n + 1, NEW j \in 1..n + 1, i < j
                   PROVE  L[i].occur_time <= L[j].occur_time
      BY <1>2 DEF InOrder
    <2>2. CASE j <= k
      <3>1. i \in 1..k /\ j \in 1..k /\ i \in 1..n /\ j \in 1..n
        BY <1>1, <2>1, <2>2
      <3>2. L[i] = list[i] /\ L[j] = list[j]
        BY <1>2, <3>1
      <3> QED BY <2>1, <3>1, <3>2 DEF InOrder
    <2>3. CASE j = k + 1
      <3>1. i \in 1..k
        BY <1>1, <2>1, <2>3
      <3>2. L[i] = list[i] /\ L[j] = e
        BY <1>2, <2>3, <3>1
      <3>3. list[i].occur_time < e.occur_time /\ i \in 1..n
        BY <1>1, <3>1
      <3> QED BY <1>1, <3>2, <3>3
    <2>4. CASE j > k + 1
      <3>1. j \in k + 2..n + 1 /\ j - 1 \in k + 1..n
        BY <1>1, <2>4
      <3>2. L[j] = list[j - 1] /\ list[j - 1].occur_time >= e.occur_time
        BY <1>1, <1>2, <3>1
      <3>3. CASE i <= k
        <4>1. i \in 1..k /\ i \in 1..n
          BY <1>1, <3>3
        <4>2. L[i] = list[i] /\ list[i].occur_time < e.occur_time /\ list[i].occur_time \in Nat
          BY <1>1, <1>2, <4>1
        <4>3. list[j - 1].occur_time \in Nat
          BY <1>1, <3>1
        <4> QED BY <1>1, <3>2, <4>2, <4>3
      <3>4. CASE i = k + 1
        BY <1>1, <1>2, <3>2, <3>4
      <3>5. CASE i > k + 1
        <4>1. i \in k + 2..n + 1 /\ i - 1 \in 1..n /\ j - 1 \in 1..n /\ i - 1 < j - 1
          BY <1>1, <2>1, <3>1, <3>5
        <4>2. L[i] = list[i - 1]
          BY <1>2, <4>1
        <4>3. list[i - 1].occur_time <= list[j - 1].occur_time
          BY <4>1 DEF InOrder
        <4> QED BY <3>2, <4>2, <4>3
      <3> QED BY <1>1, <3>3, <3>4, <3>5
    <2> QED BY <1>1, <2>2, <2>3, <2>4
  <1> QED BY <1>3 DEF L

\* An insertion adds the event, and keeps the order and that there is one event
\* of each type.
LEMMA InsertKeeps ==
  ASSUME NEW list \in Seq(Events), InOrder(list), NEW e \in Events
  PROVE  /\ Insert(list, e) \in Seq(Events)
         /\ InOrder(Insert(list, e))
         /\ EventsIn(Insert(list, e)) = EventsIn(list) \union {e}
         /\ OnePerType(list) /\ (\A x \in EventsIn(list) : x.event_type # e.event_type)
              => OnePerType(Insert(list, e))
  <1> DEFINE k == Before(list, e.occur_time)
             n == Len(list)
             L == Insert(list, e)
  <1>0. \A x \in Events : x.occur_time \in Nat
    BY DEF Events
  <1>1. /\ e.occur_time \in Nat /\ n \in Nat /\ k \in 0..n
        /\ \A i \in 1..k : list[i].occur_time < e.occur_time
        /\ \A i \in k + 1..n : list[i].occur_time >= e.occur_time
        /\ \A i \in 1..n : list[i].occur_time \in Nat
    <2>1. e.occur_time \in Nat /\ n \in Nat
      BY <1>0
    <2>2. \A i \in 1..n : list[i] \in Events
      OBVIOUS
    <2> QED BY <1>0, <2>1, <2>2, BeforeIsPrefix
  <1>2. /\ L \in Seq(Events) /\ Len(L) = n + 1
        /\ \A i \in 1..k : L[i] = list[i]
        /\ L[k + 1] = e
        /\ \A i \in k + 2..n + 1 : L[i] = list[i - 1]
    BY <1>0, InsertPlaces
  <1> HIDE DEF L, k
  <1>3. InOrder(Insert(list, e))
    BY <1>0, InsertOrdered
  <1>4. \A i \in 1..n + 1 : i # k + 1 =>
           \E j \in 1..n : L[i] = list[j] /\ j = IF i <= k THEN i ELSE i - 1
    BY <1>1, <1>2
  <1>5. \A j \in 1..n : \E i \in 1..n + 1 : L[i] = list[j]
    <2>1. ASSUME NEW j \in 1..n, j <= k PROVE \E i \in 1..n + 1 : L[i] = list[j]
      BY <1>1, <1>2, <2>1
    <2>2. ASSUME NEW j \in 1..n, j > k PROVE \E i \in 1..n + 1 : L[i] = list[j]
      <3>1. j + 1 \in k + 2..n + 1 /\ (j + 1) - 1 = j
        BY <1>1, <2>2
      <3>2. L[j + 1] = list[j]
        BY <1>2, <3>1
      <3> QED BY <1>1, <3>1, <3>2
    <2> QED BY <1>1, <2>1, <2>2
  <1>6. EventsIn(L) = EventsIn(list) \union {e}
    <2>1. ASSUME NEW x \in EventsIn(L) PROVE x \in EventsIn(list) \union {e}
      <3>1. PICK i \in 1..n + 1 : x = L[i]
        BY <1>2 DEF EventsIn
      <3> QED BY <1>2, <1>4, <3>1 DEF EventsIn
    <2>2. ASSUME NEW x \in EventsIn(list) \union {e} PROVE x \in EventsIn(L)
      <3>1. k + 1 \in 1..n + 1
        BY <1>1
      <3> QED BY <1>2, <1>5, <2>2, <3>1 DEF EventsIn
    <2> QED BY <2>1, <2>2
  <1>7. ASSUME OnePerType(list), \A x \in EventsIn(list) : x.event_type # e.event_type
        PROVE  OnePerType(L)
    <2>1. SUFFICES ASSUME NEW i \in 1..n + 1, NEW j \in 1..n + 1,
                          L[i].event_type = L[j].event_type
                   PROVE  i = j
      BY <1>2 DEF OnePerType
    <2>2. \A m \in 1..n : list[m].event_type # e.event_type
      BY <1>7 DEF EventsIn
    <2>3. CASE i = k + 1 \/ j = k + 1
      BY <1>2, <1>4, <2>1, <2>2, <2>3
    <2>4. CASE i # k + 1 /\ j # k + 1
      <3>1. PICK a \in 1..n : L[i] = list[a] /\ a = IF i <= k THEN i ELSE i - 1
        BY <1>4, <2>4
      <3>2. PICK b \in 1..n : L[j] = list[b] /\ b = IF j <= k THEN j ELSE j - 1
        BY <1>4, <2>4
      <3>3. a = b
        BY <1>7, <2>1, <3>1, <3>2 DEF OnePerType
      <3> QED BY <1>1, <2>4, <3>1, <3>2, <3>3
    <2> QED BY <2>3, <2>4
  <1> QED BY <1>2, <1>3, <1>6, <1>7 DEF L

-----------------------------------------------------------------------------
(* The inductive invariant. *)

Customers == [arriveTime : 0..total_service_time - 1, duration : 0..SERVICE_TIME_MAX]

WindowStates == [status : {"IDLE", "SERVICE"}, arriveTime : 0..total_service_time - 1]

Types ==
  /\ current_event \in Events \union {Null}
  /\ event_list \in Seq(Events)
  /\ current_event = Null => event_list = <<>>
  /\ customer_list \in Seq(Customers)
  /\ windows \in [Windows -> WindowStates]
  /\ total_customer_stay_time \in Nat /\ total_customer_num \in Nat
  /\ runs \in 1..simulate_num + 1
  /\ returned \in Nat \union {Null}

\* What is to come is in the order of its times, one event of each type, and
\* nobody comes after closing.
Schedule ==
  /\ InOrder(Pending) /\ OnePerType(Pending)
  /\ \A e \in EventsIn(Pending) : e.event_type = -1 => e.occur_time < total_service_time

\* A departure is that of somebody in service, not before he came.
DeparturesServed ==
  \A w \in Windows, e \in EventsIn(Pending) :
    e.event_type = w => /\ windows[w].status = "SERVICE"
                        /\ windows[w].arriveTime <= e.occur_time

\* Until closing everybody in service has a departure to come.
ServedDepart ==
  \A w \in Windows :
    windows[w].status = "SERVICE" =>
      \/ current_event = Null \/ now >= total_service_time
      \/ \E e \in EventsIn(Pending) : e.event_type = w

\* Customers wait in the order they came, and everybody at a window came before
\* them.
QueueSorted ==
  /\ \A i, j \in 1..Len(customer_list) :
       i < j => customer_list[i].arriveTime <= customer_list[j].arriveTime
  /\ \A w \in Windows, i \in 1..Len(customer_list) :
       windows[w].status = "SERVICE" => windows[w].arriveTime <= customer_list[i].arriveTime

\* Nobody has come later than now.
NobodyFromTheFuture ==
  current_event # Null =>
    /\ \A i \in 1..Len(customer_list) : customer_list[i].arriveTime <= now
    /\ \A w \in Windows : windows[w].status = "SERVICE" => windows[w].arriveTime <= now

\* Before the average is taken somebody has come.
SomebodyCame ==
  total_customer_num > 0 \/ (current_event # Null /\ current_event.event_type = -1)

IInv ==
  /\ Types
  /\ Schedule
  /\ DeparturesServed /\ ServedDepart
  /\ QueueSorted /\ NobodyFromTheFuture
  /\ NoneWaitsInVain
  /\ SomebodyCame

-----------------------------------------------------------------------------
(* The lists of events the handlers go on with. *)

\* The current event comes first, and no other is of its type.
LEMMA RestOfSchedule ==
  ASSUME Types, Schedule, current_event # Null
  PROVE  /\ current_event \in Events /\ now \in Nat
         /\ InOrder(event_list) /\ OnePerType(event_list)
         /\ EventsIn(Pending) = {current_event} \union EventsIn(event_list)
         /\ EventsIn(event_list) \subseteq Events
         /\ \A e \in EventsIn(event_list) :
              e.occur_time >= now /\ e.event_type # current_event.event_type
  <1> DEFINE n == Len(event_list)
  <1>1. /\ current_event \in Events /\ event_list \in Seq(Events) /\ n \in Nat
        /\ Pending = <<current_event>> \o event_list
    BY DEF Types, Pending
  <1>2. now \in Nat
    BY <1>1 DEF Events, now
  <1>3. /\ Len(Pending) = n + 1 /\ Pending[1] = current_event
        /\ \A i \in 1..n : Pending[i + 1] = event_list[i] /\ event_list[i] \in Events
    BY <1>1
  <1> HIDE DEF Pending
  <1>4. InOrder(event_list)
    <2>1. ASSUME NEW i \in 1..n, NEW j \in 1..n, i < j
          PROVE  event_list[i].occur_time <= event_list[j].occur_time
      <3>1. i + 1 \in 1..n + 1 /\ j + 1 \in 1..n + 1 /\ i + 1 < j + 1
        BY <1>1, <2>1
      <3>2. Pending[i + 1].occur_time <= Pending[j + 1].occur_time
        BY <1>3, <3>1 DEF Schedule, InOrder
      <3> QED BY <1>3, <3>2
    <2> QED BY <2>1 DEF InOrder
  <1>5. OnePerType(event_list)
    <2>1. ASSUME NEW i \in 1..n, NEW j \in 1..n,
                 event_list[i].event_type = event_list[j].event_type
          PROVE  i = j
      <3>1. i + 1 \in 1..n + 1 /\ j + 1 \in 1..n + 1
        BY <1>1
      <3>2. i + 1 = j + 1
        BY <1>3, <2>1, <3>1 DEF Schedule, OnePerType
      <3> QED BY <3>2
    <2> QED BY <2>1 DEF OnePerType
  <1>6. EventsIn(Pending) = {current_event} \union EventsIn(event_list)
    <2>1. ASSUME NEW e \in EventsIn(Pending)
          PROVE  e \in {current_event} \union EventsIn(event_list)
      <3>1. PICK i \in 1..n + 1 : e = Pending[i]
        BY <1>3 DEF EventsIn
      <3>2. CASE i = 1
        BY <1>3, <3>1, <3>2
      <3>3. CASE i > 1
        <4>1. i - 1 \in 1..n /\ (i - 1) + 1 = i
          BY <1>1, <3>3
        <4> QED BY <1>3, <3>1, <4>1 DEF EventsIn
      <3> QED BY <3>2, <3>3
    <2>2. current_event \in EventsIn(Pending)
      <3>1. 1 \in 1..n + 1
        BY <1>1
      <3> QED BY <1>3, <3>1 DEF EventsIn
    <2>3. ASSUME NEW e \in EventsIn(event_list) PROVE e \in EventsIn(Pending)
      <3>1. PICK i \in 1..n : e = event_list[i]
        BY DEF EventsIn
      <3>2. i + 1 \in 1..n + 1
        BY <1>1
      <3> QED BY <1>3, <3>1, <3>2 DEF EventsIn
    <2> QED BY <2>1, <2>2, <2>3
  <1>7. ASSUME NEW e \in EventsIn(event_list)
        PROVE  e \in Events /\ e.occur_time >= now /\ e.event_type # current_event.event_type
    <2>1. PICK i \in 1..n : e = event_list[i]
      BY DEF EventsIn
    <2>2. 1 \in 1..n + 1 /\ i + 1 \in 1..n + 1 /\ 1 < i + 1
      BY <1>1
    <2>3. current_event.occur_time <= e.occur_time
      BY <1>3, <2>1, <2>2 DEF Schedule, InOrder
    <2>4. e.event_type # current_event.event_type
      <3>1. SUFFICES ASSUME e.event_type = current_event.event_type PROVE FALSE
        OBVIOUS
      <3>2. 1 = i + 1
        BY <1>3, <2>1, <2>2, <3>1 DEF Schedule, OnePerType
      <3> QED BY <3>2
    <2>5. e \in Events /\ e.occur_time \in Nat
      BY <1>3, <2>1 DEF Events
    <2> QED BY <1>2, <2>3, <2>4, <2>5 DEF now
  <1> QED BY <1>1, <1>2, <1>4, <1>5, <1>6, <1>7

\* What a handler leaves in the list becomes what is pending, and the clock goes
\* on to the first of it.
LEMMA ProceedGoesOn ==
  ASSUME NEW list \in Seq(Events), Proceed(list)
  PROVE  /\ current_event' \in Events \union {Null}
         /\ event_list' \in Seq(Events)
         /\ current_event' = Null => event_list' = <<>>
         /\ Pending' = list
         /\ current_event' # Null => current_event' \in EventsIn(list)
  <1>0. Null \notin Events
    BY SystemAssumption DEF Events, Windows
  <1>1. CASE list = <<>>
    BY <1>1 DEF Proceed, Pending
  <1>2. CASE list # <<>>
    <2>1. /\ current_event' = Head(list) /\ event_list' = Tail(list)
          /\ Head(list) \in Events /\ Tail(list) \in Seq(Events)
      BY <1>2 DEF Proceed
    <2>2. <<Head(list)>> \o Tail(list) = list
      BY <1>2
    <2>3. Head(list) \in EventsIn(list)
      <3>1. Head(list) = list[1] /\ 1 \in 1..Len(list)
        BY <1>2
      <3> QED BY <3>1 DEF EventsIn
    <2> QED BY <1>0, <2>1, <2>2, <2>3 DEF Pending
  <1> QED BY <1>1, <1>2

\* The list with the arrival that a customer's arrival leads to.
LEMMA NextArrivalKeeps ==
  ASSUME Types, Schedule, current_event # Null, current_event.event_type = -1,
         NEW inter \in uniform(INTERVAL)
  PROVE  LET list == NextArrival(inter)
         IN  /\ list \in Seq(Events) /\ InOrder(list) /\ OnePerType(list)
             /\ EventsIn(event_list) \subseteq EventsIn(list)
             /\ \A e \in EventsIn(list) \ EventsIn(event_list) :
                  /\ e.event_type = -1
                  /\ e.occur_time \in now..total_service_time - 1
  <1>1. inter \in Nat /\ now \in Nat /\ now + inter \in Nat
    BY RestOfSchedule, SystemAssumption DEF uniform
  <1>2. Arrival(now + inter) \in Events
    BY <1>1 DEF Arrival, Event, Events
  <1>3. event_list \in Seq(Events)
    BY DEF Types
  <1>4. CASE now + inter < total_service_time
    <2> DEFINE a == Arrival(now + inter)
    <2>1. a.event_type = -1 /\ a.occur_time = now + inter
      BY DEF Arrival, Event
    <2>2. NextArrival(inter) = Insert(event_list, a)
      BY <1>4 DEF NextArrival
    <2>3. \A x \in EventsIn(event_list) : x.event_type # a.event_type
      BY <2>1, RestOfSchedule
    <2> HIDE DEF a
    <2>4. /\ Insert(event_list, a) \in Seq(Events) /\ InOrder(Insert(event_list, a))
          /\ OnePerType(Insert(event_list, a))
          /\ EventsIn(Insert(event_list, a)) = EventsIn(event_list) \union {a}
      BY <1>2, <1>3, <2>3, InsertKeeps, RestOfSchedule DEF a
    <2>5. a.occur_time \in now..total_service_time - 1
      BY <1>1, <1>4, <2>1, SystemAssumption
    <2> QED BY <2>1, <2>2, <2>4, <2>5
  <1>5. CASE ~ (now + inter < total_service_time)
    <2>1. NextArrival(inter) = event_list
      BY <1>5 DEF NextArrival
    <2> QED BY <1>3, <2>1, RestOfSchedule
  <1> QED BY <1>4, <1>5

\* The list with the departure of a customer who goes to window w.
LEMMA DepartureKeeps ==
  ASSUME NEW list \in Seq(Events), InOrder(list), OnePerType(list),
         now \in Nat, NEW w \in Windows, \A e \in EventsIn(list) : e.event_type # w,
         NEW customer \in Customers
  PROVE  LET d == Departure(customer, w)
         IN  /\ Insert(list, d) \in Seq(Events)
             /\ InOrder(Insert(list, d)) /\ OnePerType(Insert(list, d))
             /\ EventsIn(Insert(list, d)) = EventsIn(list) \union {d}
             /\ d.event_type = w /\ d.occur_time \in Nat /\ d.occur_time >= now
  <1> DEFINE d == Departure(customer, w)
  <1>1. customer.duration \in Nat
    BY SystemAssumption DEF Customers
  <1>2. d.event_type = w /\ d.occur_time = now + customer.duration
    BY DEF Departure, Event
  <1>3. d \in Events
    BY <1>1 DEF Departure, Event, Events
  <1> HIDE DEF d
  <1>4. d.occur_time \in Nat /\ d.occur_time >= now
    BY <1>1, <1>2
  <1>5. \A x \in EventsIn(list) : x.event_type # d.event_type
    BY <1>2
  <1> QED BY <1>2, <1>3, <1>4, <1>5, InsertKeeps DEF d

-----------------------------------------------------------------------------
(* Every step keeps the invariant. *)

\* What every handler of an event does to the schedule.
LEMMA ScheduleKept ==
  ASSUME IInv, current_event # Null,
         NEW list \in Seq(Events), InOrder(list), OnePerType(list),
         \A e \in EventsIn(list) : /\ e.occur_time \in Nat /\ e.occur_time >= now
                                   /\ e.event_type = -1 => e.occur_time < total_service_time,
         Proceed(list)
  PROVE  /\ Schedule'
         /\ current_event' \in Events \union {Null} /\ event_list' \in Seq(Events)
         /\ current_event' = Null => event_list' = <<>>
         /\ EventsIn(Pending)' = EventsIn(list)
         /\ current_event' # Null => now' \in Nat /\ now' >= now
  <1>1. /\ current_event' \in Events \union {Null} /\ event_list' \in Seq(Events)
        /\ current_event' = Null => event_list' = <<>>
        /\ Pending' = list
        /\ current_event' # Null => current_event' \in EventsIn(list)
    BY ProceedGoesOn
  <1>2. EventsIn(Pending)' = EventsIn(list)
    BY <1>1 DEF EventsIn
  <1>3. InOrder(Pending)' /\ OnePerType(Pending)'
    BY <1>1 DEF InOrder, OnePerType
  <1>4. Schedule'
    BY <1>2, <1>3 DEF Schedule
  <1>5. current_event' # Null => now' \in Nat /\ now' >= now
    BY <1>1 DEF now
  <1> QED BY <1>1, <1>2, <1>4, <1>5

\* The customer who arrives comes before closing.
LEMMA ArrivesBeforeClosing ==
  ASSUME IInv, current_event # Null, current_event.event_type = -1
  PROVE  /\ now \in 0..total_service_time - 1
         /\ \A duration \in uniform(SERVICE_TIME_MAX) : Customer(now, duration) \in Customers
  <1>1. current_event \in EventsIn(Pending) /\ now \in Nat
    BY RestOfSchedule DEF IInv
  <1>2. now \in 0..total_service_time - 1
    BY <1>1, SystemAssumption DEF IInv, Schedule, now
  <1> QED BY <1>2 DEF Customer, Customers, uniform

\* Events other than the current one were pending before it was handled.
LEMMA RestWasPending ==
  ASSUME IInv, current_event # Null, NEW e \in EventsIn(event_list)
  PROVE  /\ e \in EventsIn(Pending) /\ e \in Events
         /\ e.occur_time \in Nat /\ e.occur_time >= now
         /\ e.event_type # current_event.event_type
         /\ e.event_type = -1 => e.occur_time < total_service_time
  <1>1. /\ e \in EventsIn(Pending) /\ e \in Events
        /\ e.occur_time >= now /\ e.event_type # current_event.event_type
    BY RestOfSchedule DEF IInv
  <1>2. e.event_type = -1 => e.occur_time < total_service_time
    BY <1>1 DEF IInv, Schedule
  <1> QED BY <1>1, <1>2 DEF Events

\* The clock goes on to the next event, if there is one.
Forward == current_event' # Null => now' >= now

\* An idle window takes the customer at once.
LEMMA ArrivesAndIsServedKeeps == IInv /\ ArrivesAndIsServed => IInv' /\ Forward
  <1> SUFFICES ASSUME IInv, ArrivesAndIsServed PROVE IInv' /\ Forward
    OBVIOUS
  <1>1. PICK inter \in uniform(INTERVAL), duration \in uniform(SERVICE_TIME_MAX) :
          /\ CustomerArrived(inter)
          /\ ToWindow(NextArrival(inter), Join(Customer(now, duration)))
    BY DEF ArrivesAndIsServed
  <1> DEFINE c == Customer(now, duration)
             w == getIdelServiceWindow
             M == NextArrival(inter)
             d == Departure(c, w)
             L == Insert(M, d)
  <1>2. /\ current_event # Null /\ current_event.event_type = -1
        /\ total_customer_num' = total_customer_num + 1
        /\ UNCHANGED <<total_customer_stay_time, runs, start, returned>>
    BY <1>1 DEF CustomerArrived, simulation
  <1>3. now \in 0..total_service_time - 1 /\ c \in Customers /\ c.arriveTime = now
    BY <1>2, ArrivesBeforeClosing DEF Customer
  <1>4. w \in Windows /\ windows[w].status = "IDLE"
    <2>1. Idle \in SUBSET Nat /\ Idle # {}
      BY <1>1, SystemAssumption DEF Idle, Windows, ToWindow
    <2>2. \E v \in Idle : \A u \in Idle : v <= u
      BY <2>1, LeastMember
    <2>3. w \in Idle
      BY <2>2 DEF getIdelServiceWindow
    <2> QED BY <2>3 DEF Idle
  <1>5. customer_list = <<>>
    BY <1>1 DEF IInv, NoneWaitsInVain, ToWindow
  <1>6. Head(Join(c)) = c /\ Tail(Join(c)) = <<>>
    BY <1>5 DEF Join
  <1>7. /\ customer_list' = <<>>
        /\ windows' = [windows EXCEPT ![w] = [status |-> "SERVICE", arriveTime |-> now]]
        /\ Proceed(L)
    BY <1>1, <1>3, <1>6 DEF ToWindow, Serve
  <1>8. /\ M \in Seq(Events) /\ InOrder(M) /\ OnePerType(M)
        /\ EventsIn(event_list) \subseteq EventsIn(M)
        /\ \A e \in EventsIn(M) \ EventsIn(event_list) :
             e.event_type = -1 /\ e.occur_time \in now..total_service_time - 1
    BY <1>2, NextArrivalKeeps DEF IInv
  <1>9. w # -1
    BY <1>4, SystemAssumption DEF Windows
  <1>10. \A e \in EventsIn(M) : e.event_type # w
    BY <1>2, <1>4, <1>8, <1>9, RestWasPending DEF IInv, DeparturesServed
  <1> HIDE DEF c, w, M, d
  <1>11. /\ L \in Seq(Events) /\ InOrder(L) /\ OnePerType(L)
         /\ EventsIn(L) = EventsIn(M) \union {d}
         /\ d.event_type = w /\ d.occur_time \in Nat /\ d.occur_time >= now
    BY <1>3, <1>4, <1>8, <1>10, DepartureKeeps DEF d
  <1> HIDE DEF L
  <1>12. \A e \in EventsIn(L) : /\ e.occur_time \in Nat /\ e.occur_time >= now
                                /\ e.event_type = -1 => e.occur_time < total_service_time
    <2>1. ASSUME NEW e \in EventsIn(M) \ EventsIn(event_list)
          PROVE  /\ e.occur_time \in Nat /\ e.occur_time >= now
                 /\ e.occur_time < total_service_time
      BY <1>3, <1>8, SystemAssumption
    <2>2. \A e \in EventsIn(event_list) :
             /\ e.occur_time \in Nat /\ e.occur_time >= now
             /\ e.event_type = -1 => e.occur_time < total_service_time
      BY <1>2, RestWasPending
    <2> QED BY <1>9, <1>11, <2>1, <2>2
  <1>13. /\ Schedule'
         /\ current_event' \in Events \union {Null} /\ event_list' \in Seq(Events)
         /\ current_event' = Null => event_list' = <<>>
         /\ EventsIn(Pending)' = EventsIn(L)
         /\ current_event' # Null => now' \in Nat /\ now' >= now
    BY <1>2, <1>7, <1>11, <1>12, ScheduleKept
  <1>14. \A v \in Windows : windows'[v] = IF v = w THEN [status |-> "SERVICE", arriveTime |-> now]
                                          ELSE windows[v]
    BY <1>4, <1>7 DEF IInv, Types
  <1>15. Types'
    <2>1. windows' \in [Windows -> WindowStates]
      BY <1>3, <1>4, <1>7 DEF IInv, Types, WindowStates
    <2>2. customer_list' \in Seq(Customers)
      BY <1>7
    <2>3. total_customer_num' \in Nat
      BY <1>2 DEF IInv, Types
    <2> QED BY <1>2, <1>13, <2>1, <2>2, <2>3 DEF IInv, Types
  <1>16. DeparturesServed'
    <2>1. SUFFICES ASSUME NEW v \in Windows, NEW e \in EventsIn(L), e.event_type = v
                   PROVE  windows'[v].status = "SERVICE" /\ windows'[v].arriveTime <= e.occur_time
      BY <1>13 DEF DeparturesServed
    <2>2. CASE v = w
      <3>1. windows'[v].status = "SERVICE" /\ windows'[v].arriveTime = now
        BY <1>14, <2>2
      <3> QED BY <1>12, <3>1
    <2>3. CASE v # w
      <3>1. v # -1
        BY SystemAssumption DEF Windows
      <3>2. e \in EventsIn(event_list)
        BY <1>8, <1>11, <2>1, <2>3, <3>1
      <3>3. e \in EventsIn(Pending)
        BY <1>2, <3>2, RestWasPending
      <3>4. windows[v].status = "SERVICE" /\ windows[v].arriveTime <= e.occur_time
        BY <2>1, <3>3 DEF IInv, DeparturesServed
      <3> QED BY <1>14, <2>3, <3>4
    <2> QED BY <2>2, <2>3
  <1>17. ServedDepart'
    <2>1. SUFFICES ASSUME NEW v \in Windows, windows'[v].status = "SERVICE"
                   PROVE  \E e \in EventsIn(L) : e.event_type = v
      BY <1>13 DEF ServedDepart
    <2>2. CASE v = w
      BY <1>11, <2>2
    <2>3. CASE v # w
      <3>1. windows[v].status = "SERVICE"
        BY <1>14, <2>1, <2>3
      <3>2. ~ (now >= total_service_time)
        BY <1>3, SystemAssumption
      <3>3. PICK e \in EventsIn(Pending) : e.event_type = v
        BY <1>2, <3>1, <3>2 DEF IInv, ServedDepart
      <3>4. e # current_event
        BY <1>2, <3>3, SystemAssumption DEF Windows
      <3>5. e \in EventsIn(event_list)
        BY <1>2, <3>4, RestOfSchedule DEF IInv
      <3> QED BY <1>8, <1>11, <3>3, <3>5
    <2> QED BY <2>2, <2>3
  <1>18. QueueSorted' /\ NoneWaitsInVain'
    BY <1>7 DEF QueueSorted, NoneWaitsInVain
  <1>19. NobodyFromTheFuture'
    <2>1. ASSUME current_event' # Null, NEW v \in Windows, windows'[v].status = "SERVICE"
          PROVE  windows'[v].arriveTime <= now'
      <3>1. windows'[v].arriveTime \in Nat /\ windows'[v].arriveTime <= now
        <4>1. CASE v = w
          BY <1>3, <1>14, <4>1
        <4>2. CASE v # w
          <5>1. windows[v] \in WindowStates /\ windows'[v] = windows[v]
            BY <1>14, <4>2 DEF IInv, Types
          <5>2. windows[v].arriveTime <= now
            BY <1>2, <2>1, <5>1 DEF IInv, NobodyFromTheFuture
          <5> QED BY <5>1, <5>2, SystemAssumption DEF WindowStates
        <4> QED BY <4>1, <4>2
      <3> QED BY <1>3, <1>13, <2>1, <3>1
    <2> QED BY <1>7, <2>1 DEF NobodyFromTheFuture
  <1>20. SomebodyCame'
    BY <1>2 DEF IInv, Types, SomebodyCame
  <1> QED BY <1>13, <1>15, <1>16, <1>17, <1>18, <1>19, <1>20 DEF IInv, Forward

\* While all windows are busy the customer only joins the queue.
LEMMA ArrivesAndWaitsKeeps == IInv /\ ArrivesAndWaits => IInv' /\ Forward
  <1> SUFFICES ASSUME IInv, ArrivesAndWaits PROVE IInv' /\ Forward
    OBVIOUS
  <1>1. PICK inter \in uniform(INTERVAL), duration \in uniform(SERVICE_TIME_MAX) :
          /\ CustomerArrived(inter)
          /\ NoIdleWindow(NextArrival(inter), Join(Customer(now, duration)))
    BY DEF ArrivesAndWaits
  <1> DEFINE c == Customer(now, duration)
             M == NextArrival(inter)
             n == Len(customer_list)
  <1>2. /\ current_event # Null /\ current_event.event_type = -1
        /\ total_customer_num' = total_customer_num + 1
        /\ UNCHANGED <<total_customer_stay_time, runs, start, returned>>
    BY <1>1 DEF CustomerArrived, simulation
  <1>3. now \in 0..total_service_time - 1 /\ c \in Customers /\ c.arriveTime = now
    BY <1>2, ArrivesBeforeClosing DEF Customer
  <1>4. Idle = {} /\ customer_list' = Append(customer_list, c) /\ UNCHANGED windows /\ Proceed(M)
    BY <1>1 DEF NoIdleWindow, Join
  <1>5. /\ M \in Seq(Events) /\ InOrder(M) /\ OnePerType(M)
        /\ EventsIn(event_list) \subseteq EventsIn(M)
        /\ \A e \in EventsIn(M) \ EventsIn(event_list) :
             e.event_type = -1 /\ e.occur_time \in now..total_service_time - 1
    BY <1>2, NextArrivalKeeps DEF IInv
  <1> HIDE DEF c, M
  <1>6. \A e \in EventsIn(M) : /\ e.occur_time \in Nat /\ e.occur_time >= now
                               /\ e.event_type = -1 => e.occur_time < total_service_time
    <2>1. ASSUME NEW e \in EventsIn(M) \ EventsIn(event_list)
          PROVE  /\ e.occur_time \in Nat /\ e.occur_time >= now
                 /\ e.occur_time < total_service_time
      BY <1>3, <1>5, SystemAssumption
    <2>2. \A e \in EventsIn(event_list) :
             /\ e.occur_time \in Nat /\ e.occur_time >= now
             /\ e.event_type = -1 => e.occur_time < total_service_time
      BY <1>2, RestWasPending
    <2> QED BY <2>1, <2>2
  <1>7. /\ Schedule'
        /\ current_event' \in Events \union {Null} /\ event_list' \in Seq(Events)
        /\ current_event' = Null => event_list' = <<>>
        /\ EventsIn(Pending)' = EventsIn(M)
        /\ current_event' # Null => now' \in Nat /\ now' >= now
    BY <1>2, <1>4, <1>5, <1>6, ScheduleKept
  <1>8. /\ n \in Nat /\ Len(customer_list') = n + 1 /\ customer_list' \in Seq(Customers)
        /\ \A i \in 1..n : customer_list'[i] = customer_list[i] /\ customer_list[i] \in Customers
        /\ customer_list'[n + 1] = c
    BY <1>3, <1>4 DEF IInv, Types
  <1>9. Types'
    BY <1>2, <1>4, <1>7, <1>8 DEF IInv, Types
  <1>10. DeparturesServed'
    <2>1. SUFFICES ASSUME NEW v \in Windows, NEW e \in EventsIn(M), e.event_type = v
                   PROVE  windows[v].status = "SERVICE" /\ windows[v].arriveTime <= e.occur_time
      BY <1>4, <1>7 DEF DeparturesServed
    <2>2. v # -1
      BY SystemAssumption DEF Windows
    <2>3. e \in EventsIn(Pending)
      BY <1>2, <1>5, <2>1, <2>2, RestWasPending
    <2> QED BY <2>1, <2>3 DEF IInv, DeparturesServed
  <1>11. ServedDepart'
    <2>1. SUFFICES ASSUME NEW v \in Windows, windows[v].status = "SERVICE"
                   PROVE  \E e \in EventsIn(M) : e.event_type = v
      BY <1>4, <1>7 DEF ServedDepart
    <2>2. ~ (now >= total_service_time)
      BY <1>3, SystemAssumption
    <2>3. PICK e \in EventsIn(Pending) : e.event_type = v
      BY <1>2, <2>1, <2>2 DEF IInv, ServedDepart
    <2>4. e # current_event
      BY <1>2, <2>3, SystemAssumption DEF Windows
    <2>5. e \in EventsIn(event_list)
      BY <1>2, <2>4, RestOfSchedule DEF IInv
    <2> QED BY <1>5, <2>3, <2>5
  <1>12. /\ \A i \in 1..n : customer_list[i].arriveTime <= now
         /\ \A v \in Windows : windows[v].status = "SERVICE" => windows[v].arriveTime <= now
    BY <1>2 DEF IInv, NobodyFromTheFuture
  <1>13. QueueSorted'
    <2>1. ASSUME NEW i \in 1..n + 1, NEW j \in 1..n + 1, i < j
          PROVE  customer_list'[i].arriveTime <= customer_list'[j].arriveTime
      <3>1. i \in 1..n
        BY <1>8, <2>1
      <3>2. CASE j \in 1..n
        BY <1>8, <2>1, <3>1, <3>2 DEF IInv, QueueSorted
      <3>3. CASE j = n + 1
        BY <1>3, <1>8, <1>12, <3>1, <3>3
      <3> QED BY <1>8, <3>2, <3>3
    <2>2. ASSUME NEW v \in Windows, NEW i \in 1..n + 1, windows[v].status = "SERVICE"
          PROVE  windows[v].arriveTime <= customer_list'[i].arriveTime
      <3>1. CASE i \in 1..n
        BY <1>8, <2>2, <3>1 DEF IInv, QueueSorted
      <3>2. CASE i = n + 1
        BY <1>3, <1>8, <1>12, <2>2, <3>2
      <3> QED BY <1>8, <3>1, <3>2
    <2> QED BY <1>4, <1>8, <2>1, <2>2 DEF QueueSorted
  <1>14. NobodyFromTheFuture'
    <2>1. SUFFICES ASSUME current_event' # Null
                   PROVE  /\ \A i \in 1..n + 1 : customer_list'[i].arriveTime <= now'
                          /\ \A v \in Windows : windows[v].status = "SERVICE" =>
                               windows[v].arriveTime <= now'
      BY <1>4, <1>8 DEF NobodyFromTheFuture
    <2>2. now \in Nat /\ now' \in Nat /\ now <= now'
      BY <1>3, <1>7, <2>1
    <2>3. ASSUME NEW i \in 1..n + 1 PROVE customer_list'[i].arriveTime <= now'
      <3>1. customer_list'[i] \in Customers
        BY <1>8
      <3>2. customer_list'[i].arriveTime \in Nat
        BY <3>1, SystemAssumption DEF Customers
      <3>3. customer_list'[i].arriveTime <= now
        BY <1>3, <1>8, <1>12
      <3> QED BY <2>2, <3>2, <3>3
    <2>4. ASSUME NEW v \in Windows, windows[v].status = "SERVICE"
          PROVE  windows[v].arriveTime <= now'
      <3>1. windows[v].arriveTime \in Nat
        BY SystemAssumption DEF IInv, Types, WindowStates
      <3> QED BY <1>12, <2>2, <2>4, <3>1
    <2> QED BY <2>3, <2>4
  <1>15. NoneWaitsInVain'
    BY <1>4 DEF NoneWaitsInVain, Idle
  <1>16. SomebodyCame'
    BY <1>2 DEF IInv, Types, SomebodyCame
  <1> QED BY <1>7, <1>9, <1>10, <1>11, <1>13, <1>14, <1>15, <1>16 DEF IInv, Forward

\* The customer who departs was in service, and somebody had come.
LEMMA DepartingWasServed ==
  ASSUME IInv, Departs
  PROVE  /\ current_event.event_type \in Windows
         /\ current_event.event_type # -1
         /\ now \in Nat /\ now < total_service_time
         /\ windows[current_event.event_type].status = "SERVICE"
         /\ total_customer_stay_time' \in Nat
         /\ SomebodyCame'
  <1> DEFINE w == current_event.event_type
  <1>1. /\ current_event # Null /\ w >= 0 /\ now < total_service_time
        /\ total_customer_stay_time' = total_customer_stay_time + now - windows[w].arriveTime
        /\ total_customer_num' = total_customer_num
    BY DEF Departs
  <1>2. current_event \in Events /\ now \in Nat /\ current_event \in EventsIn(Pending)
    BY <1>1, RestOfSchedule DEF IInv
  <1>3. w \in Windows /\ w # -1
    BY <1>1, <1>2 DEF Events
  <1>4. windows[w].status = "SERVICE" /\ windows[w].arriveTime <= now
    BY <1>2, <1>3 DEF IInv, DeparturesServed, now
  <1>5. windows[w].arriveTime \in Nat
    BY <1>3, SystemAssumption DEF IInv, Types, WindowStates
  <1>6. total_customer_stay_time' \in Nat
    BY <1>1, <1>2, <1>4, <1>5 DEF IInv, Types
  <1>7. SomebodyCame'
    BY <1>1, <1>3 DEF IInv, SomebodyCame
  <1> QED BY <1>1, <1>2, <1>3, <1>4, <1>6, <1>7

\* The first who waits takes the window of the one who departs.
LEMMA NextIsServedKeeps == IInv /\ NextIsServed => IInv' /\ Forward
  <1> SUFFICES ASSUME IInv, NextIsServed PROVE IInv' /\ Forward
    OBVIOUS
  <1> DEFINE w == current_event.event_type
             c == Head(customer_list)
             d == Departure(c, w)
             L == Insert(event_list, d)
             n == Len(customer_list)
  <1>1. /\ Departs /\ customer_list # <<>> /\ customer_list' = Tail(customer_list)
        /\ windows' = [windows EXCEPT ![w] = [status |-> "SERVICE", arriveTime |-> c.arriveTime]]
        /\ Proceed(L)
    BY DEF NextIsServed, Serve
  <1>2. /\ current_event # Null /\ w \in Windows /\ w # -1 /\ now \in Nat
        /\ now < total_service_time /\ windows[w].status = "SERVICE"
        /\ total_customer_stay_time' \in Nat /\ SomebodyCame'
        /\ UNCHANGED <<total_customer_num, runs, start, returned>>
    BY <1>1, DepartingWasServed DEF Departs, simulation
  <1>3. /\ n \in Nat /\ n >= 1 /\ c = customer_list[1] /\ c \in Customers
        /\ customer_list' \in Seq(Customers) /\ Len(customer_list') = n - 1
        /\ \A i \in 1..n - 1 : customer_list'[i] = customer_list[i + 1]
        /\ \A i \in 1..n : customer_list[i] \in Customers
    BY <1>1 DEF IInv, Types
  <1> HIDE DEF w, c, d
  <1>4. /\ event_list \in Seq(Events) /\ InOrder(event_list) /\ OnePerType(event_list)
        /\ \A e \in EventsIn(event_list) : e.event_type # w
    BY <1>2, RestOfSchedule, RestWasPending DEF IInv, Types, w
  <1>5. /\ L \in Seq(Events) /\ InOrder(L) /\ OnePerType(L)
        /\ EventsIn(L) = EventsIn(event_list) \union {d}
        /\ d.event_type = w /\ d.occur_time \in Nat /\ d.occur_time >= now
    BY <1>2, <1>3, <1>4, DepartureKeeps DEF d
  <1> HIDE DEF L
  <1>6. \A e \in EventsIn(L) : /\ e.occur_time \in Nat /\ e.occur_time >= now
                               /\ e.event_type = -1 => e.occur_time < total_service_time
    BY <1>2, <1>5, RestWasPending
  <1>7. /\ Schedule'
        /\ current_event' \in Events \union {Null} /\ event_list' \in Seq(Events)
        /\ current_event' = Null => event_list' = <<>>
        /\ EventsIn(Pending)' = EventsIn(L)
        /\ current_event' # Null => now' \in Nat /\ now' >= now
    BY <1>1, <1>2, <1>5, <1>6, ScheduleKept
  <1>8. \A v \in Windows :
           windows'[v] = IF v = w THEN [status |-> "SERVICE", arriveTime |-> c.arriveTime]
                         ELSE windows[v]
    BY <1>1, <1>2 DEF IInv, Types
  <1>9. /\ c.arriveTime \in 0..total_service_time - 1 /\ c.arriveTime \in Nat
        /\ c.arriveTime <= now
    <2>1. 1 \in 1..n
      BY <1>3
    <2>2. c.arriveTime <= now
      BY <1>2, <1>3, <2>1 DEF IInv, NobodyFromTheFuture
    <2> QED BY <1>3, <2>2, SystemAssumption DEF Customers
  <1>10. Types'
    <2>1. [status |-> "SERVICE", arriveTime |-> c.arriveTime] \in WindowStates
      BY <1>9 DEF WindowStates
    <2>2. windows' \in [Windows -> WindowStates]
      BY <1>1, <2>1 DEF IInv, Types
    <2> QED BY <1>2, <1>3, <1>7, <2>2 DEF IInv, Types
  <1>11. DeparturesServed'
    <2>1. SUFFICES ASSUME NEW v \in Windows, NEW e \in EventsIn(L), e.event_type = v
                   PROVE  windows'[v].status = "SERVICE" /\ windows'[v].arriveTime <= e.occur_time
      BY <1>7 DEF DeparturesServed
    <2>2. CASE v = w
      <3>1. windows'[v].status = "SERVICE" /\ windows'[v].arriveTime = c.arriveTime
        BY <1>8, <2>2
      <3> QED BY <1>2, <1>6, <1>9, <3>1
    <2>3. CASE v # w
      <3>1. e \in EventsIn(event_list)
        BY <1>5, <2>1, <2>3
      <3>2. e \in EventsIn(Pending)
        BY <1>2, <3>1, RestWasPending
      <3>3. windows[v].status = "SERVICE" /\ windows[v].arriveTime <= e.occur_time
        BY <2>1, <3>2 DEF IInv, DeparturesServed
      <3> QED BY <1>8, <2>3, <3>3
    <2> QED BY <2>2, <2>3
  <1>12. ServedDepart'
    <2>1. SUFFICES ASSUME NEW v \in Windows, windows'[v].status = "SERVICE"
                   PROVE  \E e \in EventsIn(L) : e.event_type = v
      BY <1>7 DEF ServedDepart
    <2>2. CASE v = w
      BY <1>5, <2>2
    <2>3. CASE v # w
      <3>1. windows[v].status = "SERVICE"
        BY <1>8, <2>1, <2>3
      <3>2. ~ (now >= total_service_time)
        BY <1>2, SystemAssumption
      <3>3. PICK e \in EventsIn(Pending) : e.event_type = v
        BY <1>2, <3>1, <3>2 DEF IInv, ServedDepart
      <3>4. e # current_event
        BY <2>3, <3>3 DEF w
      <3>5. e \in EventsIn(event_list)
        BY <1>2, <3>4, RestOfSchedule DEF IInv
      <3> QED BY <1>5, <3>3, <3>5
    <2> QED BY <2>2, <2>3
  <1>13. QueueSorted'
    <2>1. ASSUME NEW i \in 1..n - 1, NEW j \in 1..n - 1, i < j
          PROVE  customer_list'[i].arriveTime <= customer_list'[j].arriveTime
      <3>1. i + 1 \in 1..n /\ j + 1 \in 1..n /\ i + 1 < j + 1
        BY <1>3, <2>1
      <3>2. customer_list[i + 1].arriveTime <= customer_list[j + 1].arriveTime
        BY <3>1 DEF IInv, QueueSorted
      <3> QED BY <1>3, <3>2
    <2>2. ASSUME NEW v \in Windows, NEW i \in 1..n - 1, windows'[v].status = "SERVICE"
          PROVE  windows'[v].arriveTime <= customer_list'[i].arriveTime
      <3>1. i + 1 \in 1..n /\ 1 \in 1..n /\ 1 < i + 1 /\ customer_list'[i] = customer_list[i + 1]
        BY <1>3
      <3>2. CASE v = w
        <4>1. customer_list[1].arriveTime <= customer_list[i + 1].arriveTime
          BY <3>1 DEF IInv, QueueSorted
        <4>2. windows'[v].arriveTime = customer_list[1].arriveTime
          BY <1>3, <1>8, <3>2
        <4> QED BY <3>1, <4>1, <4>2
      <3>3. CASE v # w
        <4>1. windows[v].status = "SERVICE" /\ windows'[v] = windows[v]
          BY <1>8, <2>2, <3>3
        <4>2. windows[v].arriveTime <= customer_list[i + 1].arriveTime
          BY <3>1, <4>1 DEF IInv, QueueSorted
        <4> QED BY <3>1, <4>1, <4>2
      <3> QED BY <3>2, <3>3
    <2> QED BY <1>3, <2>1, <2>2 DEF QueueSorted
  <1>14. NobodyFromTheFuture'
    <2>1. SUFFICES ASSUME current_event' # Null
                   PROVE  /\ \A i \in 1..n - 1 : customer_list'[i].arriveTime <= now'
                          /\ \A v \in Windows : windows'[v].status = "SERVICE" =>
                               windows'[v].arriveTime <= now'
      BY <1>3 DEF NobodyFromTheFuture
    <2>2. now' \in Nat /\ now <= now'
      BY <1>2, <1>7, <2>1
    <2>3. ASSUME NEW i \in 1..n - 1 PROVE customer_list'[i].arriveTime <= now'
      <3>1. i + 1 \in 1..n /\ customer_list'[i] = customer_list[i + 1]
        BY <1>3
      <3>2. customer_list[i + 1].arriveTime <= now
        BY <1>2, <3>1 DEF IInv, NobodyFromTheFuture
      <3>3. customer_list[i + 1].arriveTime \in Nat
        BY <1>3, <3>1, SystemAssumption DEF Customers
      <3> QED BY <1>2, <2>2, <3>1, <3>2, <3>3
    <2>4. ASSUME NEW v \in Windows, windows'[v].status = "SERVICE"
          PROVE  windows'[v].arriveTime <= now'
      <3>1. CASE v = w
        <4>1. windows'[v].arriveTime = c.arriveTime
          BY <1>8, <3>1
        <4> QED BY <1>2, <1>9, <2>2, <4>1
      <3>2. CASE v # w
        <4>1. windows'[v] = windows[v] /\ windows[v].status = "SERVICE"
          BY <1>8, <2>4, <3>2
        <4>2. windows[v].arriveTime <= now
          BY <1>2, <4>1 DEF IInv, NobodyFromTheFuture
        <4>3. windows[v].arriveTime \in Nat
          BY SystemAssumption DEF IInv, Types, WindowStates
        <4> QED BY <1>2, <2>2, <4>1, <4>2, <4>3
      <3> QED BY <3>1, <3>2
    <2> QED BY <2>3, <2>4
  <1>15. NoneWaitsInVain'
    <2>1. Idle = {}
      BY <1>1 DEF IInv, NoneWaitsInVain
    <2>2. ASSUME NEW v \in Windows PROVE windows'[v].status # "IDLE"
      BY <1>8, <2>1 DEF Idle
    <2> QED BY <2>2 DEF NoneWaitsInVain, Idle
  <1> QED BY <1>2, <1>7, <1>10, <1>11, <1>12, <1>13, <1>14, <1>15 DEF IInv, Forward

\* A handler that puts nothing into the list keeps the rest of the schedule.
LEMMA RestKept ==
  ASSUME IInv, current_event # Null, Proceed(event_list)
  PROVE  /\ Schedule'
         /\ current_event' \in Events \union {Null} /\ event_list' \in Seq(Events)
         /\ current_event' = Null => event_list' = <<>>
         /\ EventsIn(Pending)' = EventsIn(event_list)
         /\ current_event' # Null => now' \in Nat /\ now' >= now
  <1>1. event_list \in Seq(Events) /\ InOrder(event_list) /\ OnePerType(event_list)
    BY RestOfSchedule DEF IInv, Types
  <1>2. \A e \in EventsIn(event_list) :
           /\ e.occur_time \in Nat /\ e.occur_time >= now
           /\ e.event_type = -1 => e.occur_time < total_service_time
    BY RestWasPending
  <1> QED BY <1>1, <1>2, ScheduleKept

\* Nobody waits: the window of the one who departs becomes idle.
LEMMA WindowBecomesIdleKeeps == IInv /\ WindowBecomesIdle => IInv' /\ Forward
  <1> SUFFICES ASSUME IInv, WindowBecomesIdle PROVE IInv' /\ Forward
    OBVIOUS
  <1> DEFINE w == current_event.event_type
  <1>1. /\ Departs /\ customer_list = <<>> /\ customer_list' = customer_list
        /\ windows' = [windows EXCEPT ![w].status = "IDLE"]
        /\ Proceed(event_list)
    BY DEF WindowBecomesIdle
  <1>2. /\ current_event # Null /\ w \in Windows /\ now \in Nat
        /\ now < total_service_time
        /\ total_customer_stay_time' \in Nat /\ SomebodyCame'
        /\ UNCHANGED <<total_customer_num, runs, start, returned>>
    BY <1>1, DepartingWasServed DEF Departs, simulation
  <1> HIDE DEF w
  <1>3. /\ Schedule'
        /\ current_event' \in Events \union {Null} /\ event_list' \in Seq(Events)
        /\ current_event' = Null => event_list' = <<>>
        /\ EventsIn(Pending)' = EventsIn(event_list)
        /\ current_event' # Null => now' \in Nat /\ now' >= now
    BY <1>1, <1>2, RestKept
  <1>4. windows' \in [Windows -> WindowStates]
    BY <1>1, <1>2 DEF IInv, Types, WindowStates
  <1>5. /\ windows'[w].status = "IDLE"
        /\ \A v \in Windows : v # w => windows'[v] = windows[v]
    BY <1>1, <1>2 DEF IInv, Types, WindowStates
  <1>6. Types'
    BY <1>1, <1>2, <1>3, <1>4 DEF IInv, Types
  <1>7. DeparturesServed'
    <2>1. SUFFICES ASSUME NEW v \in Windows, NEW e \in EventsIn(event_list), e.event_type = v
                   PROVE  windows'[v].status = "SERVICE" /\ windows'[v].arriveTime <= e.occur_time
      BY <1>3 DEF DeparturesServed
    <2>2. e \in EventsIn(Pending) /\ v # w
      BY <1>2, <2>1, RestWasPending DEF w
    <2> QED BY <1>5, <2>1, <2>2 DEF IInv, DeparturesServed
  <1>8. ServedDepart'
    <2>1. SUFFICES ASSUME NEW v \in Windows, windows'[v].status = "SERVICE"
                   PROVE  \E e \in EventsIn(event_list) : e.event_type = v
      BY <1>3 DEF ServedDepart
    <2>2. v # w /\ windows[v].status = "SERVICE"
      BY <1>5, <2>1
    <2>3. ~ (now >= total_service_time)
      BY <1>2, SystemAssumption
    <2>4. PICK e \in EventsIn(Pending) : e.event_type = v
      BY <1>2, <2>2, <2>3 DEF IInv, ServedDepart
    <2>5. e \in EventsIn(event_list)
      BY <1>2, <2>2, <2>4, RestOfSchedule DEF IInv, w
    <2> QED BY <2>4, <2>5
  <1>9. QueueSorted' /\ NoneWaitsInVain'
    BY <1>1 DEF QueueSorted, NoneWaitsInVain
  <1>10. NobodyFromTheFuture'
    <2>1. ASSUME current_event' # Null, NEW v \in Windows, windows'[v].status = "SERVICE"
          PROVE  windows'[v].arriveTime <= now'
      <3>1. windows'[v] = windows[v] /\ windows[v].status = "SERVICE"
        BY <1>5, <2>1
      <3>2. windows[v].arriveTime <= now
        BY <1>2, <3>1 DEF IInv, NobodyFromTheFuture
      <3>3. windows[v].arriveTime \in Nat
        BY SystemAssumption DEF IInv, Types, WindowStates
      <3> QED BY <1>2, <1>3, <2>1, <3>1, <3>2, <3>3
    <2> QED BY <1>1, <2>1 DEF NobodyFromTheFuture
  <1> QED BY <1>2, <1>3, <1>6, <1>7, <1>8, <1>9, <1>10 DEF IInv, Forward

\* After closing a departure changes neither windows nor queue.
LEMMA DepartsAfterClosingKeeps == IInv /\ DepartsAfterClosing => IInv' /\ Forward
  <1> SUFFICES ASSUME IInv, DepartsAfterClosing PROVE IInv' /\ Forward
    OBVIOUS
  <1>1. /\ current_event # Null /\ current_event.event_type >= 0
        /\ now >= total_service_time /\ Proceed(event_list)
        /\ UNCHANGED <<customer_list, windows, total_customer_stay_time, total_customer_num,
                       runs, start, returned>>
    BY DEF DepartsAfterClosing, totals, simulation
  <1>2. /\ Schedule'
        /\ current_event' \in Events \union {Null} /\ event_list' \in Seq(Events)
        /\ current_event' = Null => event_list' = <<>>
        /\ EventsIn(Pending)' = EventsIn(event_list)
        /\ current_event' # Null => now' \in Nat /\ now' >= now
    BY <1>1, RestKept
  <1>3. now \in Nat
    BY <1>1, RestOfSchedule DEF IInv
  <1>4. Types'
    BY <1>1, <1>2 DEF IInv, Types
  <1>5. DeparturesServed'
    <2>1. EventsIn(event_list) \subseteq EventsIn(Pending)
      BY <1>1, RestWasPending
    <2> QED BY <1>1, <1>2, <2>1 DEF IInv, DeparturesServed
  <1>6. ServedDepart'
    <2>1. current_event' # Null => now' >= total_service_time
      BY <1>1, <1>2, <1>3, SystemAssumption
    <2> QED BY <2>1 DEF ServedDepart
  <1>7. QueueSorted' /\ NoneWaitsInVain'
    BY <1>1 DEF IInv, QueueSorted, NoneWaitsInVain, Idle
  <1>8. NobodyFromTheFuture'
    <2>1. SUFFICES ASSUME current_event' # Null
                   PROVE  /\ \A i \in 1..Len(customer_list) : customer_list[i].arriveTime <= now'
                          /\ \A v \in Windows : windows[v].status = "SERVICE" =>
                               windows[v].arriveTime <= now'
      BY <1>1 DEF NobodyFromTheFuture
    <2>2. /\ \A i \in 1..Len(customer_list) : customer_list[i].arriveTime \in Nat
          /\ \A v \in Windows : windows[v].arriveTime \in Nat
      <3>1. \A i \in 1..Len(customer_list) : customer_list[i] \in Customers
        BY DEF IInv, Types
      <3>2. \A i \in 1..Len(customer_list) : customer_list[i].arriveTime \in Nat
        BY <3>1 DEF Customers
      <3>3. \A v \in Windows : windows[v].arriveTime \in Nat
        BY DEF IInv, Types, WindowStates
      <3> QED BY <3>2, <3>3
    <2> QED BY <1>1, <1>2, <1>3, <2>1, <2>2 DEF IInv, NobodyFromTheFuture
  <1>9. SomebodyCame'
    <2>1. current_event.event_type # -1
      BY <1>1
    <2> QED BY <1>1, <2>1 DEF IInv, SomebodyCame
  <1> QED BY <1>2, <1>4, <1>5, <1>6, <1>7, <1>8, <1>9 DEF IInv, Forward

\* Between two runs the bank is emptied.
LEMMA EndKeeps == IInv /\ (NextRun \/ LastRunEnds) => IInv'
  <1> SUFFICES ASSUME IInv, NextRun \/ LastRunEnds PROVE IInv'
    OBVIOUS
  <1>1. /\ current_event = Null /\ runs <= simulate_num
        /\ windows' = SetIdle
        /\ event_list' = <<>> /\ customer_list' = <<>>
        /\ returned' = total_customer_stay_time \div total_customer_num
        /\ runs' = runs + 1
        /\ UNCHANGED <<total_customer_stay_time, total_customer_num>>
    BY DEF NextRun, LastRunEnds, End, totals
  <1>2. total_customer_num \in Nat \ {0} /\ total_customer_stay_time \in Nat
    BY <1>1 DEF IInv, Types, SomebodyCame
  <1>3. returned' \in Nat
    BY <1>1, <1>2
  <1>4. windows' \in [Windows -> WindowStates] /\ \A v \in Windows : windows'[v].status = "IDLE"
    BY <1>1 DEF IInv, Types, WindowStates, SetIdle
  <1>5. runs' \in 1..simulate_num + 1
    BY <1>1, SystemAssumption DEF IInv, Types
  <1>6. \/ current_event' = Null
        \/ \E t \in 0..RANDOM_PARAMETER : current_event' = Arrival(t)
    BY <1>1 DEF NextRun, LastRunEnds, FirstArrival, uniform
  <1>7. CASE current_event' = Null
    <2>1. Pending' = <<>>
      BY <1>1, <1>7 DEF Pending
    <2>2. EventsIn(Pending)' = {} /\ Schedule'
      BY <2>1 DEF EventsIn, Schedule, InOrder, OnePerType
    <2>3. Types'
      BY <1>1, <1>2, <1>3, <1>4, <1>5, <1>7 DEF Types
    <2>4. DeparturesServed' /\ ServedDepart'
      BY <1>4, <2>2 DEF DeparturesServed, ServedDepart
    <2>5. QueueSorted' /\ NobodyFromTheFuture' /\ NoneWaitsInVain'
      BY <1>1, <1>7 DEF QueueSorted, NobodyFromTheFuture, NoneWaitsInVain
    <2>6. SomebodyCame'
      BY <1>1, <1>2 DEF SomebodyCame
    <2> QED BY <2>2, <2>3, <2>4, <2>5, <2>6 DEF IInv
  <1>8. ASSUME NEW t \in 0..RANDOM_PARAMETER, current_event' = Arrival(t) PROVE IInv'
    <2> DEFINE a == Arrival(t)
    <2>1. /\ a \in Events /\ a.event_type = -1 /\ a.occur_time = t
          /\ t \in Nat /\ t < total_service_time /\ a # Null
      <3>1. t \in Nat /\ t < total_service_time
        BY SystemAssumption
      <3>2. a.event_type = -1 /\ a.occur_time = t /\ a \in Events
        BY <3>1 DEF Arrival, Event, Events
      <3>3. Null \notin Events
        BY SystemAssumption DEF Events, Windows
      <3> QED BY <3>1, <3>2, <3>3
    <2> HIDE DEF a
    <2>2. current_event' = a
      BY <1>8 DEF a
    <2>3. Pending' = <<a>>
      BY <1>1, <2>1, <2>2 DEF Pending
    <2>4. EventsIn(Pending)' = {a}
      BY <2>3 DEF EventsIn
    <2>5. InOrder(Pending)' /\ OnePerType(Pending)'
      BY <2>3 DEF InOrder, OnePerType
    <2>6. Schedule'
      BY <2>1, <2>4, <2>5 DEF Schedule
    <2>7. Types'
      BY <1>1, <1>2, <1>3, <1>4, <1>5, <2>1, <2>2 DEF Types
    <2>8. DeparturesServed' /\ ServedDepart'
      <3>1. \A v \in Windows : v # -1
        BY SystemAssumption DEF Windows
      <3> QED BY <1>4, <2>1, <2>4, <3>1 DEF DeparturesServed, ServedDepart
    <2>9. QueueSorted' /\ NobodyFromTheFuture' /\ NoneWaitsInVain'
      BY <1>1, <1>4 DEF QueueSorted, NobodyFromTheFuture, NoneWaitsInVain
    <2>10. SomebodyCame'
      BY <2>1, <2>2 DEF SomebodyCame
    <2> QED BY <2>6, <2>7, <2>8, <2>9, <2>10 DEF IInv
  <1> QED BY <1>6, <1>7, <1>8

\* The bank as it opens: the first customer is to come, and nobody is there.
LEMMA InitIInv == Init => IInv
  <1> SUFFICES ASSUME Init PROVE IInv
    OBVIOUS
  <1>1. PICK t \in 0..RANDOM_PARAMETER : current_event = Arrival(t)
    BY DEF Init, uniform
  <1> DEFINE a == Arrival(t)
  <1>2. /\ a \in Events /\ a.event_type = -1 /\ a.occur_time = t
        /\ t \in Nat /\ t < total_service_time /\ a # Null
    <2>1. t \in Nat /\ t < total_service_time
      BY SystemAssumption
    <2>2. a.event_type = -1 /\ a.occur_time = t /\ a \in Events
      BY <2>1 DEF Arrival, Event, Events
    <2>3. Null \notin Events
      BY SystemAssumption DEF Events, Windows
    <2> QED BY <2>1, <2>2, <2>3
  <1> HIDE DEF a
  <1>3. current_event = a
    BY <1>1 DEF a
  <1>4. Pending = <<a>>
    BY <1>2, <1>3 DEF Init, Pending
  <1>5. EventsIn(Pending) = {a}
    BY <1>4 DEF EventsIn
  <1>6. InOrder(Pending) /\ OnePerType(Pending)
    BY <1>4 DEF InOrder, OnePerType
  <1>7. Schedule
    BY <1>2, <1>5, <1>6 DEF Schedule
  <1>8. windows \in [Windows -> WindowStates] /\ \A v \in Windows : windows[v].status = "IDLE"
    BY SystemAssumption DEF Init, WindowStates
  <1>9. Types
    <2>1. event_list = <<>> /\ customer_list = <<>>
      BY DEF Init
    <2>2. /\ total_customer_stay_time \in Nat /\ total_customer_num \in Nat
          /\ runs \in 1..simulate_num + 1 /\ returned = Null
      BY SystemAssumption DEF Init
    <2> QED BY <1>2, <1>3, <1>8, <2>1, <2>2 DEF Types
  <1>10. DeparturesServed /\ ServedDepart
    <2>1. \A v \in Windows : v # -1
      BY SystemAssumption DEF Windows
    <2> QED BY <1>2, <1>5, <1>8, <2>1 DEF DeparturesServed, ServedDepart
  <1>11. QueueSorted /\ NobodyFromTheFuture /\ NoneWaitsInVain
    BY <1>8 DEF Init, QueueSorted, NobodyFromTheFuture, NoneWaitsInVain
  <1>12. SomebodyCame
    BY <1>2, <1>3 DEF SomebodyCame
  <1> QED BY <1>7, <1>9, <1>10, <1>11, <1>12 DEF IInv

\* The invariant is inductive: one step for every branch of the two handlers.
LEMMA NextIInv == IInv /\ [Next]_vars => IInv'
  <1> SUFFICES ASSUME IInv, [Next]_vars PROVE IInv'
    OBVIOUS
  <1>1. CASE UNCHANGED vars
    <2>1. /\ UNCHANGED <<current_event, event_list, customer_list, windows,
                         total_customer_stay_time, total_customer_num, runs, returned>>
      BY <1>1 DEF vars, lists, totals, simulation
    <2>2. Pending' = Pending /\ now' = now /\ Idle' = Idle
      BY <2>1 DEF Pending, now, Idle
    <2>3. EventsIn(Pending)' = EventsIn(Pending) /\ Schedule'
      BY <2>2 DEF IInv, EventsIn, Schedule, InOrder, OnePerType
    <2>4. Types'
      BY <2>1 DEF IInv, Types
    <2>5. DeparturesServed' /\ ServedDepart'
      BY <2>1, <2>2, <2>3 DEF IInv, DeparturesServed, ServedDepart
    <2>6. QueueSorted' /\ NobodyFromTheFuture' /\ NoneWaitsInVain' /\ SomebodyCame'
      BY <2>1, <2>2 DEF IInv, QueueSorted, NobodyFromTheFuture, NoneWaitsInVain, SomebodyCame
    <2> QED BY <2>3, <2>4, <2>5, <2>6 DEF IInv
  <1> QED
    BY <1>1, ArrivesAndIsServedKeeps, ArrivesAndWaitsKeeps, NextIsServedKeeps,
       WindowBecomesIdleKeeps, DepartsAfterClosingKeeps, EndKeeps
    DEF Next

\* The inductive invariant holds in every state of the simulation.
THEOREM Invariance == Spec => []IInv
  BY InitIInv, NextIInv, PTL DEF Spec
-----------------------------------------------------------------------------
(* What the run checks. *)

\* A set in which any two members are equal has at most one.
LEMMA AtMostOne ==
  ASSUME NEW S, \A x, y \in S : x = y
  PROVE  Cardinality(S) <= 1
  <1>1. CASE S = {}
    BY <1>1, FS_EmptySet
  <1>2. CASE S # {}
    <2>1. PICK x \in S : S = {x}
      BY <1>2
    <2> QED BY <2>1, FS_Singleton
  <1> QED BY <1>1, <1>2

\* The places of one type are those of the events of that type.
LEMMA OfTypeIs ==
  ASSUME IInv, NEW type
  PROVE  /\ Cardinality(OfType(type)) <= 1
         /\ OfType(type) = {} <=> \A e \in EventsIn(Pending) : e.event_type # type
         /\ \A i \in OfType(type) : Pending[i] \in EventsIn(Pending) /\ Pending[i].event_type = type
  <1>1. \A x, y \in OfType(type) : x = y
    BY DEF OfType, IInv, Schedule, OnePerType
  <1>2. Cardinality(OfType(type)) <= 1
    BY <1>1, AtMostOne
  <1>3. OfType(type) = {} <=> \A e \in EventsIn(Pending) : e.event_type # type
    BY DEF OfType, EventsIn
  <1>4. \A i \in OfType(type) : Pending[i] \in EventsIn(Pending) /\ Pending[i].event_type = type
    BY DEF OfType, EventsIn
  <1> QED BY <1>2, <1>3, <1>4

\* What is pending is a list of events.
LEMMA PendingIs ==
  ASSUME IInv
  PROVE  Pending \in Seq(Events) /\ \A i \in 1..Len(Pending) : Pending[i] \in Events
  <1>1. Pending \in Seq(Events)
    BY DEF IInv, Types, Pending
  <1> QED BY <1>1

\* Windows and events agree after every handler, whatever the number of windows
\* and the random times: who is served has one departure to come, nobody else has
\* one, and one arrival leads to at most one other.
THEOREM BankInvariant == Spec => []BankInv
  <1>1. IInv => BankInv
    <2> SUFFICES ASSUME IInv PROVE BankInv
      OBVIOUS
    <2>1. TypeOK
      <3>1. \A i \in 1..Len(Pending) : /\ Pending[i].occur_time \in Nat
                                       /\ Pending[i].event_type \in Windows \union {-1}
        BY PendingIs DEF Events
      <3>2. \A i \in 1..Len(customer_list) : customer_list[i] \in Customers
        BY DEF IInv, Types
      <3> QED BY <3>1, <3>2 DEF IInv, Types, Customers, WindowStates, TypeOK
    <2>2. WindowsMatchDepartures
      <3>1. Cardinality(OfType(-1)) <= 1
        BY OfTypeIs
      <3>2. ASSUME NEW w \in Windows
            PROVE  /\ Cardinality(OfType(w)) <= 1
                   /\ w \in Idle => OfType(w) = {}
                   /\ w \notin Idle /\ OfType(w) = {} =>
                        current_event = Null \/ now >= total_service_time
        <4>1. /\ Cardinality(OfType(w)) <= 1
              /\ OfType(w) = {} <=> \A e \in EventsIn(Pending) : e.event_type # w
          BY OfTypeIs
        <4>2. w \in Idle => OfType(w) = {}
          BY <4>1 DEF IInv, DeparturesServed, Idle
        <4>3. w \notin Idle => windows[w].status = "SERVICE"
          BY DEF IInv, Types, WindowStates, Idle
        <4>4. w \notin Idle /\ OfType(w) = {} => current_event = Null \/ now >= total_service_time
          BY <4>1, <4>3 DEF IInv, ServedDepart
        <4> QED BY <4>1, <4>2, <4>4
      <3> QED BY <3>1, <3>2 DEF WindowsMatchDepartures
    <2> QED BY <2>1, <2>2 DEF BankInv
  <1> QED BY <1>1, Invariance, PTL

\* No customer waits while a window is idle, however many windows there are.
THEOREM NoneWaits == Spec => []NoneWaitsInVain
  <1>1. IInv => NoneWaitsInVain
    BY DEF IInv
  <1> QED BY <1>1, Invariance, PTL

\* Customers are served in the order they came, whatever the random times, and
\* none leaves before coming.
THEOREM ServedInTurn == Spec => []ServedInOrder
  <1>1. IInv => ServedInOrder
    <2> SUFFICES ASSUME IInv PROVE ServedInOrder
      OBVIOUS
    <2>1. \A w \in Windows \ Idle : windows[w].status = "SERVICE"
      BY DEF IInv, Types, WindowStates, Idle
    <2>2. \A w \in Windows : \A i \in OfType(w) : Pending[i].occur_time >= windows[w].arriveTime
      <3> SUFFICES ASSUME NEW w \in Windows, NEW i \in OfType(w)
                   PROVE  Pending[i].occur_time >= windows[w].arriveTime
        OBVIOUS
      <3>1. Pending[i] \in EventsIn(Pending) /\ Pending[i].event_type = w
        BY OfTypeIs
      <3>2. windows[w].arriveTime <= Pending[i].occur_time
        BY <3>1 DEF IInv, DeparturesServed
      <3>3. i \in 1..Len(Pending)
        BY DEF OfType
      <3>4. Pending[i].occur_time \in Nat
        BY <3>3, PendingIs DEF Events
      <3>5. windows[w].arriveTime \in Nat
        BY SystemAssumption DEF IInv, Types, WindowStates
      <3> QED BY <3>2, <3>4, <3>5
    <2> QED BY <2>1, <2>2 DEF IInv, QueueSorted, ServedInOrder
  <1> QED BY <1>1, Invariance, PTL

\* The clock of a run never goes back: the handlers insert behind the current
\* event, and the next one is the first of the list.
THEOREM ClockMonotonic == Spec => ClockNeverGoesBack
  <1>1. ASSUME IInv, Next, runs' = runs, current_event' # Null
        PROVE  current_event'.occur_time >= current_event.occur_time
    <2>1. CASE NextRun \/ LastRunEnds
      <3>1. runs' = runs + 1 /\ runs \in Nat
        BY <1>1, <2>1 DEF NextRun, LastRunEnds, End, IInv, Types
      <3> QED BY <1>1, <3>1
    <2>2. CASE ~ (NextRun \/ LastRunEnds)
      <3>1. Forward
        BY <1>1, <2>2, ArrivesAndIsServedKeeps, ArrivesAndWaitsKeeps, NextIsServedKeeps,
           WindowBecomesIdleKeeps, DepartsAfterClosingKeeps
        DEF Next
      <3> QED BY <1>1, <3>1 DEF Forward, now
    <2> QED BY <2>1, <2>2
  <1>2. IInv /\ [Next]_vars =>
          [runs' = runs /\ current_event' # Null
             => current_event'.occur_time >= current_event.occur_time]_vars
    BY <1>1
  <1> QED BY <1>2, Invariance, PTL DEF Spec, ClockNeverGoesBack

-----------------------------------------------------------------------------
(* The queues of LinkedQueue: the list as a sequence of nodes. *)

\* The operators of the instances are those of this module.
LEMMA SameCount ==
  ASSUME NEW S
  PROVE  /\ Queue!Cardinality(S) = Cardinality(S)
         /\ Queue!Abstract!Cardinality(S) = Cardinality(S)
         /\ Queue!IsFiniteSet(S) <=> IsFiniteSet(S)
  <1>1. Queue!Cardinality(S) = Cardinality(S)
    BY DEF Queue!Cardinality, Cardinality
  <1>2. Queue!Abstract!Cardinality(S) = Cardinality(S)
    BY DEF Queue!Abstract!Cardinality, Cardinality
  <1>3. Queue!IsFiniteSet(S) <=> IsFiniteSet(S)
    BY DEF Queue!IsFiniteSet, IsFiniteSet
  <1> QED BY <1>1, <1>2, <1>3

\* The abstract queue inserts as the bank does.
LEMMA SameInsert ==
  ASSUME NEW list, NEW e
  PROVE  Queue!Abstract!Insert(list, e) = Insert(list, e)
  <1>1. Queue!Abstract!Before(list, e.occur_time) = Before(list, e.occur_time)
    BY SameCount DEF Queue!Abstract!Before, Before
  <1> QED BY <1>1 DEF Queue!Abstract!Insert, Insert

\* What the assumption says of nodes and elements.
LEMMA QueueConstants ==
  /\ IsFiniteSet(Nodes) /\ Cardinality(Nodes) \in Nat /\ front \notin Nodes
  /\ Null \notin Nodes /\ Null # front /\ Null \notin Elements
  /\ \A e \in Elements : e.occur_time \in Nat
  <1>1. IsFiniteSet(Nodes)
    BY QueueAssumption, SameCount DEF Queue!QueueAssumption
  <1>2. Cardinality(Nodes) \in Nat
    BY <1>1, FS_CardinalityType
  <1> QED BY <1>1, <1>2, QueueAssumption DEF Queue!QueueAssumption

\* c holds the nodes linked from the head node, each once.
IsList(c) ==
  /\ c \in Seq(DOMAIN element)
  /\ \A i, j \in 1..Len(c) : i # j => c[i] # c[j]
  /\ next[front] = IF c = <<>> THEN Null ELSE c[1]
  /\ \A i \in 1..Len(c) : next[c[i]] = IF i = Len(c) THEN Null ELSE c[i + 1]
  /\ DOMAIN next = {front} \union {c[i] : i \in 1..Len(c)}

\* A sequence of different nodes is not longer than there are nodes.
LEMMA NoMoreThanNodes ==
  ASSUME NEW c \in Seq(Nodes), \A i, j \in 1..Len(c) : i # j => c[i] # c[j]
  PROVE  Len(c) <= Cardinality(Nodes)
  <1>1. Len(c) \in Nat /\ c \in Injection(1..Len(c), Nodes)
    BY DEF Injection, IsInjective
  <1>2. Cardinality(1..Len(c)) <= Cardinality(Nodes)
    BY <1>1, QueueConstants, FS_Injection
  <1>3. Cardinality(1..Len(c)) = Len(c)
    BY <1>1, FS_Interval
  <1> QED BY <1>2, <1>3

\* What a walk along the links p of at most m nodes comes to.
Steps(p, m) ==
  CHOOSE w : w = [i \in 0..m |-> IF i = 0 THEN front ELSE IF w[i - 1] = Null THEN Null ELSE p[w[i - 1]]]

\* The walk goes along a sequence whose members are linked, and stays at its end.
LEMMA StepsFollow ==
  ASSUME NEW X, NEW c \in Seq(X), Null \notin X, Null # front, NEW p, NEW m \in Nat, Len(c) <= m,
         p[front] = IF c = <<>> THEN Null ELSE c[1],
         \A i \in 1..Len(c) : p[c[i]] = IF i = Len(c) THEN Null ELSE c[i + 1]
  PROVE  \A i \in 0..m : Steps(p, m)[i] = IF i = 0 THEN front ELSE IF i <= Len(c) THEN c[i] ELSE Null
  <1> DEFINE n == Len(c)
             v == [i \in 0..m |-> IF i = 0 THEN front ELSE IF i <= n THEN c[i] ELSE Null]
             w == Steps(p, m)
  <1>1. n \in Nat /\ n <= m /\ \A i \in 1..n : c[i] \in X /\ c[i] # Null
    OBVIOUS
  <1>2. \A i \in 0..m : v[i] = IF i = 0 THEN front ELSE IF v[i - 1] = Null THEN Null ELSE p[v[i - 1]]
    <2>1. ASSUME NEW i \in 0..m PROVE v[i] = IF i = 0 THEN front ELSE IF v[i - 1] = Null THEN Null ELSE p[v[i - 1]]
      <3>1. CASE i = 0
        BY <3>1
      <3>2. CASE i = 1
        <4>1. v[0] = front /\ v[1] = IF 1 <= n THEN c[1] ELSE Null
          BY <3>2
        <4>2. p[front] = IF 1 <= n THEN c[1] ELSE Null
          <5>1. c = <<>> <=> n = 0
            OBVIOUS
          <5> QED BY <1>1, <5>1
        <4> QED BY <3>2, <4>1, <4>2
      <3>3. CASE i > 1
        <4> DEFINE j == i - 1
        <4>1. j \in 1..m /\ i = j + 1
          BY <3>3
        <4>2. v[j] = IF j <= n THEN c[j] ELSE Null
          BY <4>1
        <4>3. v[i] = IF j + 1 <= n THEN c[j + 1] ELSE Null
          BY <3>3, <4>1
        <4> HIDE DEF v, j
        <4>4. CASE j > n
          BY <1>1, <3>3, <4>1, <4>2, <4>3, <4>4
        <4>5. CASE j <= n
          <5>1. p[c[j]] = (IF j = n THEN Null ELSE c[j + 1]) /\ c[j] # Null
            BY <1>1, <4>1, <4>5
          <5> QED BY <1>1, <3>3, <4>1, <4>2, <4>3, <4>5, <5>1
        <4> QED BY <1>1, <4>1, <4>4, <4>5 DEF j
      <3> QED BY <3>1, <3>2, <3>3
    <2> HIDE DEF v
    <2> QED BY <2>1
  <1>3. v = [i \in 0..m |-> IF i = 0 THEN front ELSE IF v[i - 1] = Null THEN Null ELSE p[v[i - 1]]]
    <2>1. v = [i \in 0..m |-> v[i]]
      OBVIOUS
    <2> HIDE DEF v
    <2> QED BY <1>2, <2>1
  <1>4. w = [i \in 0..m |-> IF i = 0 THEN front ELSE IF w[i - 1] = Null THEN Null ELSE p[w[i - 1]]]
    <2> HIDE DEF v
    <2> QED BY <1>3 DEF Steps
  <1>5. \A i \in 0..m : v[i] = IF i = 0 THEN front ELSE IF i <= n THEN c[i] ELSE Null
    OBVIOUS
  <1> HIDE DEF v, w
  <1>6. ASSUME {i \in 0..m : w[i] # v[i]} # {} PROVE FALSE
    <2>1. {i \in 0..m : w[i] # v[i]} \in SUBSET Nat
      OBVIOUS
    <2>2. PICK k \in 0..m : w[k] # v[k] /\ \A i \in 0..m : w[i] # v[i] => k <= i
      BY <1>6, <2>1, LeastMember
    <2>3. k # 0
      BY <1>2, <1>4, <2>2
    <2>4. k - 1 \in 0..m /\ w[k - 1] = v[k - 1]
      BY <2>2, <2>3
    <2> QED BY <1>2, <1>4, <2>2, <2>3, <2>4
  <1> QED BY <1>5, <1>6 DEF w

\* The walk of length, and the list, are that sequence.
LEMMA ListIs ==
  ASSUME NEW c, IsList(c), DOMAIN element \subseteq Nodes
  PROVE  /\ Queue!length = Len(c) /\ Queue!List = c /\ Len(c) \in Nat
         /\ \A i \in 0..Len(c) : Queue!Walk[i] = IF i = 0 THEN front ELSE c[i]
  <1> DEFINE n == Len(c)
             m == Cardinality(Nodes)
             w == Queue!Walk
  <1>1. c \in Seq(Nodes) /\ n \in Nat /\ DOMAIN c = 1..n
    BY DEF IsList
  <1>2. n <= m /\ m \in Nat
    BY <1>1, NoMoreThanNodes, QueueConstants DEF IsList
  <1>3. w = Steps(next, m)
    BY SameCount DEF Queue!Walk, Steps
  <1>4. \A i \in 0..m : Steps(next, m)[i] = IF i = 0 THEN front ELSE IF i <= n THEN c[i] ELSE Null
    <2>1. next[front] = IF c = <<>> THEN Null ELSE c[1]
      BY DEF IsList
    <2>2. \A i \in 1..Len(c) : next[c[i]] = IF i = Len(c) THEN Null ELSE c[i + 1]
      BY DEF IsList
    <2>3. Null \notin Nodes /\ Null # front
      BY QueueConstants
    <2>4. Len(c) <= m /\ m \in Nat /\ c \in Seq(Nodes)
      BY <1>1, <1>2
    <2> HIDE DEF m
    <2>5. \A i \in 0..m : Steps(next, m)[i] = IF i = 0 THEN front ELSE IF i <= Len(c) THEN c[i] ELSE Null
      BY <2>1, <2>2, <2>3, <2>4, StepsFollow
    <2> QED BY <2>5
  <1> HIDE DEF w, m, n
  <1>5. \A i \in 0..m : w[i] = IF i = 0 THEN front ELSE IF i <= n THEN c[i] ELSE Null
    BY <1>3, <1>4
  <1>6. {i \in 1..m : w[i] # Null} = 1..n
    <2>1. \A i \in 1..n : c[i] # Null
      BY <1>1, QueueConstants DEF n
    <2> QED BY <1>1, <1>2, <1>5, <2>1
  <1>7. Queue!length = n
    <2>1. Queue!length = Cardinality({i \in 1..m : w[i] # Null})
      BY SameCount DEF Queue!length, w, m
    <2>2. Cardinality(1..n) = n
      BY <1>1, FS_Interval
    <2> QED BY <1>6, <2>1, <2>2
  <1>8. Queue!List = [i \in 1..n |-> w[i]]
    BY <1>7 DEF Queue!List, w
  <1>9. \A i \in 1..n : w[i] = c[i]
    BY <1>1, <1>2, <1>5
  <1>10. c = [i \in 1..n |-> c[i]]
    BY <1>1
  <1>11. Queue!List = c
    BY <1>8, <1>9, <1>10
  <1>12. \A i \in 0..n : w[i] = IF i = 0 THEN front ELSE c[i]
    BY <1>1, <1>2, <1>5
  <1> QED BY <1>1, <1>7, <1>11, <1>12 DEF w, n

\* A sequence with e put behind its first k members.
Inserted(list, k, e) ==
  [i \in 1..Len(list) + 1 |-> IF i <= k THEN list[i] ELSE IF i = k + 1 THEN e ELSE list[i - 1]]

\* It is a sequence again.
LEMMA InsertedIsSeq ==
  ASSUME NEW X, NEW c \in Seq(X), NEW k \in 0..Len(c), NEW e \in X
  PROVE  /\ Inserted(c, k, e) \in Seq(X) /\ Len(Inserted(c, k, e)) = Len(c) + 1
         /\ \A i \in 1..k : Inserted(c, k, e)[i] = c[i]
         /\ Inserted(c, k, e)[k + 1] = e
         /\ \A i \in k + 2..Len(c) + 1 : Inserted(c, k, e)[i] = c[i - 1]
  <1> DEFINE d == Inserted(c, k, e)
             n == Len(c)
  <1>1. n \in Nat /\ k \in Nat /\ k <= n /\ \A i \in 1..n : c[i] \in X
    OBVIOUS
  <1> HIDE DEF n
  <1>2. d = [i \in 1..n + 1 |-> IF i <= k THEN c[i] ELSE IF i = k + 1 THEN e ELSE c[i - 1]]
    BY DEF Inserted, n
  <1> HIDE DEF d
  <1>3. \A i \in 1..n + 1 : d[i] \in X
    <2>1. ASSUME NEW i \in 1..n + 1 PROVE d[i] \in X
      <3>1. i <= k => i \in 1..n
        BY <1>1
      <3>2. i > k + 1 => i - 1 \in 1..n
        BY <1>1
      <3>3. i <= k \/ i = k + 1 \/ i > k + 1
        BY <1>1
      <3> QED BY <1>1, <1>2, <3>1, <3>2, <3>3
    <2> QED BY <2>1
  <1>4. d \in [1..n + 1 -> X]
    BY <1>2, <1>3
  <1>5. d \in Seq(X) /\ Len(d) = n + 1
    BY <1>1, <1>4
  <1>6. /\ \A i \in 1..k : d[i] = c[i]
        /\ d[k + 1] = e
        /\ \A i \in k + 2..n + 1 : d[i] = c[i - 1]
    BY <1>1, <1>2
  <1> QED BY <1>5, <1>6 DEF d, n

\* A list is known by its members.
LEMMA SameList ==
  ASSUME NEW X, NEW c \in Seq(X), NEW d \in Seq(X), Len(c) = Len(d),
         \A i \in 1..Len(c) : c[i] = d[i]
  PROVE  c = d
  OBVIOUS

\* Behind the last member it is an append.
LEMMA InsertedLast ==
  ASSUME NEW X, NEW c \in Seq(X), NEW e \in X
  PROVE  Inserted(c, Len(c), e) = Append(c, e)
  <1> DEFINE d == Inserted(c, Len(c), e)
             n == Len(c)
             a == Append(c, e)
  <1>1. n \in Nat /\ n \in 0..Len(c)
    OBVIOUS
  <1>2. /\ d \in Seq(X) /\ Len(d) = n + 1 /\ d[n + 1] = e
        /\ \A i \in 1..n : d[i] = c[i]
    <2> HIDE DEF n
    <2>1. n = Len(c) /\ d = Inserted(c, n, e)
      BY DEF n
    <2>2. /\ Inserted(c, n, e) \in Seq(X) /\ Len(Inserted(c, n, e)) = Len(c) + 1
          /\ \A i \in 1..n : Inserted(c, n, e)[i] = c[i]
          /\ Inserted(c, n, e)[n + 1] = e
      BY <1>1, InsertedIsSeq
    <2> QED BY <2>1, <2>2
  <1>3. a \in Seq(X) /\ Len(a) = n + 1 /\ a[n + 1] = e /\ \A i \in 1..n : a[i] = c[i]
    OBVIOUS
  <1> HIDE DEF d, n, a
  <1>4. \A i \in 1..n + 1 : d[i] = a[i]
    <2>1. \A i \in 1..n + 1 : i \in 1..n \/ i = n + 1
      BY <1>1
    <2> QED BY <1>2, <1>3, <2>1
  <1>5. d = a
    BY <1>2, <1>3, <1>4, SameList
  <1> QED BY <1>5 DEF d, n, a

\* The place orderEnqueue finds is the one behind the earlier events.
LEMMA InsertedInOrder ==
  ASSUME NEW X, \A x \in X : x.occur_time \in Nat,
         NEW c \in Seq(X), InOrder(c), NEW e \in X, NEW k \in 0..Len(c),
         \A i \in 1..k : c[i].occur_time < e.occur_time,
         k < Len(c) => c[k + 1].occur_time >= e.occur_time
  PROVE  Inserted(c, k, e) = Insert(c, e)
  <1>0. /\ Inserted(c, k, e) \in Seq(X) /\ Len(Inserted(c, k, e)) = Len(c) + 1
        /\ \A i \in 1..k : Inserted(c, k, e)[i] = c[i]
        /\ Inserted(c, k, e)[k + 1] = e
        /\ \A i \in k + 2..Len(c) + 1 : Inserted(c, k, e)[i] = c[i - 1]
    <2>1. Inserted(c, k, e) \in Seq(X) /\ Len(Inserted(c, k, e)) = Len(c) + 1
      BY InsertedIsSeq
    <2>2. \A i \in 1..k : Inserted(c, k, e)[i] = c[i]
      BY InsertedIsSeq
    <2>3. Inserted(c, k, e)[k + 1] = e
      BY InsertedIsSeq
    <2>4. \A i \in k + 2..Len(c) + 1 : Inserted(c, k, e)[i] = c[i - 1]
      BY InsertedIsSeq
    <2> QED BY <2>1, <2>2, <2>3, <2>4
  <1> DEFINE b == Before(c, e.occur_time)
             n == Len(c)
             t == e.occur_time
             d == Inserted(c, k, e)
             a == Insert(c, e)
  <1>1. n \in Nat /\ k \in Nat /\ k <= n /\ t \in Nat
    OBVIOUS
  <1>2. /\ b \in 0..n
        /\ \A i \in 1..b : c[i].occur_time < t
        /\ \A i \in b + 1..n : c[i].occur_time >= t
    BY <1>1, BeforeIsPrefix
  <1>3. \A i \in 1..n : c[i].occur_time \in Nat
    OBVIOUS
  <1>4. /\ d \in Seq(X) /\ Len(d) = n + 1
        /\ \A i \in 1..k : d[i] = c[i]
        /\ d[k + 1] = e
        /\ \A i \in k + 2..n + 1 : d[i] = c[i - 1]
    BY <1>0
  <1>5. /\ a \in Seq(X) /\ Len(a) = n + 1
        /\ \A i \in 1..b : a[i] = c[i]
        /\ a[b + 1] = e
        /\ \A i \in b + 2..n + 1 : a[i] = c[i - 1]
    BY InsertPlaces
  <1>6. k = b
    <2>1. ASSUME k < b PROVE FALSE
      <3>1. k + 1 \in 1..b /\ k + 1 \in 1..n /\ k < n
        BY <1>1, <1>2, <2>1
      <3>2. c[k + 1].occur_time < t /\ c[k + 1].occur_time >= t
        BY <1>2, <3>1
      <3> QED BY <1>1, <1>3, <3>1, <3>2
    <2>2. ASSUME b < k PROVE FALSE
      <3>1. b + 1 \in 1..k /\ b + 1 \in b + 1..n /\ b + 1 \in 1..n
        BY <1>1, <1>2, <2>2
      <3>2. c[b + 1].occur_time < t /\ c[b + 1].occur_time >= t
        BY <1>2, <3>1
      <3> QED BY <1>1, <1>3, <3>1, <3>2
    <2> HIDE DEF b
    <2> QED BY <1>1, <1>2, <2>1, <2>2
  <1> HIDE DEF a, b, d, n
  <1>7. \A i \in 1..n + 1 : i \in 1..k \/ i = k + 1 \/ i \in k + 2..n + 1
    BY <1>1
  <1>8. \A i \in 1..n + 1 : d[i] = a[i]
    BY <1>4, <1>5, <1>6, <1>7
  <1>9. d = a
    BY <1>4, <1>5, <1>8, SameList
  <1> QED BY <1>9 DEF a, d

\* What the nodes hold, when the nodes of list hold v.
Held(list, v) == [i \in 1..Len(list) |-> v[list[i]]]

\* What is held after an insertion.
LEMMA HeldInserted ==
  ASSUME NEW X, NEW c \in Seq(X), NEW k \in 0..Len(c), NEW e \in X, NEW v, NEW w,
         \A i \in 1..Len(c) : w[c[i]] = v[c[i]]
  PROVE  Held(Inserted(c, k, e), w) = Inserted(Held(c, v), k, w[e])
  <1> DEFINE n == Len(c)
             d == Inserted(c, k, e)
             h == Held(c, v)
  <1>1. n \in Nat /\ k \in Nat /\ k <= n
    OBVIOUS
  <1>2. /\ Len(d) = n + 1
        /\ d = [i \in 1..n + 1 |-> IF i <= k THEN c[i] ELSE IF i = k + 1 THEN e ELSE c[i - 1]]
    BY InsertedIsSeq DEF Inserted
  <1>3. h = [i \in 1..n |-> v[c[i]]] /\ Len(h) = n
    <2>1. h = [i \in 1..n |-> v[c[i]]]
      BY DEF Held
    <2> HIDE DEF h, n
    <2> QED BY <1>1, <2>1
  <1> HIDE DEF d, h, n
  <1>4. Inserted(h, k, w[e]) = [i \in 1..n + 1 |-> IF i <= k THEN h[i] ELSE IF i = k + 1 THEN w[e] ELSE h[i - 1]]
    BY <1>3 DEF Inserted
  <1>5. \A i \in 1..n + 1 :
           w[d[i]] = IF i <= k THEN h[i] ELSE IF i = k + 1 THEN w[e] ELSE h[i - 1]
    <2>1. ASSUME NEW i \in 1..n + 1
          PROVE  w[d[i]] = IF i <= k THEN h[i] ELSE IF i = k + 1 THEN w[e] ELSE h[i - 1]
      <3>1. CASE i <= k
        <4>1. i \in 1..n /\ d[i] = c[i] /\ h[i] = v[c[i]]
          BY <1>1, <1>2, <1>3, <3>1
        <4> QED BY <3>1, <4>1 DEF n
      <3>2. CASE i = k + 1
        BY <1>1, <1>2, <3>2
      <3>3. CASE i > k + 1
        <4>1. i - 1 \in 1..n /\ ~ (i <= k) /\ i # k + 1
          BY <1>1, <3>3
        <4>2. d[i] = c[i - 1] /\ h[i - 1] = v[c[i - 1]]
          BY <1>2, <1>3, <4>1
        <4> QED BY <4>1, <4>2 DEF n
      <3> QED BY <1>1, <3>1, <3>2, <3>3
    <2> QED BY <2>1
  <1>6. Held(d, w) = [i \in 1..n + 1 |-> w[d[i]]]
    BY <1>2 DEF Held
  <1>7. Held(d, w) = Inserted(h, k, w[e])
    BY <1>4, <1>5, <1>6
  <1> QED BY <1>7 DEF d, h

\* What nodes hold is a sequence of elements.
LEMMA HeldIsSeq ==
  ASSUME NEW X, NEW c \in Seq(X), NEW E, NEW v, \A x \in X : v[x] \in E
  PROVE  /\ Held(c, v) \in Seq(E) /\ Len(Held(c, v)) = Len(c)
         /\ \A i \in 1..Len(c) : Held(c, v)[i] = v[c[i]]
  <1> DEFINE n == Len(c)
             h == Held(c, v)
  <1>1. n \in Nat /\ \A i \in 1..n : c[i] \in X
    OBVIOUS
  <1>2. h = [i \in 1..n |-> v[c[i]]]
    BY DEF Held
  <1> HIDE DEF h, n
  <1>3. h \in [1..n -> E]
    BY <1>1, <1>2
  <1> QED BY <1>1, <1>2, <1>3 DEF h, n

-----------------------------------------------------------------------------
(* The operations of the queues. *)

\* The back pointer, and what the two uses of the template keep to.
Placed(c) ==
  /\ back = front \/ \E i \in 1..Len(c) : back = c[i]
  /\ ~ordered =>
       /\ back = IF c = <<>> THEN front ELSE c[Len(c)]
       /\ DOMAIN element = {c[i] : i \in 1..Len(c)}
  /\ ordered => InOrder(Held(c, element))

QueueTypes ==
  /\ DOMAIN element \subseteq Nodes /\ element \in [DOMAIN element -> Elements]
  /\ got \in Elements \union {Null} /\ ordered \in BOOLEAN

QueueIInv == QueueTypes /\ \E c : IsList(c) /\ Placed(c)

\* Linking a new node behind the k-th one puts it there in the list.
LEMMA LinkKeeps ==
  ASSUME NEW c, IsList(c), DOMAIN element \subseteq Nodes, NEW k \in 0..Len(c),
         NEW new \in Nodes \ DOMAIN element, NEW n, n = IF k = 0 THEN front ELSE c[k], NEW e,
         Queue!LinkAfter(new, n, e), DOMAIN element \union {new} \subseteq DOMAIN element'
  PROVE  IsList(Inserted(c, k, new))'
  <1>0. /\ Inserted(c, k, new) \in Seq(DOMAIN element \union {new})
        /\ Len(Inserted(c, k, new)) = Len(c) + 1
        /\ \A i \in 1..k : Inserted(c, k, new)[i] = c[i]
        /\ Inserted(c, k, new)[k + 1] = new
        /\ \A i \in k + 2..Len(c) + 1 : Inserted(c, k, new)[i] = c[i - 1]
    <2> DEFINE X == DOMAIN element \union {new}
    <2>0. c \in Seq(X) /\ new \in X
      BY DEF IsList
    <2> HIDE DEF X
    <2>1. Inserted(c, k, new) \in Seq(X) /\ Len(Inserted(c, k, new)) = Len(c) + 1
      BY <2>0, InsertedIsSeq
    <2>2. \A i \in 1..k : Inserted(c, k, new)[i] = c[i]
      BY <2>0, InsertedIsSeq
    <2>3. Inserted(c, k, new)[k + 1] = new
      BY <2>0, InsertedIsSeq
    <2>4. \A i \in k + 2..Len(c) + 1 : Inserted(c, k, new)[i] = c[i - 1]
      BY <2>0, InsertedIsSeq
    <2> QED BY <2>1, <2>2, <2>3, <2>4 DEF X
  <1> DEFINE m == Len(c)
             d == Inserted(c, k, new)
             A == DOMAIN element
  <1>1. /\ c \in Seq(A) /\ m \in Nat /\ k \in Nat /\ k <= m
        /\ \A i \in 1..m : c[i] \in A /\ c[i] # new /\ c[i] # front
    BY QueueConstants DEF IsList
  <1>3. /\ d \in Seq(A \union {new}) /\ Len(d) = m + 1
        /\ \A i \in 1..k : d[i] = c[i]
        /\ d[k + 1] = new
        /\ \A i \in k + 2..m + 1 : d[i] = c[i - 1]
    BY <1>0
  <1>4. next' = [x \in DOMAIN next \union {new} |->
                   IF x = n THEN new ELSE IF x = new THEN next[n] ELSE next[x]]
    BY DEF Queue!LinkAfter
  <1>5. DOMAIN next = {front} \union {c[i] : i \in 1..m} /\ n \in DOMAIN next /\ n # new
    <2>1. DOMAIN next = {front} \union {c[i] : i \in 1..m}
      BY DEF IsList
    <2>2. k # 0 => k \in 1..m
      BY <1>1
    <2> QED BY <1>1, <2>1, <2>2, QueueConstants
  <1> HIDE DEF d, m, A
  <1>6. /\ next'[n] = new /\ next'[new] = next[n]
        /\ \A x \in DOMAIN next : x # n /\ x # new => next'[x] = next[x]
        /\ DOMAIN next' = DOMAIN next \union {new}
    BY <1>4, <1>5
  <1>7. d \in Seq(DOMAIN element')
    BY <1>3 DEF A
  <1>8. \A i \in 1..m + 1 : i \in 1..k \/ i = k + 1 \/ (i \in k + 2..m + 1 /\ i - 1 \in k + 1..m)
    BY <1>1
  <1>9. \A i, j \in 1..Len(d) : i # j => d[i] # d[j]
    <2>1. \A i, j \in 1..m : i # j => c[i] # c[j]
      BY DEF IsList, m
    <2>2. ASSUME NEW i \in 1..m + 1, NEW j \in 1..m + 1, i < j PROVE d[i] # d[j]
      <3>1. CASE i \in 1..k /\ j \in 1..k
        BY <1>1, <1>3, <2>1, <2>2, <3>1
      <3>2. CASE i \in 1..k /\ j = k + 1
        BY <1>1, <1>3, <3>2
      <3>3. CASE i \in 1..k /\ j \in k + 2..m + 1
        <4>1. j - 1 \in 1..m /\ i \in 1..m /\ i # j - 1
          BY <1>1, <3>3
        <4> QED BY <1>3, <2>1, <3>3, <4>1
      <3>4. CASE i = k + 1 /\ j \in k + 2..m + 1
        <4>1. j - 1 \in 1..m
          BY <1>1, <3>4
        <4> QED BY <1>1, <1>3, <3>4, <4>1
      <3>5. CASE i \in k + 2..m + 1 /\ j \in k + 2..m + 1
        <4>1. j - 1 \in 1..m /\ i - 1 \in 1..m /\ i - 1 # j - 1
          BY <1>1, <2>2, <3>5
        <4> QED BY <1>3, <2>1, <3>5, <4>1
      <3> QED BY <1>1, <1>8, <2>2, <3>1, <3>2, <3>3, <3>4, <3>5
    <2>3. \A i, j \in 1..m + 1 : i # j => i < j \/ j < i
      BY <1>1
    <2> QED BY <1>3, <2>2, <2>3
  <1>10. next[n] = IF k = m THEN Null ELSE c[k + 1]
    <2>1. CASE k = 0
      <3>1. c = <<>> <=> m = 0
        BY <1>1 DEF m
      <3> QED BY <2>1, <3>1 DEF IsList
    <2>2. CASE k # 0
      <3>1. k \in 1..m
        BY <1>1, <2>2
      <3> QED BY <2>2, <3>1 DEF IsList, m
    <2> QED BY <2>1, <2>2
  <1>11. next'[front] = d[1] /\ d # <<>>
    <2>1. CASE k = 0
      BY <1>1, <1>3, <1>6, <2>1
    <2>2. CASE k # 0
      <3>1. k \in 1..m /\ n # front /\ 1 \in 1..k /\ d[1] = c[1]
        BY <1>1, <1>3, <2>2
      <3>2. next'[front] = next[front] /\ front # new
        BY <1>5, <1>6, <3>1, QueueConstants
      <3>3. c # <<>>
        BY <1>1, <3>1 DEF m
      <3> QED BY <1>1, <1>3, <3>1, <3>2, <3>3 DEF IsList
    <2> QED BY <2>1, <2>2
  <1>12. ASSUME NEW i \in 1..Len(d) PROVE next'[d[i]] = IF i = Len(d) THEN Null ELSE d[i + 1]
    <2>1. \A j \in 1..m : next[c[j]] = IF j = m THEN Null ELSE c[j + 1]
      BY DEF IsList, m
    <2>2. \A j \in 1..m : j # k => c[j] # n
      <3>1. \A j, l \in 1..m : l # j => c[l] # c[j]
        BY DEF IsList, m
      <3>2. k # 0 => k \in 1..m
        BY <1>1
      <3> QED BY <1>1, <3>1, <3>2
    <2>3. \A j \in 1..m : j # k => next'[c[j]] = next[c[j]]
      BY <1>1, <1>5, <1>6, <2>2
    <2>4. CASE i \in 1..k
      <3>1. CASE i = k
        <4>1. d[i] = n /\ d[i + 1] = new /\ i # m + 1
          BY <1>1, <1>3, <2>4, <3>1
        <4> QED BY <1>3, <1>6, <4>1
      <3>2. CASE i # k
        <4>1. i \in 1..m /\ i + 1 \in 1..k /\ i # m /\ i # m + 1
          BY <1>1, <2>4, <3>2
        <4> QED BY <1>3, <2>1, <2>3, <2>4, <3>2, <4>1
      <3> QED BY <3>1, <3>2
    <2>5. CASE i = k + 1
      <3>1. next'[d[i]] = IF k = m THEN Null ELSE c[k + 1]
        BY <1>3, <1>6, <1>10, <2>5
      <3>2. k # m => k + 2 \in k + 2..m + 1 /\ d[k + 2] = c[k + 1]
        BY <1>1, <1>3
      <3>3. (k = m <=> i = m + 1) /\ i + 1 = k + 2
        BY <1>1, <2>5
      <3> QED BY <1>3, <3>1, <3>2, <3>3
    <2>6. CASE i \in k + 2..m + 1
      <3> DEFINE j == i - 1
      <3>1. j \in 1..m /\ j # k /\ i = j + 1 /\ d[i] = c[j]
        BY <1>1, <1>3, <2>6
      <3>2. j # m => i + 1 \in k + 2..m + 1 /\ d[i + 1] = c[j + 1]
        BY <1>1, <1>3, <2>6
      <3> HIDE DEF j
      <3>3. next'[d[i]] = IF j = m THEN Null ELSE c[j + 1]
        BY <2>1, <2>3, <3>1
      <3> QED BY <1>1, <1>3, <3>1, <3>2, <3>3
    <2> QED BY <1>3, <1>8, <2>4, <2>5, <2>6
  <1>13. DOMAIN next' = {front} \union {d[i] : i \in 1..Len(d)}
    <2>1. ASSUME NEW i \in 1..m PROVE \E j \in 1..Len(d) : d[j] = c[i]
      <3>1. CASE i <= k
        BY <1>1, <1>3, <3>1
      <3>2. CASE i > k
        <4>1. i + 1 \in k + 2..m + 1 /\ i + 1 \in 1..m + 1 /\ (i + 1) - 1 = i
          BY <1>1, <3>2
        <4> QED BY <1>3, <4>1
      <3> QED BY <1>1, <3>1, <3>2
    <2>2. ASSUME NEW i \in 1..Len(d) PROVE d[i] = new \/ \E j \in 1..m : d[i] = c[j]
      <3>1. i \in k + 2..m + 1 => i - 1 \in 1..m
        BY <1>1
      <3>2. i \in 1..k => i \in 1..m
        BY <1>1
      <3> QED BY <1>3, <1>8, <3>1, <3>2
    <2>3. k + 1 \in 1..Len(d)
      BY <1>1, <1>3
    <2>4. \A x : x \in DOMAIN next' <=> x = front \/ x = new \/ \E i \in 1..m : x = c[i]
      BY <1>5, <1>6
    <2>5. \A x : (\E i \in 1..Len(d) : x = d[i]) <=> x = new \/ \E i \in 1..m : x = c[i]
      <3>1. ASSUME NEW i \in 1..Len(d) PROVE d[i] = new \/ \E j \in 1..m : d[i] = c[j]
        BY <2>2
      <3>2. \E i \in 1..Len(d) : new = d[i]
        BY <1>3, <2>3
      <3>3. \A i \in 1..m : \E j \in 1..Len(d) : c[i] = d[j]
        BY <2>1
      <3> QED BY <3>1, <3>2, <3>3
    <2>6. \A x : x \in DOMAIN next' <=> x = front \/ \E i \in 1..Len(d) : x = d[i]
      BY <2>4, <2>5
    <2> QED BY <2>6
  <1>14. IsList(d)'
    BY <1>7, <1>9, <1>11, <1>12, <1>13 DEF IsList
  <1> QED BY <1>14 DEF d

\* What comes after the head of a list.
LEMMA TailIs ==
  ASSUME NEW X, NEW c \in Seq(X), c # <<>>
  PROVE  /\ Tail(c) \in Seq(X) /\ Len(Tail(c)) = Len(c) - 1 /\ Len(c) \in Nat /\ Len(c) > 0
         /\ \A i \in 1..Len(c) - 1 : Tail(c)[i] = c[i + 1]
  OBVIOUS

\* What is held when the first node is gone.
LEMMA HeldTail ==
  ASSUME NEW X, NEW c \in Seq(X), c # <<>>, NEW v, NEW w,
         \A i \in 2..Len(c) : w[c[i]] = v[c[i]]
  PROVE  /\ Held(Tail(c), w) = Tail(Held(c, v)) /\ Head(Held(c, v)) = v[c[1]]
         /\ Held(c, v) # <<>>
  <1> DEFINE n == Len(c)
             h == Held(c, v)
             E == {v[c[i]] : i \in 1..n}
  <1>1. /\ n \in Nat /\ n > 0 /\ Len(Tail(c)) = n - 1
        /\ \A i \in 1..n - 1 : Tail(c)[i] = c[i + 1]
    BY TailIs
  <1>2. h \in Seq(E) /\ Len(h) = n /\ \A i \in 1..n : h[i] = v[c[i]]
    <2>1. h = [i \in 1..n |-> v[c[i]]]
      BY DEF Held
    <2> HIDE DEF h, n
    <2> QED BY <1>1, <2>1
  <1> HIDE DEF E, h
  <1>3. h # <<>> /\ Head(h) = v[c[1]]
    <2> HIDE DEF n
    <2> QED BY <1>1, <1>2
  <1>4. \A i \in 1..n - 1 : w[Tail(c)[i]] = h[i + 1]
    <2>1. ASSUME NEW i \in 1..n - 1 PROVE w[Tail(c)[i]] = h[i + 1]
      <3>1. i + 1 \in 2..n /\ i + 1 \in 1..n /\ Tail(c)[i] = c[i + 1]
        BY <1>1
      <3> QED BY <1>2, <3>1
    <2> QED BY <2>1
  <1>5. Held(Tail(c), w) = [i \in 1..n - 1 |-> h[i + 1]]
    BY <1>1, <1>4 DEF Held
  <1>6. Tail(h) = [i \in 1..n - 1 |-> h[i + 1]]
    <2>1. /\ Tail(h) \in Seq(E) /\ Len(Tail(h)) = n - 1
          /\ \A i \in 1..n - 1 : Tail(h)[i] = h[i + 1]
      BY <1>2, <1>3, TailIs
    <2> DEFINE u == Tail(h)
    <2> HIDE DEF n, u
    <2>2. u \in Seq(E) /\ Len(u) = n - 1 /\ \A i \in 1..n - 1 : u[i] = h[i + 1]
      BY <2>1 DEF u
    <2>3. u = [i \in 1..n - 1 |-> u[i]]
      BY <1>1, <2>2
    <2>4. u = [i \in 1..n - 1 |-> h[i + 1]]
      BY <2>2, <2>3
    <2> QED BY <2>4 DEF u
  <1> QED BY <1>3, <1>5, <1>6 DEF h

\* Unlinking the first node leaves the rest of the list.
LEMMA UnlinkKeeps ==
  ASSUME NEW c, IsList(c), DOMAIN element \subseteq Nodes, c # <<>>,
         next' = [m \in DOMAIN next \ {c[1]} |-> IF m = front THEN next[c[1]] ELSE next[m]],
         DOMAIN element' = DOMAIN element \ {c[1]}
  PROVE  IsList(Tail(c))'
  <1> DEFINE n == Len(c)
             d == Tail(c)
             A == DOMAIN element
  <1>1. /\ c \in Seq(A) /\ n \in Nat /\ n > 0
        /\ \A i \in 1..n : c[i] \in A /\ c[i] # front
    <2>1. c \in Seq(A) /\ front \notin A
      BY QueueConstants DEF IsList
    <2>2. n \in Nat /\ \A i \in 1..n : c[i] \in A
      BY <2>1
    <2> QED BY <2>1, <2>2, TailIs
  <1>2. d \in Seq(A) /\ Len(d) = n - 1 /\ \A i \in 1..n - 1 : d[i] = c[i + 1]
    BY <1>1, TailIs
  <1>3. \A i, j \in 1..n : i # j => c[i] # c[j]
    BY DEF IsList
  <1>4. /\ \A i \in 1..n : next[c[i]] = IF i = n THEN Null ELSE c[i + 1]
        /\ DOMAIN next = {front} \union {c[i] : i \in 1..n}
    BY DEF IsList
  <1> HIDE DEF n, d, A
  <1>5. /\ \A i \in 1..n - 1 : d[i] \in A \ {c[1]}
        /\ \A i, j \in 1..n - 1 : i # j => d[i] # d[j]
    <2>1. \A i \in 1..n - 1 : i + 1 \in 1..n /\ i + 1 # 1
      BY <1>1
    <2>2. 1 \in 1..n
      BY <1>1
    <2>3. \A i, j \in 1..n - 1 : i # j => i + 1 # j + 1
      BY <1>1
    <2> QED BY <1>1, <1>2, <1>3, <2>1, <2>2, <2>3
  <1>6. d \in Seq(DOMAIN element')
    <2>1. d = [i \in 1..n - 1 |-> d[i]] /\ n - 1 \in Nat
      BY <1>1, <1>2
    <2>2. d \in [1..n - 1 -> A \ {c[1]}]
      BY <1>5, <2>1
    <2> QED BY <2>1, <2>2 DEF A
  <1>7. next'[front] = IF d = <<>> THEN Null ELSE d[1]
    <2>1. front \in DOMAIN next \ {c[1]}
      BY <1>1, <1>4
    <2>2. next'[front] = IF n = 1 THEN Null ELSE c[2]
      BY <1>1, <1>4, <2>1
    <2>3. d = <<>> <=> n = 1
      BY <1>1, <1>2
    <2> QED BY <1>1, <1>2, <2>2, <2>3
  <1>8. ASSUME NEW i \in 1..Len(d) PROVE next'[d[i]] = IF i = Len(d) THEN Null ELSE d[i + 1]
    <2>1. i \in 1..n - 1 /\ i + 1 \in 1..n /\ d[i] = c[i + 1] /\ d[i] # c[1]
      BY <1>1, <1>2, <1>5
    <2>2. next'[d[i]] = next[c[i + 1]]
      BY <1>1, <1>4, <2>1
    <2>3. i # n - 1 => i + 1 \in 1..n - 1 /\ d[i + 1] = c[(i + 1) + 1]
      BY <1>1, <1>2, <2>1
    <2>4. next[c[i + 1]] = IF i + 1 = n THEN Null ELSE c[(i + 1) + 1]
      BY <1>4, <2>1
    <2>5. i + 1 = n <=> i = Len(d)
      BY <1>1, <1>2, <2>1
    <2>6. i # Len(d) => d[i + 1] = c[(i + 1) + 1]
      BY <1>2, <2>3
    <2> QED BY <2>2, <2>4, <2>5, <2>6
  <1>9. DOMAIN next' = {front} \union {d[i] : i \in 1..Len(d)}
    <2>1. ASSUME NEW i \in 1..n, c[i] # c[1] PROVE \E j \in 1..n - 1 : c[i] = d[j]
      <3>1. i - 1 \in 1..n - 1 /\ (i - 1) + 1 = i
        BY <1>1, <2>1
      <3> QED BY <1>2, <3>1
    <2>2. ASSUME NEW j \in 1..n - 1 PROVE d[j] # c[1] /\ \E i \in 1..n : d[j] = c[i]
      <3>1. j + 1 \in 1..n /\ d[j] = c[j + 1]
        BY <1>1, <1>2
      <3> QED BY <1>5, <3>1
    <2>3. front # c[1]
      BY <1>1
    <2>4. \A x : x \in DOMAIN next' <=> x # c[1] /\ (x = front \/ \E i \in 1..n : x = c[i])
      BY <1>4
    <2>5. \A x : x \in DOMAIN next' <=> x = front \/ \E j \in 1..n - 1 : x = d[j]
      BY <2>1, <2>2, <2>3, <2>4
    <2>6. \A x : x \in DOMAIN next' <=> x = front \/ \E j \in 1..Len(d) : x = d[j]
      BY <1>2, <2>5
    <2> QED BY <2>6
  <1>10. IsList(d)'
    BY <1>2, <1>5, <1>6, <1>7, <1>8, <1>9 DEF IsList
  <1> QED BY <1>10 DEF d

\* What AbstractQueue lets a step do when the items were i and become j.
QueueStep(i, j) ==
  \/ /\ \E e \in Elements : j = IF ordered THEN Insert(i, e) ELSE Append(i, e)
     /\ UNCHANGED <<ordered, got>>
  \/ /\ got' = IF i = <<>> THEN Null ELSE Head(i)
     /\ j = IF i = <<>> THEN <<>> ELSE Tail(i)
     /\ UNCHANGED ordered
  \/ j = <<>> /\ UNCHANGED <<ordered, got>>

\* What an operation on the list c leads to.
Kept(c) ==
  /\ QueueTypes'
  /\ \E d : IsList(d)' /\ Placed(d)' /\ QueueStep(Held(c, element), Held(d, element'))

\* What is put behind the k-th node comes behind the k-th item.
LEMMA PutKeeps ==
  ASSUME QueueTypes, NEW c, IsList(c), NEW k \in 0..Len(c),
         NEW new \in Queue!Fresh, NEW more \in SUBSET Queue!Fresh, new \in more,
         NEW n, n = IF k = 0 THEN front ELSE c[k], NEW e \in Elements,
         Queue!LinkAfter(new, n, e), Queue!Store(more, e), ordered' = ordered, got' = got
  PROVE  /\ QueueTypes' /\ IsList(Inserted(c, k, new))'
         /\ Held(Inserted(c, k, new), element') = Inserted(Held(c, element), k, e)
         /\ DOMAIN element' = DOMAIN element \union more
  <1>1. /\ new \in Nodes \ DOMAIN element /\ more \subseteq Nodes
        /\ DOMAIN element \subseteq Nodes /\ element \in [DOMAIN element -> Elements]
    BY DEF Queue!Fresh, Queue!Allocated, QueueTypes
  <1>2. element' = [m \in DOMAIN element \union more |-> IF m \in more THEN e ELSE element[m]]
    BY DEF Queue!Store, Queue!Allocated
  <1>3. QueueTypes'
    BY <1>1, <1>2 DEF QueueTypes
  <1>4. IsList(Inserted(c, k, new))'
    BY <1>1, <1>2, LinkKeeps
  <1>5. \A i \in 1..Len(c) : element'[c[i]] = element[c[i]]
    <2>1. \A i \in 1..Len(c) : c[i] \in DOMAIN element
      BY DEF IsList
    <2>2. \A m \in DOMAIN element : m \notin more
      BY DEF Queue!Fresh, Queue!Allocated
    <2> QED BY <1>2, <2>1, <2>2
  <1>6. element'[new] = e
    BY <1>2
  <1>7. Held(Inserted(c, k, new), element') = Inserted(Held(c, element), k, e)
    <2> DEFINE v == element
               w == element'
    <2>1. c \in Seq(DOMAIN element \union {new}) /\ \A i \in 1..Len(c) : w[c[i]] = v[c[i]]
      BY <1>5 DEF IsList
    <2> HIDE DEF v, w
    <2>2. Held(Inserted(c, k, new), w) = Inserted(Held(c, v), k, w[new])
      <3> DEFINE X == DOMAIN element \union {new}
      <3>1. c \in Seq(X) /\ new \in X
        BY <2>1
      <3> HIDE DEF X
      <3> QED BY <2>1, <3>1, HeldInserted
    <2> QED BY <1>6, <2>2 DEF v, w
  <1> QED BY <1>2, <1>3, <1>4, <1>7

\* What the nodes of a list hold, and its length.
LEMMA ItemsOf ==
  ASSUME QueueTypes, NEW c, IsList(c)
  PROVE  /\ Held(c, element) \in Seq(Elements) /\ Len(Held(c, element)) = Len(c)
         /\ Len(c) \in Nat /\ c \in Seq(DOMAIN element)
         /\ \A i \in 1..Len(c) : Held(c, element)[i] = element[c[i]]
  <1> DEFINE X == DOMAIN element
             v == element
  <1>1. c \in Seq(X) /\ \A x \in X : v[x] \in Elements
    BY DEF IsList, QueueTypes
  <1> HIDE DEF X, v
  <1>2. Held(c, v) \in Seq(Elements) /\ Len(Held(c, v)) = Len(c)
    BY <1>1, HeldIsSeq
  <1>3. \A i \in 1..Len(c) : Held(c, v)[i] = v[c[i]]
    BY DEF Held
  <1>4. Len(c) \in Nat
    BY <1>1
  <1> QED BY <1>1, <1>2, <1>3, <1>4 DEF X, v

\* enqueue links a node behind the one at the back.
LEMMA EnqueueKeeps ==
  ASSUME QueueTypes, NEW c, IsList(c), Placed(c), NEW e \in Elements,
         ~ordered, Queue!Enqueue(e), ordered' = ordered
  PROVE  Kept(c)
  <1> DEFINE k == Len(c)
             h == Held(c, element)
  <1>1. PICK new \in Queue!Fresh :
           /\ Queue!LinkAfter(new, back, e) /\ Queue!Store({new}, e)
           /\ back' = new /\ got' = got
    BY DEF Queue!Enqueue
  <1> DEFINE d == Inserted(c, k, new)
  <1>2. h \in Seq(Elements) /\ Len(h) = k /\ k \in Nat /\ c \in Seq(DOMAIN element)
    BY ItemsOf
  <1>3. back = IF k = 0 THEN front ELSE c[k]
    <2>1. c = <<>> <=> k = 0
      BY <1>2
    <2> QED BY <2>1 DEF Placed
  <1>4. /\ QueueTypes' /\ IsList(d)' /\ Held(d, element') = Inserted(h, k, e)
        /\ DOMAIN element' = DOMAIN element \union {new}
    <2> DEFINE n == back
               more == {new}
    <2>1. /\ new \in more /\ more \in SUBSET Queue!Fresh /\ k \in 0..Len(c)
          /\ n = IF k = 0 THEN front ELSE c[k]
          /\ Queue!LinkAfter(new, n, e) /\ Queue!Store(more, e) /\ got' = got
      BY <1>1, <1>2, <1>3
    <2> HIDE DEF n, more, k
    <2>2. /\ QueueTypes' /\ IsList(Inserted(c, k, new))'
          /\ Held(Inserted(c, k, new), element') = Inserted(Held(c, element), k, e)
          /\ DOMAIN element' = DOMAIN element \union more
      BY <2>1, PutKeeps
    <2> QED BY <2>2 DEF more
  <1>5. Held(d, element') = Append(h, e)
    BY <1>2, <1>4, InsertedLast
  <1>6. d = Append(c, new)
    <2> DEFINE X == DOMAIN element \union {new}
    <2>1. c \in Seq(X) /\ new \in X
      BY <1>2
    <2> HIDE DEF X
    <2> QED BY <2>1, InsertedLast
  <1> HIDE DEF d, h
  <1>7. d # <<>> /\ d[Len(d)] = new /\ \A x : (\E i \in 1..Len(d) : x = d[i]) <=> x = new \/ \E i \in 1..Len(c) : x = c[i]
    <2>1. Len(d) = k + 1 /\ d[k + 1] = new /\ \A i \in 1..k : d[i] = c[i]
      BY <1>2, <1>6
    <2>2. \A i \in 1..k + 1 : i \in 1..k \/ i = k + 1
      BY <1>2
    <2>3. d # <<>>
      BY <1>2, <2>1
    <2>4. k + 1 \in 1..k + 1 /\ \A i \in 1..k : i \in 1..k + 1
      BY <1>2
    <2> HIDE DEF k
    <2> QED BY <2>1, <2>2, <2>3, <2>4 DEF k
  <1>8. DOMAIN element' = {d[i] : i \in 1..Len(d)}
    <2>1. DOMAIN element = {c[i] : i \in 1..Len(c)}
      BY DEF Placed
    <2>2. \A x : x \in DOMAIN element' <=> \E i \in 1..Len(d) : x = d[i]
      BY <1>4, <1>7, <2>1
    <2> QED BY <2>2
  <1>9. Len(d) \in 1..Len(d)
    BY <1>2, <1>6
  <1>10. Placed(d)'
    BY <1>1, <1>7, <1>8, <1>9 DEF Placed
  <1>11. QueueStep(h, Held(d, element'))
    BY <1>1, <1>5 DEF QueueStep
  <1> QED BY <1>4, <1>10, <1>11 DEF Kept, h

\* Putting into an empty queue of events.
LEMMA OrderEnqueueEmptyKeeps ==
  ASSUME QueueTypes, NEW c, IsList(c), Placed(c), NEW e \in Elements,
         ordered, Queue!OrderEnqueueEmpty(e), ordered' = ordered
  PROVE  Kept(c)
  <1> DEFINE h == Held(c, element)
  <1>1. h \in Seq(Elements) /\ Len(h) = Len(c) /\ Len(c) \in Nat /\ c \in Seq(DOMAIN element)
    BY ItemsOf
  <1>2. Len(c) = 0
    BY ListIs DEF Queue!OrderEnqueueEmpty, QueueTypes
  <1>3. PICK new \in Queue!Fresh, lost \in Queue!Fresh :
           /\ Queue!LinkAfter(new, back, e) /\ Queue!Store({new, lost}, e)
           /\ back' = new /\ got' = got
    BY DEF Queue!OrderEnqueueEmpty
  <1> DEFINE d == Inserted(c, 0, new)
  <1>4. back = front
    BY <1>2 DEF Placed
  <1>5. /\ QueueTypes' /\ IsList(d)' /\ Held(d, element') = Inserted(h, 0, e)
    <2> DEFINE n == back
               more == {new, lost}
               k == 0
    <2>1. /\ new \in more /\ more \in SUBSET Queue!Fresh /\ k \in 0..Len(c)
          /\ n = IF k = 0 THEN front ELSE c[k]
          /\ Queue!LinkAfter(new, n, e) /\ Queue!Store(more, e) /\ got' = got
      BY <1>2, <1>3, <1>4
    <2> HIDE DEF n, more, k
    <2>2. /\ QueueTypes' /\ IsList(Inserted(c, k, new))'
          /\ Held(Inserted(c, k, new), element') = Inserted(Held(c, element), k, e)
          /\ DOMAIN element' = DOMAIN element \union more
      BY <2>1, PutKeeps
    <2> QED BY <2>2 DEF k
  <1>6. Held(d, element') = Insert(h, e) /\ InOrder(Insert(h, e))
    <2> DEFINE k == 0
    <2>1. InOrder(h) /\ \A x \in Elements : x.occur_time \in Nat
      BY QueueConstants DEF Placed
    <2>2. /\ k \in 0..Len(h) /\ \A i \in 1..k : h[i].occur_time < e.occur_time
          /\ k < Len(h) => h[k + 1].occur_time >= e.occur_time
      BY <1>1, <1>2
    <2> HIDE DEF k, h
    <2>3. Inserted(h, k, e) = Insert(h, e)
      BY <1>1, <2>1, <2>2, InsertedInOrder
    <2>4. InOrder(Insert(h, e))
      BY <1>1, <2>1, InsertOrdered
    <2> QED BY <1>5, <2>3, <2>4 DEF k
  <1>7. d = <<new>>
    BY <1>2 DEF Inserted
  <1> HIDE DEF d, h
  <1>8. Placed(d)'
    <2>1. Len(d) = 1 /\ d[1] = new
      BY <1>7
    <2> QED BY <1>3, <1>6, <2>1 DEF Placed
  <1>9. QueueStep(h, Held(d, element'))
    BY <1>3, <1>6 DEF QueueStep
  <1> QED BY <1>5, <1>8, <1>9 DEF Kept, h

\* Putting into a queue of events: the place is behind the last earlier one.
LEMMA OrderEnqueueKeeps ==
  ASSUME QueueTypes, NEW c, IsList(c), Placed(c), NEW e \in Elements,
         ordered, Queue!OrderEnqueue(e), ordered' = ordered
  PROVE  Kept(c)
  <1> DEFINE h == Held(c, element)
             P(k) == /\ \A i \in 1..k : element[c[i]].occur_time < e.occur_time
                     /\ k < Len(c) => element[c[k + 1]].occur_time >= e.occur_time
             place == CHOOSE k \in 0..Len(c) : P(k)
  <1>1. /\ h \in Seq(Elements) /\ Len(h) = Len(c) /\ Len(c) \in Nat /\ c \in Seq(DOMAIN element)
        /\ \A i \in 1..Len(c) : h[i] = element[c[i]]
    BY ItemsOf
  <1>2. InOrder(h) /\ \A x \in Elements : x.occur_time \in Nat
    BY QueueConstants DEF Placed
  <1>3. place \in 0..Len(c) /\ P(place)
    <2> DEFINE b == Before(h, e.occur_time)
    <2>1. e.occur_time \in Nat
      BY <1>2
    <2> HIDE DEF h, place
    <2>2. /\ b \in 0..Len(h)
          /\ \A i \in 1..b : h[i].occur_time < e.occur_time
          /\ \A i \in b + 1..Len(h) : h[i].occur_time >= e.occur_time
      BY <1>1, <1>2, <2>1, BeforeIsPrefix
    <2> HIDE DEF b
    <2>3. P(b) /\ b \in 0..Len(c)
      BY <1>1, <2>2
    <2> HIDE DEF P
    <2> QED BY <2>3 DEF place
  <1>4. Queue!PlaceOf(e) = IF place = 0 THEN front ELSE c[place]
    <2>1. /\ Queue!length = Len(c) /\ Queue!List = c
          /\ \A i \in 0..Len(c) : Queue!Walk[i] = IF i = 0 THEN front ELSE c[i]
      BY ListIs DEF QueueTypes
    <2>2. Queue!PlaceOf(e) = Queue!Walk[place]
      BY <2>1 DEF Queue!PlaceOf
    <2> HIDE DEF place, P
    <2> QED BY <1>3, <2>1, <2>2
  <1> HIDE DEF place, h
  <1>0. PICK k \in 0..Len(c) : k = place
    BY <1>3
  <1>5. PICK new \in Queue!Fresh :
           /\ Queue!LinkAfter(new, Queue!PlaceOf(e), e) /\ Queue!Store({new}, e)
           /\ back' = back /\ got' = got
    BY DEF Queue!OrderEnqueue
  <1> DEFINE d == Inserted(c, k, new)
  <1>6. /\ QueueTypes' /\ IsList(d)' /\ Held(d, element') = Inserted(h, k, e)
    <2> DEFINE n == Queue!PlaceOf(e)
               more == {new}
    <2>1. /\ new \in more /\ more \in SUBSET Queue!Fresh
          /\ n = IF k = 0 THEN front ELSE c[k]
          /\ Queue!LinkAfter(new, n, e) /\ Queue!Store(more, e) /\ got' = got
      BY <1>0, <1>4, <1>5
    <2> HIDE DEF n, more, P
    <2>2. /\ QueueTypes' /\ IsList(Inserted(c, k, new))'
          /\ Held(Inserted(c, k, new), element') = Inserted(Held(c, element), k, e)
          /\ DOMAIN element' = DOMAIN element \union more
      BY <2>1, PutKeeps
    <2> QED BY <2>2 DEF h
  <1>10. P(k)
    BY <1>0, <1>3
  <1>7. Held(d, element') = Insert(h, e) /\ InOrder(Insert(h, e))
    <2>1. /\ k \in 0..Len(h) /\ \A i \in 1..k : h[i].occur_time < e.occur_time
          /\ k < Len(h) => h[k + 1].occur_time >= e.occur_time
      <3>1. k \in Nat /\ \A i \in 1..k : i \in 1..Len(c)
        BY <1>1
      <3>2. k < Len(c) => k + 1 \in 1..Len(c)
        BY <1>1
      <3> QED BY <1>1, <1>10, <3>1, <3>2
    <2>2. Inserted(h, k, e) = Insert(h, e)
      BY <1>1, <1>2, <2>1, InsertedInOrder
    <2>3. InOrder(Insert(h, e))
      BY <1>1, <1>2, InsertOrdered
    <2> QED BY <1>6, <2>2, <2>3
  <1>8. /\ Len(d) = Len(c) + 1
        /\ \A i \in 1..Len(c) : \E j \in 1..Len(d) : d[j] = c[i]
    <2> DEFINE X == DOMAIN element \union {new}
    <2>1. c \in Seq(X) /\ new \in X
      BY <1>1
    <2> HIDE DEF X, P
    <2>2. Len(Inserted(c, k, new)) = Len(c) + 1
      BY <2>1, InsertedIsSeq
    <2>3. \A i \in 1..k : Inserted(c, k, new)[i] = c[i]
      BY <2>1, InsertedIsSeq
    <2>4. \A i \in k + 2..Len(c) + 1 : Inserted(c, k, new)[i] = c[i - 1]
      BY <2>1, InsertedIsSeq
    <2> HIDE DEF d
    <2>5. ASSUME NEW i \in 1..Len(c) PROVE \E j \in 1..Len(c) + 1 : Inserted(c, k, new)[j] = c[i]
      <3>1. CASE i <= k
        BY <1>1, <2>3, <3>1
      <3>2. CASE i > k
        <4>1. i + 1 \in k + 2..Len(c) + 1 /\ i + 1 \in 1..Len(c) + 1 /\ (i + 1) - 1 = i
          BY <1>1, <3>2
        <4> QED BY <2>4, <4>1
      <3> QED BY <1>1, <3>1, <3>2
    <2> QED BY <2>2, <2>5 DEF d
  <1> HIDE DEF d, P
  <1>9. Placed(d)'
    <2>1. back' = front \/ \E j \in 1..Len(d) : back' = d[j]
      BY <1>5, <1>8 DEF Placed
    <2> QED BY <1>6, <1>7, <2>1 DEF Placed
  <1>11. QueueStep(h, Held(d, element'))
    BY <1>5, <1>7 DEF QueueStep
  <1> QED BY <1>6, <1>9, <1>11 DEF Kept, h

\* Taking the first one out.
LEMMA DequeueKeeps ==
  ASSUME QueueTypes, NEW c, IsList(c), Placed(c), Queue!Dequeue, ordered' = ordered
  PROVE  Kept(c)
  <1> DEFINE h == Held(c, element)
             d == Tail(c)
             n == Len(c)
  <1>1. /\ h \in Seq(Elements) /\ Len(h) = n /\ n \in Nat /\ c \in Seq(DOMAIN element)
        /\ \A i \in 1..n : h[i] = element[c[i]]
    BY ItemsOf
  <1>2. Queue!length = n /\ n > 0 /\ c # <<>>
    <2>1. Queue!length = n /\ n > 0
      BY ListIs DEF Queue!Dequeue, QueueTypes
    <2> QED BY <2>1
  <1>3. /\ d \in Seq(DOMAIN element) /\ Len(d) = n - 1
        /\ \A i \in 1..n - 1 : d[i] = c[i + 1]
    BY <1>1, <1>2, TailIs
  <1>4. PICK ret : ret = next[front]
    OBVIOUS
  <1>5. ret = c[1] /\ ret \in DOMAIN element /\ ret # front
    <2>1. 1 \in 1..n
      BY <1>1, <1>2
    <2>2. c[1] \in DOMAIN element
      BY <1>1, <2>1
    <2> QED BY <1>2, <1>4, <2>2, QueueConstants DEF IsList, QueueTypes
  <1>6. /\ got' = element[ret] /\ back' = IF ret = back THEN front ELSE back
        /\ next' = [m \in DOMAIN next \ {ret} |-> IF m = front THEN next[ret] ELSE next[m]]
        /\ element' = [m \in DOMAIN element \ {ret} |-> element[m]]
    BY <1>4 DEF Queue!Dequeue, Queue!BackWithout, Queue!Free, Queue!Allocated
  <1>7. QueueTypes'
    <2>1. element[ret] \in Elements
      BY <1>5 DEF QueueTypes
    <2> QED BY <1>6, <2>1 DEF QueueTypes
  <1>8. IsList(d)'
    <2>1. DOMAIN element' = DOMAIN element \ {c[1]} /\ DOMAIN element \subseteq Nodes
      BY <1>5, <1>6 DEF QueueTypes
    <2>2. next' = [m \in DOMAIN next \ {c[1]} |-> IF m = front THEN next[c[1]] ELSE next[m]]
      BY <1>5, <1>6
    <2> QED BY <1>2, <2>1, <2>2, UnlinkKeeps
  <1>9. /\ Held(d, element') = Tail(h) /\ Head(h) = element[ret] /\ h # <<>>
    <2> DEFINE X == DOMAIN element
               v == element
               w == element'
    <2>1. \A i \in 2..n : w[c[i]] = v[c[i]]
      <3>1. \A i \in 2..n : i \in 1..n /\ i # 1
        BY <1>1
      <3>2. 1 \in 1..n /\ \A i, j \in 1..n : i # j => c[i] # c[j]
        BY <1>1, <1>2 DEF IsList
      <3>3. \A i \in 1..n : c[i] \in DOMAIN element
        BY <1>1
      <3> QED BY <1>5, <1>6, <3>1, <3>2, <3>3
    <2>2. c \in Seq(X)
      BY <1>1
    <2> HIDE DEF X, v, w
    <2>3. /\ Held(Tail(c), w) = Tail(Held(c, v)) /\ Head(Held(c, v)) = v[c[1]]
          /\ Held(c, v) # <<>>
      BY <1>2, <2>1, <2>2, HeldTail
    <2> QED BY <1>5, <2>3 DEF v, w
  <1> HIDE DEF d, h
  <1>10. n \in 1..n /\ 1 \in 1..n /\ \A i, j \in 1..n : i # j => c[i] # c[j]
    BY <1>1, <1>2 DEF IsList
  <1>11. \A i \in 1..n : c[i] # ret => \E j \in 1..Len(d) : c[i] = d[j] /\ j = i - 1
    <2>1. ASSUME NEW i \in 1..n, c[i] # ret PROVE \E j \in 1..Len(d) : c[i] = d[j] /\ j = i - 1
      <3>1. i - 1 \in 1..n - 1 /\ (i - 1) + 1 = i
        BY <1>1, <1>5, <2>1
      <3> QED BY <1>3, <3>1
    <2> QED BY <2>1
  <1>12. \A j \in 1..Len(d) : d[j] # ret /\ \E i \in 1..n : d[j] = c[i]
    <2>1. ASSUME NEW j \in 1..Len(d) PROVE d[j] # ret /\ \E i \in 1..n : d[j] = c[i]
      <3>1. j + 1 \in 1..n /\ j + 1 # 1 /\ d[j] = c[j + 1]
        BY <1>1, <1>3
      <3> QED BY <1>5, <1>10, <3>1
    <2> QED BY <2>1
  <1>13. back' = front \/ \E i \in 1..Len(d) : back' = d[i]
    BY <1>6, <1>11 DEF Placed
  <1>14. ASSUME ~ordered
         PROVE  /\ back' = IF d = <<>> THEN front ELSE d[Len(d)]
                /\ DOMAIN element' = {d[i] : i \in 1..Len(d)}
    <2>1. back = c[n] /\ DOMAIN element = {c[i] : i \in 1..n}
      BY <1>2, <1>14 DEF Placed
    <2>2. d = <<>> <=> n = 1
      BY <1>1, <1>3
    <2>3. n = 1 => back' = front
      BY <1>5, <1>6, <2>1
    <2>4. n # 1 => ret # back /\ back' = back /\ c[n] = d[Len(d)]
      <3>1. n # 1 => c[n] # ret
        BY <1>5, <1>10
      <3>2. n # 1 => n - 1 \in 1..n - 1 /\ (n - 1) + 1 = n
        BY <1>1, <1>2
      <3> QED BY <1>3, <1>6, <2>1, <3>1, <3>2
    <2>5. \A x : x \in DOMAIN element' <=> x # ret /\ \E i \in 1..n : x = c[i]
      BY <1>6, <2>1
    <2>6. \A x : x \in DOMAIN element' <=> \E i \in 1..Len(d) : x = d[i]
      BY <1>11, <1>12, <2>5
    <2>7. DOMAIN element' = {d[i] : i \in 1..Len(d)}
      BY <2>6
    <2> QED BY <2>1, <2>2, <2>3, <2>4, <2>7
  <1>15. ASSUME ordered PROVE InOrder(Tail(h))
    <2>1. InOrder(h)
      BY <1>15 DEF Placed, h
    <2>2. /\ Len(Tail(h)) = n - 1
          /\ \A i \in 1..n - 1 : Tail(h)[i] = h[i + 1]
      BY <1>1, <1>9, TailIs
    <2>3. ASSUME NEW i \in 1..n - 1, NEW j \in 1..n - 1, i < j
          PROVE  h[i + 1].occur_time <= h[j + 1].occur_time
      <3>1. i + 1 \in 1..n /\ j + 1 \in 1..n /\ i + 1 < j + 1
        BY <1>1, <2>3
      <3> QED BY <1>1, <2>1, <3>1 DEF InOrder
    <2> QED BY <2>2, <2>3 DEF InOrder
  <1>16. Placed(d)'
    <2>1. ordered' => InOrder(Held(d, element'))
      BY <1>9, <1>15
    <2> QED BY <1>13, <1>14, <2>1 DEF Placed
  <1>17. QueueStep(h, Held(d, element'))
    BY <1>6, <1>9 DEF QueueStep
  <1> QED BY <1>7, <1>8, <1>16, <1>17 DEF Kept, h

\* Nothing is taken out of an empty queue, and nothing is done to a queue by the bank.
LEMMA SameKeeps ==
  ASSUME QueueTypes, NEW c, IsList(c), Placed(c),
         got' \in Elements \union {Null}, UNCHANGED <<ordered, next, element, back>>
  PROVE  QueueTypes' /\ IsList(c)' /\ Placed(c)' /\ Held(c, element') = Held(c, element)
  <1>1. QueueTypes'
    BY DEF QueueTypes
  <1>2. IsList(c)'
    BY DEF IsList
  <1>3. Placed(c)'
    BY DEF Placed
  <1> QED BY <1>1, <1>2, <1>3

\* dequeue of an empty queue changes nothing.
LEMMA DequeueNothingKeeps ==
  ASSUME QueueTypes, NEW c, IsList(c), Placed(c), Queue!DequeueNothing, ordered' = ordered
  PROVE  Kept(c)
  <1> DEFINE h == Held(c, element)
  <1>1. h \in Seq(Elements) /\ Len(h) = Len(c) /\ Len(c) \in Nat
    BY ItemsOf
  <1>2. Len(c) = 0
    BY ListIs DEF Queue!DequeueNothing, QueueTypes
  <1>3. h = <<>>
    BY <1>1, <1>2
  <1>4. got' = Null /\ UNCHANGED <<ordered, next, element, back>>
    BY DEF Queue!DequeueNothing
  <1>5. QueueTypes' /\ IsList(c)' /\ Placed(c)' /\ Held(c, element') = h
    BY <1>4, SameKeeps
  <1> HIDE DEF h
  <1>6. QueueStep(h, Held(c, element'))
    BY <1>3, <1>4, <1>5 DEF QueueStep
  <1> QED BY <1>5, <1>6 DEF Kept, h

\* Clearing leaves the head node alone, and the nodes that are not in the list.
LEMMA ClearQueueKeeps ==
  ASSUME QueueTypes, NEW c, IsList(c), Placed(c), Queue!ClearQueue, ordered' = ordered
  PROVE  Kept(c)
  <1> DEFINE D == {c[i] : i \in 1..Len(c)}
  <1>1. Queue!Deleted = D
    BY ListIs DEF Queue!Deleted, QueueTypes
  <1>2. /\ element' = [m \in DOMAIN element \ D |-> element[m]]
        /\ next' = [m \in DOMAIN next \ D |-> IF m = front THEN Null ELSE next[m]]
        /\ back' = front /\ got' = got
    BY <1>1 DEF Queue!ClearQueue, Queue!Free, Queue!Allocated
  <1>3. DOMAIN next = {front} \union D /\ D \subseteq DOMAIN element /\ front \notin D
    BY QueueConstants DEF IsList, QueueTypes
  <1> HIDE DEF D
  <1>4. QueueTypes'
    BY <1>2 DEF QueueTypes
  <1> DEFINE d == <<>>
  <1>5. IsList(d)'
    <2>1. DOMAIN next' = {front} /\ next'[front] = Null
      BY <1>2, <1>3
    <2>2. Len(d) = 0 /\ d \in Seq(DOMAIN element')
      OBVIOUS
    <2>3. {d[i] : i \in 1..Len(d)} = {}
      BY <2>2
    <2> QED BY <2>1, <2>2, <2>3 DEF IsList
  <1>6. Held(d, element') = <<>>
    BY DEF Held
  <1>7. Placed(d)'
    <2>1. ~ordered => DOMAIN element = D
      BY DEF Placed, D
    <2>2. ~ordered' => DOMAIN element' = {}
      BY <1>2, <2>1
    <2>3. {d[i] : i \in 1..Len(d)} = {}
      OBVIOUS
    <2>4. InOrder(Held(d, element'))
      BY <1>6 DEF InOrder
    <2> QED BY <1>2, <2>2, <2>3, <2>4 DEF Placed
  <1>8. QueueStep(Held(c, element), Held(d, element'))
    BY <1>2, <1>6 DEF QueueStep
  <1> QED BY <1>4, <1>5, <1>7, <1>8 DEF Kept
-----------------------------------------------------------------------------
(* The queue keeps its list and is a queue of items. *)

\* Every operation keeps the list and is a step of the abstract queue.
LEMMA QueueNextKeeps ==
  ASSUME QueueTypes, NEW c, IsList(c), Placed(c), Queue!Next
  PROVE  Kept(c)
  BY EnqueueKeeps, OrderEnqueueKeeps, OrderEnqueueEmptyKeeps, DequeueKeeps,
     DequeueNothingKeeps, ClearQueueKeeps
  DEF Queue!Next

\* A new queue has its head node only.
LEMMA QueueInitKeeps ==
  ASSUME Queue!Init
  PROVE  QueueTypes /\ IsList(<<>>) /\ Placed(<<>>)
  <1> DEFINE d == <<>>
  <1>1. /\ ordered \in BOOLEAN /\ next = [n \in {front} |-> Null]
        /\ element = [n \in {} |-> Null] /\ back = front /\ got = Null
    BY DEF Queue!Init
  <1>2. QueueTypes
    BY <1>1 DEF QueueTypes
  <1>3. Len(d) = 0 /\ {d[i] : i \in 1..Len(d)} = {} /\ d \in Seq(DOMAIN element)
    OBVIOUS
  <1>4. IsList(d)
    BY <1>1, <1>3 DEF IsList
  <1>5. Placed(d)
    BY <1>1, <1>3 DEF Placed, Held, InOrder
  <1> QED BY <1>2, <1>4, <1>5

\* In every state the links go along a sequence of live nodes, each once, and the
\* back pointer leads to the head node or one of them (queue.h).
THEOREM QueueInvariance == MCSpec => []QueueIInv
  <1>1. MCInit => QueueIInv
    BY QueueInitKeeps DEF MCInit, QueueIInv
  <1>2. QueueIInv /\ [MCNext]_<<vars, queueVars, program>> => QueueIInv'
    <2> SUFFICES ASSUME QueueIInv, [MCNext]_<<vars, queueVars, program>> PROVE QueueIInv'
      OBVIOUS
    <2>1. PICK c : IsList(c) /\ Placed(c)
      BY DEF QueueIInv
    <2>2. CASE Queue!Next
      BY <2>1, <2>2, QueueNextKeeps DEF QueueIInv, Kept
    <2>3. CASE UNCHANGED queueVars
      <3>1. UNCHANGED <<ordered, next, element, back>> /\ got' \in Elements \union {Null}
        BY <2>3 DEF queueVars, QueueIInv, QueueTypes
      <3> QED BY <2>1, <3>1, SameKeeps DEF QueueIInv
    <2> QED BY <2>2, <2>3 DEF MCNext
  <1> QED BY <1>1, <1>2, PTL DEF MCSpec

\* The list and its pointers are sound, however many nodes there are and whatever is
\* put in: the nodes walked through are those allocated, and back is one of them.
THEOREM ListInvariant == MCSpec => []ListInv
  <1>1. QueueIInv => ListInv
    <2> SUFFICES ASSUME QueueIInv PROVE ListInv
      OBVIOUS
    <2>1. PICK c : IsList(c) /\ Placed(c)
      BY DEF QueueIInv
    <2>2. QueueTypes
      BY DEF QueueIInv
    <2>3. Queue!length = Len(c) /\ Queue!List = c /\ Len(c) \in Nat
      BY <2>1, <2>2, ListIs DEF QueueTypes
    <2>4. /\ c \in Seq(DOMAIN element) /\ \A i \in 1..Len(c) : c[i] \in DOMAIN element
      BY <2>1 DEF IsList
    <2>5. Queue!TypeOK
      <3>1. element \in UNION {[A -> Elements] : A \in SUBSET Nodes}
        BY <2>2 DEF QueueTypes
      <3>2. /\ DOMAIN next \subseteq DOMAIN element \union {front} /\ front \in DOMAIN next
        BY <2>1, <2>4 DEF IsList
      <3>3. \A n \in DOMAIN next : next[n] \in DOMAIN element \union {Null}
        <4>1. \A i \in 1..Len(c) : i # Len(c) => i + 1 \in 1..Len(c)
          BY <2>3
        <4>2. \A i \in 1..Len(c) : next[c[i]] \in DOMAIN element \union {Null}
          BY <2>1, <2>4, <4>1 DEF IsList
        <4>3. c # <<>> => 1 \in 1..Len(c)
          BY <2>3, <2>4
        <4>4. next[front] \in DOMAIN element \union {Null}
          BY <2>1, <2>4, <4>3 DEF IsList
        <4> QED BY <2>1, <4>2, <4>4 DEF IsList
      <3>4. back \in DOMAIN element \union {front}
        BY <2>1, <2>4 DEF Placed
      <3> QED BY <2>2, <3>1, <3>2, <3>3, <3>4 DEF Queue!TypeOK, Queue!Allocated, QueueTypes
    <2>6. Queue!BackIsLinked
      <3>1. ~ordered => next[back] = Null
        <4>1. c # <<>> => Len(c) \in 1..Len(c)
          BY <2>3, <2>4
        <4> QED BY <2>1, <4>1 DEF Placed, IsList
      <3> QED BY <2>1, <2>3, <3>1 DEF Placed, Queue!BackIsLinked
    <2>7. Queue!NothingLeaks
      BY <2>1, <2>3 DEF Placed, Queue!NothingLeaks, Queue!Allocated
    <2> QED BY <2>5, <2>6, <2>7 DEF ListInv, Queue!ListInv
  <1> QED BY <1>1, QueueInvariance, PTL

\* The items are what the nodes of the list hold, in this state and in the next.
LEMMA ItemsAre ==
  \A c : IsList(c) /\ DOMAIN element \subseteq Nodes => Queue!items = Held(c, element)
  BY ListIs DEF Queue!items, Held

\* The same of the next state.
LEMMA NextItemsAre ==
  (\A c : IsList(c) /\ DOMAIN element \subseteq Nodes => Queue!items = Held(c, element))'
  BY ItemsAre, PTL

\* The list of nodes is a queue: what is put in comes out first in, first out, or in
\* the order of the times, however many nodes and elements there are.
THEOREM QueueImplemented == MCSpec => ImplementsQueue
  <1>1. MCInit => Queue!Abstract!Init
    <2> SUFFICES ASSUME Queue!Init PROVE Queue!Abstract!Init
      BY DEF MCInit
    <2> DEFINE d == <<>>
    <2>1. QueueTypes /\ IsList(d)
      BY QueueInitKeeps
    <2>2. Queue!items = Held(d, element) /\ Held(d, element) = <<>>
      BY <2>1, ItemsAre DEF QueueTypes, Held
    <2> QED BY <2>2 DEF Queue!Init, Queue!Abstract!Init
  <1>2. QueueIInv /\ [MCNext]_<<vars, queueVars, program>> => [Queue!Abstract!Next]_(Queue!Abstract!vars)
    <2> SUFFICES ASSUME QueueIInv, [MCNext]_<<vars, queueVars, program>>
                 PROVE  [Queue!Abstract!Next]_(Queue!Abstract!vars)
      OBVIOUS
    <2>1. PICK c : IsList(c) /\ Placed(c)
      BY DEF QueueIInv
    <2>2. Queue!items = Held(c, element)
      BY <2>1, ItemsAre DEF QueueIInv, QueueTypes
    <2>3. CASE Queue!Next
      <3>1. QueueTypes' /\ \E d : IsList(d)' /\ Placed(d)' /\ QueueStep(Held(c, element), Held(d, element'))
        BY <2>1, <2>3, QueueNextKeeps DEF QueueIInv, Kept
      <3>2. PICK d : IsList(d)' /\ QueueStep(Held(c, element), Held(d, element'))
        BY <3>1
      <3>3. Queue!items' = Held(d, element')
        BY <3>1, <3>2, NextItemsAre DEF QueueTypes
      <3>4. QueueStep(Queue!items, Queue!items')
        BY <2>2, <3>2, <3>3
      <3> HIDE DEF Queue!items
      <3>5. CASE \E e \in Elements : Queue!items' = (IF ordered THEN Insert(Queue!items, e) ELSE Append(Queue!items, e))
                                     /\ UNCHANGED <<ordered, got>>
        BY <3>5, SameInsert DEF Queue!Abstract!Next, Queue!Abstract!Put
      <3>6. CASE /\ got' = IF Queue!items = <<>> THEN Null ELSE Head(Queue!items)
                 /\ Queue!items' = IF Queue!items = <<>> THEN <<>> ELSE Tail(Queue!items)
                 /\ UNCHANGED ordered
        BY <3>6 DEF Queue!Abstract!Next, Queue!Abstract!Take
      <3>7. CASE Queue!items' = <<>> /\ UNCHANGED <<ordered, got>>
        BY <3>7 DEF Queue!Abstract!Next, Queue!Abstract!Clear
      <3> QED BY <3>4, <3>5, <3>6, <3>7 DEF QueueStep
    <2>4. CASE UNCHANGED queueVars
      <3>1. UNCHANGED <<ordered, next, element, back, got>>
        BY <2>4 DEF queueVars
      <3>2. IsList(c)' /\ QueueTypes' /\ Held(c, element') = Held(c, element)
        BY <2>1, <3>1, SameKeeps DEF QueueIInv, QueueTypes
      <3>3. Queue!items' = Held(c, element')
        BY <3>2, NextItemsAre DEF QueueTypes
      <3> QED BY <2>2, <3>1, <3>2, <3>3 DEF Queue!Abstract!vars
    <2> QED BY <2>3, <2>4 DEF MCNext
  <1> QED BY <1>1, <1>2, QueueInvariance, PTL DEF MCSpec, ImplementsQueue, Queue!ImplementsQueue, Queue!Abstract!Spec
=============================================================================
