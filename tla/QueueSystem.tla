---------------------------- MODULE QueueSystem ----------------------------
(***************************************************************************)
(* The bank of QueueServiceSystem/queue_system.h, driven by events:        *)
(* customers arrive, wait in one queue and are served at one of several    *)
(* windows until they depart.  One step is one turn of the loop of         *)
(* QueueSystem::run: the handler of the current event, then the dequeue of *)
(* the next one.  The two lists are the queues that LinkedQueue is shown   *)
(* to implement (AbstractQueue); a random number is any of its values.     *)
(***************************************************************************)
EXTENDS EventOrder, Integers

CONSTANTS
  window_num,
  total_service_time,
  INTERVAL,          \* the longest time between two arrivals
  RANDOM_PARAMETER,  \* the latest first arrival
  SERVICE_TIME_MAX,
  simulate_num,      \* how many runs simulate makes
  MaxCustomers,      \* bound on the arrivals of a run
  Null

ASSUME SystemAssumption ==
  /\ {window_num, simulate_num, MaxCustomers} \subseteq Nat \ {0}
  /\ {INTERVAL, RANDOM_PARAMETER, SERVICE_TIME_MAX, total_service_time} \subseteq Nat
  /\ RANDOM_PARAMETER < total_service_time
  /\ Null \notin [occur_time : Nat, event_type : Int]

VARIABLES
  current_event,  \* Null when the event list has run out
  event_list,
  customer_list,
  windows,        \* of each window its status and the arriveTime of its customer
  total_customer_stay_time,
  total_customer_num,
  runs,           \* runs begun, and one more when simulate is through
  start,          \* the totals when this run began
  returned        \* what run returned last, Null before

lists == <<event_list, customer_list>>
totals == <<total_customer_stay_time, total_customer_num>>
simulation == <<runs, start, returned>>
vars == <<current_event, lists, windows, totals, simulation>>

Windows == 0..window_num - 1

\* Random::uniform: a double between 0 and max, cut to an int where it is used.
uniform(max) == 0..max

\* An arrival has the type -1, a departure the number of its window.
Event(t, type) == [occur_time |-> t, event_type |-> type]
Arrival(t) == Event(t, -1)

\* A customer who comes at time t and will be served for so long.
Customer(t, duration) == [arriveTime |-> t, duration |-> duration]

now == current_event.occur_time

FirstArrival == \E t \in uniform(RANDOM_PARAMETER) : current_event' = Arrival(t)

Init ==
  /\ current_event \in {Arrival(t) : t \in uniform(RANDOM_PARAMETER)}
  /\ event_list = <<>> /\ customer_list = <<>>
  /\ windows = [w \in Windows |-> [status |-> "IDLE", arriveTime |-> 0]]
  /\ total_customer_stay_time = 0 /\ total_customer_num = 0
  /\ runs = 1
  /\ start = <<0, 0>>
  /\ returned = Null
-----------------------------------------------------------------------------
Idle == {w \in Windows : windows[w].status = "IDLE"}

getIdelServiceWindow == CHOOSE w \in Idle : \A v \in Idle : w <= v

\* The current event is deleted, the first of the list becomes the current one.
Proceed(list) ==
  /\ current_event' = IF list = <<>> THEN Null ELSE Head(list)
  /\ event_list' = IF list = <<>> THEN <<>> ELSE Tail(list)

Serve(w, customer) ==
  windows' = [windows EXCEPT ![w] = [status |-> "SERVICE", arriveTime |-> customer.arriveTime]]

\* The next customer comes after inter, unless the bank has closed by then.
NextArrival(inter) ==
  IF now + inter < total_service_time THEN Insert(event_list, Arrival(now + inter)) ELSE event_list

Departure_OfDuration(customer, w) == Event(customer.duration, w)

Departure(customer, w) == Event(now + customer.duration, w)

Join_InFront(customer) == <<customer>> \o customer_list

Join(customer) == Append(customer_list, customer)

\* The bound: after MaxCustomers arrivals the next one is after closing.
Bounded(inter) ==
  total_customer_num - start[2] < MaxCustomers - 1 \/ now + inter >= total_service_time

CustomerArrived(inter) ==
  /\ current_event # Null /\ current_event.event_type = -1
  /\ Bounded(inter)
  /\ total_customer_num' = total_customer_num + 1
  /\ UNCHANGED <<total_customer_stay_time, simulation>>

\* The first of the queue goes to the first idle window.
ToWindow(events, queue) ==
  /\ Idle # {}
  /\ LET w == getIdelServiceWindow
     IN  /\ Serve(w, Head(queue))
         /\ Proceed(Insert(events, Departure(Head(queue), w)))
  /\ customer_list' = Tail(queue)

NoIdleWindow(events, queue) ==
  /\ Idle = {}
  /\ Proceed(events)
  /\ customer_list' = queue
  /\ UNCHANGED windows

\* customerArrived: the customer joins the queue with a random duration.
ArrivesAndIsServed ==
  \E inter \in uniform(INTERVAL), duration \in uniform(SERVICE_TIME_MAX) :
    /\ CustomerArrived(inter)
    /\ ToWindow(NextArrival(inter), Join(Customer(now, duration)))

ArrivesAndWaits ==
  \E inter \in uniform(INTERVAL), duration \in uniform(SERVICE_TIME_MAX) :
    /\ CustomerArrived(inter)
    /\ NoIdleWindow(NextArrival(inter), Join(Customer(now, duration)))
-----------------------------------------------------------------------------
\* customerDeparture, before closing: the stay counts, the window is free.
Departs ==
  /\ current_event # Null /\ current_event.event_type >= 0
  /\ now < total_service_time
  /\ total_customer_stay_time' =
       total_customer_stay_time + now - windows[current_event.event_type].arriveTime
  /\ UNCHANGED <<total_customer_num, simulation>>

NextIsServed ==
  /\ Departs
  /\ customer_list # <<>>
  /\ LET w == current_event.event_type
     IN  /\ Serve(w, Head(customer_list))
         /\ Proceed(Insert(event_list, Departure(Head(customer_list), w)))
  /\ customer_list' = Tail(customer_list)

WindowBecomesIdle_Always ==
  /\ Departs
  /\ windows' = [windows EXCEPT ![current_event.event_type].status = "IDLE"]
  /\ Proceed(event_list)
  /\ UNCHANGED customer_list

WindowBecomesIdle ==
  /\ Departs
  /\ customer_list = <<>>
  /\ windows' = [windows EXCEPT ![current_event.event_type].status = "IDLE"]
  /\ Proceed(event_list)
  /\ UNCHANGED customer_list

\* After closing nobody is served any more and no stay counts.
DepartsAfterClosing ==
  /\ current_event # Null /\ current_event.event_type >= 0
  /\ now >= total_service_time
  /\ Proceed(event_list)
  /\ UNCHANGED <<customer_list, windows, totals, simulation>>
-----------------------------------------------------------------------------
SetIdle_Forgotten == windows

SetIdle == [w \in Windows |-> [windows[w] EXCEPT !.status = "IDLE"]]

\* The loop of run has ended: end, and the average.
End ==
  /\ current_event = Null /\ runs <= simulate_num
  /\ windows' = SetIdle
  /\ event_list' = <<>> /\ customer_list' = <<>>
  /\ returned' = total_customer_stay_time \div total_customer_num
  /\ runs' = runs + 1
  /\ start' = totals
  /\ UNCHANGED totals

NextRun == End /\ runs < simulate_num /\ FirstArrival

LastRunEnds == End /\ runs = simulate_num /\ UNCHANGED current_event

Next ==
  \/ ArrivesAndIsServed \/ ArrivesAndWaits
  \/ NextIsServed \/ WindowBecomesIdle \/ DepartsAfterClosing
  \/ NextRun \/ LastRunEnds

Spec == Init /\ [][Next]_vars
-----------------------------------------------------------------------------
Pending == IF current_event = Null THEN event_list ELSE <<current_event>> \o event_list

\* The events pending of one type.
OfType(type) == {i \in 1..Len(Pending) : Pending[i].event_type = type}

\* Times are not negative, nobody comes after closing, an event is an arrival
\* or the departure from a window there is.
TypeOK ==
  /\ \A i \in 1..Len(Pending) : /\ Pending[i].occur_time \in Nat
                                /\ Pending[i].event_type \in Windows \union {-1}
  /\ \A i \in 1..Len(customer_list) :
       customer_list[i] \in [arriveTime : 0..total_service_time - 1, duration : 0..SERVICE_TIME_MAX]
  /\ windows \in [Windows -> [status : {"IDLE", "SERVICE"}, arriveTime : 0..total_service_time - 1]]
  /\ total_customer_stay_time \in Nat /\ total_customer_num \in Nat
  /\ runs \in 1..simulate_num + 1
  /\ returned \in Nat \union {Null}

\* One arrival leads to at most one other, and each one in service has the one
\* departure that will free the window; only after closing is a window left
\* busy for good (queue_system.h 72-79, 96-99, 113-124).
WindowsMatchDepartures ==
  /\ Cardinality(OfType(-1)) <= 1
  /\ \A w \in Windows :
       /\ Cardinality(OfType(w)) <= 1
       /\ w \in Idle => OfType(w) = {}
       /\ w \notin Idle /\ OfType(w) = {} =>
            current_event = Null \/ now >= total_service_time

\* Windows and events agree after every handler: who is served has one departure
\* to come, and nobody else has one.
BankInv == TypeOK /\ WindowsMatchDepartures

\* No customer waits while a window is idle: the handlers look at the windows
\* when a customer comes and at the queue when one leaves, and nowhere else.
NoneWaitsInVain == customer_list # <<>> => Idle = {}

\* Customers are served in the order they came: nobody at a window came after
\* anybody who waits, and nobody leaves before coming.
ServedInOrder ==
  /\ \A i, j \in 1..Len(customer_list) :
       i < j => customer_list[i].arriveTime <= customer_list[j].arriveTime
  /\ \A w \in Windows \ Idle, i \in 1..Len(customer_list) :
       windows[w].arriveTime <= customer_list[i].arriveTime
  /\ \A w \in Windows : \A i \in OfType(w) : Pending[i].occur_time >= windows[w].arriveTime

\* The clock of a run never goes back: an event is never handled after one that
\* happens later, whatever the handlers put into the list meanwhile.
ClockNeverGoesBack ==
  [][runs' = runs /\ current_event' # Null
       => current_event'.occur_time >= current_event.occur_time]_vars
=============================================================================
