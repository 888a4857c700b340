---------------------------- MODULE LinkedQueue ----------------------------
(***************************************************************************)
(* The queue template of QueueServiceSystem/queue.h: a singly linked list  *)
(* with a head node and a pointer to its back.  The simulation has two of  *)
(* them: a Queue<Customer> that calls enqueue, and a Queue<Event> that     *)
(* calls orderEnqueue, which leaves the back pointer where it is.          *)
(***************************************************************************)
EXTENDS Naturals, Sequences, FiniteSets

CONSTANTS
  Nodes,      \* the addresses operator new can return
  front,      \* the head node
  Null,
  Elements    \* what a node may hold: records with an occur_time

QueueAssumption ==
  /\ IsFiniteSet(Nodes) /\ front \notin Nodes
  /\ Null \notin Nodes \union {front} \union Elements
  /\ \A e \in Elements : e.occur_time \in Nat

VARIABLES
  ordered,   \* which of the two it is: a Queue<Event>, or a Queue<Customer>
  next,      \* the links of the head node and of every node allocated
  element,   \* what the allocated nodes hold
  back,
  got        \* what the node dequeue returned last holds; its caller deletes it

vars == <<ordered, next, element, back, got>>

Allocated == DOMAIN element
Fresh == Nodes \ Allocated

Init ==
  /\ ordered \in BOOLEAN
  /\ next = [n \in {front} |-> Null]
  /\ element = [n \in {} |-> Null]
  /\ back = front
  /\ got = Null
-----------------------------------------------------------------------------
\* The walk along the links from the head node, Null when it has ended.
Walk[i \in 0..Cardinality(Nodes)] ==
  IF i = 0 THEN front ELSE IF Walk[i - 1] = Null THEN Null ELSE next[Walk[i - 1]]

\* How many nodes there are between the head node and the end.
length == Cardinality({i \in 1..Cardinality(Nodes) : Walk[i] # Null})

\* The nodes of the list, first to last.
List == [i \in 1..length |-> Walk[i]]

PlaceOf_Front(e) == front

\* The last node before the first event that is not earlier than e.
PlaceOf(e) ==
  Walk[CHOOSE k \in 0..length :
         /\ \A i \in 1..k : element[List[i]].occur_time < e.occur_time
         /\ k < length => element[List[k + 1]].occur_time >= e.occur_time]

\* A new node that holds e goes behind node n.
LinkAfter(new, n, e) ==
  next' = [m \in DOMAIN next \union {new} |->
             IF m = n THEN new ELSE IF m = new THEN next[n] ELSE next[m]]

Store(new, e) ==
  element' = [m \in Allocated \union new |-> IF m \in new THEN e ELSE element[m]]

Free(nodes) ==
  element' = [m \in Allocated \ nodes |-> element[m]]
-----------------------------------------------------------------------------
\* The customer is put at the back, whose link is NULL.
Enqueue(e) ==
  \E new \in Fresh :
    /\ LinkAfter(new, back, e)
    /\ Store({new}, e)
    /\ back' = new
    /\ UNCHANGED got

\* The event is put in its place behind those that are earlier.
OrderEnqueue(e) ==
  /\ length > 0
  /\ \E new \in Fresh : LinkAfter(new, PlaceOf(e), e) /\ Store({new}, e)
  /\ UNCHANGED <<back, got>>

\* An empty list leaves the work to enqueue: the node that orderEnqueue
\* allocated first is neither linked nor deleted.
OrderEnqueueEmpty(e) ==
  /\ length = 0
  /\ \E new, lost \in Fresh :
       /\ new # lost
       /\ LinkAfter(new, back, e)
       /\ Store({new, lost}, e)
       /\ back' = new
  /\ UNCHANGED got

BackWithout_Kept(ret) == back

BackWithout(ret) == IF ret = back THEN front ELSE back

Dequeue ==
  /\ length > 0
  /\ LET ret == next[front]
     IN  /\ got' = element[ret]
         /\ next' = [m \in DOMAIN next \ {ret} |-> IF m = front THEN next[ret] ELSE next[m]]
         /\ Free({ret})
         /\ back' = BackWithout(ret)

DequeueNothing ==
  /\ length = 0
  /\ got' = Null
  /\ UNCHANGED <<next, element, back>>

Deleted == {List[i] : i \in 1..length}

ClearQueue ==
  /\ Free(Deleted)
  /\ next' = [m \in DOMAIN next \ Deleted |-> IF m = front THEN Null ELSE next[m]]
  /\ back' = front
  /\ UNCHANGED got

Next ==
  /\ \/ \E e \in Elements :
          \/ ~ordered /\ Enqueue(e)
          \/ ordered /\ OrderEnqueue(e)
          \/ ordered /\ OrderEnqueueEmpty(e)
     \/ Dequeue
     \/ DequeueNothing
     \/ ClearQueue
  /\ UNCHANGED ordered

Spec == Init /\ [][Next]_vars
-----------------------------------------------------------------------------
\* Every variable holds a value of the type the code gives it, every link is
\* to a node that has not been deleted.
TypeOK ==
  /\ element \in UNION {[A -> Elements] : A \in SUBSET Nodes}
  /\ DOMAIN next \subseteq Allocated \union {front} /\ front \in DOMAIN next
  /\ \A n \in DOMAIN next : next[n] \in Allocated \union {Null}
  /\ back \in Allocated \union {front}
  /\ got \in Elements \union {Null} /\ ordered \in BOOLEAN

\* The back pointer, which enqueue follows without a test, is never left on a
\* node that has gone: it is the last node of the customers, some node of the
\* events, and the head node once the list is empty (queue.h 53, 63-65, 85-86).
BackIsLinked ==
  /\ back = front \/ \E i \in 1..length : back = List[i]
  /\ ~ordered => next[back] = Null

\* Only the nodes of the list stay allocated in the queue of customers: neither
\* dequeue nor clearQueue drops one that nobody can delete any more.
NothingLeaks == ~ordered => Allocated = {List[i] : i \in 1..length}

\* The list and its pointers are sound, whatever was put in, taken out or cleared:
\* no link and no back pointer leads to a node that was deleted (queue.h 31-96).
ListInv == TypeOK /\ BackIsLinked /\ NothingLeaks

items == [i \in 1..length |-> element[List[i]]]

Abstract == INSTANCE AbstractQueue WITH Nothing <- Null

\* The list of nodes is the queue the simulation is written for: customers come
\* out first in, first out, events in the order of their times.
ImplementsQueue == Abstract!Spec
=============================================================================
