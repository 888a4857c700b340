----------------------------- MODULE StackAlloc -----------------------------
(***************************************************************************)
(* MemoryPool/StackAlloc.h over MemoryPool: a linked stack whose nodes are *)
(* slots of the pool.  A node is {data, prev}; the pool's Slot_ is a union *)
(* of the node with the link of the free list, so that data and that link  *)
(* are the same word while prev lies behind it and is left alone.          *)
(*                                                                         *)
(* clear() is modelled where the code calls it, in the destructor.         *)
(***************************************************************************)
EXTENDS MemoryPool

VARIABLES
  head,     \* head_, Null for nullptr
  prev,     \* the second word of each slot carved so far
  popped,   \* what the last pop returned
  closing,  \* ~StackAlloc has begun
  cur       \* the node clear() has come to

stackVars == <<head, prev, popped, closing, cur>>

StackInit ==
  /\ Init
  /\ head = Null /\ prev = <<>> /\ popped = Null
  /\ closing = FALSE /\ cur = Null

\* allocate, construct, and the two assignments to the node.
Push ==
  /\ ~closing
  /\ Allocate
  /\ \E s \in live' \ live :
       /\ head' = s
       /\ prev' = [t \in Carved' |-> IF t = s THEN head ELSE prev[t]]
  /\ UNCHANGED <<popped, closing, cur>>

\* data is read after the node has been given back.
Pop_ReadsLate ==
  /\ ~closing
  /\ head # Null
  /\ Deallocate(head)
  /\ popped' = word'[head]
  /\ head' = prev[head]
  /\ UNCHANGED <<prev, closing, cur>>

\* data and prev are read before the node is given back.  A stack is not popped
\* when it is empty: head_ is followed without a test.
Pop ==
  /\ ~closing
  /\ head # Null
  /\ popped' = word[head]
  /\ Deallocate(head)
  /\ head' = prev[head]
  /\ UNCHANGED <<prev, closing, cur>>

Close ==
  /\ ~closing
  /\ closing' = TRUE
  /\ cur' = head
  /\ UNCHANGED <<vars, head, prev, popped>>

\* The next node is looked for in the word that is now the free list's.
ClearNode_FollowsLink ==
  /\ closing /\ cur # Null
  /\ Deallocate(cur)
  /\ cur' = word'[cur]
  /\ UNCHANGED <<head, prev, popped, closing>>

\* One turn of clear's loop.  head_ is not reset: it dangles from now on.
ClearNode ==
  /\ closing /\ cur # Null
  /\ Deallocate(cur)
  /\ cur' = prev[cur]
  /\ UNCHANGED <<head, prev, popped, closing>>

\* allocator_ is destroyed after the stack has been cleared.
DestroyPool ==
  /\ closing /\ cur = Null
  /\ BeginDestroy \/ DeleteBlock
  /\ UNCHANGED stackVars

Closing   == ClearNode \/ DestroyPool
StackNext == Push \/ Pop \/ Close \/ Closing

\* A destructor that has begun runs to its end.
StackSpec == StackInit /\ [][StackNext]_<<vars, stackVars>> /\ WF_<<vars, stackVars>>(Closing)
-----------------------------------------------------------------------------
\* The chain of nodes from the top down: as long as there are live slots.
Top == IF closing THEN cur ELSE head

Chain ==
  LET node[i \in 1 .. Cardinality(live)] == IF i = 1 THEN Top ELSE prev[node[i - 1]]
  IN  IF Top = Null THEN <<>> ELSE node

\* The nodes of the stack are exactly the slots it has from the pool.
ChainIsLive ==
  /\ {Chain[i] : i \in DOMAIN Chain} = live
  /\ Top = Null <=> live = {}

\* The abstract stack: the contents of the chain.
Stack == INSTANCE LifoStack WITH
  Elements  <- Contents,
  NoElement <- Null,
  items     <- [i \in DOMAIN Chain |-> word[Chain[i]]]

\* Stack and pool together implement a stack, although both keep their pointers
\* in the same memory.
ImplementsStack == Stack!Spec

\* The destructors give every slot and every block back.
EverythingReleased == closing ~> live = {} /\ Destroyed
=============================================================================
