--------------------------- MODULE LeakDetector ---------------------------
(***************************************************************************)
(* The allocator of LeakDetector/LeakDetector.cpp that replaces operator   *)
(* new and operator delete: every block carries a node of a list that the  *)
(* detector prints when the program ends.  The list is meant to be doubly  *)
(* linked; the assignment that would link the old first node back to the   *)
(* new one is commented out (line 37).                                     *)
(*                                                                         *)
(* A block is an address malloc returns.  The address of a freed block may *)
(* come back; until then whoever touches it has left the language          *)
(* ("undefined", where the model stops), and whoever follows a null        *)
(* pointer crashes.                                                        *)
(***************************************************************************)
EXTENDS Integers, FiniteSets, FiniteSetsExt

CONSTANTS
  Blocks,
  Sizes,
  Units,   \* how many translation units include LeakDetector.h
  root,    \* the head of the list
  Null

DetectorAssumption ==
  /\ IsFiniteSet(Blocks) /\ root \notin Blocks /\ Null \notin Blocks \union {root}
  /\ Sizes \subseteq Nat
  /\ Units \in Nat \ {0}

VARIABLES
  next, prev,         \* the links of root and of the blocks allocated
  block,              \* size and isArray of each block allocated
  _memory_allocated,
  callCnt,            \* how many of the static objects _exit_counter there are
  exiting,            \* main has returned
  reported,           \* the blocks the detector printed
  status              \* "running", "reported", "crashed", "undefined", "endless"

list == <<next, prev, block, _memory_allocated>>
vars == <<list, callCnt, exiting, reported, status>>

Live == DOMAIN block
Nodes == Live \union {root}

Init ==
  /\ next = [n \in {root} |-> Null] /\ prev = [n \in {root} |-> Null]
  /\ block = [b \in {} |-> Null]
  /\ _memory_allocated = 0
  /\ callCnt = 0 /\ exiting = FALSE
  /\ reported = {}
  /\ status = "running"

Assign(f, x, v) == [y \in DOMAIN f \union {x} |-> IF y = x THEN v ELSE f[y]]
-----------------------------------------------------------------------------
\* The list as it would be walked from the old first block.
Before_OldFirst == next[root]

\* newEle->prev, whatever the list holds.
Before == root

\* The new block is the first of the list; the old first one does not learn of it.
AllocateMemory(size, array) ==
  /\ status = "running"
  /\ \E new \in Blocks \ Live :
       /\ next' = Assign(Assign(next, new, next[root]), root, new)
       /\ prev' = Assign(prev, new, Before)
       /\ block' = Assign(block, new, [size |-> size, isArray |-> array])
  /\ _memory_allocated' = _memory_allocated + size
  /\ UNCHANGED <<callCnt, exiting, reported, status>>

\* delete[] of a block from new, or delete of one from new[], is ignored.
Mismatch(curr, array) ==
  /\ status = "running"
  /\ block[curr].isArray # array
  /\ UNCHANGED vars

Linked(curr) == {prev[curr], next[curr]} \subseteq Nodes

Kept(f, curr) == [y \in DOMAIN f \ {curr} |-> f[y]]

Remaining(curr) == _memory_allocated - block[curr].size

\* The block is unlinked and freed.
DeleteMemory(curr, array) ==
  /\ status = "running"
  /\ block[curr].isArray = array
  /\ Linked(curr)
  /\ next' = Kept(Assign(next, prev[curr], next[curr]), curr)
  /\ prev' = Kept(Assign(prev, next[curr], prev[curr]), curr)
  /\ block' = [b \in Live \ {curr} |-> block[b]]
  /\ _memory_allocated' = Remaining(curr)
  /\ UNCHANGED <<callCnt, exiting, reported, status>>

\* The block has no next one, or a neighbour of it has been freed: lines 63 and
\* 64 write through a null pointer or into memory that is not theirs.
DeleteUnlinked(curr, array) ==
  /\ status = "running"
  /\ block[curr].isArray = array
  /\ ~Linked(curr)
  /\ status' = IF next[curr] = Null THEN "crashed" ELSE "undefined"
  /\ UNCHANGED <<list, callCnt, exiting, reported>>
-----------------------------------------------------------------------------
\* The static object of one translation unit is constructed before main.
UnitStarts ==
  /\ status = "running"
  /\ callCnt < Units /\ ~exiting
  /\ callCnt' = callCnt + 1
  /\ UNCHANGED <<list, exiting, reported, status>>

\* What LeakDetector walks through from node n, at most Cardinality(Blocks) + 1
\* nodes of it: after so many it is in a circle.
Walk[i \in 0..Cardinality(Blocks) + 1] ==
  IF i = 0 THEN next[root] ELSE IF Walk[i - 1] \in Live THEN next[Walk[i - 1]] ELSE Walk[i - 1]

LastOfWalk == Walk[Cardinality(Blocks) + 1]

\* The static object of one unit is destroyed; the last one prints the list.
UnitEnds ==
  /\ status = "running"
  /\ callCnt > 0 /\ (exiting \/ callCnt = Units)
  /\ exiting' = TRUE
  /\ callCnt' = callCnt - 1
  /\ IF callCnt > 1
       THEN UNCHANGED <<reported, status>>
       ELSE /\ reported' = {Walk[i] : i \in DOMAIN Walk} \intersect Live
            /\ status' = IF LastOfWalk = Null THEN "reported"
                         ELSE IF LastOfWalk \in Live THEN "endless" ELSE "undefined"
  /\ UNCHANGED list

Next ==
  \/ \E size \in Sizes, array \in BOOLEAN : AllocateMemory(size, array)
  \/ \E curr \in Live, array \in BOOLEAN :
       Mismatch(curr, array) \/ DeleteMemory(curr, array) \/ DeleteUnlinked(curr, array)
  \/ UnitStarts \/ UnitEnds

Spec == Init /\ [][Next]_vars
-----------------------------------------------------------------------------
\* Every variable holds a value of the type the code gives it.
TypeOK ==
  /\ block \in UNION {[B -> [size : Sizes, isArray : BOOLEAN]] : B \in SUBSET Blocks}
  /\ DOMAIN next = Nodes /\ DOMAIN prev = Nodes
  /\ \A n \in Nodes : {next[n], prev[n]} \subseteq Blocks \union {root, Null}
  /\ callCnt \in 0..Units
  /\ exiting \in BOOLEAN
  /\ reported \subseteq Live

\* The bytes the detector reports are those of the blocks that are allocated, of
\* the blocks the list has lost as well (LeakDetector.cpp 52, 62, 67).
TotalIsOfLive == _memory_allocated = MapThenSumSet(LAMBDA b : block[b].size, Live)

\* Whatever the order of new and delete, no block but the head of the list is
\* ever anybody's predecessor: delete writes the link of the head, never that of
\* the block before the deleted one (LeakDetector.cpp 36, 63-64).
PredecessorIsRoot == \A b \in Live : prev[b] = root

\* What is known of list and total although half of the links are wrong.
LeakInv == TypeOK /\ TotalIsOfLive /\ PredecessorIsRoot

\* "只需要检查链表中是否还存在内容即可知道是否发生了泄露" (README.md:11): what the
\* detector finds in the list are the blocks that have not been deleted.
LeaksAreFound == status = "reported" => reported = Live
=============================================================================
