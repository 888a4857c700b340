----------------------------- MODULE MemoryPool -----------------------------
(***************************************************************************)
(* MemoryPool/MemoryPool.h: an allocator that carves slots out of blocks,  *)
(* keeps the slots it gets back in a list threaded through the slots       *)
(* themselves, and frees the blocks when it is destroyed.                  *)
(*                                                                         *)
(* A slot is <<block, offset>>: the n-th block operator new returned and a *)
(* number of bytes into it.  The first word of a slot holds "next" while   *)
(* the slot is free and belongs to the client while it is live; the first  *)
(* word of a block holds the address of the block before it.               *)
(***************************************************************************)
EXTENDS Naturals, Sequences, FiniteSets

CONSTANTS
  BlockSize,   \* 4096 in the code
  SlotSize,    \* sizeof(slot_type_)
  Align,       \* alignof(slot_type_)
  PtrSize,     \* sizeof(slot_pointer_)
  NewAlign,    \* the alignment operator new guarantees
  MaxBlocks,   \* blocks operator new can supply before it throws
  Null,
  Contents     \* what a client may store in a slot

\* static_assert at line 53, and what a C++ compiler makes of a union with a
\* pointer in it.
ASSUME GeometryAssumption ==
  /\ Align \in Nat \ {0} /\ NewAlign \in Nat \ {0} /\ PtrSize \in Nat \ {0}
  /\ SlotSize \in Nat /\ SlotSize >= PtrSize /\ SlotSize % Align = 0
  /\ Align % PtrSize = 0 /\ NewAlign % PtrSize = 0
  /\ BlockSize \in Nat /\ BlockSize >= 2 * SlotSize
  /\ MaxBlocks \in Nat
  /\ Contents # {} /\ Null \notin Contents
  /\ Null \notin Nat \X Nat

VARIABLES
  base,          \* the address of each block, modulo Align
  blockNext,     \* the first word of each block
  currentBlock,  \* the block made last, 0 for nullptr
  currentSlot, lastSlot,   \* offsets into the current block
  freeSlots,     \* head of the list of free slots
  word,          \* the first word of each slot carved so far
  live,          \* slots the client has got and not given back
  freed,         \* slots the client has given back, the last one first
  peak,          \* the most slots ever live
  open,          \* the destructor has not begun
  curr,          \* the block the destructor has come to, 0 for nullptr
  deleted        \* the blocks operator delete was called for, in order

blockVars == <<base, blockNext, currentBlock, currentSlot, lastSlot>>
poolVars  == <<freeSlots, word, live, freed, peak>>
vars      == <<blockVars, poolVars, open, curr, deleted>>

Carved == DOMAIN word

Init ==
  /\ base = <<>> /\ blockNext = <<>>
  /\ currentBlock = 0 /\ currentSlot = 0 /\ lastSlot = 0
  /\ freeSlots = Null /\ word = <<>>
  /\ live = {} /\ freed = <<>> /\ peak = 0
  /\ open = TRUE /\ curr = 0 /\ deleted = <<>>
-----------------------------------------------------------------------------
(* allocate *)

\* operator new: any address with the alignment it guarantees.
NewBases == {a \in 0 .. Align - 1 : a % NewAlign = 0}

\* The offset of the first slot: past the link, padded to the alignment.
FirstSlot(a) == PtrSize + ((Align - ((a + PtrSize) % Align)) % Align)

\* What the client gets is its own, and what it stores there replaces the link.
HandOut(s) ==
  /\ live' = live \union {s}
  /\ \E v \in Contents :
       word' = [t \in Carved \union {s} |-> IF t = s THEN v ELSE word[t]]
  /\ peak' = IF Cardinality(live') > peak THEN Cardinality(live') ELSE peak

Reuse ==
  /\ open
  /\ freeSlots # Null
  /\ freeSlots' = word[freeSlots]
  /\ HandOut(freeSlots)
  /\ freed' = Tail(freed)
  /\ UNCHANGED <<blockVars, open, curr, deleted>>

Bump ==
  /\ open
  /\ freeSlots = Null
  /\ currentSlot < lastSlot
  /\ HandOut(<<currentBlock, currentSlot>>)
  /\ currentSlot' = currentSlot + SlotSize
  /\ UNCHANGED <<base, blockNext, currentBlock, lastSlot, freeSlots, freed, open, curr, deleted>>

\* The body of the block is not padded to the alignment of a slot.
NewBlock_NoPadding ==
  /\ open
  /\ freeSlots = Null
  /\ currentSlot >= lastSlot
  /\ Len(base) < MaxBlocks
  /\ \E a \in NewBases :
       /\ base' = Append(base, a)
       /\ blockNext' = Append(blockNext, currentBlock)
       /\ currentBlock' = Len(base) + 1
       /\ HandOut(<<currentBlock', PtrSize>>)
       /\ currentSlot' = PtrSize + SlotSize
       /\ lastSlot' = BlockSize - SlotSize
  /\ UNCHANGED <<freeSlots, freed, open, curr, deleted>>

\* Room for one slot more is asked of a block than the slot needs.
NewBlock_ShortBlock ==
  /\ open
  /\ freeSlots = Null
  /\ currentSlot >= lastSlot
  /\ Len(base) < MaxBlocks
  /\ \E a \in NewBases :
       /\ base' = Append(base, a)
       /\ blockNext' = Append(blockNext, currentBlock)
       /\ currentBlock' = Len(base) + 1
       /\ HandOut(<<currentBlock', FirstSlot(a)>>)
       /\ currentSlot' = FirstSlot(a) + SlotSize
       /\ lastSlot' = BlockSize - 2 * SlotSize
  /\ UNCHANGED <<freeSlots, freed, open, curr, deleted>>

\* Out of slots: the first slot of a new block is handed out without a test.
NewBlock ==
  /\ open
  /\ freeSlots = Null
  /\ currentSlot >= lastSlot
  /\ Len(base) < MaxBlocks
  /\ \E a \in NewBases :
       /\ base' = Append(base, a)
       /\ blockNext' = Append(blockNext, currentBlock)
       /\ currentBlock' = Len(base) + 1
       /\ HandOut(<<currentBlock', FirstSlot(a)>>)
       /\ currentSlot' = FirstSlot(a) + SlotSize
       /\ lastSlot' = BlockSize - SlotSize
  /\ UNCHANGED <<freeSlots, freed, open, curr, deleted>>

Allocate == Reuse \/ Bump \/ NewBlock
-----------------------------------------------------------------------------
(* deallocate and the destructor *)

\* A client gives back what it was given, once.  (deallocate ignores nullptr.)
Deallocate(s) ==
  /\ open
  /\ s \in live
  /\ word' = [word EXCEPT ![s] = freeSlots]
  /\ freeSlots' = s
  /\ live' = live \ {s}
  /\ freed' = <<s>> \o freed
  /\ UNCHANGED <<blockVars, peak, open, curr, deleted>>

BeginDestroy ==
  /\ open
  /\ open' = FALSE /\ curr' = currentBlock
  /\ UNCHANGED <<blockVars, poolVars, deleted>>

\* One turn of the destructor's loop: the link is read before the block goes.
DeleteBlock ==
  /\ ~open /\ curr # 0
  /\ deleted' = Append(deleted, curr)
  /\ curr' = blockNext[curr]
  /\ UNCHANGED <<blockVars, poolVars, open>>

-----------------------------------------------------------------------------
Next ==
  \/ Allocate
  \/ \E s \in live : Deallocate(s)
  \/ BeginDestroy \/ DeleteBlock

Spec == Init /\ [][Next]_vars

-----------------------------------------------------------------------------
Blocks == 1 .. Len(base)
Slots  == Blocks \X (0 .. BlockSize)

\* Every variable keeps its type: every link in a block or free slot is the
\* address of one or null.
TypeOK ==
  /\ base \in Seq(0 .. Align - 1)
  /\ blockNext \in Seq(0 .. MaxBlocks) /\ Len(blockNext) = Len(base)
  /\ currentBlock = Len(base) /\ Len(base) <= MaxBlocks
  /\ currentSlot \in Nat /\ lastSlot \in Nat
  /\ Carved \subseteq Slots /\ live \subseteq Carved
  /\ word \in [Carved -> Slots \union {Null} \union Contents]
  /\ freeSlots \in Slots \union {Null}
  /\ freed \in Seq(Carved)
  /\ peak \in Nat
  /\ open \in BOOLEAN /\ curr \in 0 .. Len(base)
  /\ deleted \in Seq(Blocks)

\* The slots given back and not handed out again.
FreeSet == {freed[i] : i \in 1..Len(freed)}

\* Every slot carved is either live or free, never both and never free twice: no
\* slot is handed out to two owners and none is lost.
LiveXorFree ==
  /\ Carved = live \union FreeSet
  /\ live \intersect FreeSet = {}
  /\ \A i, j \in 1..Len(freed) : i # j => freed[i] # freed[j]

\* The list threaded through the free slots is what the client gave back, in
\* order, and it ends: allocate never follows a word a client has overwritten.
FreeListIntact ==
  /\ freeSlots = IF freed = <<>> THEN Null ELSE freed[1]
  /\ \A i \in 1..Len(freed) :
       word[freed[i]] = IF i = Len(freed) THEN Null ELSE freed[i + 1]

\* A slot lies inside its block, does not cover the block's link, is aligned, and
\* overlaps no other slot.
SlotsFit ==
  \A s \in Carved :
    /\ s[2] >= PtrSize /\ s[2] + SlotSize <= BlockSize
    /\ (base[s[1]] + s[2]) % Align = 0
    /\ \A t \in Carved : t[1] = s[1] /\ t[2] > s[2] => t[2] >= s[2] + SlotSize

\* No slot has two owners, none is lost, the list of free slots is sound and the
\* slots are apart after any sequence of allocate and deallocate (MemoryPool.h
\* 67-113), whatever addresses operator new returns.
SlotsInv == TypeOK /\ LiveXorFree /\ FreeListIntact /\ SlotsFit

\* Slots are reused before new ones are carved: there are as many as were ever
\* live at once.
SlotsReused == Cardinality(Carved) = peak

\* Behind the slots carved from block b there is no room for two more.
UsedUp(b) == \E s \in Carved : s[1] = b /\ s[2] + 3 * SlotSize > BlockSize

\* Line 77 gives up a block when currentSlot_ reaches lastSlot_, where one more
\* slot still fits exactly: a block may be left with one slot never handed out.
\* No block is left with more, and none while a free slot could be reused.
GrowthBounded == SlotsReused /\ \A b \in 1 .. Len(base) - 1 : UsedUp(b)

\* The destructor is through: it has deleted every block, each once.
Destroyed == ~open /\ curr = 0 /\ deleted = [i \in 1..Len(base) |-> Len(base) + 1 - i]
=============================================================================
