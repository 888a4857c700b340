-------------------------- MODULE MemoryPoolProofs --------------------------
(***************************************************************************)
(* Proofs about the allocators: MemoryPool, for slots and blocks of any    *)
(* size and alignment that GeometryAssumption allows and any number of     *)
(* blocks; the stack of StackAlloc over it; and LeakDetector.              *)
(***************************************************************************)
EXTENDS MCMemoryPool, FiniteSetTheorems, WellFoundedInduction, TLAPS, Integers

-----------------------------------------------------------------------------
(* Remainders. *)

\* A multiple is no less than the number itself.
LEMMA AtLeastOnce ==
  ASSUME NEW d \in Nat, NEW A \in Nat, d >= 1
  PROVE  d * A >= A
  <1>1. d - 1 \in Nat /\ (d - 1) * A \in Nat
    OBVIOUS
  <1> QED BY <1>1

\* What quotient and remainder are.
LEMMA DivMod ==
  ASSUME NEW A \in Nat \ {0}, NEW x \in Nat
  PROVE  /\ x = (x \div A) * A + (x % A)
         /\ x \div A \in Nat /\ x % A \in 0 .. A - 1
  OBVIOUS

\* A quotient and a remainder that fit are the quotient and the remainder.
LEMMA ModOf ==
  ASSUME NEW A \in Nat \ {0}, NEW q \in Nat, NEW r \in 0 .. A - 1
  PROVE  (q * A + r) % A = r
  <1> DEFINE x == q * A + r
             p == x \div A
             s == x % A
  <1>1. p \in Nat /\ s \in 0 .. A - 1 /\ q * A + r = p * A + s
    <2>1. x \in Nat
      OBVIOUS
    <2> QED BY <2>1, DivMod
  <1> HIDE DEF p, s, x
  <1>2. CASE q < p
    <2>1. p - q \in Nat /\ (p - q) * A >= A
      BY <1>1, <1>2, AtLeastOnce
    <2>2. p * A = q * A + (p - q) * A
      BY <1>1
    <2> QED BY <1>1, <2>1, <2>2
  <1>3. CASE p < q
    <2>1. q - p \in Nat /\ (q - p) * A >= A
      BY <1>1, <1>3, AtLeastOnce
    <2>2. q * A = p * A + (q - p) * A
      BY <1>1
    <2> QED BY <1>1, <2>1, <2>2
  <1>4. CASE p = q
    <2>1. r = s
      BY <1>1, <1>4
    <2> QED BY <2>1 DEF s, x
  <1> QED BY <1>1, <1>2, <1>3, <1>4

\* A multiple has no remainder.
LEMMA MultipleHasNoRemainder ==
  ASSUME NEW A \in Nat \ {0}, NEW q \in Nat
  PROVE  (q * A) % A = 0
  <1>1. (q * A + 0) % A = 0
    BY ModOf
  <1> QED BY <1>1

\* A number without remainder is a multiple.
LEMMA NoRemainderIsMultiple ==
  ASSUME NEW A \in Nat \ {0}, NEW x \in Nat, x % A = 0
  PROVE  \E q \in Nat : x = q * A
  <1>1. x = (x \div A) * A /\ x \div A \in Nat
    BY DivMod
  <1> QED BY <1>1

\* Nor has a sum of multiples.
LEMMA SumHasNoRemainder ==
  ASSUME NEW A \in Nat \ {0}, NEW x \in Nat, NEW y \in Nat, x % A = 0, y % A = 0
  PROVE  (x + y) % A = 0
  <1>1. PICK p \in Nat : x = p * A
    BY NoRemainderIsMultiple
  <1>2. PICK q \in Nat : y = q * A
    BY NoRemainderIsMultiple
  <1>3. x + y = (p + q) * A /\ p + q \in Nat
    BY <1>1, <1>2
  <1> QED BY <1>3, MultipleHasNoRemainder

\* The first slot of a block lies past the link, is aligned, and is not more than
\* one slot into the block: padding by (Align - x % Align) % Align is right for
\* every address operator new may return.
LEMMA FirstSlotFits ==
  ASSUME NEW a \in NewBases
  PROVE  /\ FirstSlot(a) \in PtrSize .. SlotSize
         /\ (a + FirstSlot(a)) % Align = 0
  <1> DEFINE x == a + PtrSize
             m == x % Align
             q == x \div Align
  <1>1. /\ a \in Nat /\ a % NewAlign = 0
        /\ Align \in Nat \ {0} /\ NewAlign \in Nat \ {0} /\ PtrSize \in Nat \ {0}
        /\ SlotSize \in Nat /\ SlotSize >= PtrSize
        /\ SlotSize % Align = 0 /\ Align % PtrSize = 0 /\ NewAlign % PtrSize = 0
    BY GeometryAssumption DEF NewBases
  <1>2. x \in Nat /\ x = q * Align + m /\ q \in Nat /\ m \in 0 .. Align - 1
    <2>1. x \in Nat
      BY <1>1
    <2> QED BY <1>1, <2>1, DivMod
  <1>3. FirstSlot(a) = PtrSize + ((Align - m) % Align)
    BY DEF FirstSlot
  <1>4. SlotSize >= Align
    <2>1. PICK k \in Nat : SlotSize = k * Align
      BY <1>1, NoRemainderIsMultiple
    <2>2. k >= 1
      BY <1>1, <2>1
    <2> QED BY <1>1, <2>1, <2>2, AtLeastOnce
  <1> HIDE DEF m, q
  <1>5. CASE m = 0
    <2>1. (Align - m) % Align = 0
      <3>1. Align - m = 1 * Align
        BY <1>1, <1>5
      <3> QED BY <1>1, <3>1, MultipleHasNoRemainder
    <2>2. FirstSlot(a) = PtrSize
      BY <1>1, <1>3, <2>1
    <2>3. (a + PtrSize) % Align = 0
      BY <1>5 DEF m
    <2> QED BY <1>1, <2>2, <2>3
  <1>6. CASE m # 0
    <2>1. (Align - m) % Align = Align - m
      <3>1. Align - m \in 0 .. Align - 1 /\ 0 * Align + (Align - m) = Align - m
        BY <1>1, <1>2, <1>6
      <3> QED BY <1>1, <3>1, ModOf, 0 \in Nat
    <2>2. FirstSlot(a) = PtrSize + Align - m
      BY <1>1, <1>2, <1>3, <2>1
    <2>3. (a + FirstSlot(a)) % Align = 0
      <3>1. a + FirstSlot(a) = (q + 1) * Align /\ q + 1 \in Nat
        BY <1>1, <1>2, <2>2
      <3> QED BY <1>1, <3>1, MultipleHasNoRemainder
    <2>4. m >= PtrSize
      \* Address, link and alignment are multiples of PtrSize, so m is.
      <3>1. PICK h \in Nat : Align = h * PtrSize
        BY <1>1, NoRemainderIsMultiple
      <3>2. PICK j \in Nat : a = j * NewAlign
        BY <1>1, NoRemainderIsMultiple
      <3>3. PICK l \in Nat : NewAlign = l * PtrSize
        BY <1>1, NoRemainderIsMultiple
      <3>4. a = (j * l) * PtrSize /\ j * l \in Nat
        BY <1>1, <3>2, <3>3
      <3>5. q * Align = (q * h) * PtrSize /\ q * h \in Nat
        BY <1>1, <1>2, <3>1
      <3> DEFINE k == j * l + 1
                 g == q * h
      <3>6. k \in Nat /\ g \in Nat /\ x = k * PtrSize /\ q * Align = g * PtrSize
        BY <1>1, <3>4, <3>5
      <3> HIDE DEF k, g
      <3>7. m = k * PtrSize - g * PtrSize
        BY <1>1, <1>2, <3>6
      <3>8. k > g
        <4>1. SUFFICES ASSUME k <= g PROVE FALSE
          BY <3>6
        <4>2. g - k \in Nat /\ (g - k) * PtrSize \in Nat
          BY <1>1, <3>6, <4>1
        <4>3. g * PtrSize = k * PtrSize + (g - k) * PtrSize
          BY <1>1, <3>6
        <4> QED BY <1>1, <1>2, <1>6, <3>6, <3>7, <4>2, <4>3
      <3>9. k - g \in Nat /\ k - g >= 1 /\ m = (k - g) * PtrSize
        BY <1>1, <3>6, <3>7, <3>8
      <3> QED BY <1>1, <3>9, AtLeastOnce
    <2> QED BY <1>1, <1>2, <1>4, <2>2, <2>3, <2>4
  <1> QED BY <1>5, <1>6
-----------------------------------------------------------------------------
(* The inductive invariant. *)

\* The destructor's walk visits every block made before the one it is at.
BlocksChained == \A i \in Blocks : blockNext[i] = i - 1

\* The slots of the current block fill it from below, up to currentSlot.
RoomLeft ==
  /\ currentBlock = 0 => currentSlot = 0 /\ lastSlot = 0
  /\ currentBlock # 0 =>
       /\ lastSlot + SlotSize = BlockSize
       /\ currentSlot >= PtrSize
       /\ (base[currentBlock] + currentSlot) % Align = 0
       /\ \A s \in Carved : s[1] = currentBlock => s[2] + SlotSize <= currentSlot

\* Slots are carved only when all are live.
Counted == IsFiniteSet(Carved) /\ SlotsReused

\* The slot carved last lies just below currentSlot, and the blocks before the
\* current one are used up.
Filled ==
  /\ currentBlock # 0 => \E s \in Carved : s[1] = currentBlock /\ s[2] + SlotSize = currentSlot
  /\ \A b \in 1 .. Len(base) - 1 : UsedUp(b)

IInv == SlotsInv /\ BlocksChained /\ RoomLeft /\ Counted /\ Filled

\* The constants that arithmetic needs to know about.
LEMMA Geometry ==
  /\ Align \in Nat \ {0} /\ PtrSize \in Nat \ {0} /\ SlotSize \in Nat \ {0}
  /\ SlotSize >= PtrSize /\ SlotSize % Align = 0
  /\ BlockSize \in Nat /\ BlockSize >= 2 * SlotSize /\ MaxBlocks \in Nat
  BY GeometryAssumption

\* What handing out a slot does to the words of the slots.
LEMMA HandOutWords ==
  ASSUME NEW s, HandOut(s)
  PROVE  /\ Carved' = Carved \union {s}
         /\ \A t \in Carved : t # s => word'[t] = word[t]
         /\ word'[s] \in Contents
         /\ live' = live \union {s}
         /\ peak' = IF Cardinality(live') > peak THEN Cardinality(live') ELSE peak
         /\ word' = [t \in Carved' |-> word'[t]]
  <1>1. PICK v \in Contents :
          word' = [t \in Carved \union {s} |-> IF t = s THEN v ELSE word[t]]
    BY DEF HandOut
  <1>2. Carved' = Carved \union {s} /\ word' = [t \in Carved' |-> word'[t]]
    BY <1>1 DEF Carved
  <1>3. word'[s] = v /\ \A t \in Carved : t # s => word'[t] = word[t]
    BY <1>1
  <1> QED BY <1>2, <1>3 DEF HandOut

\* The list of free slots is empty exactly when there are none.
LEMMA NoneFree ==
  ASSUME TypeOK, FreeListIntact
  PROVE  freeSlots = Null <=> freed = <<>>
  <1>1. ASSUME freed # <<>> PROVE freeSlots # Null
    <2>1. freeSlots = freed[1] /\ freed[1] \in Carved
      BY <1>1 DEF TypeOK, FreeListIntact
    <2>2. freed[1] \in Nat \X Nat
      BY <2>1 DEF TypeOK, Slots, Blocks
    <2> QED BY <2>1, <2>2, GeometryAssumption
  <1> QED BY <1>1 DEF FreeListIntact

\* Carving a new slot when none is free: all are live, and one more than ever.
LEMMA Carve ==
  ASSUME TypeOK, LiveXorFree, FreeListIntact, Counted, freeSlots = Null,
         NEW s, s \notin Carved, HandOut(s), UNCHANGED <<freeSlots, freed>>
  PROVE  LiveXorFree' /\ FreeListIntact' /\ Counted' /\ peak' \in Nat
  <1>1. freed = <<>> /\ FreeSet = {} /\ FreeSet' = {}
    BY NoneFree DEF FreeSet
  <1>2. live = Carved /\ Carved' = Carved \union {s} /\ live' = Carved'
    BY <1>1, HandOutWords DEF LiveXorFree
  <1>3. LiveXorFree' /\ FreeListIntact'
    BY <1>1, <1>2 DEF LiveXorFree, FreeListIntact
  <1>4. IsFiniteSet(Carved') /\ Cardinality(Carved') = Cardinality(Carved) + 1
    BY <1>2, FS_AddElement DEF Counted
  <1>5. Cardinality(Carved') = peak + 1 /\ peak' = Cardinality(Carved') /\ peak' \in Nat
    <2>1. peak \in Nat /\ Cardinality(live') = peak + 1
      BY <1>2, <1>4 DEF Counted, SlotsReused, TypeOK
    <2>2. peak' = IF Cardinality(live') > peak THEN Cardinality(live') ELSE peak
      BY HandOutWords
    <2> QED BY <1>2, <2>1, <2>2
  <1> QED BY <1>3, <1>4, <1>5 DEF Counted, SlotsReused

\* A pool that has no block yet satisfies the invariant.
LEMMA InitIInv == Init => IInv
  <1> SUFFICES ASSUME Init PROVE IInv
    OBVIOUS
  <1> USE DEF Init
  <1>1. Carved = {} /\ FreeSet = {} /\ Blocks = {}
    BY DEF Carved, FreeSet, Blocks
  <1>2. TypeOK
    <2>1. base \in Seq(0 .. Align - 1) /\ blockNext \in Seq(0 .. MaxBlocks)
      BY Geometry
    <2>2. Len(base) = 0 /\ Len(blockNext) = 0
      OBVIOUS
    <2>3. freed \in Seq(Carved) /\ deleted \in Seq(Blocks)
      OBVIOUS
    <2>4. word \in [Carved -> Slots \union {Null} \union Contents]
      BY <1>1 DEF Carved
    <2>5. open \in BOOLEAN
      OBVIOUS
    <2> QED BY <1>1, <2>1, <2>2, <2>3, <2>4, <2>5, Geometry DEF TypeOK
  <1>3. LiveXorFree /\ FreeListIntact /\ SlotsFit
    BY <1>1 DEF LiveXorFree, FreeListIntact, SlotsFit
  <1>4. BlocksChained /\ RoomLeft
    BY <1>1 DEF BlocksChained, RoomLeft
  <1>5. Counted
    BY <1>1, FS_EmptySet DEF Counted, SlotsReused
  <1>6. Filled
    <2>1. 1 .. Len(base) - 1 = {}
      OBVIOUS
    <2> QED BY <2>1 DEF Filled
  <1> QED BY <1>2, <1>3, <1>4, <1>5, <1>6 DEF IInv, SlotsInv

\* Slots carved stay carved: what is used up stays so.
LEMMA FilledKept ==
  ASSUME Filled, Carved \subseteq Carved', UNCHANGED <<base, currentBlock, currentSlot>>
  PROVE  Filled'
  <1>1. \A b : UsedUp(b) => UsedUp(b)'
    BY DEF UsedUp
  <1> QED BY <1>1 DEF Filled

\* A slot that is free is handed out again: the list loses its first link, and the
\* word the client overwrites is no link of it any more.
LEMMA ReuseKeeps == ASSUME IInv, Reuse PROVE IInv'
  <1> USE DEF IInv, SlotsInv
  <1> DEFINE f == freeSlots
  <1>1. /\ f # Null /\ freeSlots' = word[f] /\ HandOut(f) /\ freed' = Tail(freed)
        /\ UNCHANGED <<base, blockNext, currentBlock, currentSlot, lastSlot, open, curr, deleted>>
    BY DEF Reuse, blockVars
  <1>2. /\ freed # <<>> /\ freed \in Seq(Carved)
        /\ Len(freed') = Len(freed) - 1 /\ Len(freed) \in Nat \ {0}
        /\ \A i \in 1 .. Len(freed') : freed'[i] = freed[i + 1]
    BY <1>1, NoneFree DEF TypeOK
  <1>3. f = freed[1] /\ f \in FreeSet /\ f \in Carved
    BY <1>2 DEF FreeListIntact, FreeSet
  <1>4. /\ Carved' = Carved /\ live' = live \union {f}
        /\ \A t \in Carved : t # f => word'[t] = word[t]
        /\ word'[f] \in Contents /\ word' = [t \in Carved' |-> word'[t]]
    <2>1. Carved' = Carved \union {freeSlots}
      BY <1>1, HandOutWords
    <2>2. Carved' = Carved
      BY <1>3, <2>1
    <2> QED BY <1>1, <2>2, HandOutWords
  <1>5. peak' = peak
    <2>1. live' \in SUBSET Carved /\ IsFiniteSet(Carved)
      BY <1>3, <1>4 DEF TypeOK, Counted
    <2>2. IsFiniteSet(live') /\ Cardinality(live') <= Cardinality(Carved)
      BY <2>1, FS_Subset
    <2>3. Cardinality(live') \in Nat
      BY <2>2, FS_CardinalityType
    <2>4. peak' = IF Cardinality(live') > peak THEN Cardinality(live') ELSE peak
      BY <1>1, HandOutWords
    <2> QED BY <2>2, <2>3, <2>4 DEF TypeOK, Counted, SlotsReused
  <1>6. FreeSet' = FreeSet \ {f}
    <2>1. ASSUME NEW i \in 1 .. Len(freed') PROVE freed'[i] \in FreeSet \ {f}
      BY <1>2, <1>3 DEF FreeSet, LiveXorFree
    <2>2. ASSUME NEW t \in FreeSet \ {f} PROVE \E i \in 1 .. Len(freed') : t = freed'[i]
      <3>1. PICK j \in 1 .. Len(freed) : t = freed[j]
        BY DEF FreeSet
      <3>2. j # 1 /\ j - 1 \in 1 .. Len(freed')
        BY <1>2, <1>3, <3>1
      <3>3. freed'[j - 1] = t
        BY <1>2, <3>1, <3>2
      <3> QED BY <3>2, <3>3
    <2> QED BY <2>1, <2>2 DEF FreeSet
  <1>7. LiveXorFree'
    <2>1. \A i, j \in 1 .. Len(freed') : i # j => freed'[i] # freed'[j]
      BY <1>2 DEF LiveXorFree
    <2>2. Carved' = live' \union FreeSet' /\ live' \intersect FreeSet' = {}
      BY <1>3, <1>4, <1>6 DEF LiveXorFree
    <2> QED BY <2>1, <2>2 DEF LiveXorFree
  <1>11. freeSlots' = IF Len(freed) = 1 THEN Null ELSE freed[2]
    <2>1. word[freed[1]] = IF 1 = Len(freed) THEN Null ELSE freed[1 + 1]
      BY <1>2 DEF FreeListIntact
    <2> QED BY <1>1, <1>3, <2>1
  <1>8. FreeListIntact'
    <2>1. freeSlots' = IF Len(freed) = 1 THEN Null ELSE freed[2]
      BY <1>11
    <2>2. freeSlots' = IF freed' = <<>> THEN Null ELSE freed'[1]
      BY <1>2, <2>1
    <2>3. ASSUME NEW i \in 1 .. Len(freed')
          PROVE  word'[freed'[i]] = IF i = Len(freed') THEN Null ELSE freed'[i + 1]
      <3>1. /\ i + 1 \in 1 .. Len(freed) /\ freed'[i] = freed[i + 1] /\ freed[i + 1] # f
            /\ freed[i + 1] \in Carved
        BY <1>2, <1>3 DEF LiveXorFree
      <3>2. word'[freed'[i]] = word[freed[i + 1]]
        BY <1>4, <3>1
      <3>3. word[freed[i + 1]] = IF i + 1 = Len(freed) THEN Null ELSE freed[i + 2]
        BY <3>1 DEF FreeListIntact
      <3> QED BY <1>2, <3>2, <3>3
    <2> QED BY <2>2, <2>3 DEF FreeListIntact
  <1>9. TypeOK'
    <2>1. freeSlots' \in Slots \union {Null} /\ freed' \in Seq(Carved)
      <3>1. freeSlots' = Null \/ freeSlots' \in Carved
        BY <1>2, <1>11
      <3>2. freed' \in Seq(Carved)
        BY <1>1, <1>2
      <3> QED BY <3>1, <3>2 DEF TypeOK
    <2>2. word' \in [Carved -> Slots \union {Null} \union Contents]
      <3>1. \A t \in Carved : word'[t] \in Slots \union {Null} \union Contents
        BY <1>4 DEF TypeOK
      <3> QED BY <1>4, <3>1
    <2>3. Slots' = Slots /\ Blocks' = Blocks
      BY <1>1 DEF Slots, Blocks
    <2>4. live' \subseteq Carved
      BY <1>3, <1>4 DEF TypeOK
    <2> QED BY <1>1, <1>4, <1>5, <2>1, <2>2, <2>3, <2>4 DEF TypeOK
  <1>10. SlotsFit' /\ BlocksChained' /\ RoomLeft' /\ Counted'
    BY <1>1, <1>4, <1>5 DEF SlotsFit, BlocksChained, Blocks, RoomLeft, Counted, SlotsReused
  <1>12. Filled'
    BY <1>1, <1>4, FilledKept
  <1> QED BY <1>7, <1>8, <1>9, <1>10, <1>12

\* A slot is carved out of the current block.
LEMMA BumpKeeps == ASSUME IInv, Bump PROVE IInv'
  <1> USE DEF IInv, SlotsInv
  <1> DEFINE s == <<currentBlock, currentSlot>>
  <1>1. /\ freeSlots = Null /\ currentSlot < lastSlot /\ HandOut(s)
        /\ currentSlot' = currentSlot + SlotSize
        /\ UNCHANGED <<base, blockNext, currentBlock, lastSlot, freeSlots, freed, open, curr, deleted>>
    BY DEF Bump
  <1>2. /\ currentBlock \in Blocks /\ currentSlot \in Nat /\ lastSlot \in Nat
        /\ base[currentBlock] \in Nat
        /\ lastSlot + SlotSize = BlockSize /\ currentSlot >= PtrSize
        /\ (base[currentBlock] + currentSlot) % Align = 0
        /\ \A t \in Carved : t[1] = currentBlock => t[2] + SlotSize <= currentSlot
    BY <1>1, Geometry DEF TypeOK, RoomLeft, Blocks
  <1>3. s \in Slots
    BY <1>1, <1>2, Geometry DEF Slots
  <1>4. \A t \in Carved : t[1] \in Blocks /\ t[2] \in Nat
    BY DEF TypeOK, Slots
  <1>5. s \notin Carved
    BY <1>2, <1>4, Geometry
  <1>6. /\ LiveXorFree' /\ FreeListIntact' /\ Counted' /\ peak' \in Nat
        /\ Carved' = Carved \union {s} /\ live' = live \union {s}
        /\ \A t \in Carved : word'[t] = word[t]
        /\ word'[s] \in Contents /\ word' = [t \in Carved' |-> word'[t]]
    BY <1>1, <1>5, Carve, HandOutWords
  <1>7. TypeOK'
    <2>1. Slots' = Slots /\ Blocks' = Blocks
      BY <1>1 DEF Slots, Blocks
    <2>2. Carved' \subseteq Slots /\ live' \subseteq Carved' /\ freed' \in Seq(Carved')
      <3>1. freed' = <<>>
        BY <1>1, NoneFree
      <3>2. freed' \in Seq(Carved')
        BY <3>1
      <3>3. Carved' \subseteq Slots /\ live' \subseteq Carved'
        BY <1>3, <1>6 DEF TypeOK
      <3> QED BY <3>2, <3>3
    <2>3. word' \in [Carved' -> Slots \union {Null} \union Contents]
      <3>1. \A t \in Carved' : word'[t] \in Slots \union {Null} \union Contents
        BY <1>6 DEF TypeOK
      <3> QED BY <1>6, <3>1
    <2> QED BY <1>1, <1>6, <2>1, <2>2, <2>3, Geometry DEF TypeOK
  <1>8. SlotsFit'
    <2>1. s[1] = currentBlock /\ s[2] = currentSlot
      OBVIOUS
    <2> HIDE DEF s
    <2>2. ASSUME NEW t \in Carved'
          PROVE  t[2] >= PtrSize /\ t[2] + SlotSize <= BlockSize /\ (base[t[1]] + t[2]) % Align = 0
      <3>1. CASE t = s
        BY <1>1, <1>2, <2>1, <3>1, Geometry
      <3>2. CASE t \in Carved
        BY <3>2 DEF SlotsFit
      <3> QED BY <1>6, <3>1, <3>2
    <2>3. ASSUME NEW t \in Carved', NEW u \in Carved', u[1] = t[1], u[2] > t[2]
          PROVE  u[2] >= t[2] + SlotSize
      <3>1. CASE t \in Carved /\ u \in Carved
        BY <2>3, <3>1 DEF SlotsFit
      <3>2. CASE t \in Carved /\ u = s
        BY <1>2, <2>1, <2>3, <3>2
      <3>3. CASE t = s /\ u \in Carved
        BY <1>2, <1>4, <2>1, <2>3, <3>3, Geometry
      <3>4. CASE t = s /\ u = s
        BY <1>2, <2>1, <2>3, <3>4
      <3> QED BY <1>6, <3>1, <3>2, <3>3, <3>4
    <2> QED BY <1>1, <2>2, <2>3 DEF SlotsFit
  <1>9. RoomLeft'
    <2>1. (base[currentBlock] + currentSlot') % Align = 0
      <3>1. base[currentBlock] + currentSlot' = (base[currentBlock] + currentSlot) + SlotSize
        <4> DEFINE b == base[currentBlock]
        <4>1. b \in Nat /\ currentSlot \in Nat /\ SlotSize \in Nat
          BY <1>2, Geometry
        <4>2. currentSlot' = currentSlot + SlotSize
          BY <1>1
        <4> HIDE DEF b
        <4>3. b + currentSlot' = (b + currentSlot) + SlotSize
          BY <4>1, <4>2
        <4> QED BY <4>3 DEF b
      <3>2. base[currentBlock] + currentSlot \in Nat
        BY <1>2
      <3> QED BY <1>2, <3>1, <3>2, Geometry, SumHasNoRemainder
    <2>2. s[1] = currentBlock /\ s[2] = currentSlot
      OBVIOUS
    <2> HIDE DEF s
    <2>3. ASSUME NEW t \in Carved', t[1] = currentBlock PROVE t[2] + SlotSize <= currentSlot'
      BY <1>1, <1>2, <1>4, <1>6, <2>2, <2>3, Geometry
    <2>4. currentSlot' >= PtrSize /\ currentBlock # 0
      BY <1>1, <1>2, Geometry DEF Blocks
    <2> QED BY <1>1, <1>2, <2>1, <2>3, <2>4 DEF RoomLeft
  <1>10. BlocksChained'
    BY <1>1 DEF BlocksChained, Blocks
  <1>11. Filled'
    <2>1. s \in Carved' /\ s[1] = currentBlock' /\ s[2] + SlotSize = currentSlot'
      BY <1>1, <1>6
    <2>2. \A b : UsedUp(b) => UsedUp(b)'
      BY <1>6 DEF UsedUp
    <2> QED BY <1>1, <2>1, <2>2 DEF Filled
  <1> QED BY <1>6, <1>7, <1>8, <1>9, <1>10, <1>11

\* The first slot of a new block is carved.
LEMMA NewBlockKeeps == ASSUME IInv, NewBlock PROVE IInv'
  <1> USE DEF IInv, SlotsInv
  <1>1. PICK a \in NewBases :
          /\ base' = Append(base, a)
          /\ blockNext' = Append(blockNext, currentBlock)
          /\ currentBlock' = Len(base) + 1
          /\ HandOut(<<currentBlock', FirstSlot(a)>>)
          /\ currentSlot' = FirstSlot(a) + SlotSize
          /\ lastSlot' = BlockSize - SlotSize
    BY DEF NewBlock
  <1>2. /\ freeSlots = Null /\ Len(base) < MaxBlocks
        /\ UNCHANGED <<freeSlots, freed, open, curr, deleted>>
    BY DEF NewBlock
  <1> DEFINE n == Len(base) + 1
             p == FirstSlot(a)
             s == <<n, p>>
  <1>3. /\ p \in PtrSize .. SlotSize /\ p \in Nat /\ (a + p) % Align = 0
        /\ a \in 0 .. Align - 1 /\ a \in Nat
    BY FirstSlotFits, Geometry DEF NewBases
  <1>4. /\ base \in Seq(0 .. Align - 1) /\ Len(base) \in Nat /\ n \in Nat /\ currentBlock = Len(base)
        /\ blockNext \in Seq(0 .. MaxBlocks) /\ Len(blockNext) = Len(base)
    BY DEF TypeOK
  <1> HIDE DEF p
  <1>5. /\ Len(base') = n /\ base'[n] = a /\ \A b \in Blocks : base'[b] = base[b]
        /\ base' \in Seq(0 .. Align - 1)
    BY <1>1, <1>3, <1>4 DEF Blocks
  <1>6. /\ Len(blockNext') = n /\ blockNext'[n] = Len(base)
        /\ \A b \in Blocks : blockNext'[b] = blockNext[b]
        /\ blockNext' \in Seq(0 .. MaxBlocks)
    BY <1>1, <1>2, <1>4, Geometry DEF Blocks
  <1>7. Blocks' = Blocks \union {n} /\ n \notin Blocks
    BY <1>4, <1>5 DEF Blocks
  <1>8. \A t \in Carved : t[1] \in Blocks /\ t[2] \in Nat
    BY DEF TypeOK, Slots
  <1>9. s \notin Carved
    BY <1>7, <1>8
  <1>10. HandOut(s)
    BY <1>1 DEF p
  <1>11. /\ LiveXorFree' /\ FreeListIntact' /\ Counted' /\ peak' \in Nat
         /\ Carved' = Carved \union {s} /\ live' = live \union {s}
         /\ \A t \in Carved : word'[t] = word[t]
         /\ word'[s] \in Contents /\ word' = [t \in Carved' |-> word'[t]]
    <2> HIDE DEF s
    <2>1. LiveXorFree' /\ FreeListIntact' /\ Counted' /\ peak' \in Nat
      BY <1>2, <1>9, <1>10, Carve
    <2>2. /\ Carved' = Carved \union {s} /\ live' = live \union {s}
          /\ \A t \in Carved : t # s => word'[t] = word[t]
          /\ word'[s] \in Contents /\ word' = [t \in Carved' |-> word'[t]]
      BY <1>10, HandOutWords
    <2> QED BY <1>9, <2>1, <2>2
  <1>12. s[1] = n /\ s[2] = p /\ s \in Slots' /\ Slots \subseteq Slots'
    <2>1. p \in 0 .. BlockSize
      BY <1>3, Geometry
    <2> QED BY <1>7, <2>1 DEF Slots
  <1> HIDE DEF s
  <1>13. TypeOK'
    <2>1. Carved' \subseteq Slots' /\ live' \subseteq Carved'
      BY <1>11, <1>12 DEF TypeOK
    <2>2. freed' \in Seq(Carved')
      <3>1. freed' = <<>>
        BY <1>2, NoneFree
      <3> QED BY <3>1
    <2>3. word' \in [Carved' -> Slots' \union {Null} \union Contents]
      <3>1. \A t \in Carved' : word'[t] \in Slots' \union {Null} \union Contents
        BY <1>11, <1>12 DEF TypeOK
      <3> QED BY <1>11, <3>1
    <2>4. freeSlots' \in Slots' \union {Null}
      BY <1>2
    <2>5. currentSlot' \in Nat /\ lastSlot' \in Nat /\ currentBlock' = Len(base')
      BY <1>1, <1>3, <1>5, Geometry DEF p
    <2>6. Len(blockNext') = Len(base') /\ Len(base') <= MaxBlocks
      BY <1>2, <1>4, <1>5, <1>6, Geometry
    <2>7. open' \in BOOLEAN /\ curr' \in 0 .. Len(base')
      BY <1>2, <1>4, <1>5 DEF TypeOK
    <2>8. deleted' \in Seq(Blocks')
      BY <1>2, <1>7 DEF TypeOK
    <2> QED BY <1>5, <1>6, <1>11, <2>1, <2>2, <2>3, <2>4, <2>5, <2>6, <2>7, <2>8 DEF TypeOK
  <1>14. SlotsFit'
    <2>1. ASSUME NEW t \in Carved'
          PROVE  t[2] >= PtrSize /\ t[2] + SlotSize <= BlockSize /\ (base'[t[1]] + t[2]) % Align = 0
      <3>1. CASE t = s
        <4>1. t[1] = n /\ t[2] = p /\ base'[t[1]] = a
          BY <1>5, <1>12, <3>1
        <4> QED BY <1>3, <4>1, Geometry
      <3>2. CASE t \in Carved
        <4>1. base'[t[1]] = base[t[1]]
          BY <1>5, <1>8, <3>2
        <4> QED BY <3>2, <4>1 DEF SlotsFit
      <3> QED BY <1>11, <3>1, <3>2
    <2>2. ASSUME NEW t \in Carved', NEW u \in Carved', u[1] = t[1], u[2] > t[2]
          PROVE  u[2] >= t[2] + SlotSize
      <3>1. CASE t \in Carved /\ u \in Carved
        BY <2>2, <3>1 DEF SlotsFit
      <3>2. CASE t = s \/ u = s
        \* No other slot of the new block is carved.
        <4>1. t = s /\ u = s
          BY <1>7, <1>8, <1>11, <1>12, <2>2, <3>2
        <4> QED BY <1>3, <1>12, <2>2, <4>1
      <3> QED BY <1>11, <3>1, <3>2
    <2> QED BY <2>1, <2>2 DEF SlotsFit
  <1>15. RoomLeft'
    <2>1. (base'[n] + currentSlot') % Align = 0
      <3>1. base'[n] + currentSlot' = (a + p) + SlotSize
        BY <1>1, <1>3, <1>5, Geometry DEF p
      <3> DEFINE x == a + p
      <3>2. x \in Nat /\ x % Align = 0
        BY <1>3
      <3> HIDE DEF x
      <3>3. (x + SlotSize) % Align = 0
        BY <3>2, Geometry, SumHasNoRemainder
      <3> QED BY <3>1, <3>3 DEF x
    <2>2. ASSUME NEW t \in Carved', t[1] = n PROVE t[2] + SlotSize <= currentSlot'
      <3>1. t = s
        BY <1>7, <1>8, <1>11, <2>2
      <3>2. t[2] = p /\ currentSlot' = p + SlotSize
        BY <1>1, <1>12, <3>1 DEF p
      <3> QED BY <1>3, <3>2, Geometry
    <2>3. /\ lastSlot' + SlotSize = BlockSize /\ currentSlot' >= PtrSize
          /\ currentBlock' = n /\ currentBlock' # 0
      BY <1>1, <1>3, <1>4, Geometry DEF p
    <2> QED BY <2>1, <2>2, <2>3 DEF RoomLeft
  <1>16. BlocksChained'
    BY <1>4, <1>6, <1>7 DEF BlocksChained
  <1>17. Filled'
    <2>1. s \in Carved' /\ s[1] = currentBlock' /\ s[2] + SlotSize = currentSlot'
      BY <1>1, <1>4, <1>11, <1>12 DEF p
    <2>2. \A b : UsedUp(b) => UsedUp(b)'
      BY <1>11 DEF UsedUp
    <2>3. ASSUME currentBlock # 0 PROVE UsedUp(currentBlock)
      \* currentSlot has reached lastSlot, and the last slot ends there.
      <3>1. PICK t \in Carved : t[1] = currentBlock /\ t[2] + SlotSize = currentSlot
        BY <2>3 DEF Filled
      <3>2. currentSlot >= lastSlot /\ lastSlot + SlotSize = BlockSize
        BY <2>3 DEF NewBlock, RoomLeft
      <3>3. t[2] \in Nat /\ currentSlot \in Nat /\ lastSlot \in Nat
        BY <1>8 DEF TypeOK
      <3>4. t[2] + 3 * SlotSize > BlockSize
        BY <3>1, <3>2, <3>3, Geometry
      <3> QED BY <3>1, <3>4 DEF UsedUp
    <2>4. ASSUME NEW b \in 1 .. Len(base') - 1 PROVE UsedUp(b)'
      <3>1. b \in 1 .. Len(base) - 1 \/ (b = currentBlock /\ currentBlock # 0)
        BY <1>4, <1>5
      <3> QED BY <2>2, <2>3, <3>1 DEF Filled
    <2> QED BY <2>1, <2>4 DEF Filled
  <1> QED BY <1>11, <1>13, <1>14, <1>15, <1>16, <1>17

\* The client gives back a slot of its own: it becomes the head of the list.
LEMMA DeallocateKeeps == ASSUME IInv, NEW s \in live, Deallocate(s) PROVE IInv'
  <1> USE DEF IInv, SlotsInv
  <1>1. /\ word' = [word EXCEPT ![s] = freeSlots] /\ freeSlots' = s
        /\ live' = live \ {s} /\ freed' = <<s>> \o freed
        /\ UNCHANGED <<base, blockNext, currentBlock, currentSlot, lastSlot, peak, open, curr, deleted>>
    BY DEF Deallocate, blockVars
  <1>2. s \in Carved /\ s \notin FreeSet /\ freed \in Seq(Carved) /\ Len(freed) \in Nat
    BY DEF TypeOK, LiveXorFree
  <1>3. /\ Len(freed') = Len(freed) + 1 /\ freed'[1] = s
        /\ \A i \in 1 .. Len(freed) : freed'[i + 1] = freed[i]
        /\ freed' \in Seq(Carved)
    BY <1>1, <1>2
  <1>4. /\ Carved' = Carved /\ word'[s] = freeSlots
        /\ \A t \in Carved : t # s => word'[t] = word[t]
    BY <1>1, <1>2 DEF Carved
  <1>5. \A i \in 1 .. Len(freed') : i = 1 \/ (i - 1 \in 1 .. Len(freed) /\ freed'[i] = freed[i - 1])
    <2>1. ASSUME NEW i \in 1 .. Len(freed'), i # 1
          PROVE  i - 1 \in 1 .. Len(freed) /\ freed'[i] = freed[i - 1]
      <3>1. i - 1 \in 1 .. Len(freed) /\ (i - 1) + 1 = i
        BY <1>2, <1>3, <2>1
      <3> QED BY <1>3, <3>1
    <2> QED BY <2>1
  <1>6. FreeSet' = FreeSet \union {s}
    <2>1. ASSUME NEW i \in 1 .. Len(freed') PROVE freed'[i] \in FreeSet \union {s}
      BY <1>3, <1>5 DEF FreeSet
    <2>2. ASSUME NEW t \in FreeSet \union {s} PROVE \E i \in 1 .. Len(freed') : t = freed'[i]
      <3>1. CASE t = s
        BY <1>2, <1>3, <3>1
      <3>2. CASE t \in FreeSet
        <4>1. PICK j \in 1 .. Len(freed) : t = freed[j]
          BY <3>2 DEF FreeSet
        <4>2. j + 1 \in 1 .. Len(freed') /\ freed'[j + 1] = t
          BY <1>2, <1>3, <4>1
        <4> QED BY <4>2
      <3> QED BY <3>1, <3>2
    <2> QED BY <2>1, <2>2 DEF FreeSet
  <1>7. LiveXorFree'
    <2>1. ASSUME NEW i \in 1 .. Len(freed'), NEW j \in 1 .. Len(freed'), i # j
          PROVE  freed'[i] # freed'[j]
      <3>1. ASSUME NEW k \in 1 .. Len(freed'), k # 1 PROVE freed'[k] # s
        BY <1>2, <1>5, <3>1 DEF FreeSet
      <3>2. CASE i # 1 /\ j # 1
        <4>1. /\ i - 1 \in 1 .. Len(freed) /\ freed'[i] = freed[i - 1]
              /\ j - 1 \in 1 .. Len(freed) /\ freed'[j] = freed[j - 1] /\ i - 1 # j - 1
          BY <1>5, <2>1, <3>2
        <4> QED BY <4>1 DEF LiveXorFree
      <3> QED BY <1>3, <2>1, <3>1, <3>2
    <2>2. Carved' = live' \union FreeSet' /\ live' \intersect FreeSet' = {}
      BY <1>1, <1>2, <1>4, <1>6 DEF LiveXorFree
    <2> QED BY <2>1, <2>2 DEF LiveXorFree
  <1>8. FreeListIntact'
    <2>1. freed' # <<>>
      BY <1>2, <1>3
    <2>2. ASSUME NEW i \in 1 .. Len(freed')
          PROVE  word'[freed'[i]] = IF i = Len(freed') THEN Null ELSE freed'[i + 1]
      <3>1. CASE i = 1
        <4>1. word'[freed'[i]] = freeSlots
          BY <1>3, <1>4, <3>1
        <4>2. CASE Len(freed) = 0
          <5>1. freed = <<>>
            BY <1>2, <4>2
          <5> QED BY <1>3, <3>1, <4>1, <4>2, <5>1 DEF FreeListIntact
        <4>3. CASE Len(freed) # 0
          <5>1. freed # <<>> /\ 1 \in 1 .. Len(freed) /\ freed'[1 + 1] = freed[1]
            BY <1>2, <1>3, <4>3
          <5> QED BY <1>2, <1>3, <3>1, <4>1, <4>3, <5>1 DEF FreeListIntact
        <4> QED BY <4>2, <4>3
      <3>2. CASE i # 1
        <4> DEFINE k == i - 1
        <4>1. k \in 1 .. Len(freed) /\ freed'[i] = freed[k] /\ k + 1 = i
          BY <1>5, <3>2
        <4> HIDE DEF k
        <4>2. freed[k] \in Carved /\ freed[k] # s
          BY <1>2, <4>1 DEF FreeSet
        <4>3. word'[freed'[i]] = IF k = Len(freed) THEN Null ELSE freed[k + 1]
          BY <1>4, <4>1, <4>2 DEF FreeListIntact
        <4>4. CASE k = Len(freed)
          BY <1>2, <1>3, <4>1, <4>3, <4>4
        <4>5. CASE k # Len(freed)
          <5>1. k + 1 \in 1 .. Len(freed) /\ freed'[(k + 1) + 1] = freed[k + 1]
            BY <1>2, <1>3, <4>1, <4>5
          <5> QED BY <1>2, <1>3, <4>1, <4>3, <4>5, <5>1
        <4> QED BY <4>4, <4>5
      <3> QED BY <3>1, <3>2
    <2> QED BY <1>1, <1>3, <2>1, <2>2 DEF FreeListIntact
  <1>9. TypeOK'
    <2>1. Slots' = Slots /\ Blocks' = Blocks
      BY <1>1 DEF Slots, Blocks
    <2>2. live' \subseteq Carved /\ freeSlots' \in Slots \union {Null}
      BY <1>1, <1>2 DEF TypeOK
    <2>3. word' \in [Carved -> Slots \union {Null} \union Contents]
      BY <1>1, <1>2 DEF TypeOK
    <2> QED BY <1>1, <1>3, <1>4, <2>1, <2>2, <2>3 DEF TypeOK
  <1>10. SlotsFit' /\ BlocksChained' /\ RoomLeft' /\ Counted'
    BY <1>1, <1>4 DEF SlotsFit, BlocksChained, Blocks, RoomLeft, Counted, SlotsReused
  <1>11. Filled'
    BY <1>1, <1>4, FilledKept
  <1> QED BY <1>7, <1>8, <1>9, <1>10, <1>11

\* The destructor only walks.
LEMMA DestroyKeeps == ASSUME IInv, BeginDestroy \/ DeleteBlock PROVE IInv'
  <1> USE DEF IInv, SlotsInv
  <1>1. UNCHANGED <<base, blockNext, currentBlock, currentSlot, lastSlot,
                    freeSlots, word, live, freed, peak>>
    BY DEF BeginDestroy, DeleteBlock, blockVars, poolVars
  <1>2. UNCHANGED <<Carved, Blocks, Slots, FreeSet>>
    BY <1>1 DEF Carved, Blocks, Slots, FreeSet
  <1>3. curr' \in 0 .. Len(base) /\ deleted' \in Seq(Blocks) /\ open' \in BOOLEAN
    <2>1. CASE BeginDestroy
      <3>1. curr' = currentBlock /\ open' = FALSE /\ deleted' = deleted
        BY <2>1 DEF BeginDestroy
      <3>2. currentBlock \in 0 .. Len(base) /\ deleted \in Seq(Blocks)
        BY DEF TypeOK
      <3> QED BY <3>1, <3>2
    <2>2. CASE DeleteBlock
      <3>1. curr \in Blocks /\ curr' = blockNext[curr]
        BY <2>2 DEF DeleteBlock, TypeOK, Blocks
      <3>2. curr' \in 0 .. Len(base)
        BY <3>1 DEF BlocksChained, TypeOK, Blocks
      <3>3. deleted' \in Seq(Blocks) /\ open' = open
        BY <2>2, <3>1 DEF DeleteBlock, TypeOK
      <3> QED BY <3>2, <3>3 DEF TypeOK
    <2> QED BY <2>1, <2>2
  <1>4. TypeOK'
    BY <1>1, <1>2, <1>3 DEF TypeOK
  <1>5. LiveXorFree' /\ FreeListIntact' /\ SlotsFit'
    BY <1>1, <1>2 DEF LiveXorFree, FreeListIntact, SlotsFit
  <1>6. BlocksChained' /\ RoomLeft' /\ Counted'
    BY <1>1, <1>2 DEF BlocksChained, RoomLeft, Counted, SlotsReused
  <1>7. Filled'
    BY <1>1, <1>2, FilledKept
  <1> QED BY <1>4, <1>5, <1>6, <1>7

\* The invariant is inductive: one step for each way through allocate, one for
\* deallocate and one for the destructor.
LEMMA NextIInv == IInv /\ [Next]_vars => IInv'
  <1> SUFFICES ASSUME IInv, [Next]_vars PROVE IInv'
    OBVIOUS
  <1>1. CASE UNCHANGED vars
    <2>1. UNCHANGED <<base, blockNext, currentBlock, currentSlot, lastSlot,
                      freeSlots, word, live, freed, peak, open, curr, deleted>>
      BY <1>1 DEF vars, blockVars, poolVars
    <2>2. UNCHANGED <<Carved, Blocks, Slots, FreeSet>>
      BY <2>1 DEF Carved, Blocks, Slots, FreeSet
    <2>3. TypeOK'
      BY <2>1, <2>2 DEF IInv, SlotsInv, TypeOK
    <2>4. LiveXorFree' /\ FreeListIntact' /\ SlotsFit'
      BY <2>1, <2>2 DEF IInv, SlotsInv, LiveXorFree, FreeListIntact, SlotsFit
    <2>5. BlocksChained' /\ RoomLeft' /\ Counted'
      BY <2>1, <2>2 DEF IInv, BlocksChained, RoomLeft, Counted, SlotsReused
    <2>6. Filled'
      BY <2>1, <2>2, FilledKept DEF IInv
    <2> QED BY <2>3, <2>4, <2>5, <2>6 DEF IInv, SlotsInv
  <1>2. CASE Next
    BY <1>2, ReuseKeeps, BumpKeeps, NewBlockKeeps, DeallocateKeeps, DestroyKeeps
    DEF Next, Allocate
  <1> QED BY <1>1, <1>2

\* The inductive invariant holds in every state the pool can reach.
THEOREM Invariance == Spec => []IInv
  BY InitIInv, NextIInv, PTL DEF Spec

\* No slot has two owners, none is lost, the list of free slots never follows a
\* word a client has written, and slots lie aligned and apart in their blocks,
\* after any calls of allocate and deallocate and for all sizes and alignments.
THEOREM SlotsInvariant == Spec => []SlotsInv
  <1>1. IInv => SlotsInv
    BY DEF IInv
  <1> QED BY <1>1, Invariance, PTL

\* No slot is carved while one is free, and a new block is asked for only when the
\* one before has room for no more than one slot, for all sizes and alignments.
THEOREM GrowthInvariant == Spec => []GrowthBounded
  <1>1. IInv => GrowthBounded
    BY DEF IInv, Counted, Filled, GrowthBounded
  <1> QED BY <1>1, Invariance, PTL

-----------------------------------------------------------------------------
(* Numbers, and the nodes of a list. *)

\* A set of numbers that has a member has a least one.
LEMMA LeastMember ==
  ASSUME NEW S \in SUBSET Nat, S # {}
  PROVE  \E m \in S : \A k \in S : m <= k
  <1>1. IsWellFoundedOn(OpToRel(<, Nat), Nat)
    BY NatLessThanWellFounded
  <1>2. PICK m \in S : \A k \in S : ~ (<<k, m>> \in OpToRel(<, Nat))
    BY <1>1, WFMin
  <1>3. \A k \in S : ~ (k < m)
    BY <1>2 DEF OpToRel
  <1> QED BY <1>3

\* The nodes that StackAlloc's Chain comes to from the first one.
Links(first, p, m) == CHOOSE f : f = [i \in 1 .. m |-> IF i = 1 THEN first ELSE p[f[i - 1]]]

\* Links follows a sequence whose members are linked to their successors.
LEMMA LinksFollow ==
  ASSUME NEW X, NEW c \in Seq(X), NEW p,
         \A i \in 1 .. Len(c) : i # Len(c) => p[c[i]] = c[i + 1]
  PROVE  Links(c[1], p, Len(c)) = c
  <1> DEFINE f == Links(c[1], p, Len(c))
             n == Len(c)
             D == 1 .. n
  <1>1. n \in Nat /\ DOMAIN c = D /\ c = [i \in D |-> c[i]]
    OBVIOUS
  <1> HIDE DEF n
  <1>2. c = [i \in D |-> IF i = 1 THEN c[1] ELSE p[c[i - 1]]]
    <2>1. ASSUME NEW i \in D PROVE c[i] = IF i = 1 THEN c[1] ELSE p[c[i - 1]]
      <3>1. CASE i = 1
        BY <3>1
      <3>2. CASE i # 1
        <4>1. i - 1 \in D /\ i - 1 # n /\ (i - 1) + 1 = i
          BY <1>1, <3>2
        <4> QED BY <3>2, <4>1 DEF n
      <3> QED BY <3>1, <3>2
    <2> DEFINE g == [i \in D |-> IF i = 1 THEN c[1] ELSE p[c[i - 1]]]
    <2>2. \A i \in D : c[i] = g[i]
      BY <2>1
    <2> HIDE DEF D
    <2> QED BY <1>1, <2>2
  <1>3. f = [i \in D |-> IF i = 1 THEN c[1] ELSE p[f[i - 1]]]
    BY <1>2 DEF Links, n
  <1> HIDE DEF f
  <1>4. ASSUME {i \in D : f[i] # c[i]} # {} PROVE FALSE
    <2>1. {i \in D : f[i] # c[i]} \in SUBSET Nat
      BY <1>1
    <2>2. PICK m \in D : f[m] # c[m] /\ \A k \in D : f[k] # c[k] => m <= k
      BY <1>4, <2>1, LeastMember
    <2>3. m # 1
      BY <1>3, <2>2
    <2>4. m - 1 \in D /\ f[m - 1] = c[m - 1]
      BY <1>1, <2>2, <2>3
    <2>5. f[m] = p[f[m - 1]] /\ c[m] = p[c[m - 1]]
      BY <1>2, <1>3, <2>3
    <2> QED BY <2>2, <2>4, <2>5
  <1>5. \A i \in D : f[i] = c[i]
    BY <1>4
  <1>6. DOMAIN f = D /\ f = [i \in D |-> f[i]]
    BY <1>3
  <1>7. f = c
    <2> HIDE DEF D
    <2> QED BY <1>1, <1>5, <1>6
  <1> QED BY <1>7 DEF f

-----------------------------------------------------------------------------
(* The stack over the pool: its nodes from the top down. *)

\* c holds the live slots, each once; Top is the first of them, and every node
\* but the last is linked to the next.
IsChain(c) ==
  /\ c \in Seq(live)
  /\ \A s \in live : \E i \in 1 .. Len(c) : c[i] = s
  /\ \A i, j \in 1 .. Len(c) : i # j => c[i] # c[j]
  /\ Len(c) = Cardinality(live)
  /\ Top = IF c = <<>> THEN Null ELSE c[1]
  /\ \A i \in 1 .. Len(c) : prev[c[i]] = IF i = Len(c) THEN Null ELSE c[i + 1]

\* The stack has nodes for its live slots; no other program has a stack.
Chained ==
  /\ program = "StackAlloc" => DOMAIN prev = Carved /\ \E c : IsChain(c)
  /\ program # "StackAlloc" => head = Null /\ closing = FALSE

StackIInv == IInv /\ Chained

\* Live slots are no null pointers, and there are finitely many.
LEMMA LiveSlots ==
  ASSUME IInv
  PROVE  Null \notin live /\ IsFiniteSet(live) /\ Cardinality(live) \in Nat
  <1>1. live \subseteq Carved /\ Carved \subseteq Slots /\ IsFiniteSet(Carved)
    BY DEF IInv, SlotsInv, TypeOK, Counted
  <1>2. Slots \subseteq Nat \X Nat
    <2>1. \A b \in Blocks : b \in Nat
      BY DEF Blocks
    <2> QED BY <2>1, Geometry DEF Slots
  <1>3. Null \notin live
    BY <1>1, <1>2, GeometryAssumption
  <1>4. IsFiniteSet(live)
    BY <1>1, FS_Subset
  <1> QED BY <1>3, <1>4, FS_CardinalityType

\* The chain the code would walk is that sequence.
LEMMA ChainIs ==
  ASSUME IInv, NEW c, IsChain(c)
  PROVE  Chain = c
  <1>1. CASE c = <<>>
    BY <1>1 DEF Chain, IsChain
  <1>2. CASE c # <<>>
    <2>1. c \in Seq(live) /\ Len(c) = Cardinality(live) /\ Top = c[1]
      BY <1>2 DEF IsChain
    <2>2. 1 \in 1 .. Len(c) /\ c[1] \in live
      BY <1>2, <2>1
    <2>3. Chain = Links(Top, prev, Cardinality(live))
      BY <2>1, <2>2, LiveSlots DEF Chain, Links
    <2>4. Links(c[1], prev, Len(c)) = c
      <3>1. \A i \in 1 .. Len(c) : i # Len(c) => prev[c[i]] = c[i + 1]
        BY DEF IsChain
      <3> QED BY <2>1, <3>1, LinksFollow
    <2> QED BY <2>1, <2>3, <2>4
  <1> QED BY <1>1, <1>2

\* The same of the next state.
LEMMA NextChainIs == (\A c : IInv /\ IsChain(c) => Chain = c)'
  <1>1. \A c : IInv /\ IsChain(c) => Chain = c
    BY ChainIs
  <1> QED BY <1>1, PTL

\* The nodes of such a chain are the live slots.
LEMMA ChainOfLive ==
  ASSUME IInv, NEW c, IsChain(c)
  PROVE  ChainIsLive
  <1>1. Chain = c /\ c \in Seq(live) /\ DOMAIN c = 1 .. Len(c)
    BY ChainIs DEF IsChain
  <1>2. {c[i] : i \in DOMAIN c} = live
    BY <1>1 DEF IsChain
  <1>3. Top = Null <=> live = {}
    <2>1. CASE c = <<>>
      BY <1>2, <2>1 DEF IsChain
    <2>2. CASE c # <<>>
      <3>1. c[1] \in live /\ Top = c[1]
        BY <1>1, <2>2 DEF IsChain
      <3> QED BY <3>1, LiveSlots
    <2> QED BY <2>1, <2>2
  <1> QED BY <1>1, <1>2, <1>3 DEF ChainIsLive

\* allocate makes one slot live and leaves the words of the others alone.
LEMMA AllocateOne ==
  ASSUME IInv, Allocate
  PROVE  \E s : /\ s \notin live /\ live' = live \union {s} /\ Carved' = Carved \union {s}
                /\ word'[s] \in Contents
                /\ \A t \in live : word'[t] = word[t]
  <1>1. live \subseteq Carved /\ \A t \in live : t \in Carved
    BY DEF IInv, SlotsInv, TypeOK
  <1>2. SUFFICES \E s : s \notin live /\ HandOut(s)
    <2>1. PICK s : s \notin live /\ HandOut(s)
      BY <1>2
    <2>2. \A t \in live : t # s /\ word'[t] = word[t]
      BY <1>1, <2>1, HandOutWords
    <2> QED BY <2>1, <2>2, HandOutWords
  <1>3. CASE Reuse
    <2>1. HandOut(freeSlots) /\ freeSlots # Null
      BY <1>3 DEF Reuse
    <2>2. freed # <<>> /\ freeSlots = freed[1] /\ freed \in Seq(Carved)
      BY <2>1, NoneFree DEF IInv, SlotsInv, FreeListIntact, TypeOK
    <2>3. freeSlots \in FreeSet
      BY <2>2 DEF FreeSet
    <2> QED BY <2>1, <2>3 DEF IInv, SlotsInv, LiveXorFree
  <1>4. CASE Bump
    <2>1. HandOut(<<currentBlock, currentSlot>>) /\ currentSlot < lastSlot
      BY <1>4 DEF Bump
    <2>2. \A t \in Carved : t[1] = currentBlock => t[2] + SlotSize <= currentSlot
      BY <2>1, Geometry DEF IInv, RoomLeft, SlotsInv, TypeOK
    <2>3. \A t \in Carved : t[2] \in Nat
      BY DEF IInv, SlotsInv, TypeOK, Slots
    <2>4. <<currentBlock, currentSlot>> \notin Carved
      <3>1. currentSlot \in Nat /\ SlotSize \in Nat /\ SlotSize > 0
        BY Geometry DEF IInv, SlotsInv, TypeOK
      <3> QED BY <2>2, <2>3, <3>1
    <2> QED BY <1>1, <2>1, <2>4
  <1>5. CASE NewBlock
    <2>1. PICK a \in NewBases : currentBlock' = Len(base) + 1 /\ HandOut(<<currentBlock', FirstSlot(a)>>)
      BY <1>5 DEF NewBlock
    <2>2. Len(base) \in Nat /\ \A t \in Carved : t[1] \in 1 .. Len(base)
      BY DEF IInv, SlotsInv, TypeOK, Slots, Blocks
    <2>3. <<currentBlock', FirstSlot(a)>> \notin Carved
      BY <2>1, <2>2
    <2> QED BY <1>1, <2>1, <2>3
  <1> QED BY <1>3, <1>4, <1>5 DEF Allocate

\* push puts the new slot before the chain.
LEMMA PushChain ==
  ASSUME StackIInv, program = "StackAlloc", Push, UNCHANGED program, NEW c, IsChain(c)
  PROVE  \E s : /\ IsChain(<<s>> \o c)' /\ DOMAIN prev' = Carved'
                /\ word'[s] \in Contents
                /\ \A t \in live : word'[t] = word[t]
  <1>1. PICK s : /\ s \notin live /\ live' = live \union {s} /\ Carved' = Carved \union {s}
                 /\ word'[s] \in Contents
                 /\ \A t \in live : word'[t] = word[t]
    BY AllocateOne DEF Push, StackIInv
  <1>2. /\ ~closing /\ closing' = closing /\ head' = s
        /\ prev' = [t \in Carved' |-> IF t = s THEN head ELSE prev[t]]
    BY <1>1 DEF Push
  <1>3. Top = head /\ Top' = s
    BY <1>2 DEF Top
  <1>4. live \subseteq Carved
    BY DEF StackIInv, IInv, SlotsInv, TypeOK
  <1>5. prev'[s] = head /\ \A t \in live : prev'[t] = prev[t]
    BY <1>1, <1>2, <1>4
  <1> DEFINE d == <<s>> \o c
             n == Len(c)
  <1>6. c \in Seq(live) /\ n \in Nat /\ \A i \in 1 .. n : c[i] \in live
    BY DEF IsChain
  <1>7. /\ Len(d) = n + 1 /\ d[1] = s /\ d # <<>> /\ d \in Seq(live')
        /\ \A i \in 1 .. n : d[i + 1] = c[i]
    BY <1>1, <1>6
  <1>8. \A i \in 1 .. Len(d) : i # 1 => i - 1 \in 1 .. n /\ d[i] = c[i - 1]
    <2>1. ASSUME NEW i \in 1 .. Len(d), i # 1 PROVE i - 1 \in 1 .. n /\ d[i] = c[i - 1]
      <3>1. i - 1 \in 1 .. n /\ (i - 1) + 1 = i
        BY <1>6, <1>7, <2>1
      <3> QED BY <1>7, <3>1
    <2> QED BY <2>1
  <1> HIDE DEF d, n
  <1>9. \A t \in live' : \E i \in 1 .. Len(d) : d[i] = t
    <2>1. ASSUME NEW t \in live PROVE \E i \in 1 .. Len(d) : d[i] = t
      <3>1. PICK i \in 1 .. n : c[i] = t
        BY DEF IsChain, n
      <3>2. i + 1 \in 1 .. Len(d) /\ d[i + 1] = t
        BY <1>6, <1>7, <3>1
      <3> QED BY <3>2
    <2>2. 1 \in 1 .. Len(d)
      BY <1>6, <1>7
    <2> QED BY <1>1, <1>7, <2>1, <2>2
  <1>10. \A i, j \in 1 .. Len(d) : i # j => d[i] # d[j]
    <2>1. ASSUME NEW i \in 1 .. Len(d), NEW j \in 1 .. Len(d), i # j PROVE d[i] # d[j]
      <3>1. CASE i = 1 \/ j = 1
        BY <1>1, <1>6, <1>7, <1>8, <2>1, <3>1
      <3>2. CASE i # 1 /\ j # 1
        <4>1. i - 1 \in 1 .. n /\ j - 1 \in 1 .. n /\ i - 1 # j - 1 /\ d[i] = c[i - 1] /\ d[j] = c[j - 1]
          BY <1>6, <1>7, <1>8, <2>1, <3>2
        <4> QED BY <4>1 DEF IsChain, n
      <3> QED BY <3>1, <3>2
    <2> QED BY <2>1
  <1>11. Len(d) = Cardinality(live')
    <2>1. Cardinality(live') = Cardinality(live) + 1
      BY <1>1, LiveSlots, FS_AddElement DEF StackIInv
    <2> QED BY <1>7, <2>1 DEF IsChain, n
  <1>12. ASSUME NEW i \in 1 .. Len(d) PROVE prev'[d[i]] = IF i = Len(d) THEN Null ELSE d[i + 1]
    <2>1. CASE i = 1
      <3>1. prev'[d[i]] = IF c = <<>> THEN Null ELSE c[1]
        BY <1>3, <1>5, <1>7, <2>1 DEF IsChain
      <3>2. CASE n = 0
        <4>1. c = <<>>
          BY <1>6, <3>2 DEF n
        <4> QED BY <1>7, <2>1, <3>1, <3>2, <4>1
      <3>3. CASE n # 0
        <4>1. c # <<>> /\ 1 \in 1 .. n /\ d[1 + 1] = c[1]
          BY <1>6, <1>7, <3>3 DEF n
        <4> QED BY <1>6, <1>7, <2>1, <3>1, <3>3, <4>1
      <3> QED BY <3>2, <3>3
    <2>2. CASE i # 1
      <3> DEFINE k == i - 1
      <3>1. k \in 1 .. n /\ d[i] = c[k] /\ i = k + 1
        BY <1>8, <2>2
      <3> HIDE DEF k
      <3>2. prev'[d[i]] = IF k = n THEN Null ELSE c[k + 1]
        BY <1>5, <1>6, <3>1 DEF IsChain, n
      <3>3. k # n => k + 1 \in 1 .. n /\ d[i + 1] = c[k + 1]
        BY <1>6, <1>7, <3>1
      <3> QED BY <1>6, <1>7, <3>1, <3>2, <3>3
    <2> QED BY <2>1, <2>2
  <1>13. Top' = IF d = <<>> THEN Null ELSE d[1]
    BY <1>3, <1>7
  <1>14. IsChain(d)'
    BY <1>7, <1>9, <1>10, <1>11, <1>12, <1>13 DEF IsChain
  <1> QED BY <1>1, <1>2, <1>14 DEF d

\* Giving back the node at the top, and going on to the node below it, leaves the
\* rest of the chain.
LEMMA DropChain ==
  ASSUME IInv, NEW c, IsChain(c), Top # Null, Deallocate(Top),
         Top' = prev[Top], UNCHANGED prev
  PROVE  /\ c # <<>> /\ c \in Seq(live) /\ Top = c[1]
         /\ IsChain(Tail(c))' /\ Carved' = Carved
         /\ \A i \in 1 .. Len(c) : i # 1 => word'[c[i]] = word[c[i]]
  <1> DEFINE d == Tail(c)
             n == Len(c)
  <1>1. c # <<>> /\ Top = c[1] /\ c \in Seq(live)
    BY DEF IsChain
  <1>2. n \in Nat /\ n # 0 /\ 1 \in 1 .. n /\ \A i \in 1 .. n : c[i] \in live
    BY <1>1
  <1>3. Len(d) = n - 1 /\ \A i \in 1 .. n - 1 : d[i] = c[i + 1]
    BY <1>1
  <1>4. d = <<>> <=> n = 1
    <2>1. d \in Seq(live)
      BY <1>1
    <2> HIDE DEF d, n
    <2> QED BY <1>2, <1>3, <2>1
  <1>5. /\ c[1] \in live /\ live' = live \ {c[1]}
        /\ word' = [word EXCEPT ![c[1]] = freeSlots]
    BY <1>1 DEF Deallocate
  <1>6. live \subseteq Carved
    BY DEF IInv, SlotsInv, TypeOK
  <1>7. \A i \in 1 .. n : i # 1 => c[i] # c[1]
    BY <1>2 DEF IsChain, n
  <1>8. Carved' = Carved /\ \A i \in 1 .. n : i # 1 => word'[c[i]] = word[c[i]]
    BY <1>2, <1>5, <1>6, <1>7 DEF Carved
  <1>9. d \in Seq(live')
    <2>1. d \in Seq(live) /\ \A i \in 1 .. Len(d) : d[i] \in live'
      <3>1. d \in Seq(live)
        BY <1>1
      <3>2. ASSUME NEW i \in 1 .. Len(d) PROVE d[i] \in live'
        <4>1. i + 1 \in 1 .. n /\ i + 1 # 1 /\ d[i] = c[i + 1]
          BY <1>2, <1>3
        <4> QED BY <1>2, <1>5, <1>7, <4>1
      <3> QED BY <3>1, <3>2
    <2> HIDE DEF d
    <2> QED BY <2>1
  <1> HIDE DEF d, n
  <1>10. \A t \in live' : \E i \in 1 .. Len(d) : d[i] = t
    <2>1. ASSUME NEW t \in live' PROVE \E i \in 1 .. Len(d) : d[i] = t
      <3>1. PICK j \in 1 .. n : c[j] = t
        BY <1>5 DEF IsChain, n
      <3>2. j # 1
        BY <1>5, <3>1
      <3> DEFINE k == j - 1
      <3>3. k \in 1 .. Len(d) /\ k \in 1 .. n - 1 /\ k + 1 = j
        BY <1>2, <1>3, <3>2
      <3> HIDE DEF k
      <3> QED BY <1>3, <3>1, <3>3
    <2> QED BY <2>1
  <1>11. \A i, j \in 1 .. Len(d) : i # j => d[i] # d[j]
    <2>1. ASSUME NEW i \in 1 .. Len(d), NEW j \in 1 .. Len(d), i # j PROVE d[i] # d[j]
      <3>1. i + 1 \in 1 .. n /\ j + 1 \in 1 .. n /\ i + 1 # j + 1 /\ d[i] = c[i + 1] /\ d[j] = c[j + 1]
        BY <1>2, <1>3, <2>1
      <3> QED BY <3>1 DEF IsChain, n
    <2> QED BY <2>1
  <1>12. Len(d) = Cardinality(live')
    <2>1. Cardinality(live') = Cardinality(live) - 1
      BY <1>5, LiveSlots, FS_RemoveElement
    <2> QED BY <1>3, <2>1 DEF IsChain, n
  <1>13. prev[c[1]] = IF n = 1 THEN Null ELSE c[2]
    BY <1>2 DEF IsChain, n
  <1>14. Top' = IF d = <<>> THEN Null ELSE d[1]
    <2>1. CASE n = 1
      BY <1>1, <1>4, <1>13, <2>1
    <2>2. CASE n # 1
      <3>1. 1 \in 1 .. n - 1 /\ d[1] = c[1 + 1]
        BY <1>2, <1>3, <2>2
      <3> QED BY <1>1, <1>4, <1>13, <2>2, <3>1
    <2> QED BY <2>1, <2>2
  <1>15. ASSUME NEW i \in 1 .. Len(d) PROVE prev'[d[i]] = IF i = Len(d) THEN Null ELSE d[i + 1]
    <2> DEFINE k == i + 1
    <2>1. k \in 1 .. n /\ d[i] = c[k] /\ prev' = prev /\ (i = Len(d) <=> k = n)
      BY <1>2, <1>3
    <2>2. k # n => i + 1 \in 1 .. n - 1 /\ d[i + 1] = c[k + 1]
      BY <1>2, <1>3
    <2> HIDE DEF k
    <2>3. prev[c[k]] = IF k = n THEN Null ELSE c[k + 1]
      BY <2>1 DEF IsChain, n
    <2> QED BY <2>1, <2>2, <2>3
  <1>16. IsChain(d)'
    BY <1>9, <1>10, <1>11, <1>12, <1>14, <1>15 DEF IsChain
  <1> QED BY <1>1, <1>8, <1>16 DEF d, n

\* A step that leaves pool and links alone, and goes to the same top, leaves the
\* chain.
LEMMA SameChain ==
  ASSUME NEW c, IsChain(c), UNCHANGED <<live, prev>>, Top' = Top
  PROVE  IsChain(c)'
  BY DEF IsChain

\* Nothing of the stack or the pool is left out of a step of another program.
LEMMA OtherProgram ==
  ASSUME StackIInv, MCNext, program # "StackAlloc", IInv'
  PROVE  StackIInv' /\ UNCHANGED <<stackVars, program>>
  <1>1. UNCHANGED stackVars /\ program' = program
    BY DEF MCNext, pool
  <1> QED BY <1>1 DEF StackIInv, Chained, stackVars

\* Every step of the stack leaves the chain of one push, pop or turn of clear.
LEMMA StackKeeps ==
  ASSUME StackIInv, program = "StackAlloc", StackNext, UNCHANGED program, IInv'
  PROVE  StackIInv'
  <1>1. PICK c : IsChain(c)
    BY DEF StackIInv, Chained
  <1>2. DOMAIN prev = Carved /\ IInv
    BY DEF StackIInv, Chained
  <1>3. SUFFICES DOMAIN prev' = Carved' /\ \E d : IsChain(d)'
    BY DEF StackIInv, Chained
  <1>4. CASE Push
    BY <1>1, <1>4, PushChain
  <1>5. CASE Pop
    <2>1. /\ ~closing /\ closing' = closing /\ head # Null /\ Deallocate(head)
          /\ head' = prev[head] /\ prev' = prev
      BY <1>5 DEF Pop
    <2>2. Top = head /\ Top' = head'
      BY <2>1 DEF Top
    <2> QED BY <1>1, <1>2, <2>1, <2>2, DropChain
  <1>6. CASE Close
    <2>1. Top' = Top /\ UNCHANGED <<live, prev, Carved>>
      BY <1>6 DEF Close, Top, vars, poolVars, Carved
    <2> QED BY <1>1, <1>2, <2>1, SameChain
  <1>7. CASE ClearNode
    <2>1. closing /\ closing' = closing /\ cur # Null /\ Deallocate(cur) /\ cur' = prev[cur] /\ prev' = prev
      BY <1>7 DEF ClearNode
    <2>2. Top = cur /\ Top' = cur'
      BY <2>1 DEF Top
    <2> QED BY <1>1, <1>2, <2>1, <2>2, DropChain
  <1>8. CASE DestroyPool
    <2>1. UNCHANGED <<live, word, head, prev, closing, cur>>
      BY <1>8 DEF DestroyPool, BeginDestroy, DeleteBlock, poolVars, stackVars
    <2>2. Top' = Top /\ Carved' = Carved
      BY <2>1 DEF Top, Carved
    <2> QED BY <1>1, <1>2, <2>1, <2>2, SameChain
  <1> QED BY <1>4, <1>5, <1>6, <1>7, <1>8 DEF StackNext, Closing

\* What any of the programs does to the pool is a step of the pool or none.
LEMMA PoolSteps ==
  ASSUME [MCNext]_<<pool, detector, program>>
  PROVE  [Next]_vars
  <1>1. CASE UNCHANGED <<pool, detector, program>>
    BY <1>1 DEF pool
  <1>2. CASE program = "MemoryPool" /\ Next
    BY <1>2
  <1>3. CASE StackNext
    <2>1. \A s : Deallocate(s) => s \in live
      BY DEF Deallocate
    <2>2. CASE Push
      BY <2>2 DEF Push, Next
    <2>3. CASE Pop
      BY <2>1, <2>3 DEF Pop, Next
    <2>4. CASE Close
      BY <2>4 DEF Close
    <2>5. CASE ClearNode
      BY <2>1, <2>5 DEF ClearNode, Next
    <2>6. CASE DestroyPool
      BY <2>6 DEF DestroyPool, Next
    <2> QED BY <1>3, <2>2, <2>3, <2>4, <2>5, <2>6 DEF StackNext, Closing
  <1>4. CASE UNCHANGED pool
    BY <1>4 DEF pool
  <1> QED BY <1>1, <1>2, <1>3, <1>4 DEF MCNext

\* An empty stack has the empty chain.
LEMMA StackInitially == ASSUME MCInit PROVE StackIInv
  <1>1. Init /\ head = Null /\ prev = <<>> /\ closing = FALSE /\ live = {} /\ word = <<>>
    BY DEF MCInit, StackInit, Init
  <1>2. IInv
    BY <1>1, InitIInv
  <1>3. IsChain(<<>>)
    <2>1. Top = Null /\ Cardinality(live) = 0
      BY <1>1, FS_EmptySet DEF Top
    <2> QED BY <1>1, <2>1 DEF IsChain
  <1>4. DOMAIN prev = Carved
    BY <1>1 DEF Carved
  <1> QED BY <1>1, <1>2, <1>3, <1>4 DEF StackIInv, Chained

\* Every step keeps it.
LEMMA StackStep == ASSUME StackIInv, [MCNext]_<<pool, detector, program>> PROVE StackIInv'
  <1>1. IInv'
    BY PoolSteps, NextIInv DEF StackIInv
  <1>2. CASE UNCHANGED <<pool, detector, program>>
    <2>1. UNCHANGED <<live, word, head, prev, closing, cur, program>>
      BY <1>2 DEF pool, vars, poolVars, stackVars
    <2>2. Top' = Top /\ Carved' = Carved
      BY <2>1 DEF Top, Carved
    <2>3. \A c : IsChain(c) => IsChain(c)'
      BY <2>1, <2>2, SameChain
    <2> QED BY <1>1, <2>1, <2>2, <2>3 DEF StackIInv, Chained
  <1>3. CASE MCNext /\ program # "StackAlloc"
    BY <1>1, <1>3, OtherProgram
  <1>4. CASE MCNext /\ program = "StackAlloc"
    BY <1>1, <1>4, StackKeeps DEF MCNext
  <1> QED BY <1>2, <1>3, <1>4

\* The stack has such a chain in every state.
LEMMA StackInvariance == MCSpec => []StackIInv
  BY StackInitially, StackStep, PTL DEF MCSpec

\* The nodes the code would find from the top are exactly the slots the stack has
\* from the pool, for any pushes and pops, and while the destructor clears it.
THEOREM ChainInvariant == MCSpec => []StackInv
  <1>1. StackIInv => StackInv
    BY ChainOfLive DEF StackIInv, Chained, StackInv
  <1> QED BY <1>1, StackInvariance, PTL

-----------------------------------------------------------------------------
(* Stack and pool implement LifoStack. *)

\* What is stored in the nodes of a sequence, when w are the words of the slots.
Texts(c, w) == [i \in DOMAIN c |-> w[c[i]]]

\* Without the first node, the first text is missing.
LEMMA TextsOfTail ==
  ASSUME NEW X, NEW c \in Seq(X), c # <<>>, NEW v, NEW w,
         \A i \in 1 .. Len(c) : i # 1 => w[c[i]] = v[c[i]]
  PROVE  /\ Texts(Tail(c), w) = Tail(Texts(c, v)) /\ Head(Texts(c, v)) = v[c[1]]
         /\ Texts(c, v) # <<>>
  <1> DEFINE t == Texts(c, v)
             n == Len(c)
             Y == {v[c[i]] : i \in 1 .. n}
  <1>1. n \in Nat /\ n # 0 /\ DOMAIN c = 1 .. n
    BY DEF n
  <1>2. t \in Seq(Y) /\ Len(t) = n /\ \A i \in 1 .. n : t[i] = v[c[i]]
    <2>1. t = [i \in 1 .. n |-> v[c[i]]]
      BY <1>1 DEF Texts
    <2> HIDE DEF t, n
    <2> QED BY <1>1, <2>1
  <1>3. Len(Tail(c)) = n - 1 /\ DOMAIN Tail(c) = 1 .. n - 1 /\ \A i \in 1 .. n - 1 : Tail(c)[i] = c[i + 1]
    OBVIOUS
  <1>4. Texts(Tail(c), w) = [i \in 1 .. n - 1 |-> v[c[i + 1]]]
    <2>1. \A i \in 1 .. n - 1 : w[Tail(c)[i]] = v[c[i + 1]]
      <3>1. ASSUME NEW i \in 1 .. n - 1 PROVE w[Tail(c)[i]] = v[c[i + 1]]
        <4>1. i + 1 \in 1 .. n /\ i + 1 # 1
          BY <1>1
        <4> QED BY <1>3, <4>1
      <3> QED BY <3>1
    <2> HIDE DEF n
    <2> QED BY <1>3, <2>1 DEF Texts
  <1> HIDE DEF t, n, Y
  <1>5. Tail(t) = [i \in 1 .. n - 1 |-> v[c[i + 1]]]
    <2> DEFINE u == Tail(t)
    <2>1. t # <<>> /\ u \in Seq(Y) /\ Len(u) = n - 1 /\ \A i \in 1 .. n - 1 : u[i] = t[i + 1]
      BY <1>1, <1>2
    <2>2. \A i \in 1 .. n - 1 : t[i + 1] = v[c[i + 1]]
      BY <1>1, <1>2
    <2> HIDE DEF u
    <2>3. u = [i \in 1 .. n - 1 |-> u[i]]
      BY <1>1, <2>1
    <2>4. u = [i \in 1 .. n - 1 |-> v[c[i + 1]]]
      BY <2>1, <2>2, <2>3
    <2> QED BY <2>4 DEF u
  <1>6. t # <<>> /\ Head(t) = v[c[1]]
    BY <1>1, <1>2
  <1> QED BY <1>4, <1>5, <1>6 DEF t

\* With a node more, there is its text more.
LEMMA TextsOfPush ==
  ASSUME NEW X, NEW c \in Seq(X), NEW s, NEW v, NEW w, \A i \in 1 .. Len(c) : w[c[i]] = v[c[i]]
  PROVE  Texts(<<s>> \o c, w) = <<w[s]>> \o Texts(c, v)
  <1> DEFINE d == <<s>> \o c
             t == Texts(c, v)
             n == Len(c)
             Y == {v[c[i]] : i \in 1 .. n}
  <1>1. n \in Nat /\ DOMAIN c = 1 .. n
    BY DEF n
  <1>2. t \in Seq(Y) /\ Len(t) = n /\ \A i \in 1 .. n : t[i] = v[c[i]]
    <2>1. t = [i \in 1 .. n |-> v[c[i]]]
      BY <1>1 DEF Texts
    <2> HIDE DEF t, n
    <2> QED BY <1>1, <2>1
  <1>3. Len(d) = n + 1 /\ DOMAIN d = 1 .. n + 1 /\ \A i \in 1 .. n + 1 : d[i] = IF i = 1 THEN s ELSE c[i - 1]
    <2>1. d \in Seq(X \union {s}) /\ Len(d) = n + 1
      OBVIOUS
    <2>2. \A i \in 1 .. n + 1 : d[i] = IF i = 1 THEN s ELSE c[i - 1]
      BY DEF n
    <2> QED BY <2>1, <2>2
  <1> HIDE DEF d, t, n, Y
  <1>4. Texts(d, w) = [i \in 1 .. n + 1 |-> IF i = 1 THEN w[s] ELSE v[c[i - 1]]]
    <2>1. \A i \in 1 .. n + 1 : w[d[i]] = IF i = 1 THEN w[s] ELSE v[c[i - 1]]
      <3>1. ASSUME NEW i \in 1 .. n + 1, i # 1 PROVE w[d[i]] = v[c[i - 1]]
        <4>1. i - 1 \in 1 .. n /\ d[i] = c[i - 1]
          BY <1>1, <1>3, <3>1
        <4> QED BY <4>1 DEF n
      <3> QED BY <1>1, <1>3, <3>1
    <2> QED BY <1>3, <2>1 DEF Texts
  <1>5. <<w[s]>> \o t = [i \in 1 .. n + 1 |-> IF i = 1 THEN w[s] ELSE v[c[i - 1]]]
    <2> DEFINE u == <<w[s]>> \o t
    <2>1. u \in Seq(Y \union {w[s]}) /\ Len(u) = n + 1
      BY <1>1, <1>2
    <2>2. \A i \in 1 .. n + 1 : u[i] = IF i = 1 THEN w[s] ELSE t[i - 1]
      BY <1>1, <1>2
    <2>3. \A i \in 1 .. n + 1 : i # 1 => t[i - 1] = v[c[i - 1]]
      BY <1>1, <1>2
    <2>4. u = [i \in 1 .. n + 1 |-> u[i]]
      <3> HIDE DEF u
      <3> QED BY <1>1, <2>1
    <2> HIDE DEF u
    <2>5. u = [i \in 1 .. n + 1 |-> IF i = 1 THEN w[s] ELSE v[c[i - 1]]]
      BY <2>2, <2>3, <2>4
    <2> QED BY <2>5 DEF u
  <1> QED BY <1>4, <1>5 DEF d, t

Items == [i \in DOMAIN Chain |-> word[Chain[i]]]

\* The items of the stack are the texts of its chain, before and after a step.
LEMMA ItemsAre ==
  ASSUME StackIInv, StackIInv', NEW c, NEW d, IsChain(c), IsChain(d)'
  PROVE  Items = Texts(c, word) /\ Items' = Texts(d, word')
  <1>1. Chain = c
    BY ChainIs DEF StackIInv
  <1>2. Chain' = d
    BY NextChainIs DEF StackIInv
  <1> QED BY <1>1, <1>2 DEF Items, Texts

\* Every step of the stack is one of the abstract stack, or changes neither its
\* items nor what pop returned.
LEMMA StackRefines ==
  ASSUME StackIInv, StackIInv', program = "StackAlloc", StackNext, UNCHANGED program
  PROVE  \/ \E e \in Contents : Items' = <<e>> \o Items /\ popped' = popped
         \/ Items # <<>> /\ Items' = Tail(Items) /\ popped' \in {Head(Items), popped}
         \/ Items' = Items /\ popped' = popped
  <1>1. PICK c : IsChain(c)
    BY DEF StackIInv, Chained
  <1>2. IInv /\ c \in Seq(live)
    BY <1>1 DEF StackIInv, IsChain
  <1>3. CASE Push
    <2>1. PICK s : /\ IsChain(<<s>> \o c)' /\ word'[s] \in Contents
                   /\ \A t \in live : word'[t] = word[t]
      BY <1>1, <1>3, PushChain
    <2>2. Items = Texts(c, word) /\ Items' = Texts(<<s>> \o c, word')
      BY <1>1, <2>1, ItemsAre
    <2>3. \A i \in 1 .. Len(c) : word'[c[i]] = word[c[i]]
      BY <1>2, <2>1
    <2>4. Items' = <<word'[s]>> \o Items
      <3> DEFINE v == word
                 w == word'
      <3>1. \A i \in 1 .. Len(c) : w[c[i]] = v[c[i]]
        BY <2>3
      <3> HIDE DEF v, w
      <3>2. Texts(<<s>> \o c, w) = <<w[s]>> \o Texts(c, v)
        BY <1>2, <3>1, TextsOfPush
      <3> QED BY <2>2, <3>2 DEF v, w
    <2> QED BY <1>3, <2>1, <2>4 DEF Push
  <1>4. ASSUME Top # Null, Deallocate(Top), Top' = prev[Top], UNCHANGED prev
        PROVE  Items # <<>> /\ Items' = Tail(Items) /\ Head(Items) = word[Top]
    <2>1. /\ c # <<>> /\ Top = c[1] /\ IsChain(Tail(c))'
          /\ \A i \in 1 .. Len(c) : i # 1 => word'[c[i]] = word[c[i]]
      BY <1>1, <1>2, <1>4, DropChain
    <2>2. Items = Texts(c, word) /\ Items' = Texts(Tail(c), word')
      BY <1>1, <2>1, ItemsAre
    <2>3. /\ Texts(Tail(c), word') = Tail(Texts(c, word))
          /\ Head(Texts(c, word)) = word[c[1]] /\ Texts(c, word) # <<>>
      BY <1>2, <2>1, TextsOfTail
    <2> QED BY <2>1, <2>2, <2>3
  <1>5. CASE Pop
    <2>1. /\ ~closing /\ closing' = closing /\ head # Null /\ Deallocate(head)
          /\ head' = prev[head] /\ prev' = prev /\ popped' = word[head]
      BY <1>5 DEF Pop
    <2>2. Top = head /\ Top' = head'
      BY <2>1 DEF Top
    <2> QED BY <1>4, <2>1, <2>2
  <1>6. CASE ClearNode
    <2>1. /\ closing /\ closing' = closing /\ cur # Null /\ Deallocate(cur)
          /\ cur' = prev[cur] /\ prev' = prev /\ popped' = popped
      BY <1>6 DEF ClearNode
    <2>2. Top = cur /\ Top' = cur'
      BY <2>1 DEF Top
    <2> QED BY <1>4, <2>1, <2>2
  <1>7. CASE Close \/ DestroyPool
    <2>1. Top' = Top /\ UNCHANGED <<live, prev, word, popped>>
      BY <1>7 DEF Close, DestroyPool, BeginDestroy, DeleteBlock, Top, vars, poolVars, stackVars
    <2>2. IsChain(c)'
      BY <1>1, <2>1, SameChain
    <2>3. Items' = Items
      BY <1>1, <2>1, <2>2, ItemsAre
    <2> QED BY <2>1, <2>3
  <1> QED BY <1>3, <1>5, <1>6, <1>7 DEF StackNext, Closing

\* Where there is no stack, none is seen.
LEMMA NoStack == ASSUME program # "StackAlloc", Chained PROVE Items = <<>>
  <1>1. Top = Null
    BY DEF Chained, Top
  <1>2. Chain = <<>>
    BY <1>1 DEF Chain
  <1> QED BY <1>2 DEF Items

\* An empty chain is an empty stack.
LEMMA StackInitRefines == ASSUME MCInit PROVE Stack!Init
  <1>1. Top = Null /\ popped = Null
    BY DEF MCInit, StackInit, Top
  <1>2. Chain = <<>>
    BY <1>1 DEF Chain
  <1> QED BY <1>1, <1>2 DEF Stack!Init

\* The same of the steps of all programs.
LEMMA StackStepRefines ==
  ASSUME StackIInv, StackIInv', [MCNext]_<<pool, detector, program>>
  PROVE  [Stack!Next]_(Stack!vars)
  <1>1. SUFFICES \/ \E e \in Contents : Items' = <<e>> \o Items /\ popped' = popped
                 \/ Items # <<>> /\ Items' = Tail(Items) /\ popped' \in {Head(Items), popped}
                 \/ Items' = Items /\ popped' = popped
    BY <1>1 DEF Stack!Next, Stack!Push, Stack!Pop, Stack!Drop, Stack!vars, Items
  <1>2. CASE UNCHANGED <<pool, detector, program>>
    <2>1. UNCHANGED <<live, word, head, prev, closing, cur, popped>>
      BY <1>2 DEF pool, vars, poolVars, stackVars
    <2>2. Items' = Items
      BY <2>1 DEF Items, Chain, Top
    <2> QED BY <2>1, <2>2
  <1>3. CASE MCNext /\ program # "StackAlloc"
    <2>1. popped' = popped /\ program' # "StackAlloc"
      BY <1>3, OtherProgram DEF stackVars, StackIInv
    <2>2. Items = <<>>
      BY <1>3, NoStack DEF StackIInv
    <2>3. Chained'
      BY DEF StackIInv
    <2>4. Items' = <<>>
      <3>1. Top' = Null
        BY <2>1, <2>3 DEF Chained, Top
      <3>2. Chain' = <<>>
        BY <3>1 DEF Chain
      <3> QED BY <3>2 DEF Items
    <2> QED BY <2>1, <2>2, <2>4
  <1>4. CASE MCNext /\ program = "StackAlloc"
    BY <1>4, StackRefines DEF MCNext
  <1> QED BY <1>2, <1>3, <1>4

\* The stack and the pool together are a stack, whatever was given back and handed
\* out again in between.
THEOREM StackImplemented == MCSpec => ImplementsStack
  <1>1. MCInit => Stack!Init
    BY StackInitRefines
  <1>2. StackIInv /\ StackIInv' /\ [MCNext]_<<pool, detector, program>> => [Stack!Next]_(Stack!vars)
    BY StackStepRefines
  <1> QED BY <1>1, <1>2, StackInvariance, PTL DEF MCSpec, ImplementsStack, Stack!Spec

-----------------------------------------------------------------------------
(* The bytes of LeakDetector's blocks. *)

Pick(S) == CHOOSE x \in S : TRUE

\* The sums over the subsets of S that MapThenSumSet computes, of the sizes of the
\* records in f.
Sums(f, S) ==
  CHOOSE F : F = [T \in SUBSET S |->
                    IF T = {} THEN 0 ELSE f[Pick(T)].size + F[T \ {Pick(T)}]]

\* What F gives for the subsets of S it gives by that equation.
SumsUp(F, f, S) ==
  \A T \in SUBSET S : F[T] = IF T = {} THEN 0 ELSE f[Pick(T)].size + F[T \ {Pick(T)}]

\* The property is about such a sum.
LEMMA TotalIsSum ==
  Leak!TotalIsOfLive <=> _memory_allocated = Sums(block, DOMAIN block)[DOMAIN block]
  BY DEF Leak!TotalIsOfLive, Leak!MapThenSumSet, Leak!MapThenFoldSet, Leak!Live, Sums, Pick

\* An induction: what is true of no least number is true of none.
LEMMA SumsExist ==
  ASSUME NEW S, IsFiniteSet(S), NEW f, \A x \in S : f[x].size \in Int
  PROVE  /\ SumsUp(Sums(f, S), f, S)
         /\ \A T \in SUBSET S : Sums(f, S)[T] \in Int
  <1> DEFINE Small(m) == {T \in SUBSET S : Cardinality(T) <= m}
             Good(F, m) == \A T \in Small(m) :
                             F[T] = IF T = {} THEN 0 ELSE f[Pick(T)].size + F[T \ {Pick(T)}]
             Bad == {m \in Nat : ~ \E F \in [Small(m) -> Int] : Good(F, m)}
  <1>1. \A T \in SUBSET S : IsFiniteSet(T) /\ Cardinality(T) \in Nat
    BY FS_Subset, FS_CardinalityType
  <1>2. \A T \in SUBSET S : T # {} =>
           /\ Pick(T) \in T /\ T \ {Pick(T)} \in SUBSET S
           /\ Cardinality(T \ {Pick(T)}) = Cardinality(T) - 1
    <2>1. ASSUME NEW T \in SUBSET S, T # {} PROVE Pick(T) \in T
      BY <2>1 DEF Pick
    <2> QED BY <1>1, <2>1, FS_RemoveElement
  <1>3. ASSUME Bad # {} PROVE FALSE
    <2>1. PICK m \in Bad : \A k \in Bad : m <= k
      BY <1>3, LeastMember
    <2>2. m \in Nat /\ ~ \E F \in [Small(m) -> Int] : Good(F, m)
      BY <2>1
    <2>3. CASE m = 0
      <3> DEFINE F == [T \in Small(m) |-> 0]
      <3>1. \A T \in Small(m) : T = {}
        BY <1>1, <2>3, FS_EmptySet
      <3>2. F \in [Small(m) -> Int] /\ Good(F, m)
        BY <3>1
      <3> QED BY <2>2, <3>2
    <2>4. CASE m # 0
      <3>1. m - 1 \in Nat /\ m - 1 \notin Bad
        <4>1. m - 1 \in Nat /\ ~ (m <= m - 1)
          BY <2>2, <2>4
        <4> HIDE DEF Bad
        <4> QED BY <2>1, <4>1
      <3>2. PICK F \in [Small(m - 1) -> Int] : Good(F, m - 1)
        BY <3>1
      <3> DEFINE G == [T \in Small(m) |->
                         IF T = {} THEN 0 ELSE f[Pick(T)].size + F[T \ {Pick(T)}]]
      <3>3. \A T \in Small(m) : T # {} => T \ {Pick(T)} \in Small(m - 1)
        BY <1>1, <1>2, <2>2
      <3>4. \A T \in Small(m) : T # {} => f[Pick(T)].size \in Int
        BY <1>2
      <3>5. \A T \in Small(m) : T # {} => F[T \ {Pick(T)}] \in Int
        BY <3>3
      <3>6. G \in [Small(m) -> Int]
        BY <3>4, <3>5
      <3>7. \A T \in Small(m - 1) : T \in Small(m) /\ G[T] = F[T]
        BY <1>1, <2>2, <3>2
      <3>8. Good(G, m)
        BY <3>3, <3>7
      <3> QED BY <2>2, <3>6, <3>8
    <2> QED BY <2>3, <2>4
  <1> DEFINE c == Cardinality(S)
  <1>4. c \in Nat /\ Small(c) = SUBSET S
    <2>1. \A T \in SUBSET S : Cardinality(T) <= c
      BY FS_Subset
    <2> QED BY <2>1, FS_CardinalityType
  <1>5. PICK F \in [SUBSET S -> Int] : Good(F, c)
    BY <1>3, <1>4
  <1>6. F = [T \in SUBSET S |-> IF T = {} THEN 0 ELSE f[Pick(T)].size + F[T \ {Pick(T)}]]
    <2>1. \A T \in SUBSET S : F[T] = IF T = {} THEN 0 ELSE f[Pick(T)].size + F[T \ {Pick(T)}]
      BY <1>4, <1>5
    <2> QED BY <2>1
  <1> DEFINE H == Sums(f, S)
  <1>7. H = [T \in SUBSET S |-> IF T = {} THEN 0 ELSE f[Pick(T)].size + H[T \ {Pick(T)}]]
    BY <1>6 DEF Sums
  <1> HIDE DEF H
  <1>8. SumsUp(H, f, S)
    BY <1>7 DEF SumsUp
  <1>9. ASSUME \E T \in SUBSET S : H[T] \notin Int PROVE FALSE
    <2> DEFINE K == {Cardinality(T) : T \in {U \in SUBSET S : H[U] \notin Int}}
    <2>1. K \in SUBSET Nat /\ K # {}
      BY <1>1, <1>9
    <2>2. PICK T \in SUBSET S : H[T] \notin Int /\ \A k \in K : Cardinality(T) <= k
      <3>1. PICK m \in K : \A k \in K : m <= k
        <4> HIDE DEF K
        <4> QED BY <2>1, LeastMember
      <3> QED BY <3>1
    <2>3. T # {}
      BY <1>7, <2>2
    <2>4. H[T] = f[Pick(T)].size + H[T \ {Pick(T)}]
      BY <1>7, <2>3
    <2>5. H[T \ {Pick(T)}] \in Int
      <3> DEFINE U == T \ {Pick(T)}
      <3>1. U \in SUBSET S /\ ~ (Cardinality(T) <= Cardinality(U))
        BY <1>1, <1>2, <2>3
      <3> HIDE DEF U
      <3>2. H[U] \in Int
        BY <2>2, <3>1
      <3> QED BY <3>2 DEF U
    <2> QED BY <1>2, <2>2, <2>3, <2>4, <2>5
  <1> QED BY <1>8, <1>9 DEF H

\* The sum does not depend on which member is taken first.
LEMMA SumTakesAny ==
  ASSUME NEW S, IsFiniteSet(S), NEW f, \A x \in S : f[x].size \in Int,
         NEW F, SumsUp(F, f, S), \A T \in SUBSET S : F[T] \in Int
  PROVE  \A T \in SUBSET S : \A x \in T : F[T] = f[x].size + F[T \ {x}]
  <1> DEFINE Wrong == {T \in SUBSET S : \E x \in T : F[T] # f[x].size + F[T \ {x}]}
             K == {Cardinality(T) : T \in Wrong}
  <1>1. \A T \in SUBSET S : IsFiniteSet(T) /\ Cardinality(T) \in Nat
    BY FS_Subset, FS_CardinalityType
  <1>2. \A T \in SUBSET S : \A x \in T : ~ (Cardinality(T) <= Cardinality(T \ {x}))
    <2>1. ASSUME NEW T \in SUBSET S, NEW x \in T PROVE ~ (Cardinality(T) <= Cardinality(T \ {x}))
      <3>1. Cardinality(T \ {x}) = Cardinality(T) - 1 /\ Cardinality(T) \in Nat
        BY <1>1, FS_RemoveElement
      <3> QED BY <3>1
    <2> QED BY <2>1
  <1>3. ASSUME Wrong # {} PROVE FALSE
    <2>1. K \in SUBSET Nat /\ K # {}
      BY <1>1, <1>3
    <2>2. PICK T \in Wrong : \A U \in Wrong : Cardinality(T) <= Cardinality(U)
      <3>1. PICK m \in K : \A k \in K : m <= k
        <4> HIDE DEF K
        <4> QED BY <2>1, LeastMember
      <3> QED BY <3>1
    <2>3. PICK x \in T : F[T] # f[x].size + F[T \ {x}]
      BY <2>2
    <2>4. T \in SUBSET S /\ T # {} /\ Pick(T) \in T
      BY <2>2, <2>3 DEF Pick
    <2> DEFINE y == Pick(T)
    <2>5. F[T] = f[y].size + F[T \ {y}]
      BY <2>4 DEF SumsUp
    <2> HIDE DEF y
    <2>6. y \in T /\ y # x
      BY <2>3, <2>4, <2>5 DEF y
    <2>7. T \ {x} \notin Wrong /\ T \ {y} \notin Wrong
      <3> HIDE DEF Wrong
      <3> QED BY <1>2, <2>2, <2>3, <2>4, <2>6
    <2>8. F[T \ {x}] = f[y].size + F[(T \ {x}) \ {y}]
      BY <2>4, <2>6, <2>7
    <2>9. F[T \ {y}] = f[x].size + F[(T \ {y}) \ {x}]
      BY <2>4, <2>6, <2>7
    <2>10. (T \ {x}) \ {y} = (T \ {y}) \ {x} /\ (T \ {x}) \ {y} \in SUBSET S
      BY <2>4
    <2>11. f[x].size \in Int /\ f[y].size \in Int /\ F[(T \ {x}) \ {y}] \in Int
      BY <2>3, <2>4, <2>6, <2>10
    <2> DEFINE p == f[x].size
               q == f[y].size
               z == F[(T \ {x}) \ {y}]
    <2>12. F[T] = q + (p + z) /\ F[T \ {x}] = q + z
      BY <2>5, <2>8, <2>9, <2>10
    <2>13. p \in Int /\ q \in Int /\ z \in Int /\ F[T] # p + F[T \ {x}]
      BY <2>3, <2>11
    <2> HIDE DEF p, q, z
    <2> QED BY <2>12, <2>13
  <1> QED BY <1>3

\* Nor on the records outside the set.
LEMMA SumsAgree ==
  ASSUME NEW R, NEW S, S \subseteq R, IsFiniteSet(S),
         NEW f, NEW g, \A x \in S : g[x].size = f[x].size,
         NEW F, SumsUp(F, f, S), NEW G, SumsUp(G, g, R)
  PROVE  G[S] = F[S]
  <1> DEFINE Wrong == {T \in SUBSET S : G[T] # F[T]}
             K == {Cardinality(T) : T \in Wrong}
  <1>1. \A T \in SUBSET S : IsFiniteSet(T) /\ Cardinality(T) \in Nat
    BY FS_Subset, FS_CardinalityType
  <1>2. ASSUME Wrong # {} PROVE FALSE
    <2>1. K \in SUBSET Nat /\ K # {}
      BY <1>1, <1>2
    <2>2. PICK T \in Wrong : \A U \in Wrong : Cardinality(T) <= Cardinality(U)
      <3>1. PICK m \in K : \A k \in K : m <= k
        <4> HIDE DEF K
        <4> QED BY <2>1, LeastMember
      <3> QED BY <3>1
    <2>3. T \in SUBSET S /\ T \in SUBSET R /\ G[T] # F[T]
      BY <2>2
    <2>4. T # {}
      BY <2>3 DEF SumsUp
    <2> DEFINE x == Pick(T)
               U == T \ {x}
    <2>5. x \in T
      BY <2>4 DEF Pick
    <2>6. F[T] = f[x].size + F[U] /\ G[T] = g[x].size + G[U]
      BY <2>3, <2>4 DEF SumsUp
    <2>7. ~ (Cardinality(T) <= Cardinality(U)) /\ U \in SUBSET S
      BY <1>1, <2>3, <2>5, FS_RemoveElement
    <2> HIDE DEF x, U
    <2>8. G[U] = F[U]
      BY <2>2, <2>7
    <2> QED BY <2>3, <2>5, <2>6, <2>8
  <1> QED BY <1>2

\* One record more makes the sum larger by its size.
LEMMA SumAdds ==
  ASSUME NEW S, IsFiniteSet(S), NEW x, x \notin S,
         NEW f, NEW g, \A y \in S : f[y].size \in Int /\ g[y].size = f[y].size, g[x].size \in Int
  PROVE  Sums(g, S \union {x})[S \union {x}] = g[x].size + Sums(f, S)[S]
  <1> DEFINE R == S \union {x}
             F == Sums(f, S)
             G == Sums(g, R)
  <1>1. IsFiniteSet(R) /\ \A y \in R : g[y].size \in Int
    BY FS_AddElement
  <1>2. SumsUp(F, f, S)
    BY SumsExist
  <1> HIDE DEF R, F, G
  <1>3. SumsUp(G, g, R) /\ \A T \in SUBSET R : G[T] \in Int
    BY <1>1, SumsExist DEF G
  <1>4. S \subseteq R /\ x \in R /\ R \ {x} = S
    BY DEF R
  <1>5. G[R] = g[x].size + G[R \ {x}]
    BY <1>1, <1>3, <1>4, SumTakesAny
  <1>6. G[S] = F[S]
    BY <1>2, <1>3, <1>4, SumsAgree
  <1> QED BY <1>4, <1>5, <1>6 DEF R, F, G

-----------------------------------------------------------------------------
(* LeakDetector. *)

Sized == [size : Sizes, isArray : BOOLEAN]

\* LeakInv, and that nothing has been reported while new and delete are called.
LeakIInv ==
  /\ DOMAIN block \subseteq Chunks /\ block \in [DOMAIN block -> Sized]
  /\ DOMAIN next = Leak!Nodes /\ DOMAIN prevBlock = Leak!Nodes
  /\ \A n \in Leak!Nodes : next[n] \in Chunks \union {root, Null}
  /\ \A n \in Leak!Nodes : prevBlock[n] \in Chunks \union {root, Null}
  /\ callCnt \in 0 .. Units /\ exiting \in BOOLEAN /\ reported \subseteq DOMAIN block
  /\ Leak!PredecessorIsRoot
  /\ status = "running" => reported = {}

Total == _memory_allocated = Sums(block, DOMAIN block)[DOMAIN block]

\* What the assumption of the detector says.
LEMMA Detector ==
  /\ IsFiniteSet(Chunks) /\ root \notin Chunks /\ Null \notin Chunks /\ Null # root
  /\ Sizes \subseteq Nat /\ Units \in Nat \ {0}
  <1>1. Leak!IsFiniteSet(Chunks) => IsFiniteSet(Chunks)
    BY DEF Leak!IsFiniteSet, IsFiniteSet
  <1> QED BY <1>1, DetectorAssumption DEF Leak!DetectorAssumption

\* What the run checks follows.
LEMMA LeakTypes == LeakIInv /\ Total => LeakInv
  <1> SUFFICES ASSUME LeakIInv, Total PROVE LeakInv
    OBVIOUS
  <1>1. block \in UNION {[B -> Sized] : B \in SUBSET Chunks}
    BY DEF LeakIInv
  <1>2. Leak!TypeOK
    BY <1>1 DEF LeakIInv, Leak!TypeOK, Sized, Leak!Live
  <1> QED BY <1>2, TotalIsSum DEF LeakIInv, LeakInv, Leak!LeakInv, Total

\* The blocks are finitely many and their sizes numbers.
LEMMA BlocksAreFew ==
  ASSUME LeakIInv
  PROVE  IsFiniteSet(DOMAIN block) /\ \A b \in DOMAIN block : block[b].size \in Nat
  BY Detector, FS_Subset DEF LeakIInv, Sized

\* new adds a block behind the root, and its size to the total.
LEMMA NewKeeps ==
  ASSUME LeakIInv, Total, NEW size \in Sizes, NEW array \in BOOLEAN,
         Leak!AllocateMemory(size, array)
  PROVE  LeakIInv' /\ Total'
  <1>1. PICK new \in Chunks \ Leak!Live :
          /\ next' = Leak!Assign(Leak!Assign(next, new, next[root]), root, new)
          /\ prevBlock' = Leak!Assign(prevBlock, new, root)
          /\ block' = Leak!Assign(block, new, [size |-> size, isArray |-> array])
    BY DEF Leak!AllocateMemory, Leak!Before
  <1>2. /\ _memory_allocated' = _memory_allocated + size
        /\ UNCHANGED <<callCnt, exiting, reported, status>> /\ status = "running"
    BY DEF Leak!AllocateMemory
  <1>3. /\ new \in Chunks /\ new \notin DOMAIN block /\ new # root
        /\ DOMAIN block' = DOMAIN block \union {new}
        /\ block'[new] = [size |-> size, isArray |-> array]
        /\ \A b \in DOMAIN block : block'[b] = block[b]
        /\ block' = [b \in DOMAIN block' |-> block'[b]]
    BY <1>1, Detector DEF Leak!Assign, Leak!Live
  <1>4. block' \in [DOMAIN block' -> Sized]
    <2>1. [size |-> size, isArray |-> array] \in Sized
      BY DEF Sized
    <2>2. \A b \in DOMAIN block' : block'[b] \in Sized
      BY <1>3, <2>1 DEF LeakIInv
    <2> QED BY <1>3, <2>2
  <1>5. Leak!Nodes = DOMAIN block \union {root} /\ Leak!Nodes' = DOMAIN block \union {new, root}
    BY <1>3 DEF Leak!Nodes, Leak!Live
  <1>6. /\ DOMAIN next' = Leak!Nodes'
        /\ \A n \in Leak!Nodes' : next'[n] \in Chunks \union {root, Null}
    BY <1>1, <1>3, <1>5 DEF LeakIInv, Leak!Assign
  <1>7. /\ DOMAIN prevBlock' = Leak!Nodes'
        /\ prevBlock'[new] = root /\ \A n \in Leak!Nodes : prevBlock'[n] = prevBlock[n]
    BY <1>1, <1>3, <1>5 DEF LeakIInv, Leak!Assign
  <1>8. LeakIInv'
    BY <1>2, <1>3, <1>4, <1>5, <1>6, <1>7 DEF LeakIInv, Leak!PredecessorIsRoot, Leak!Live
  <1>9. Total'
    <2>1. block'[new].size = size /\ size \in Int
      BY <1>3, Detector
    <2>2. \A b \in DOMAIN block : block[b].size \in Int /\ block'[b].size = block[b].size
      BY <1>3, BlocksAreFew
    <2> DEFINE D == DOMAIN block
               f == block
               g == block'
    <2>3. IsFiniteSet(D) /\ new \notin D
      BY <1>3, BlocksAreFew
    <2>4. \A b \in D : f[b].size \in Int /\ g[b].size = f[b].size
      BY <2>2
    <2>5. g[new].size = size /\ DOMAIN g = D \union {new}
      BY <1>3, <2>1
    <2> HIDE DEF D, f, g
    <2>6. Sums(g, D \union {new})[D \union {new}] = g[new].size + Sums(f, D)[D]
      BY <2>1, <2>3, <2>4, <2>5, SumAdds
    <2>7. Sums(f, D)[D] \in Int
      BY <2>3, <2>4, SumsExist
    <2>8. _memory_allocated = Sums(f, D)[D]
      BY DEF Total, D, f
    <2>9. _memory_allocated' = Sums(g, DOMAIN g)[DOMAIN g]
      BY <1>2, <2>1, <2>5, <2>6, <2>7, <2>8
    <2> QED BY <2>9 DEF Total, g
  <1> QED BY <1>8, <1>9

\* delete takes a block and its size away, and a neighbour out of the list at most.
LEMMA DeleteKeeps ==
  ASSUME LeakIInv, Total, NEW b \in Leak!Live, NEW array \in BOOLEAN,
         Leak!DeleteMemory(b, array)
  PROVE  LeakIInv' /\ Total'
  <1>1. /\ prevBlock[b] \in Leak!Nodes /\ next[b] \in Leak!Nodes
        /\ next' = Leak!Kept(Leak!Assign(next, prevBlock[b], next[b]), b)
        /\ prevBlock' = Leak!Kept(Leak!Assign(prevBlock, next[b], prevBlock[b]), b)
        /\ block' = [c \in DOMAIN block \ {b} |-> block[c]]
        /\ _memory_allocated' = _memory_allocated - block[b].size
        /\ UNCHANGED <<callCnt, exiting, reported, status>> /\ status = "running"
    BY DEF Leak!DeleteMemory, Leak!Linked, Leak!Remaining, Leak!Live
  <1>2. b \in DOMAIN block /\ b \in Chunks /\ b # root
    BY Detector DEF LeakIInv, Leak!Live
  <1>3. /\ Leak!Nodes = DOMAIN block \union {root} /\ DOMAIN block' = DOMAIN block \ {b}
        /\ Leak!Nodes' = Leak!Nodes \ {b}
    BY <1>1, <1>2 DEF Leak!Nodes, Leak!Live
  <1>4. block' \in [DOMAIN block' -> Sized]
    BY <1>1, <1>3 DEF LeakIInv
  <1>5. /\ DOMAIN next' = Leak!Nodes'
        /\ \A n \in Leak!Nodes' : next'[n] \in Chunks \union {root, Null}
    BY <1>1, <1>2, <1>3 DEF LeakIInv, Leak!Assign, Leak!Kept
  <1>6. prevBlock[b] = root
    BY DEF LeakIInv, Leak!PredecessorIsRoot
  <1>7. /\ DOMAIN prevBlock' = Leak!Nodes'
        /\ \A n \in Leak!Nodes' : prevBlock'[n] \in {prevBlock[n], root}
    BY <1>1, <1>3, <1>6 DEF LeakIInv, Leak!Assign, Leak!Kept
  <1>8. LeakIInv'
    <2>1. \A n \in Leak!Nodes' : prevBlock'[n] \in Chunks \union {root, Null}
      BY <1>3, <1>7 DEF LeakIInv
    <2>2. Leak!PredecessorIsRoot'
      BY <1>3, <1>7 DEF LeakIInv, Leak!PredecessorIsRoot, Leak!Live
    <2> QED BY <1>1, <1>3, <1>4, <1>5, <1>7, <2>1, <2>2 DEF LeakIInv
  <1>9. Total'
    <2> DEFINE D == DOMAIN block \ {b}
               f == block'
               g == block
    <2>1. IsFiniteSet(D) /\ b \notin D /\ DOMAIN g = D \union {b} /\ DOMAIN f = D
      BY <1>2, <1>3, BlocksAreFew, FS_Subset
    <2>2. /\ \A c \in D : f[c].size \in Int /\ g[c].size = f[c].size
          /\ g[b].size \in Int
      BY <1>1, <1>2, BlocksAreFew
    <2>3. _memory_allocated = Sums(g, DOMAIN g)[DOMAIN g] /\ _memory_allocated' = _memory_allocated - g[b].size
      BY <1>1 DEF Total
    <2> HIDE DEF D, f, g
    <2>4. Sums(g, D \union {b})[D \union {b}] = g[b].size + Sums(f, D)[D]
      BY <2>1, <2>2, SumAdds
    <2>5. Sums(f, D)[D] \in Int
      BY <2>1, <2>2, SumsExist
    <2>6. _memory_allocated' = Sums(f, DOMAIN f)[DOMAIN f]
      BY <2>1, <2>2, <2>3, <2>4, <2>5
    <2> QED BY <2>6 DEF Total, f
  <1> QED BY <1>8, <1>9

\* Every step keeps both.
LEMMA LeakStep ==
  ASSUME LeakIInv, Total, [MCNext]_<<pool, detector, program>>
  PROVE  LeakIInv' /\ Total'
  <1>1. CASE UNCHANGED <<next, prevBlock, block, _memory_allocated, callCnt, exiting, reported, status>>
    BY <1>1 DEF LeakIInv, Total, Leak!Nodes, Leak!Live, Leak!PredecessorIsRoot
  <1>2. CASE Leak!Next
    <2>1. CASE \E size \in Sizes, array \in BOOLEAN : Leak!AllocateMemory(size, array)
      BY <2>1, NewKeeps
    <2>2. CASE \E b \in Leak!Live, array \in BOOLEAN : Leak!DeleteMemory(b, array)
      BY <2>2, DeleteKeeps
    <2>3. CASE \E b \in Leak!Live, array \in BOOLEAN : Leak!Mismatch(b, array)
      BY <1>1, <2>3 DEF Leak!Mismatch, Leak!vars, Leak!list
    <2>4. ASSUME UNCHANGED <<next, prevBlock, block, _memory_allocated>>,
                 callCnt' \in 0 .. Units, exiting' \in BOOLEAN, reported' \subseteq DOMAIN block,
                 status' = "running" => reported' = {}
          PROVE  LeakIInv' /\ Total'
      BY <2>4 DEF LeakIInv, Total, Leak!Nodes, Leak!Live, Leak!PredecessorIsRoot
    <2>5. CASE \E b \in Leak!Live, array \in BOOLEAN : Leak!DeleteUnlinked(b, array)
      <3>1. /\ UNCHANGED <<next, prevBlock, block, _memory_allocated, callCnt, exiting, reported>>
            /\ status' # "running"
        BY <2>5 DEF Leak!DeleteUnlinked, Leak!list
      <3> QED BY <2>4, <3>1 DEF LeakIInv
    <2>6. CASE Leak!UnitStarts
      <3>1. /\ UNCHANGED <<next, prevBlock, block, _memory_allocated, exiting, reported, status>>
            /\ callCnt < Units /\ callCnt' = callCnt + 1
        BY <2>6 DEF Leak!UnitStarts, Leak!list
      <3>2. callCnt' \in 0 .. Units
        BY <3>1, Detector DEF LeakIInv
      <3> QED BY <2>4, <3>1, <3>2 DEF LeakIInv
    <2>7. CASE Leak!UnitEnds
      <3>1. /\ UNCHANGED <<next, prevBlock, block, _memory_allocated>>
            /\ callCnt > 0 /\ callCnt' = callCnt - 1 /\ exiting' = TRUE
            /\ \/ UNCHANGED <<reported, status>>
               \/ reported' \subseteq DOMAIN block /\ status' # "running"
        BY <2>7 DEF Leak!UnitEnds, Leak!list, Leak!Live
      <3>2. callCnt' \in 0 .. Units
        BY <3>1, Detector DEF LeakIInv
      <3> QED BY <2>4, <3>1, <3>2 DEF LeakIInv
    <2> QED BY <1>2, <2>1, <2>2, <2>3, <2>5, <2>6, <2>7 DEF Leak!Next
  <1> QED BY <1>1, <1>2 DEF MCNext, detector

\* There is only the root, which has no size.
LEMMA LeakInitially == ASSUME MCInit PROVE LeakIInv /\ Total
  <1>1. /\ next = [n \in {root} |-> Null] /\ prevBlock = [n \in {root} |-> Null]
        /\ block = [b \in {} |-> Null] /\ _memory_allocated = 0
        /\ callCnt = 0 /\ exiting = FALSE /\ reported = {}
    BY DEF MCInit, Leak!Init
  <1>2. DOMAIN block = {} /\ Leak!Nodes = {root} /\ Leak!Live = {}
    BY <1>1 DEF Leak!Nodes, Leak!Live
  <1>3. LeakIInv
    <2>1. DOMAIN block \subseteq Chunks /\ block \in [DOMAIN block -> Sized]
      BY <1>1, <1>2
    <2>2. /\ DOMAIN next = {root} /\ DOMAIN prevBlock = {root}
          /\ next[root] = Null /\ prevBlock[root] = Null
      BY <1>1
    <2>3. callCnt \in 0 .. Units /\ exiting \in BOOLEAN /\ reported \subseteq DOMAIN block
      <3>1. 0 \in 0 .. Units
        BY Detector
      <3>2. exiting \in BOOLEAN
        BY <1>1
      <3> QED BY <1>1, <3>1, <3>2
    <2> QED BY <1>1, <1>2, <2>1, <2>2, <2>3 DEF LeakIInv, Leak!PredecessorIsRoot
  <1>4. SumsUp(Sums(block, {}), block, {})
    BY FS_EmptySet, SumsExist
  <1>5. Sums(block, {})[{}] = 0
    BY <1>4 DEF SumsUp
  <1> QED BY <1>1, <1>2, <1>3, <1>5 DEF Total

\* Whatever is allocated and deleted in whatever order, the total is that of the
\* live blocks and no block but the root is anybody's predecessor.
THEOREM LeakInvariant == MCSpec => []LeakInv
  <1>1. MCInit => LeakIInv /\ Total
    BY LeakInitially
  <1>2. LeakIInv /\ Total /\ [MCNext]_<<pool, detector, program>> => LeakIInv' /\ Total'
    BY LeakStep
  <1> QED BY <1>1, <1>2, LeakTypes, PTL DEF MCSpec
=============================================================================
