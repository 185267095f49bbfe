--------------------------- MODULE SlabRingProofs ---------------------------
(***************************************************************************)
(* One direction of the shared-memory data plane owns every slab exactly   *)
(* once, keeps payloads intact, never accuses a correct reader, and is a   *)
(* bounded FIFO: for every ring capacity, cursor width, set of slabs and   *)
(* set of payloads.                                                        *)
(***************************************************************************)
EXTENDS SlabRing, TLAPS

-----------------------------------------------------------------------------
(* The inductive invariant.                                                *)

\* 1 while a frame is published whose slab the writer has not recorded yet.
Pending == IF wpc = "record" THEN 1 ELSE 0

\* The sequence before c, and the sequences whose slab the handle table has.
Prev(c) == IF c = 0 THEN W - 1 ELSE c - 1
Recorded(c) == Dist(c, lastReclaimed) < Dist(tail, lastReclaimed) - Pending

\* lastReclaimed, head and tail follow one another round the ring, at most Cap apart; a frame
\* pushed and not recorded may make the way from lastReclaimed to the tail one longer.
CursorsInOrder ==
    /\ Dist(tail, lastReclaimed) = Dist(head, lastReclaimed) + Dist(tail, head)
    /\ Dist(tail, head) <= Cap
    /\ Dist(tail, lastReclaimed) <= Cap + Pending
    /\ wpc = "record" => tail # lastReclaimed
    /\ wpc = "store" => Dist(tail, head) < Cap

\* A slab in the handle table belongs to a recorded sequence, and a frame in flight that is
\* recorded has its slab there.
HandlesHeld ==
    \A i \in SlotIndex : handleTable[i] # Nil => \E c \in Cursor : Slot(c) = i /\ Recorded(c)
HandlesMatch == \A c \in InFlight : Recorded(c) => handleTable[Slot(c)] = slots[Slot(c)].slab

\* The slot being published holds the frame in hand, before its tail store and after it.
FrameInHand ==
    /\ wpc = "store" => slots[Slot(tail)] = Frame
    /\ wpc = "record" /\ head # tail => slots[Slot(Prev(tail))] = Frame

\* The intent in hand has a slab only once it is built, and the slab then holds its payload.
CarryInHand ==
    /\ carry.st # "built" => carry.slab = Nil
    /\ carry.st = "none" => carry.val = Nil
    /\ carry.slab # Nil => mem[carry.slab] = carry.val
    /\ carry.st = "built" /\ carry.slab = Nil => carry.val = Nil
    /\ wpc \in {"gate", "push", "store", "record"} /\ lane = "data" => carry.st = "built"

\* A frame in flight either names a slab that is not free and holds its payload, or is empty.
FramesIntact ==
    \A c \in InFlight :
        /\ slots[Slot(c)].slab # Nil => /\ slots[Slot(c)].slab \notin free
                                        /\ mem[slots[Slot(c)].slab] = slots[Slot(c)].val
        /\ slots[Slot(c)].slab = Nil => slots[Slot(c)].val = Nil

\* The reader has the descriptor at the head in hand.
ReaderInHand == cpc \in {"read", "consume"} => head # tail /\ desc = slots[Slot(head)]

\* A free list f, a handle table t and an intent's slab h own every slab exactly once.
Owners(f, t, h) ==
    /\ \A s \in Slabs : s \in f \/ h = s \/ \E i \in SlotIndex : t[i] = s
    /\ \A i \in SlotIndex : t[i] # Nil => t[i] \notin f /\ t[i] # h
    /\ \A i, j \in SlotIndex : t[i] = t[j] /\ i # j => t[i] = Nil
    /\ h # Nil => h \notin f
OwnedOnce == Owners(free, handleTable, carry.slab)

IInv == /\ TypeOK /\ CursorsInOrder /\ HandlesHeld /\ HandlesMatch /\ FrameInHand /\ CarryInHand
        /\ FramesIntact /\ ReaderInHand /\ OwnedOnce /\ NoFalsePoison

-----------------------------------------------------------------------------
(* Cursor arithmetic.                                                      *)

\* Quotient and remainder.
LEMMA DivMod ==
    ASSUME NEW n \in Nat, n > 0, NEW x \in Int
    PROVE  /\ x % n \in 0 .. n - 1
           /\ (x \div n) \in Int
           /\ x = n * (x \div n) + (x % n)
OBVIOUS

\* Zero is the only multiple of n strictly between -n and n.
LEMMA NoMultiple ==
    ASSUME NEW n \in Nat, n > 0, NEW k \in Int, n * k < n, n * k > 0 - n
    PROVE  k = 0
<1>1. CASE k >= 1
    <2>1. n * k >= n
        BY <1>1
    <2>2. QED
        BY <2>1
<1>2. CASE k <= 0 - 1
    <2>1. n * k <= 0 - n
        BY <1>2
    <2>2. QED
        BY <2>1
<1>3. QED
    BY <1>1, <1>2

\* The remainder of a number below 2n.
LEMMA ModOnce ==
    ASSUME NEW n \in Nat, n > 0, NEW x \in 0 .. 2 * n - 1
    PROVE  x % n = IF x < n THEN x ELSE x - n
OBVIOUS

\* Two numbers closer than n with the same remainder are equal.
LEMMA SameResidue ==
    ASSUME NEW n \in Nat, n > 0, NEW x \in Int, NEW y \in Int, x % n = y % n,
           x - y < n, y - x < n
    PROVE  x = y
<1>1. PICK k \in Int : x - y = n * k
    <2>1. x = n * (x \div n) + (x % n) /\ y = n * (y \div n) + (y % n)
          /\ x \div n \in Int /\ y \div n \in Int
        BY DivMod
    <2>2. x - y = n * ((x \div n) - (y \div n))
        BY <2>1
    <2>3. QED
        BY <2>1, <2>2
<1>2. k = 0
    BY <1>1, NoMultiple
<1>3. QED
    BY <1>1, <1>2

\* Adding a multiple of n keeps the remainder.
LEMMA ModPlus ==
    ASSUME NEW n \in Nat, n > 0, NEW x \in Int, NEW m \in Int, m % n = 0
    PROVE  (x + m) % n = x % n
<1>1. m = n * (m \div n) /\ m \div n \in Int
    BY DivMod
<1>2. PICK k \in Int : m = n * k
    BY <1>1
<1> DEFINE a == (x + m) % n
           b == x % n
<1>3. /\ a \in 0 .. n - 1 /\ b \in 0 .. n - 1
      /\ (x + m) \div n \in Int /\ x \div n \in Int
      /\ x + m = n * ((x + m) \div n) + a /\ x = n * (x \div n) + b
    BY DivMod
<1> HIDE DEF a, b
<1>4. PICK p \in Int, q \in Int : x + m = n * p + a /\ x = n * q + b
    BY <1>3
<1>5. a - b = n * (k + q - p)
    BY <1>2, <1>3, <1>4
<1>6. k + q - p = 0
    BY <1>3, <1>5, NoMultiple
<1>7. QED
    BY <1>3, <1>5, <1>6 DEF a, b

\* Two cursors closer than the capacity use different slots (the capacity mask of internal/ring).
LEMMA SlotsApart ==
    ASSUME NEW c \in Cursor, NEW d \in Cursor, Slot(c) = Slot(d), Dist(c, d) < Cap
    PROVE  c = d
<1>1. W \in Nat /\ Cap \in Nat /\ Cap > 0 /\ W % Cap = 0 /\ c \in 0 .. W - 1 /\ d \in 0 .. W - 1
    BY SlabRingAssumption DEF Cursor
<1>2. CASE d <= c
    BY <1>1, <1>2, SameResidue DEF Dist, Slot
<1>3. CASE c < d
    <2>1. (c + W) % Cap = d % Cap
        <3>1. c \in Int /\ W \in Int /\ Cap \in Nat /\ Cap > 0 /\ W % Cap = 0
            BY <1>1
        <3>2. (c + W) % Cap = c % Cap
            BY ONLY <3>1, ModPlus
        <3>3. QED
            BY <3>2 DEF Slot
    <2>2. c + W = d
        <3> DEFINE e == c + W
        <3>1. e \in Int /\ d \in Int /\ e - d < Cap /\ d - e < Cap
            BY <1>1, <1>3 DEF Dist
        <3>2. e % Cap = d % Cap
            BY <2>1
        <3> HIDE DEF e
        <3>3. e = d
            BY <1>1, <3>1, <3>2, SameResidue
        <3>4. QED
            BY <3>3 DEF e
    <2>3. QED
        BY <1>1, <2>2
<1>4. QED
    BY <1>1, <1>2, <1>3

\* Distances of cursors, and what a step of a cursor does to them.
LEMMA DistFacts ==
    ASSUME NEW c \in Cursor, NEW d \in Cursor
    PROVE  /\ Dist(c, d) \in 0 .. W - 1
           /\ Dist(c, d) = 0 <=> c = d
           /\ Slot(c) \in SlotIndex
<1>1. W \in Nat /\ Cap \in Nat /\ Cap > 0 /\ c \in 0 .. W - 1 /\ d \in 0 .. W - 1
    BY SlabRingAssumption DEF Cursor
<1>2. Slot(c) \in SlotIndex
    BY <1>1, DivMod DEF Slot, SlotIndex
<1>3. QED
    BY <1>1, <1>2 DEF Dist

LEMMA IncFacts ==
    ASSUME NEW c \in Cursor, NEW d \in Cursor
    PROVE  /\ Inc(c) \in Cursor /\ Prev(c) \in Cursor
           /\ Prev(Inc(c)) = c /\ Inc(Prev(c)) = c /\ Inc(c) # c
           /\ Dist(c, d) + 1 < W => Dist(Inc(c), d) = Dist(c, d) + 1
           /\ c # d => Dist(c, Inc(d)) = Dist(c, d) - 1
           /\ c # d => Dist(Prev(c), d) = Dist(c, d) - 1
           /\ Dist(d, Prev(d)) = 1
<1>1. W \in Nat /\ W > 2 /\ c \in 0 .. W - 1 /\ d \in 0 .. W - 1
    BY SlabRingAssumption DEF Cursor
<1>2. QED
    BY <1>1 DEF Dist, Inc, Prev, Cursor

\* Distances from a common origin compare and subtract.
LEMMA DistSplit ==
    ASSUME NEW a \in Cursor, NEW b \in Cursor, NEW o \in Cursor
    PROVE  /\ Dist(b, o) <= Dist(a, o) => Dist(a, b) = Dist(a, o) - Dist(b, o)
           /\ Dist(b, o) > Dist(a, o) => Dist(a, b) = Dist(a, o) - Dist(b, o) + W
<1>1. W \in Nat /\ a \in 0 .. W - 1 /\ b \in 0 .. W - 1 /\ o \in 0 .. W - 1
    BY SlabRingAssumption DEF Cursor
<1>2. QED
    BY <1>1 DEF Dist

LEMMA SameDist ==
    ASSUME NEW a \in Cursor, NEW b \in Cursor, NEW o \in Cursor, Dist(a, o) = Dist(b, o)
    PROVE  a = b
<1>1. W \in Nat /\ a \in 0 .. W - 1 /\ b \in 0 .. W - 1 /\ o \in 0 .. W - 1
    BY SlabRingAssumption DEF Cursor
<1>2. QED
    BY <1>1 DEF Dist

\* Two sequences counted from a common origin use the same slot only if they are the same, when
\* they are less than the capacity apart.
LEMMA SlotsApartFrom ==
    ASSUME NEW a \in Cursor, NEW b \in Cursor, NEW o \in Cursor, Slot(a) = Slot(b),
           Dist(a, o) - Dist(b, o) < Cap, Dist(b, o) - Dist(a, o) < Cap
    PROVE  a = b
<1>1. Dist(a, o) \in Int /\ Dist(b, o) \in Int
    BY DistFacts
<1>2. CASE Dist(b, o) <= Dist(a, o)
    BY <1>1, <1>2, DistSplit, SlotsApart
<1>3. CASE Dist(a, o) < Dist(b, o)
    BY <1>1, <1>3, DistSplit, SlotsApart
<1>4. QED
    BY <1>1, <1>2, <1>3

\* Counted from lastReclaimed, the sequences in flight are those from the head to the tail.
LEMMA InFlightOffset ==
    ASSUME TypeOK, CursorsInOrder, NEW c \in Cursor
    PROVE  /\ c \in InFlight <=> /\ Dist(head, lastReclaimed) <= Dist(c, lastReclaimed)
                                 /\ Dist(c, lastReclaimed) < Dist(tail, lastReclaimed)
           /\ c \in InFlight => Dist(c, head) = Dist(c, lastReclaimed) - Dist(head, lastReclaimed)
<1>1. /\ tail \in Cursor /\ head \in Cursor /\ lastReclaimed \in Cursor /\ W \in Nat
      /\ Dist(tail, lastReclaimed) = Dist(head, lastReclaimed) + Dist(tail, head)
    BY SlabRingAssumption DEF TypeOK, CursorsInOrder
<1>2. /\ Dist(tail, lastReclaimed) \in 0 .. W - 1 /\ Dist(head, lastReclaimed) \in 0 .. W - 1
      /\ Dist(c, lastReclaimed) \in 0 .. W - 1 /\ Dist(tail, head) \in 0 .. W - 1
    BY <1>1, DistFacts
<1>3. /\ Dist(head, lastReclaimed) <= Dist(c, lastReclaimed)
           => Dist(c, head) = Dist(c, lastReclaimed) - Dist(head, lastReclaimed)
      /\ Dist(head, lastReclaimed) > Dist(c, lastReclaimed)
           => Dist(c, head) = Dist(c, lastReclaimed) - Dist(head, lastReclaimed) + W
    BY <1>1, DistSplit
<1>4. c \in InFlight <=> Dist(c, head) < Dist(tail, head)
    BY DEF InFlight
<1>5. QED
    BY <1>1, <1>2, <1>3, <1>4

-----------------------------------------------------------------------------
(* Reclaim.                                                                *)

\* The head is never further ahead than reclaim allows: Cap, or Cap + 1 right after a push.
LEMMA ReclaimInBounds ==
    ASSUME TypeOK, CursorsInOrder, NEW max \in Int, Cap + Pending <= max
    PROVE  ReclaimBounds(max)
<1>1. /\ Dist(tail, lastReclaimed) = Dist(head, lastReclaimed) + Dist(tail, head)
      /\ Dist(tail, head) <= Cap /\ Dist(tail, lastReclaimed) <= Cap + Pending
    BY DEF CursorsInOrder
<1>2. tail \in Cursor /\ head \in Cursor /\ lastReclaimed \in Cursor
    BY DEF TypeOK
<1>3. Dist(tail, head) \in Nat /\ Dist(head, lastReclaimed) \in Nat
    BY <1>2, DistFacts, SlabRingAssumption
<1>4. Cap \in Int /\ Pending \in Int
    BY SlabRingAssumption DEF Pending
<1>5. QED
    BY <1>1, <1>3, <1>4 DEF ReclaimBounds

\* A recorded sequence still in flight is not in a slot the head has passed.
LEMMA RecordedNotPassed ==
    ASSUME TypeOK, CursorsInOrder, NEW c \in InFlight, Recorded(c)
    PROVE  Slot(c) \notin Passed
<1>1. /\ c \in Cursor /\ tail \in Cursor /\ head \in Cursor /\ lastReclaimed \in Cursor
      /\ Dist(head, lastReclaimed) <= Dist(c, lastReclaimed)
    BY InFlightOffset DEF InFlight, TypeOK
<1>2. Cap \in Int /\ Pending \in Int
    BY SlabRingAssumption DEF Pending
<1>3. /\ Dist(tail, lastReclaimed) \in Nat /\ Dist(c, lastReclaimed) \in Nat
      /\ Dist(head, lastReclaimed) \in Nat
    BY <1>1, DistFacts, SlabRingAssumption
<1>4. Dist(c, lastReclaimed) < Cap
    BY <1>2, <1>3 DEF Recorded, CursorsInOrder
<1>5. SUFFICES ASSUME NEW p \in Cursor, Slot(p) = Slot(c),
                      Dist(p, lastReclaimed) < Dist(head, lastReclaimed)
               PROVE  FALSE
    BY DEF Passed
<1>6. Dist(p, lastReclaimed) \in Nat
    BY <1>1, DistFacts, SlabRingAssumption
<1>7. p = c
    BY <1>1, <1>2, <1>3, <1>4, <1>5, <1>6, SlotsApartFrom
<1>8. QED
    BY <1>1, <1>3, <1>5, <1>7

\* After reclaim, what the handle table has is unreleased and unpassed.
LEMMA ReclaimHandles ==
    ASSUME TypeOK, CursorsInOrder, HandlesHeld, HandlesMatch, NEW max \in Int, ReclaimBounds(max)
    PROVE  /\ \A i \in SlotIndex : TableAfter(max)[i] # Nil =>
                  \E c \in Cursor : Slot(c) = i /\ Dist(c, head) < Dist(tail, head) - Pending
           /\ \A c \in InFlight : Dist(c, head) < Dist(tail, head) - Pending =>
                  TableAfter(max)[Slot(c)] = slots[Slot(c)].slab
<1>1. tail \in Cursor /\ head \in Cursor /\ lastReclaimed \in Cursor /\ Pending \in Int
    BY DEF TypeOK, Pending
<1>2. /\ Dist(tail, lastReclaimed) \in Nat /\ Dist(head, lastReclaimed) \in Nat
      /\ Dist(tail, head) \in Nat
      /\ Dist(tail, lastReclaimed) = Dist(head, lastReclaimed) + Dist(tail, head)
    BY <1>1, DistFacts, SlabRingAssumption DEF CursorsInOrder
<1>3. \A i \in SlotIndex : TableAfter(max)[i] = IF i \in Passed THEN Nil ELSE handleTable[i]
    BY DEF TableAfter
<1>4. ASSUME NEW i \in SlotIndex, TableAfter(max)[i] # Nil
      PROVE  \E c \in Cursor : Slot(c) = i /\ Dist(c, head) < Dist(tail, head) - Pending
    <2>1. i \notin Passed /\ handleTable[i] # Nil
        BY <1>3, <1>4
    <2>2. PICK c \in Cursor : Slot(c) = i /\ Recorded(c)
        BY <2>1 DEF HandlesHeld
    <2>3. Dist(c, lastReclaimed) \in Nat
        BY <1>1, DistFacts, SlabRingAssumption
    <2>4. Dist(head, lastReclaimed) <= Dist(c, lastReclaimed)
        BY <1>2, <2>1, <2>2, <2>3 DEF Passed
    <2>5. Dist(c, head) = Dist(c, lastReclaimed) - Dist(head, lastReclaimed)
        BY <1>1, <2>4, DistSplit
    <2>6. Dist(c, head) < Dist(tail, head) - Pending
        BY <1>1, <1>2, <2>2, <2>3, <2>5 DEF Recorded
    <2>7. QED
        BY <2>2, <2>6
<1>5. ASSUME NEW c \in InFlight, Dist(c, head) < Dist(tail, head) - Pending
      PROVE  TableAfter(max)[Slot(c)] = slots[Slot(c)].slab
    <2>1. c \in Cursor /\ Slot(c) \in SlotIndex /\ Dist(c, lastReclaimed) \in Nat
        BY <1>1, DistFacts, SlabRingAssumption DEF InFlight
    <2>2. Dist(c, head) = Dist(c, lastReclaimed) - Dist(head, lastReclaimed)
        BY <2>1, InFlightOffset
    <2>3. Recorded(c)
        BY <1>1, <1>2, <1>5, <2>1, <2>2 DEF Recorded
    <2>4. Slot(c) \notin Passed
        BY <2>3, RecordedNotPassed
    <2>5. QED
        BY <1>3, <2>1, <2>3, <2>4 DEF HandlesMatch
<1>6. QED
    BY <1>4, <1>5

\* Reclaim moves slabs from the handle table to the free list: each keeps exactly one owner.
LEMMA ReclaimOwners ==
    ASSUME TypeOK, OwnedOnce, NEW max \in Int, ReclaimBounds(max)
    PROVE  /\ LastAfter(max) = head /\ FreeAfter(max) \subseteq Slabs
           /\ TableAfter(max) \in [SlotIndex -> SlabRef]
           /\ Owners(FreeAfter(max), TableAfter(max), carry.slab)
<1> DEFINE f == FreeAfter(max)
           t == TableAfter(max)
           h == carry.slab
<1>1. handleTable \in [SlotIndex -> SlabRef] /\ free \subseteq Slabs /\ h \in SlabRef
    BY DEF TypeOK
<1>2. \A i \in SlotIndex : t[i] = IF i \in Passed THEN Nil ELSE handleTable[i]
    BY DEF TableAfter
<1>3. \A s : s \in f <=> s \in free \/ (s # Nil /\ \E i \in Passed : handleTable[i] = s)
    BY DEF FreeAfter
<1>4. Passed \subseteq SlotIndex
    BY DEF Passed
<1>5. t \in [SlotIndex -> SlabRef]
    BY <1>1, <1>2 DEF TableAfter, SlabRef
<1>6. LastAfter(max) = head
    BY DEF LastAfter
<1>7. f \subseteq Slabs
    BY <1>1, <1>3, <1>4 DEF SlabRef
<1>8. /\ \A s \in Slabs : s \in free \/ h = s \/ \E i \in SlotIndex : handleTable[i] = s
      /\ \A i \in SlotIndex : handleTable[i] # Nil => handleTable[i] \notin free /\ handleTable[i] # h
      /\ \A i, j \in SlotIndex : handleTable[i] = handleTable[j] /\ i # j => handleTable[i] = Nil
      /\ h # Nil => h \notin free
    BY DEF OwnedOnce, Owners
<1> HIDE DEF f, t, h
<1>9. ASSUME NEW s \in Slabs PROVE s \in f \/ h = s \/ \E i \in SlotIndex : t[i] = s
    BY <1>2, <1>3, <1>8, SlabRingAssumption
<1>10. ASSUME NEW i \in SlotIndex, t[i] # Nil PROVE t[i] \notin f /\ t[i] # h
    <2>1. i \notin Passed /\ t[i] = handleTable[i] /\ handleTable[i] # Nil
        BY <1>2, <1>10
    <2>2. \A j \in Passed : handleTable[j] # handleTable[i]
        BY <1>4, <1>8, <2>1
    <2>3. QED
        BY <1>3, <1>8, <2>1, <2>2
<1>11. ASSUME NEW i \in SlotIndex, NEW j \in SlotIndex, t[i] = t[j], i # j PROVE t[i] = Nil
    BY <1>2, <1>8, <1>11
<1>12. h # Nil => h \notin f
    BY <1>3, <1>4, <1>8
<1>13. Owners(f, t, h)
    BY <1>9, <1>10, <1>11, <1>12 DEF Owners
<1>14. QED
    BY <1>5, <1>6, <1>7, <1>13 DEF f, t, h

\* Reclaim frees no slab of a frame in flight.
LEMMA ReclaimIntact ==
    ASSUME IInv, NEW max \in Int, ReclaimBounds(max), NEW c \in InFlight, slots[Slot(c)].slab # Nil
    PROVE  slots[Slot(c)].slab \notin FreeAfter(max)
<1>1. TypeOK /\ CursorsInOrder /\ HandlesHeld /\ HandlesMatch /\ FrameInHand /\ CarryInHand /\ OwnedOnce
    BY DEF IInv
<1>2. Owners(FreeAfter(max), TableAfter(max), carry.slab)
    BY <1>1, ReclaimOwners
<1>3. tail \in Cursor /\ head \in Cursor /\ c \in Cursor /\ Dist(c, head) < Dist(tail, head)
    BY <1>1 DEF TypeOK, InFlight
<1>4. Slot(c) \in SlotIndex /\ Dist(c, head) \in Nat /\ Dist(tail, head) \in Nat
    BY <1>3, DistFacts, SlabRingAssumption
<1>5. CASE Dist(c, head) < Dist(tail, head) - Pending
    <2>1. TableAfter(max)[Slot(c)] = slots[Slot(c)].slab
        BY <1>1, <1>5, ReclaimHandles
    <2>2. QED
        BY <1>2, <1>4, <2>1 DEF Owners
<1>6. CASE ~(Dist(c, head) < Dist(tail, head) - Pending)
    <2>1. wpc = "record" /\ Dist(c, head) = Dist(tail, head) - 1 /\ head # tail
        BY <1>3, <1>4, <1>6, DistFacts DEF Pending
    <2>2. Prev(tail) \in Cursor /\ Dist(Prev(tail), head) = Dist(tail, head) - 1
        BY <1>3, <2>1, IncFacts
    <2>3. c = Prev(tail)
        BY <1>3, <2>1, <2>2, SameDist
    <2>4. slots[Slot(c)].slab = carry.slab
        BY <1>1, <2>1, <2>3 DEF FrameInHand, Frame
    <2>5. QED
        BY <1>2, <2>4 DEF Owners
<1>7. QED
    BY <1>5, <1>6

-----------------------------------------------------------------------------
(* Steps that leave the ring and the arena alone.                          *)

\* With the ring, the arena and the handle table unchanged, the frames in flight and their
\* handles stay as they are.
LEMMA RingKept ==
    ASSUME IInv, UNCHANGED <<ringVars, arenaVars, handleTable, lastReclaimed>>, Pending' = Pending
    PROVE  HandlesHeld' /\ HandlesMatch' /\ FramesIntact'
<1>1. tail' = tail /\ head' = head /\ slots' = slots /\ mem' = mem /\ free' = free
      /\ handleTable' = handleTable /\ lastReclaimed' = lastReclaimed
    BY DEF ringVars, arenaVars
<1>2. InFlight' = InFlight
    BY <1>1 DEF InFlight
<1>3. \A c : Recorded(c)' <=> Recorded(c)
    BY <1>1 DEF Recorded
<1>4. HandlesHeld'
    BY <1>1, <1>3 DEF IInv, HandlesHeld
<1>5. HandlesMatch'
    BY <1>1, <1>2, <1>3 DEF IInv, HandlesMatch
<1>6. FramesIntact'
    BY <1>1, <1>2 DEF IInv, FramesIntact
<1>7. QED
    BY <1>4, <1>5, <1>6

LEMMA RetryKeeps == IInv /\ Retry => IInv'
<1> SUFFICES ASSUME IInv, Retry PROVE IInv'
    OBVIOUS
<1>1. HandlesHeld' /\ HandlesMatch' /\ FramesIntact'
    BY RingKept DEF Retry, Pending
<1>2. TypeOK' /\ OwnedOnce' /\ NoFalsePoison'
    BY DEF IInv, Retry, ringVars, arenaVars, readerVars, TypeOK, OwnedOnce, NoFalsePoison
<1>3. CursorsInOrder' /\ ReaderInHand'
    BY DEF IInv, Retry, ringVars, readerVars, CursorsInOrder, Pending, ReaderInHand
<1>4. FrameInHand' /\ CarryInHand'
    BY DEF IInv, Retry, ringVars, arenaVars, FrameInHand, CarryInHand
<1>5. QED
    BY <1>1, <1>2, <1>3, <1>4 DEF IInv

LEMMA AbandonKeeps == IInv /\ Abandon => IInv'
<1> SUFFICES ASSUME IInv, Abandon PROVE IInv'
    OBVIOUS
<1>1. HandlesHeld' /\ HandlesMatch' /\ FramesIntact'
    BY RingKept DEF Abandon, Pending
<1>2. carry' = NoCarry /\ carry'.slab = Nil /\ carry.slab = Nil
    BY DEF IInv, Abandon, CarryInHand, NoCarry
<1>3. TypeOK'
    BY DEF IInv, Abandon, ringVars, arenaVars, readerVars, TypeOK, NoCarry, Contents, SlabRef
<1>4. OwnedOnce' /\ NoFalsePoison'
    BY <1>2 DEF IInv, Abandon, arenaVars, OwnedOnce, NoFalsePoison
<1>5. CursorsInOrder' /\ ReaderInHand'
    BY DEF IInv, Abandon, ringVars, readerVars, CursorsInOrder, Pending, ReaderInHand
<1>6. FrameInHand' /\ CarryInHand'
    BY DEF IInv, Abandon, NoCarry, ringVars, arenaVars, FrameInHand, CarryInHand
<1>7. QED
    BY <1>1, <1>3, <1>4, <1>5, <1>6 DEF IInv

LEMMA EmitLifecycleKeeps == IInv /\ EmitLifecycle => IInv'
<1> SUFFICES ASSUME IInv, EmitLifecycle PROVE IInv'
    OBVIOUS
<1>1. HandlesHeld' /\ HandlesMatch' /\ FramesIntact'
    BY RingKept DEF EmitLifecycle, Pending
<1>2. TypeOK' /\ OwnedOnce' /\ NoFalsePoison'
    BY DEF IInv, EmitLifecycle, ringVars, arenaVars, readerVars, TypeOK, OwnedOnce, NoFalsePoison
<1>3. CursorsInOrder' /\ ReaderInHand'
    BY DEF IInv, EmitLifecycle, ringVars, readerVars, CursorsInOrder, Pending, ReaderInHand
<1>4. FrameInHand' /\ CarryInHand'
    BY DEF IInv, EmitLifecycle, ringVars, arenaVars, FrameInHand, CarryInHand
<1>5. QED
    BY <1>1, <1>2, <1>3, <1>4 DEF IInv

\* A step of the reader that does not move the head, and another goroutine's shutdown.
LEMMA ReaderLooksKeeps ==
    ASSUME IInv, TypeOK', ReaderInHand', UNCHANGED <<ringVars, arenaVars, writerVars, corrupt>>
    PROVE  IInv'
<1>1. HandlesHeld' /\ HandlesMatch' /\ FramesIntact'
    BY RingKept DEF writerVars, Pending
<1>2. OwnedOnce' /\ NoFalsePoison'
    BY DEF IInv, arenaVars, writerVars, OwnedOnce, NoFalsePoison
<1>3. CursorsInOrder'
    BY DEF IInv, ringVars, writerVars, CursorsInOrder, Pending
<1>4. FrameInHand' /\ CarryInHand'
    BY DEF IInv, ringVars, arenaVars, writerVars, FrameInHand, Frame, CarryInHand
<1>5. QED
    BY <1>1, <1>2, <1>3, <1>4 DEF IInv

LEMMA PeekKeeps == IInv /\ Peek => IInv'
<1> SUFFICES ASSUME IInv, Peek PROVE IInv'
    OBVIOUS
<1>1. UNCHANGED <<ringVars, arenaVars, writerVars, corrupt>>
    BY DEF Peek
<1>2. head \in Cursor /\ tail \in Cursor /\ Slot(head) \in SlotIndex
    BY DistFacts DEF IInv, TypeOK
<1>3. slots[Slot(head)] \in Descriptor
    BY <1>2 DEF IInv, TypeOK
<1>4. TypeOK'
    BY <1>1, <1>3 DEF IInv, Peek, TypeOK, ringVars, arenaVars, writerVars
<1>5. Dist(tail, head) \in 1 .. Cap => head # tail
    BY <1>2, DistFacts, SlabRingAssumption
<1>6. ReaderInHand'
    BY <1>5 DEF IInv, Peek, ReaderInHand, ringVars
<1>7. QED
    BY <1>1, <1>4, <1>6, ReaderLooksKeeps

LEMMA FinalGateKeeps == IInv /\ FinalGate => IInv'
<1> SUFFICES ASSUME IInv, FinalGate PROVE IInv'
    OBVIOUS
<1>1. UNCHANGED <<ringVars, arenaVars, writerVars, corrupt>>
    BY DEF FinalGate
<1>2. TypeOK'
    BY <1>1 DEF IInv, FinalGate, TypeOK, ringVars, arenaVars, writerVars
<1>3. ReaderInHand'
    BY DEF IInv, FinalGate, ReaderInHand, ringVars
<1>4. QED
    BY <1>1, <1>2, <1>3, ReaderLooksKeeps

LEMMA TearDownKeeps == IInv /\ TearDown => IInv'
<1> SUFFICES ASSUME IInv, TearDown PROVE IInv'
    OBVIOUS
<1>1. UNCHANGED <<ringVars, arenaVars, writerVars, corrupt>>
    BY DEF TearDown
<1>2. TypeOK'
    BY <1>1 DEF IInv, TearDown, TypeOK, ringVars, arenaVars, writerVars, readerVars
<1>3. ReaderInHand'
    BY DEF IInv, TearDown, ReaderInHand, ringVars, readerVars
<1>4. QED
    BY <1>1, <1>2, <1>3, ReaderLooksKeeps

LEMMA StutterKeeps == IInv /\ UNCHANGED vars => IInv'
<1> SUFFICES ASSUME IInv, UNCHANGED vars PROVE IInv'
    OBVIOUS
<1>1. UNCHANGED <<ringVars, arenaVars, writerVars, corrupt>>
    BY DEF vars
<1>2. TypeOK'
    BY <1>1 DEF IInv, vars, TypeOK, ringVars, arenaVars, writerVars, readerVars
<1>3. ReaderInHand'
    BY DEF IInv, vars, ReaderInHand, ringVars, readerVars
<1>4. QED
    BY <1>1, <1>2, <1>3, ReaderLooksKeeps

-----------------------------------------------------------------------------
(* Dropping the intent in hand.                                            *)

\* A frame in flight that is recorded does not use the slab of the intent in hand.
LEMMA InHandNotInFlight ==
    ASSUME IInv, Pending = 0, NEW c \in InFlight, slots[Slot(c)].slab # Nil
    PROVE  slots[Slot(c)].slab # carry.slab
<1>1. TypeOK /\ CursorsInOrder /\ HandlesMatch /\ OwnedOnce /\ c \in Cursor
    BY DEF IInv, InFlight
<1>2. tail \in Cursor /\ lastReclaimed \in Cursor
    BY <1>1 DEF TypeOK
<1>3. Slot(c) \in SlotIndex /\ Dist(c, lastReclaimed) \in Nat /\ Dist(tail, lastReclaimed) \in Nat
    BY <1>1, <1>2, DistFacts, SlabRingAssumption
<1>4. Dist(c, lastReclaimed) < Dist(tail, lastReclaimed)
    BY <1>1, InFlightOffset
<1>5. handleTable[Slot(c)] = slots[Slot(c)].slab
    BY <1>1, <1>3, <1>4 DEF HandlesMatch, Recorded
<1>6. QED
    BY <1>1, <1>3, <1>5 DEF OwnedOnce, Owners

\* The dropped intent's slab goes back to the free list.
LEMMA DropKeeps ==
    ASSUME IInv, Pending = 0, carry' = NoCarry, free' = free \cup ({carry.slab} \ {Nil}),
           UNCHANGED <<ringVars, mem, handleTable, lastReclaimed>>
    PROVE  FramesIntact' /\ OwnedOnce' /\ free' \subseteq Slabs
<1>1. /\ tail' = tail /\ head' = head /\ slots' = slots /\ mem' = mem /\ handleTable' = handleTable
      /\ carry'.slab = Nil
    BY DEF ringVars, NoCarry
<1>2. InFlight' = InFlight
    BY <1>1 DEF InFlight
<1>3. ASSUME NEW c \in InFlight, slots[Slot(c)].slab # Nil
      PROVE  slots[Slot(c)].slab \notin free'
    BY <1>3, InHandNotInFlight DEF IInv, FramesIntact
<1>4. FramesIntact'
    BY <1>1, <1>2, <1>3 DEF IInv, FramesIntact
<1>5. carry.slab \in SlabRef /\ free \subseteq Slabs /\ handleTable \in [SlotIndex -> SlabRef]
    BY DEF IInv, TypeOK
<1>6. free' \subseteq Slabs
    BY <1>5 DEF SlabRef
<1>7. Owners(free', handleTable, Nil)
    BY <1>5, SlabRingAssumption DEF IInv, OwnedOnce, Owners, SlabRef
<1>8. QED
    BY <1>1, <1>4, <1>6, <1>7 DEF OwnedOnce

LEMMA StopKeeps == IInv /\ Stop => IInv'
<1> SUFFICES ASSUME IInv, Stop PROVE IInv'
    OBVIOUS
<1>1. Pending = 0 /\ Pending' = 0
    BY DEF Stop, Pending
<1>2. FramesIntact' /\ OwnedOnce' /\ free' \subseteq Slabs
    BY <1>1, DropKeeps DEF Stop
<1>3. /\ tail' = tail /\ head' = head /\ slots' = slots /\ handleTable' = handleTable
      /\ lastReclaimed' = lastReclaimed
    BY DEF Stop, ringVars
<1>4. InFlight' = InFlight /\ \A c : Recorded(c)' <=> Recorded(c)
    BY <1>1, <1>3 DEF InFlight, Recorded
<1>5. HandlesHeld' /\ HandlesMatch'
    BY <1>3, <1>4 DEF IInv, HandlesHeld, HandlesMatch
<1>6. TypeOK'
    BY <1>2 DEF IInv, Stop, TypeOK, NoCarry, Contents, SlabRef, ringVars, readerVars
<1>7. CursorsInOrder'
    BY <1>1, <1>3 DEF IInv, Stop, CursorsInOrder
<1>8. FrameInHand' /\ CarryInHand' /\ ReaderInHand' /\ NoFalsePoison'
    BY <1>3 DEF IInv, Stop, FrameInHand, CarryInHand, ReaderInHand, NoFalsePoison, NoCarry,
                readerVars
<1>9. QED
    BY <1>2, <1>5, <1>6, <1>7, <1>8 DEF IInv

LEMMA PrePublishFaultKeeps == IInv /\ PrePublishFault => IInv'
<1> SUFFICES ASSUME IInv, PrePublishFault PROVE IInv'
    OBVIOUS
<1>1. /\ tail' = tail /\ head' = head /\ slots' = slots /\ handleTable' = handleTable /\ mem' = mem
      /\ lastReclaimed' = lastReclaimed /\ lane' = lane /\ wpc = "gate" /\ wpc' \in {"idle", "push"}
    BY DEF PrePublishFault, DropFrame, ringVars
<1>2. Pending = 0 /\ Pending' = 0
    BY <1>1 DEF Pending
<1>3. InFlight' = InFlight /\ \A c : Recorded(c)' <=> Recorded(c)
    BY <1>1, <1>2 DEF InFlight, Recorded
<1>4. HandlesHeld' /\ HandlesMatch'
    BY <1>1, <1>3 DEF IInv, HandlesHeld, HandlesMatch
<1>5. CursorsInOrder'
    BY <1>1, <1>2 DEF IInv, CursorsInOrder
<1>6. FrameInHand' /\ ReaderInHand' /\ NoFalsePoison'
    BY <1>1 DEF IInv, PrePublishFault, FrameInHand, ReaderInHand, NoFalsePoison, readerVars
<1>7. CASE down = 1 /\ lane = "data"
    <2>1. carry' = NoCarry /\ free' = free \cup ({carry.slab} \ {Nil}) /\ wpc' = "idle"
        BY <1>7 DEF PrePublishFault, DropFrame
    <2>2. FramesIntact' /\ OwnedOnce' /\ free' \subseteq Slabs
        BY <1>2, <2>1, DropKeeps DEF PrePublishFault
    <2>3. TypeOK'
        BY <1>1, <2>1, <2>2 DEF IInv, PrePublishFault, TypeOK, NoCarry, Contents, SlabRef, readerVars
    <2>4. CarryInHand'
        BY <1>1, <2>1 DEF CarryInHand, NoCarry
    <2>5. QED
        BY <1>4, <1>5, <1>6, <2>2, <2>3, <2>4 DEF IInv
<1>8. CASE ~(down = 1 /\ lane = "data")
    <2>1. carry' = carry /\ free' = free
        BY <1>8 DEF PrePublishFault, DropFrame
    <2>2. FramesIntact' /\ OwnedOnce'
        BY <1>1, <1>3, <2>1 DEF IInv, FramesIntact, OwnedOnce
    <2>3. TypeOK'
        BY <1>1, <2>1 DEF IInv, PrePublishFault, TypeOK, readerVars
    <2>4. CarryInHand'
        BY <1>1, <2>1 DEF IInv, CarryInHand
    <2>5. QED
        BY <1>4, <1>5, <1>6, <2>2, <2>3, <2>4 DEF IInv
<1>9. QED
    BY <1>7, <1>8

-----------------------------------------------------------------------------
(* Publishing and consuming.                                               *)

\* The slot at the tail of a ring that is not full is no slot of a frame in flight.
LEMMA TailSlotFree ==
    ASSUME TypeOK, NEW c \in InFlight, Dist(tail, head) < Cap
    PROVE  Slot(c) # Slot(tail)
<1>1. tail \in Cursor /\ head \in Cursor /\ c \in Cursor /\ Dist(c, head) < Dist(tail, head)
    BY DEF TypeOK, InFlight
<1>2. Dist(c, head) \in Nat /\ Dist(tail, head) \in Nat /\ Cap \in Nat
    BY <1>1, DistFacts, SlabRingAssumption
<1>3. ASSUME Slot(c) = Slot(tail) PROVE c = tail
    BY <1>1, <1>2, <1>3, SlotsApartFrom
<1>4. QED
    BY <1>1, <1>2, <1>3

LEMMA PushSlotKeeps == IInv /\ PushSlot => IInv'
<1> SUFFICES ASSUME IInv, PushSlot PROVE IInv'
    OBVIOUS
<1>1. /\ tail' = tail /\ head' = head /\ mem' = mem /\ handleTable' = handleTable /\ lane' = lane
      /\ lastReclaimed' = lastReclaimed /\ wpc = "push" /\ cpc' = cpc /\ desc' = desc /\ out' = out
    BY DEF PushSlot, readerVars
<1>2. /\ tail \in Cursor /\ head \in Cursor /\ Cap \in Nat
      /\ Dist(tail, head) \in Nat /\ Dist(tail, head) <= Cap /\ Slot(tail) \in SlotIndex
    BY DistFacts, SlabRingAssumption DEF IInv, TypeOK, CursorsInOrder
<1>3. carry' = carry /\ free' = free /\ down' = down /\ corrupt' = corrupt
    BY <1>2 DEF PushSlot
<1>4. \/ Dist(tail, head) < Cap /\ wpc' = "store" /\ slots' = [slots EXCEPT ![Slot(tail)] = Frame]
      \/ wpc' = "idle" /\ slots' = slots
    BY <1>2 DEF PushSlot
<1>5. Frame \in Descriptor
    BY DEF IInv, TypeOK, Frame, Descriptor, Contents, SlabRef
<1>6. slots' \in [SlotIndex -> Descriptor]
    BY <1>4, <1>5 DEF IInv, TypeOK
<1>7. TypeOK'
    BY <1>1, <1>3, <1>4, <1>6 DEF IInv, TypeOK
<1>8. Pending = 0 /\ Pending' = 0
    BY <1>1, <1>4 DEF Pending
<1>9. InFlight' = InFlight /\ \A c : Recorded(c)' <=> Recorded(c)
    BY <1>1, <1>8 DEF InFlight, Recorded
<1>10. ASSUME NEW c \in InFlight PROVE slots'[Slot(c)] = slots[Slot(c)]
    <2>1. Slot(c) \in SlotIndex
        BY DistFacts DEF InFlight
    <2>2. Dist(tail, head) < Cap => Slot(c) # Slot(tail)
        BY TailSlotFree DEF IInv
    <2>3. QED
        BY <1>4, <2>1, <2>2 DEF IInv, TypeOK
<1>11. HandlesHeld'
    BY <1>1, <1>9 DEF IInv, HandlesHeld
<1>12. HandlesMatch'
    BY <1>1, <1>9, <1>10 DEF IInv, HandlesMatch
<1>13. FramesIntact'
    BY <1>1, <1>3, <1>9, <1>10 DEF IInv, FramesIntact
<1>14. ReaderInHand'
    <2>1. ASSUME head # tail PROVE head \in InFlight
        BY <1>2, <2>1, DistFacts DEF InFlight
    <2>2. QED
        BY <1>1, <1>10, <2>1 DEF IInv, ReaderInHand
<1>15. FrameInHand'
    BY <1>1, <1>2, <1>3, <1>4 DEF IInv, TypeOK, FrameInHand, Frame
<1>16. CursorsInOrder'
    BY <1>1, <1>4, <1>8 DEF IInv, CursorsInOrder
<1>17. CarryInHand' /\ OwnedOnce' /\ NoFalsePoison'
    BY <1>1, <1>3, <1>4 DEF IInv, CarryInHand, OwnedOnce, NoFalsePoison
<1>18. QED
    BY <1>7, <1>11, <1>12, <1>13, <1>14, <1>15, <1>16, <1>17 DEF IInv

\* The tail store puts the frame in hand in flight and nothing else.
LEMMA PushTailKeeps == IInv /\ PushTail => IInv'
<1> SUFFICES ASSUME IInv, PushTail PROVE IInv'
    OBVIOUS
<1>1. /\ tail' = Inc(tail) /\ head' = head /\ slots' = slots /\ mem' = mem /\ free' = free
      /\ handleTable' = handleTable /\ lastReclaimed' = lastReclaimed /\ carry' = carry
      /\ lane' = lane /\ wpc = "store" /\ wpc' = "record" /\ cpc' = cpc /\ desc' = desc
      /\ out' = out /\ down' = down /\ corrupt' = corrupt
    BY DEF PushTail, arenaVars, readerVars
<1>2. /\ tail \in Cursor /\ head \in Cursor /\ lastReclaimed \in Cursor
      /\ Dist(tail, head) \in Nat /\ Dist(head, lastReclaimed) \in Nat
      /\ Dist(tail, lastReclaimed) \in Nat /\ Cap \in Nat /\ W \in Nat /\ Cap + 1 < W
    BY DistFacts, SlabRingAssumption DEF IInv, TypeOK
<1>3. Pending = 0 /\ Pending' = 1
    BY <1>1 DEF Pending
<1>4. /\ Dist(tail, lastReclaimed) = Dist(head, lastReclaimed) + Dist(tail, head)
      /\ Dist(tail, head) < Cap /\ Dist(tail, lastReclaimed) <= Cap
    BY <1>1, <1>2, <1>3 DEF IInv, CursorsInOrder
<1>5. /\ tail' \in Cursor /\ Prev(tail') = tail
      /\ Dist(tail', head) = Dist(tail, head) + 1
      /\ Dist(tail', lastReclaimed) = Dist(tail, lastReclaimed) + 1
    BY <1>1, <1>2, <1>4, IncFacts
<1>6. TypeOK'
    BY <1>1, <1>5 DEF IInv, TypeOK
<1>7. CursorsInOrder'
    <2>1. tail' # lastReclaimed
        BY <1>2, <1>5, DistFacts
    <2>2. QED
        BY <1>1, <1>2, <1>3, <1>4, <1>5, <2>1 DEF CursorsInOrder
<1>8. \A c : Recorded(c)' <=> Recorded(c)
    <2>1. Dist(tail', lastReclaimed) - 1 = Dist(tail, lastReclaimed) - 0
        BY <1>2, <1>5
    <2>2. QED
        BY <1>1, <1>3, <2>1 DEF Recorded
<1>9. ASSUME NEW c \in InFlight' PROVE c \in InFlight \/ (c = tail /\ ~Recorded(c)')
    <2>1. c \in Cursor /\ Dist(c, head) < Dist(tail, head) + 1 /\ Dist(c, head) \in Nat
        BY <1>1, <1>2, <1>5, DistFacts, SlabRingAssumption DEF InFlight
    <2>2. CASE Dist(c, head) < Dist(tail, head)
        BY <2>1, <2>2 DEF InFlight
    <2>3. CASE Dist(c, head) = Dist(tail, head)
        <3>1. c = tail
            BY <1>2, <2>1, <2>3, SameDist
        <3>2. ~Recorded(c)
            BY <1>2, <1>3, <3>1 DEF Recorded
        <3>3. QED
            BY <1>8, <3>1, <3>2
    <2>4. QED
        BY <1>2, <2>1, <2>2, <2>3
<1>10. HandlesHeld'
    BY <1>1, <1>8 DEF IInv, HandlesHeld
<1>11. HandlesMatch'
    BY <1>1, <1>8, <1>9 DEF IInv, HandlesMatch
<1>12. slots[Slot(tail)] = Frame
    BY <1>1 DEF IInv, FrameInHand
<1>13. FramesIntact'
    <2>1. /\ Frame.slab # Nil => Frame.slab \notin free /\ mem[Frame.slab] = Frame.val
          /\ Frame.slab = Nil => Frame.val = Nil
        BY <1>1 DEF IInv, CarryInHand, OwnedOnce, Owners, Frame
    <2>2. QED
        BY <1>1, <1>9, <1>12, <2>1 DEF IInv, FramesIntact
<1>14. FrameInHand'
    BY <1>1, <1>5, <1>12 DEF FrameInHand, Frame
<1>15. ReaderInHand'
    <2>1. head # tail'
        BY <1>2, <1>5, DistFacts
    <2>2. QED
        BY <1>1, <2>1 DEF IInv, ReaderInHand
<1>16. CarryInHand' /\ OwnedOnce' /\ NoFalsePoison'
    BY <1>1 DEF IInv, CarryInHand, OwnedOnce, NoFalsePoison
<1>17. QED
    BY <1>6, <1>7, <1>10, <1>11, <1>13, <1>14, <1>15, <1>16 DEF IInv

\* The head store releases the oldest frame and nothing else.
LEMMA ConsumeKeeps == IInv /\ Consume => IInv'
<1> SUFFICES ASSUME IInv, Consume PROVE IInv'
    OBVIOUS
<1>1. /\ head' = Inc(head) /\ tail' = tail /\ slots' = slots /\ mem' = mem /\ free' = free
      /\ handleTable' = handleTable /\ lastReclaimed' = lastReclaimed /\ carry' = carry
      /\ lane' = lane /\ wpc' = wpc /\ cpc = "consume" /\ cpc' = "peek" /\ desc' = desc
      /\ down' = down /\ corrupt' = corrupt
    BY DEF Consume, arenaVars, writerVars
<1>2. head # tail
    BY <1>1 DEF IInv, ReaderInHand
<1>3. /\ tail \in Cursor /\ head \in Cursor /\ lastReclaimed \in Cursor
      /\ Dist(tail, head) \in Nat /\ Dist(head, lastReclaimed) \in Nat
      /\ Dist(tail, lastReclaimed) \in Nat /\ Cap \in Nat /\ W \in Nat /\ Dist(tail, head) # 0
      /\ Dist(tail, lastReclaimed) < W
    BY <1>2, DistFacts, SlabRingAssumption DEF IInv, TypeOK
<1>4. /\ Dist(tail, lastReclaimed) = Dist(head, lastReclaimed) + Dist(tail, head)
      /\ Dist(tail, head) <= Cap
    BY DEF IInv, CursorsInOrder
<1>5. /\ head' \in Cursor /\ Dist(tail, head') = Dist(tail, head) - 1
      /\ Dist(head', lastReclaimed) = Dist(head, lastReclaimed) + 1
    BY <1>1, <1>2, <1>3, <1>4, IncFacts
<1>6. out' \in Contents
    BY DEF Consume, IInv, TypeOK, Descriptor, SlabRef, Contents
<1>7. TypeOK'
    BY <1>1, <1>5, <1>6 DEF IInv, TypeOK
<1>8. Pending' = Pending
    BY <1>1 DEF Pending
<1>9. CursorsInOrder'
    BY <1>1, <1>3, <1>4, <1>5, <1>8 DEF IInv, CursorsInOrder
<1>10. \A c : Recorded(c)' <=> Recorded(c)
    BY <1>1, <1>8 DEF Recorded
<1>11. ASSUME NEW c \in InFlight' PROVE c \in InFlight
    <2>1. c \in Cursor /\ Dist(c, head') < Dist(tail, head) - 1 /\ Dist(c, head) \in Nat
        BY <1>1, <1>3, <1>5, DistFacts, SlabRingAssumption DEF InFlight
    <2>2. c # head => Dist(c, head') = Dist(c, head) - 1
        BY <1>1, <1>3, <2>1, IncFacts
    <2>3. c = head => Dist(c, head) = 0
        BY <1>3, DistFacts
    <2>4. QED
        BY <1>3, <2>1, <2>2, <2>3 DEF InFlight
<1>12. HandlesHeld' /\ HandlesMatch' /\ FramesIntact'
    BY <1>1, <1>10, <1>11 DEF IInv, HandlesHeld, HandlesMatch, FramesIntact
<1>13. FrameInHand'
    BY <1>1, <1>2 DEF IInv, FrameInHand, Frame
<1>14. ReaderInHand' /\ CarryInHand' /\ OwnedOnce' /\ NoFalsePoison'
    BY <1>1 DEF IInv, ReaderInHand, CarryInHand, OwnedOnce, NoFalsePoison
<1>15. QED
    BY <1>7, <1>9, <1>12, <1>13, <1>14 DEF IInv

-----------------------------------------------------------------------------
(* Building a frame, and recording it after the push.                      *)

\* A slab taken from the free list has the intent in hand as its only owner.
LEMMA AllocOwners ==
    ASSUME NEW f, NEW t, f \subseteq Slabs, NEW s \in f, Owners(f, t, Nil)
    PROVE  Owners(f \ {s}, t, s)
BY SlabRingAssumption DEF Owners

LEMMA BuildKeeps == ASSUME IInv, NEW v \in Contents, Build(v) PROVE IInv'
<1>1. /\ tail' = tail /\ head' = head /\ slots' = slots /\ lane' = "data" /\ wpc = "idle"
      /\ cpc' = cpc /\ desc' = desc /\ out' = out /\ wpc' \in {"idle", "gate"}
    BY DEF Build, ringVars, readerVars
<1>2. carry.slab = Nil
    BY DEF IInv, Build, CarryInHand
<1>3. Pending = 0 /\ Pending' = 0
    BY <1>1 DEF Pending
<1>4. InFlight' = InFlight
    BY <1>1 DEF InFlight
<1>5. FrameInHand' /\ ReaderInHand'
    BY <1>1 DEF IInv, FrameInHand, ReaderInHand
<1>6. CASE v = Nil
    <2>1. /\ carry' = [st |-> "built", val |-> v, slab |-> Nil]
          /\ UNCHANGED <<arenaVars, handleTable, lastReclaimed, down, corrupt>>
        BY <1>6 DEF Build
    <2>2. HandlesHeld' /\ HandlesMatch' /\ FramesIntact'
        BY <1>3, <2>1, RingKept DEF Build
    <2>3. TypeOK'
        BY <1>1, <2>1 DEF IInv, TypeOK, arenaVars, SlabRef
    <2>4. CursorsInOrder' /\ NoFalsePoison'
        BY <1>1, <1>3, <2>1 DEF IInv, CursorsInOrder, NoFalsePoison
    <2>5. CarryInHand' /\ OwnedOnce'
        BY <1>2, <1>6, <2>1 DEF IInv, CarryInHand, OwnedOnce, arenaVars
    <2>6. QED
        BY <1>5, <2>2, <2>3, <2>4, <2>5 DEF IInv
<1>7. CASE v # Nil
    <2> DEFINE f == FreeAfter(Cap)
               t == TableAfter(Cap)
    <2>1. ReclaimBounds(Cap) /\ Cap \in Int
        BY <1>3, ReclaimInBounds, SlabRingAssumption DEF IInv
    <2>2. handleTable' = t /\ lastReclaimed' = head /\ down' = down /\ corrupt' = corrupt
        BY <1>7, <2>1 DEF Build, PoisonAfter, LastAfter
    <2>3. \/ /\ carry' = [st |-> "unbuilt", val |-> v, slab |-> Nil] /\ wpc' = "idle"
             /\ free' = f /\ mem' = mem
          \/ \E s \in f :
                /\ mem' = [mem EXCEPT ![s] = v]
                /\ \/ carry' = [st |-> "built", val |-> v, slab |-> s] /\ free' = f \ {s}
                   \/ carry' = NoCarry /\ wpc' = "idle" /\ free' = f
        BY <1>7 DEF Build
    <2>4. f \subseteq Slabs /\ t \in [SlotIndex -> SlabRef] /\ Owners(f, t, Nil)
        BY <1>2, <2>1, ReclaimOwners DEF IInv
    <2>5. \A c \in InFlight : slots[Slot(c)].slab # Nil => slots[Slot(c)].slab \notin f
        BY <2>1, ReclaimIntact
    <2>6. /\ \A i \in SlotIndex : t[i] # Nil =>
                \E c \in Cursor : Slot(c) = i /\ Dist(c, head) < Dist(tail, head) - Pending
          /\ \A c \in InFlight : Dist(c, head) < Dist(tail, head) - Pending =>
                t[Slot(c)] = slots[Slot(c)].slab
        BY <2>1, ReclaimHandles DEF IInv
    <2> HIDE DEF f, t
    <2>7. HandlesHeld' /\ HandlesMatch'
        BY <1>1, <1>3, <1>4, <2>2, <2>6 DEF HandlesHeld, HandlesMatch, Recorded
    <2>8. free' \subseteq f /\ free' \subseteq Slabs /\ OwnedOnce'
        BY <2>2, <2>3, <2>4, AllocOwners DEF OwnedOnce, NoCarry
    <2>9. mem' \in [Slabs -> Contents]
        BY <2>3, <2>4 DEF IInv, TypeOK
    <2>10. ASSUME NEW c \in InFlight, slots[Slot(c)].slab # Nil
           PROVE  mem'[slots[Slot(c)].slab] = mem[slots[Slot(c)].slab]
        <3>1. slots[Slot(c)].slab \in Slabs
            BY <2>10, DistFacts DEF IInv, TypeOK, InFlight, Descriptor, SlabRef
        <3>2. QED
            BY <2>3, <2>5, <2>10, <3>1 DEF IInv, TypeOK
    <2>11. FramesIntact'
        BY <1>1, <1>4, <2>5, <2>8, <2>10 DEF IInv, FramesIntact
    <2>12. TypeOK'
        <3>1. carry' \in [st : {"none", "unbuilt", "built"}, val : Contents, slab : SlabRef]
            BY <2>3, <2>4 DEF NoCarry, Contents, SlabRef
        <3>2. QED
            BY <1>1, <2>2, <2>4, <2>8, <2>9, <3>1 DEF IInv, TypeOK
    <2>13. CarryInHand'
        <3>1. CASE carry'.st # "built"
            <4>1. carry'.slab = Nil /\ (carry'.st = "none" => carry'.val = Nil) /\ wpc' = "idle"
                BY <2>3, <3>1 DEF NoCarry
            <4>2. QED
                BY <3>1, <4>1 DEF CarryInHand
        <3>2. CASE carry'.st = "built"
            <4>1. PICK s \in f : mem' = [mem EXCEPT ![s] = v] /\ carry'.val = v /\ carry'.slab = s
                BY <2>3, <3>2 DEF NoCarry
            <4>2. s \in Slabs /\ s # Nil /\ mem'[s] = v
                BY <2>4, <4>1, SlabRingAssumption DEF IInv, TypeOK
            <4>3. QED
                BY <3>2, <4>1, <4>2 DEF CarryInHand
        <3>3. QED
            BY <3>1, <3>2
    <2>14. CursorsInOrder' /\ NoFalsePoison'
        <3>1. Dist(head, head) = 0 /\ Dist(tail, head) \in Nat
            BY DistFacts, SlabRingAssumption DEF IInv, TypeOK
        <3>2. QED
            BY <1>1, <1>3, <2>2, <3>1, SlabRingAssumption DEF IInv, CursorsInOrder, NoFalsePoison
    <2>15. QED
        BY <1>5, <2>7, <2>8, <2>11, <2>12, <2>13, <2>14 DEF IInv
<1>8. QED
    BY <1>6, <1>7

\* The slot of the frame just pushed is empty in the handle table once reclaim has run: whoever
\* had it before was passed.
LEMMA PushedSlotEmpty ==
    ASSUME IInv, wpc = "record", ReclaimBounds(Cap + 1)
    PROVE  TableAfter(Cap + 1)[Slot(Prev(tail))] = Nil
<1> DEFINE q == Prev(tail)
<1>1. /\ tail \in Cursor /\ head \in Cursor /\ Cap \in Nat /\ q \in Cursor /\ Pending = 1
      /\ Dist(tail, head) <= Cap
    BY IncFacts, SlabRingAssumption DEF IInv, TypeOK, Pending, CursorsInOrder
<1>2. Slot(q) \in SlotIndex /\ Dist(tail, head) \in Nat /\ Dist(q, head) \in Nat
    BY <1>1, DistFacts, SlabRingAssumption
<1> HIDE DEF q
<1>3. SUFFICES ASSUME TableAfter(Cap + 1)[Slot(q)] # Nil PROVE FALSE
    BY DEF q
<1>4. PICK c \in Cursor : Slot(c) = Slot(q) /\ Dist(c, head) < Dist(tail, head) - 1
    <2>1. Cap + 1 \in Int
        BY <1>1
    <2>2. QED
        BY <1>1, <1>2, <1>3, <2>1, ReclaimHandles DEF IInv
<1>5. Dist(c, head) \in Nat
    BY <1>1, DistFacts, SlabRingAssumption
<1>6. head # tail
    BY <1>1, <1>2, <1>4, <1>5, DistFacts
<1>7. Dist(q, head) = Dist(tail, head) - 1
    BY <1>1, <1>6, IncFacts DEF q
<1>8. c = q
    BY <1>1, <1>2, <1>4, <1>5, <1>7, SlotsApartFrom
<1>9. QED
    BY <1>4, <1>7, <1>8, <1>5

\* published: the frame's slab goes into its slot of the handle table, or back to the free list
\* when the reader is already past the frame.
LEMMA PublishedKeeps == IInv /\ Published => IInv'
<1> SUFFICES ASSUME IInv, Published PROVE IInv'
    OBVIOUS
<1> DEFINE f == FreeAfter(Cap + 1)
           t == TableAfter(Cap + 1)
           q == Prev(tail)
           ref == IF lane = "data" THEN carry.slab ELSE Nil
<1>1. /\ tail' = tail /\ head' = head /\ slots' = slots /\ mem' = mem /\ lane' = lane
      /\ wpc = "record" /\ wpc' = "idle" /\ cpc' = cpc /\ desc' = desc /\ out' = out
    BY DEF Published, Record, ringVars, readerVars
<1>2. Pending = 1 /\ Pending' = 0
    BY <1>1 DEF Pending
<1>3. Cap + 1 \in Int /\ Cap \in Nat /\ ReclaimBounds(Cap + 1)
    <2>1. Cap \in Nat
        BY SlabRingAssumption
    <2>2. Cap + 1 \in Int /\ Cap + Pending <= Cap + 1
        BY <1>2, <2>1
    <2>3. QED
        BY <2>1, <2>2, ReclaimInBounds DEF IInv
<1>4. /\ tail \in Cursor /\ head \in Cursor /\ q \in Cursor /\ Slot(q) \in SlotIndex
      /\ Dist(tail, head) \in Nat /\ Dist(tail, head) <= Cap /\ Dist(head, head) = 0
    BY DistFacts, IncFacts, SlabRingAssumption DEF IInv, TypeOK, CursorsInOrder
<1>5. lastReclaimed' = head /\ down' = down /\ corrupt' = corrupt
    BY <1>3 DEF Published, Record, LastAfter, PoisonAfter
<1>6. handleTable' = [t EXCEPT ![Slot(q)] = IF ref # Nil /\ head = tail THEN Nil ELSE ref]
    BY <1>3 DEF Published, Record, LastAfter, Prev
<1>7. free' = f \cup (IF ref # Nil /\ head = tail THEN {ref} ELSE {})
    BY <1>3 DEF Published, Record, LastAfter
<1>8. carry' = IF lane = "data" THEN NoCarry ELSE carry
    BY DEF Published, Record
<1>9. t[Slot(q)] = Nil
    BY <1>1, <1>3, PushedSlotEmpty
<1>10. f \subseteq Slabs /\ t \in [SlotIndex -> SlabRef] /\ Owners(f, t, carry.slab)
    BY <1>3, ReclaimOwners DEF IInv
<1>11. \A c \in InFlight : slots[Slot(c)].slab # Nil => slots[Slot(c)].slab \notin f
    BY <1>3, ReclaimIntact
<1>12. /\ \A i \in SlotIndex : t[i] # Nil =>
             \E c \in Cursor : Slot(c) = i /\ Dist(c, head) < Dist(tail, head) - 1
       /\ \A c \in InFlight : Dist(c, head) < Dist(tail, head) - 1 =>
             t[Slot(c)] = slots[Slot(c)].slab
    BY <1>2, <1>3, ReclaimHandles DEF IInv
<1>13. ref \in SlabRef /\ carry.slab \in SlabRef
    BY DEF IInv, TypeOK, SlabRef
<1>14. head # tail => Dist(q, head) = Dist(tail, head) - 1
    BY <1>4, IncFacts
<1>15. head = tail => Dist(tail, head) = 0
    BY <1>4, DistFacts
<1>16. head # tail => slots[Slot(q)].slab = ref
    BY <1>1 DEF IInv, FrameInHand, Frame
<1> HIDE DEF f, t, q
<1>17. handleTable' \in [SlotIndex -> SlabRef]
    BY <1>6, <1>10, <1>13 DEF SlabRef
<1>18. free' \subseteq Slabs
    BY <1>7, <1>10, <1>13 DEF SlabRef
<1>19. InFlight' = InFlight
    BY <1>1 DEF InFlight
<1>20. TypeOK'
    BY <1>1, <1>5, <1>8, <1>17, <1>18 DEF IInv, TypeOK, NoCarry, Contents, SlabRef
<1>21. CursorsInOrder'
    BY <1>1, <1>2, <1>3, <1>4, <1>5 DEF CursorsInOrder
<1>22. HandlesHeld'
    <2>1. SUFFICES ASSUME NEW i \in SlotIndex, handleTable'[i] # Nil
                   PROVE  \E c \in Cursor : Slot(c) = i /\ Dist(c, head) < Dist(tail, head)
        <3>1. Dist(tail', lastReclaimed') - Pending' = Dist(tail, head)
            BY <1>1, <1>2, <1>4, <1>5
        <3>2. QED
            BY <1>5, <3>1 DEF HandlesHeld, Recorded
    <2>2. CASE i = Slot(q)
        <3>1. head # tail
            BY <1>4, <1>6, <1>10, <2>1, <2>2
        <3>2. Dist(q, head) < Dist(tail, head)
            BY <1>4, <1>14, <3>1
        <3>3. QED
            BY <1>4, <2>2, <3>2
    <2>3. CASE i # Slot(q)
        <3>1. t[i] # Nil
            BY <1>6, <1>10, <2>1, <2>3
        <3>2. PICK c \in Cursor : Slot(c) = i /\ Dist(c, head) < Dist(tail, head) - 1
            BY <1>12, <3>1
        <3>3. Dist(c, head) < Dist(tail, head)
            BY <1>4, <3>2, DistFacts, SlabRingAssumption
        <3>4. QED
            BY <3>2, <3>3
    <2>4. QED
        BY <2>2, <2>3
<1>23. HandlesMatch'
    <2>1. SUFFICES ASSUME NEW c \in InFlight PROVE handleTable'[Slot(c)] = slots[Slot(c)].slab
        BY <1>1, <1>19 DEF HandlesMatch
    <2>2. c \in Cursor /\ Dist(c, head) \in Nat /\ Dist(c, head) < Dist(tail, head)
          /\ Slot(c) \in SlotIndex
        BY <1>4, DistFacts, SlabRingAssumption DEF InFlight
    <2>3. head # tail
        BY <1>4, <1>15, <2>2
    <2>4. CASE c = q
        BY <1>4, <1>6, <1>10, <1>16, <2>3, <2>4
    <2>5. CASE c # q
        <3>1. Dist(c, head) # Dist(q, head)
            BY <1>4, <2>2, <2>5, SameDist
        <3>2. Dist(c, head) < Dist(tail, head) - 1
            BY <1>4, <1>14, <2>2, <2>3, <3>1
        <3>3. Slot(c) # Slot(q)
            BY <1>3, <1>4, <1>14, <2>2, <2>3, <2>5, SlotsApartFrom
        <3>4. QED
            BY <1>6, <1>10, <1>12, <2>2, <3>2, <3>3
    <2>6. QED
        BY <2>4, <2>5
<1>24. FramesIntact'
    <2>1. SUFFICES ASSUME NEW c \in InFlight, slots[Slot(c)].slab # Nil
                   PROVE  slots[Slot(c)].slab \notin free'
        BY <1>1, <1>19 DEF IInv, FramesIntact
    <2>2. head # tail
        BY <1>4, <1>15, DistFacts, SlabRingAssumption DEF InFlight
    <2>3. QED
        BY <1>7, <1>11, <2>1, <2>2
<1>25. OwnedOnce'
    <2>1. Owners(free', handleTable', carry'.slab)
        <3>1. CASE lane # "data"
            <4>1. ref = Nil /\ carry' = carry /\ free' = f
                BY <1>7, <1>8, <3>1
            <4>2. handleTable' = t
                BY <1>6, <1>9, <1>10, <4>1
            <4>3. QED
                BY <1>10, <4>1, <4>2
        <3>2. CASE lane = "data"
            <4>1. ref = carry.slab /\ carry'.slab = Nil
                BY <1>8, <3>2 DEF NoCarry
            <4>2. CASE ref = Nil \/ head = tail
                <5>1. handleTable' = t /\ free' = f \cup ({ref} \ {Nil})
                    BY <1>6, <1>7, <1>9, <1>10, <4>2
                <5>2. QED
                    BY <1>10, <4>1, <5>1 DEF Owners
            <4>3. CASE ref # Nil /\ head # tail
                <5>1. handleTable' = [t EXCEPT ![Slot(q)] = ref] /\ free' = f
                    BY <1>6, <1>7, <4>3
                <5>2. QED
                    BY <1>4, <1>9, <1>10, <1>13, <4>1, <4>3, <5>1, SlabRingAssumption DEF Owners
            <4>4. QED
                BY <4>2, <4>3
        <3>3. QED
            BY <3>1, <3>2
    <2>2. QED
        BY <2>1 DEF OwnedOnce
<1>26. FrameInHand' /\ ReaderInHand' /\ NoFalsePoison'
    BY <1>1, <1>5 DEF IInv, FrameInHand, ReaderInHand, NoFalsePoison
<1>27. CarryInHand'
    BY <1>1, <1>8 DEF IInv, CarryInHand, NoCarry
<1>28. QED
    BY <1>20, <1>21, <1>22, <1>23, <1>24, <1>25, <1>26, <1>27 DEF IInv

-----------------------------------------------------------------------------
(* The invariant holds, and what it says.                                  *)

LEMMA InitInvariant == Init => IInv
<1> SUFFICES ASSUME Init PROVE IInv
    OBVIOUS
<1>1. 0 \in Cursor /\ Dist(0, 0) = 0 /\ Cap \in Nat
    BY SlabRingAssumption DEF Cursor, Dist
<1>2. InFlight = {}
    BY <1>1, DistFacts, SlabRingAssumption DEF Init, InFlight
<1>3. TypeOK
    BY <1>1 DEF Init, TypeOK, Descriptor, NoCarry, Contents, SlabRef
<1>4. CursorsInOrder
    BY <1>1, SlabRingAssumption DEF Init, CursorsInOrder, Pending
<1>5. HandlesHeld /\ HandlesMatch /\ FramesIntact
    BY <1>2 DEF Init, HandlesHeld, HandlesMatch, FramesIntact
<1>6. FrameInHand /\ CarryInHand /\ ReaderInHand /\ NoFalsePoison
    BY DEF Init, FrameInHand, CarryInHand, ReaderInHand, NoFalsePoison, NoCarry
<1>7. OwnedOnce
    BY DEF Init, OwnedOnce, Owners, NoCarry
<1>8. QED
    BY <1>3, <1>4, <1>5, <1>6, <1>7 DEF IInv

LEMMA NextInvariant == IInv /\ [Next]_vars => IInv'
<1> SUFFICES ASSUME IInv, [Next]_vars PROVE IInv'
    OBVIOUS
<1>1. CASE \E v \in Contents : Build(v)
    BY <1>1, BuildKeeps
<1>2. CASE Retry
    BY <1>2, RetryKeeps
<1>3. CASE Abandon
    BY <1>3, AbandonKeeps
<1>4. CASE EmitLifecycle
    BY <1>4, EmitLifecycleKeeps
<1>5. CASE PrePublishFault
    BY <1>5, PrePublishFaultKeeps
<1>6. CASE PushSlot
    BY <1>6, PushSlotKeeps
<1>7. CASE PushTail
    BY <1>7, PushTailKeeps
<1>8. CASE Published
    BY <1>8, PublishedKeeps
<1>9. CASE Stop
    BY <1>9, StopKeeps
<1>10. CASE Peek
    BY <1>10, PeekKeeps
<1>11. CASE FinalGate
    BY <1>11, FinalGateKeeps
<1>12. CASE Consume
    BY <1>12, ConsumeKeeps
<1>13. CASE TearDown
    BY <1>13, TearDownKeeps
<1>14. CASE Terminated \/ UNCHANGED vars
    BY <1>14, StutterKeeps DEF Terminated
<1>15. QED
    BY <1>1, <1>2, <1>3, <1>4, <1>5, <1>6, <1>7, <1>8, <1>9, <1>10, <1>11, <1>12, <1>13, <1>14
       DEF Next, Writer, Reader

\* The invariant holds in every reachable state: cursors in order, every slab with one owner, every
\* frame in flight intact, whatever the interleaving of the writer's push and its record with the
\* reader's head store (published and reclaim in writer.go, Consume in reader.go).
THEOREM InvariantHolds == Spec => []IInv
<1>1. Init => IInv
    BY InitInvariant
<1>2. IInv /\ [Next]_vars => IInv'
    BY NextInvariant
<1>3. QED
    BY <1>1, <1>2, PTL DEF Spec

\* Owning every slab once is what SlabConservation says.
LEMMA OwnedConserves == TypeOK /\ OwnedOnce => SlabConservation
<1> SUFFICES ASSUME TypeOK, OwnedOnce PROVE SlabConservation
    OBVIOUS
<1> DEFINE R == {handleTable[i] : i \in SlotIndex} \ {Nil}
           H == {carry.slab} \ {Nil}
<1>1. handleTable \in [SlotIndex -> SlabRef] /\ free \subseteq Slabs /\ carry.slab \in SlabRef
    BY DEF TypeOK
<1>2. /\ \A s \in Slabs : s \in free \/ carry.slab = s \/ \E i \in SlotIndex : handleTable[i] = s
      /\ \A i \in SlotIndex : handleTable[i] # Nil =>
            handleTable[i] \notin free /\ handleTable[i] # carry.slab
      /\ \A i, j \in SlotIndex : handleTable[i] = handleTable[j] /\ i # j => handleTable[i] = Nil
      /\ carry.slab # Nil => carry.slab \notin free
    BY DEF OwnedOnce, Owners
<1>3. R \subseteq Slabs /\ H \subseteq Slabs
    BY <1>1 DEF SlabRef
<1>4. free \cup R \cup H = Slabs
    BY <1>1, <1>2, <1>3, SlabRingAssumption
<1>5. free \cap R = {} /\ free \cap H = {} /\ R \cap H = {}
    BY <1>2
<1>6. QED
    BY <1>2, <1>4, <1>5 DEF SlabConservation

\* Slab ownership is exact for every capacity, cursor width and arena: no slab has two owners or
\* none, the payload of a frame is intact until its slot is released, and a correct reader is never
\* accused of corrupting the ring (Alloc, Free, reclaim and published against the reader's head).
THEOREM SlabsOwnedExactly == Spec => []SlabsExact
<1>1. IInv => SlabsExact
    <2> SUFFICES ASSUME IInv PROVE SlabsExact
        OBVIOUS
    <2>1. PayloadIntact
        BY DEF IInv, FramesIntact, ReaderInHand, PayloadIntact
    <2>2. SlabConservation
        BY OwnedConserves DEF IInv
    <2>3. QED
        BY <2>1, <2>2 DEF IInv, SlabsExact
<1>2. QED
    BY <1>1, InvariantHolds, PTL

-----------------------------------------------------------------------------
(* The direction is a bounded FIFO.                                        *)

\* Sequences are told apart by their elements.
LEMMA SameSeq ==
    ASSUME NEW S, NEW s \in Seq(S), NEW t \in Seq(S), Len(s) = Len(t),
           \A k \in 1 .. Len(s) : s[k] = t[k]
    PROVE  s = t
OBVIOUS

LEMMA SeqAppend ==
    ASSUME NEW S, NEW s \in Seq(S), NEW x \in S, NEW t \in Seq(S), Len(t) = Len(s) + 1,
           \A k \in 1 .. Len(s) : t[k] = s[k], t[Len(s) + 1] = x
    PROVE  t = Append(s, x)
OBVIOUS

LEMMA SeqTail ==
    ASSUME NEW S, NEW s \in Seq(S), NEW t \in Seq(S), Len(s) = Len(t) + 1,
           \A k \in 1 .. Len(t) : t[k] = s[k + 1]
    PROVE  t = Tail(s) /\ s # <<>>
OBVIOUS

\* The k-th cursor from h on.
At(h, k) == (h + k - 1) % W

LEMMA AtFacts ==
    ASSUME NEW h \in Cursor, NEW k \in 1 .. W
    PROVE  /\ At(h, k) \in Cursor /\ Dist(At(h, k), h) = k - 1
           /\ At(h, 1) = h
           /\ k < W => At(Inc(h), k) = At(h, k + 1)
<1>1. W \in Nat /\ W > 2 /\ h \in 0 .. W - 1
    BY SlabRingAssumption DEF Cursor
<1>2. At(h, k) = IF h + k - 1 < W THEN h + k - 1 ELSE h + k - 1 - W
    <2> DEFINE x == h + k - 1
    <2>1. x \in 0 .. 2 * W - 1
        BY <1>1
    <2> HIDE DEF x
    <2>2. x % W = IF x < W THEN x ELSE x - W
        BY <1>1, <2>1, ModOnce
    <2>3. At(h, k) = x % W
        BY DEF At, x
    <2>4. At(h, k) = IF x < W THEN x ELSE x - W
        BY <2>2, <2>3
    <2>5. QED
        BY <1>1, <2>4 DEF x
<1>3. At(h, 1) = h
    <2>1. h % W = IF h < W THEN h ELSE h - W
        BY <1>1, ModOnce
    <2>2. h + 1 - 1 = h
        BY <1>1
    <2>3. QED
        BY <1>1, <2>1, <2>2 DEF At
<1>4. At(h, k) \in Cursor /\ Dist(At(h, k), h) = k - 1
    BY <1>1, <1>2 DEF Dist, Cursor
<1>5. ASSUME k < W PROVE At(Inc(h), k) = At(h, k + 1)
    <2> DEFINE x == h + (k + 1) - 1
               y == Inc(h) + k - 1
    <2>1. x \in 0 .. 2 * W - 1 /\ y \in 0 .. 2 * W - 1 /\ (y = x \/ (h = W - 1 /\ y = x - W))
        BY <1>1, <1>5 DEF Inc
    <2>2. h = W - 1 => y < W /\ x >= W
        BY <1>1, <1>5 DEF Inc
    <2> HIDE DEF x, y
    <2>3. x % W = (IF x < W THEN x ELSE x - W) /\ y % W = (IF y < W THEN y ELSE y - W)
        BY <1>1, <2>1, ModOnce
    <2>4. x % W = y % W
        BY <1>1, <2>1, <2>2, <2>3
    <2>5. QED
        BY <2>4 DEF At, x, y
<1>6. QED
    BY <1>3, <1>4, <1>5

\* The values of n slots from h on.
Values(sl, h, n) == [k \in 1 .. n |-> sl[Slot(At(h, k))].val]

LEMMA ValuesSeq ==
    ASSUME NEW sl \in [SlotIndex -> Descriptor], NEW h \in Cursor, NEW n \in Nat, n <= Cap
    PROVE  /\ Values(sl, h, n) \in Seq(Contents) /\ Len(Values(sl, h, n)) = n
           /\ \A k \in 1 .. n : /\ Values(sl, h, n)[k] = sl[Slot(At(h, k))].val
                                /\ sl[Slot(At(h, k))].val \in Contents
<1> DEFINE q == Values(sl, h, n)
<1>1. \A k \in 1 .. n : q[k] = sl[Slot(At(h, k))].val
    BY DEF Values
<1>2. ASSUME NEW k \in 1 .. n PROVE sl[Slot(At(h, k))].val \in Contents
    <2>1. k \in 1 .. W
        BY SlabRingAssumption
    <2>2. Slot(At(h, k)) \in SlotIndex
        BY <2>1, AtFacts, DistFacts
    <2>3. QED
        BY <2>2 DEF Descriptor
<1>3. q \in [1 .. n -> Contents]
    BY <1>2 DEF Values
<1> HIDE DEF q
<1>4. q \in Seq(Contents) /\ Len(q) = n
    BY <1>3
<1>5. QED
    BY <1>1, <1>2, <1>4 DEF q

\* The abstract queue is the payloads of the frames in flight; their number stays within Cap.
LEMMA QueueValues ==
    ASSUME IInv
    PROVE  /\ Queue = Values(slots, head, Dist(tail, head))
           /\ slots \in [SlotIndex -> Descriptor] /\ head \in Cursor /\ tail \in Cursor
           /\ Dist(tail, head) \in Nat /\ Dist(tail, head) <= Cap
<1>1. head \in Cursor /\ tail \in Cursor /\ slots \in [SlotIndex -> Descriptor]
    BY DEF IInv, TypeOK
<1>2. Dist(tail, head) \in Nat /\ Dist(tail, head) <= Cap
    BY <1>1, DistFacts, SlabRingAssumption DEF IInv, CursorsInOrder
<1>3. QED
    BY <1>1, <1>2 DEF Queue, Values, At

\* With the cursors in place and no slot of a frame in flight written, the queue stays.
LEMMA QueueKept ==
    ASSUME IInv, tail' = tail, head' = head, slots' \in [SlotIndex -> Descriptor],
           \A c \in InFlight : slots'[Slot(c)] = slots[Slot(c)]
    PROVE  Queue' = Queue
<1> DEFINE n == Dist(tail, head)
<1>1. /\ Queue = Values(slots, head, n) /\ slots \in [SlotIndex -> Descriptor]
      /\ head \in Cursor /\ tail \in Cursor /\ n \in Nat /\ n <= Cap
    BY QueueValues
<1>2. Queue' = Values(slots', head, n)
    BY DEF Queue, Values, At
<1>3. ASSUME NEW k \in 1 .. n PROVE slots'[Slot(At(head, k))] = slots[Slot(At(head, k))]
    <2>1. k \in 1 .. W
        BY <1>1, SlabRingAssumption
    <2>2. At(head, k) \in Cursor /\ Dist(At(head, k), head) = k - 1
        BY <1>1, <2>1, AtFacts
    <2>3. At(head, k) \in InFlight
        BY <1>1, <2>2 DEF InFlight
    <2>4. QED
        BY <2>3
<1> HIDE DEF n
<1>4. Values(slots', head, n) = Values(slots, head, n)
    BY <1>3 DEF Values
<1>5. QED
    BY <1>1, <1>2, <1>4

\* The tail store appends the frame in hand (PushTail implements Publish).
LEMMA PushTailPublishes == IInv /\ PushTail => Fifo!Publish(Frame.val) /\ Frame.val \in Contents
<1> SUFFICES ASSUME IInv, PushTail PROVE Fifo!Publish(Frame.val) /\ Frame.val \in Contents
    OBVIOUS
<1> DEFINE n == Dist(tail, head)
<1>1. /\ Queue = Values(slots, head, n) /\ slots \in [SlotIndex -> Descriptor]
      /\ head \in Cursor /\ tail \in Cursor /\ n \in Nat /\ n <= Cap
    BY QueueValues
<1>2. wpc = "store" /\ tail' = Inc(tail) /\ head' = head /\ slots' = slots /\ out' = out
    BY DEF PushTail, readerVars
<1>3. n < Cap /\ slots[Slot(tail)] = Frame
    BY <1>2 DEF IInv, CursorsInOrder, FrameInHand
<1>4. Cap \in Nat /\ W \in Nat /\ Cap + 1 < W
    BY SlabRingAssumption
<1>5. Dist(tail', head') = n + 1
    BY <1>1, <1>2, <1>3, <1>4, IncFacts
<1>6. Queue' = Values(slots, head, n + 1)
    BY <1>2, <1>5 DEF Queue, Values, At
<1>7. At(head, n + 1) = tail
    <2>1. n + 1 \in 1 .. W
        BY <1>1, <1>3, <1>4
    <2>2. At(head, n + 1) \in Cursor /\ Dist(At(head, n + 1), head) = n + 1 - 1
        BY <1>1, <2>1, AtFacts
    <2>3. n + 1 - 1 = n
        BY <1>1
    <2>4. QED
        BY <1>1, <2>2, <2>3, SameDist
<1>8. Frame.val \in Contents
    BY DEF IInv, TypeOK, Frame, Contents
<1> HIDE DEF n
<1>9. n + 1 \in Nat /\ n + 1 <= Cap /\ 1 .. n \subseteq 1 .. n + 1 /\ n + 1 \in 1 .. n + 1
    BY <1>1, <1>3, <1>4
<1>10. /\ Queue \in Seq(Contents) /\ Len(Queue) = n
       /\ \A k \in 1 .. n : Queue[k] = slots[Slot(At(head, k))].val
    BY <1>1, ValuesSeq
<1>11. /\ Queue' \in Seq(Contents) /\ Len(Queue') = n + 1
       /\ \A k \in 1 .. n + 1 : Queue'[k] = slots[Slot(At(head, k))].val
    BY <1>1, <1>6, <1>9, ValuesSeq
<1>12. Queue'[n + 1] = Frame.val /\ \A k \in 1 .. n : Queue'[k] = Queue[k]
    BY <1>3, <1>7, <1>9, <1>10, <1>11
<1>13. Queue' = Append(Queue, Frame.val)
    BY <1>8, <1>10, <1>11, <1>12, SeqAppend
<1>14. QED
    BY <1>2, <1>3, <1>8, <1>10, <1>13 DEF Fifo!Publish

\* The head store takes the oldest frame off; what the reader hands on is that frame's payload, or
\* nothing new when it faulted (Consume implements Deliver or Discard).
LEMMA ConsumeDelivers == IInv /\ Consume => Fifo!Deliver \/ Fifo!Discard
<1> SUFFICES ASSUME IInv, Consume PROVE Fifo!Deliver \/ Fifo!Discard
    OBVIOUS
<1> DEFINE n == Dist(tail, head)
<1>1. /\ Queue = Values(slots, head, n) /\ slots \in [SlotIndex -> Descriptor]
      /\ head \in Cursor /\ tail \in Cursor /\ n \in Nat /\ n <= Cap
    BY QueueValues
<1>2. /\ head' = Inc(head) /\ tail' = tail /\ slots' = slots /\ head # tail
      /\ desc = slots[Slot(head)]
    BY DEF Consume, IInv, ReaderInHand
<1>3. n # 0 /\ Cap \in Nat /\ W \in Nat /\ Cap + 1 < W
    BY <1>1, <1>2, DistFacts, SlabRingAssumption
<1>4. Dist(tail', head') = n - 1 /\ head' \in Cursor
    BY <1>1, <1>2, IncFacts
<1>5. Queue' = Values(slots, head', n - 1)
    BY <1>2, <1>4 DEF Queue, Values, At
<1>6. head \in InFlight
    BY <1>1, <1>3, DistFacts DEF InFlight
<1>7. (IF desc.slab = Nil THEN Nil ELSE mem[desc.slab]) = slots[Slot(head)].val
    BY <1>2, <1>6 DEF IInv, FramesIntact
<1> HIDE DEF n
<1>8. n - 1 \in Nat /\ n - 1 <= Cap /\ 1 \in 1 .. n
    BY <1>1, <1>3
<1>9. /\ Queue \in Seq(Contents) /\ Len(Queue) = n
      /\ \A k \in 1 .. n : Queue[k] = slots[Slot(At(head, k))].val
    BY <1>1, ValuesSeq
<1>10. /\ Queue' \in Seq(Contents) /\ Len(Queue') = n - 1
       /\ \A k \in 1 .. n - 1 : Queue'[k] = slots[Slot(At(head', k))].val
    BY <1>1, <1>4, <1>5, <1>8, ValuesSeq
<1>11. ASSUME NEW k \in 1 .. n - 1 PROVE Queue'[k] = Queue[k + 1]
    <2>1. k \in 1 .. W /\ k < W /\ k + 1 \in 1 .. n
        BY <1>1, <1>3
    <2>2. At(head', k) = At(head, k + 1)
        BY <1>1, <1>2, <2>1, AtFacts
    <2>3. QED
        BY <1>9, <1>10, <2>1, <2>2
<1>12. Len(Queue) = Len(Queue') + 1
    BY <1>1, <1>9, <1>10
<1>13. Queue' = Tail(Queue) /\ Queue # <<>>
    BY <1>9, <1>10, <1>11, <1>12, SeqTail
<1>14. Head(Queue) = slots[Slot(head)].val
    <2>1. At(head, 1) = head
        BY <1>1, <1>3, AtFacts
    <2>2. QED
        BY <1>8, <1>9, <2>1
<1>15. CASE out' = out
    BY <1>13, <1>15 DEF Fifo!Discard
<1>16. CASE out' # out
    <2>1. out' = IF desc.slab = Nil THEN Nil ELSE mem[desc.slab]
        BY <1>16 DEF Consume
    <2>2. QED
        BY <1>7, <1>13, <1>14, <2>1 DEF Fifo!Deliver
<1>17. QED
    BY <1>15, <1>16

\* Every step is a step of the FIFO or leaves it alone.
LEMMA NextFifo == IInv /\ [Next]_vars => [Fifo!FifoNext]_(Fifo!fifoVars)
<1> SUFFICES ASSUME IInv, [Next]_vars PROVE [Fifo!FifoNext]_(Fifo!fifoVars)
    OBVIOUS
<1>1. CASE PushTail
    BY <1>1, PushTailPublishes DEF Fifo!FifoNext
<1>2. CASE Consume
    BY <1>2, ConsumeDelivers DEF Fifo!FifoNext
<1>3. CASE PushSlot
    <2>1. tail' = tail /\ head' = head /\ out' = out
        BY <1>3 DEF PushSlot, readerVars
    <2>2. slots' \in [SlotIndex -> Descriptor]
        BY <1>3, PushSlotKeeps DEF IInv, TypeOK
    <2>3. ASSUME NEW c \in InFlight PROVE slots'[Slot(c)] = slots[Slot(c)]
        <3>1. Dist(tail, head) < Cap => Slot(c) # Slot(tail)
            BY TailSlotFree DEF IInv
        <3>2. Slot(c) \in SlotIndex
            BY DistFacts DEF InFlight
        <3>3. QED
            BY <1>3, <3>1, <3>2 DEF PushSlot, IInv, TypeOK
    <2>4. Queue' = Queue
        BY <2>1, <2>2, <2>3, QueueKept
    <2>5. QED
        BY <2>1, <2>4 DEF Fifo!fifoVars
<1>4. CASE ~(PushTail \/ Consume \/ PushSlot)
    <2>1. UNCHANGED <<ringVars, out>>
        BY <1>4 DEF Next, Writer, Reader, Build, Retry, Abandon, EmitLifecycle, PrePublishFault,
                    Published, Record, Stop, Peek, FinalGate, TearDown, Terminated, vars, readerVars
    <2>2. Queue' = Queue
        BY <2>1 DEF ringVars, Queue
    <2>3. QED
        BY <2>1, <2>2 DEF Fifo!fifoVars
<1>5. QED
    BY <1>1, <1>2, <1>3, <1>4

\* One direction of the data plane implements the bounded FIFO its users count on: frames leave in
\* the order of their tail stores, each once, with the payload that was written (Ring.Push,
\* Ring.Peek and advanceHead over the slab arena), for every capacity and cursor width.
THEOREM FramesInOrder == Spec => ImplementsFifo
<1>1. Init => Fifo!FifoInit
    <2> SUFFICES ASSUME Init PROVE Fifo!FifoInit
        OBVIOUS
    <2>1. Dist(tail, head) = 0
        BY DEF Init, Dist
    <2>2. Queue = <<>>
        BY <2>1 DEF Queue
    <2>3. QED
        BY <2>2 DEF Init, Fifo!FifoInit, Contents
<1>2. IInv /\ [Next]_vars => [Fifo!FifoNext]_(Fifo!fifoVars)
    BY NextFifo
<1>3. QED
    BY <1>1, <1>2, InvariantHolds, PTL DEF Spec, ImplementsFifo, Fifo!FifoSpec
=============================================================================
