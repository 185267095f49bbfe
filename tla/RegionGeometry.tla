-------------------------- MODULE RegionGeometry ----------------------------
(***************************************************************************)
(* The arithmetic of a shared-memory region: how a chosen ring capacity    *)
(* and two size-class tables become the offsets of the spans, what is      *)
(* written to the layout page and what an attaching process checks of it,  *)
(* which slab serves a payload, and how many calls a geometry admits       *)
(* (internal/shm, internal/arena, internal/transport/shm).                 *)
(*                                                                         *)
(* The sizes the code fixes (a page of 4096 bytes, a header of 256, ...)   *)
(* are constants here, so that an instance can scale them down with their  *)
(* ratios.  An addition the code checks for uint64 overflow is one whose   *)
(* exact result already exceeds the ceiling that is checked next.          *)
(***************************************************************************)
EXTENDS Integers, Sequences, SequencesExt

CONSTANTS PageSize,        \* the unit every span is rounded up to
          CacheLine,       \* the alignment of slab sizes and of sync words
          DescriptorSize,  \* bytes of a ring slot
          HeaderSize,      \* bytes of the layout page before the class tables
          EntrySize,       \* bytes of a class-table entry
          MinRing, MaxRing, MinLargestSlab, MaxArenaBytes, MaxRegionSize,
          TrailerLen       \* bytes of a payload's checksum

Direction == {"hp", "ph"}

\* A size class, an arena and a layout as decoded from the layout page.
SizeClass == [SlabSize : Nat, SlabCount : Nat, ClassBaseOffset : Nat]
ArenaGeometry == [Offset : Nat, Bytes : Nat, ClassTableOffset : Nat, Classes : Seq(SizeClass)]
Layout ==
    [LayoutVersion : Nat, HeaderFlags : Nat, Generation : Nat, RegionSize : Nat, RingCapacity : Nat,
     LifecycleReserve : Nat, SyncPageOffset : Nat, Rings : [Direction -> Nat],
     Arenas : [Direction -> ArenaGeometry]]

-----------------------------------------------------------------------------
(* What a geometry must satisfy. *)

roundupPageSize(n) == ((n + PageSize - 1) \div PageSize) * PageSize
validateRingCapacity(c) == c \in MinRing .. MaxRing /\ \E k \in 0 .. c : c = 2 ^ k
validateLifecycleReserve(r, c) == 0 < r /\ r < c
validateSlabBounds(classes) ==
    /\ classes # <<>>
    /\ \A i \in DOMAIN classes :
           /\ classes[i].SlabSize > 0 /\ classes[i].SlabSize % CacheLine = 0
           /\ i > 1 => classes[i - 1].SlabSize < classes[i].SlabSize
           /\ classes[i].SlabCount >= 1
    /\ Last(classes).SlabSize >= MinLargestSlab

\* Offsets of the classes within their arena, and the total in the place after the last.
computeClassBaseOffsets(classes) ==
    LET base[i \in 1 .. Len(classes) + 1] ==
            IF i = 1 THEN 0 ELSE base[i - 1] + classes[i - 1].SlabSize * classes[i - 1].SlabCount
    IN  base
classTotal(classes) == computeClassBaseOffsets(classes)[Len(classes) + 1]
arenaBytes(classes) == roundupPageSize(classTotal(classes))
buildsArena(classes) == validateSlabBounds(classes) /\ arenaBytes(classes) <= MaxArenaBytes
buildArenaGeometry(classes) ==
    [i \in DOMAIN classes |->
        [SlabSize |-> classes[i].SlabSize, SlabCount |-> classes[i].SlabCount,
         ClassBaseOffset |-> computeClassBaseOffsets(classes)[i]]]

\* The spans in region order: layout page, sync page, two rings, two arenas.
deriveSpans(capacity, bytesHP, bytesPH) ==
    LET ringHP == 2 * PageSize
        span == roundupPageSize(capacity * DescriptorSize)
        arenaHP == ringHP + 2 * span
    IN  [sync |-> PageSize, rings |-> [hp |-> ringHP, ph |-> ringHP + span],
         arenas |-> [hp |-> arenaHP, ph |-> arenaHP + bytesHP],
         regionSize |-> arenaHP + bytesHP + bytesPH]
spansFit(spans) == spans.regionSize <= MaxRegionSize

-----------------------------------------------------------------------------
(* DeriveLayout and the layout page. *)

inputSpans(in) == deriveSpans(in.RingCapacity, arenaBytes(in.classes["hp"]), arenaBytes(in.classes["ph"]))
tableOffset(in, d) == HeaderSize + (IF d = "hp" THEN 0 ELSE Len(in.classes["hp"]) * EntrySize)
derives(in) ==
    /\ validateRingCapacity(in.RingCapacity)
    /\ validateLifecycleReserve(in.LifecycleReserve, in.RingCapacity)
    /\ \A d \in Direction : buildsArena(in.classes[d])
    /\ spansFit(inputSpans(in))
    /\ tableOffset(in, "ph") + Len(in.classes["ph"]) * EntrySize <= PageSize
DeriveLayout(in) ==
    LET spans == inputSpans(in)
    IN  [LayoutVersion |-> 1, HeaderFlags |-> 0, Generation |-> in.Generation,
         RegionSize |-> spans.regionSize, RingCapacity |-> in.RingCapacity,
         LifecycleReserve |-> in.LifecycleReserve, SyncPageOffset |-> spans.sync, Rings |-> spans.rings,
         Arenas |-> [d \in Direction |->
             [Offset |-> spans.arenas[d], Bytes |-> arenaBytes(in.classes[d]),
              ClassTableOffset |-> tableOffset(in, d), Classes |-> buildArenaGeometry(in.classes[d])]]]

\* The layout page as bytes: scalars at fixed places, one entry per class where its table puts it.
tablePlaces(l, d) ==
    {l.Arenas[d].ClassTableOffset + (i - 1) * EntrySize : i \in DOMAIN l.Arenas[d].Classes}
writeClassTable(l, d) ==
    [p \in tablePlaces(l, d) |->
        l.Arenas[d].Classes[1 + (p - l.Arenas[d].ClassTableOffset) \div EntrySize]]
writeLayoutPage(l) ==
    [LayoutVersion |-> l.LayoutVersion, HeaderFlags |-> l.HeaderFlags, Generation |-> l.Generation,
     RegionSize |-> l.RegionSize, PageSize |-> PageSize, DescriptorSize |-> DescriptorSize,
     RingCapacity |-> l.RingCapacity, LifecycleReserve |-> l.LifecycleReserve, ShardCount |-> 1,
     SyncPageOffset |-> l.SyncPageOffset, Rings |-> l.Rings,
     Arenas |-> [d \in Direction |->
         [Offset |-> l.Arenas[d].Offset, Bytes |-> l.Arenas[d].Bytes, n |-> Len(l.Arenas[d].Classes),
          ClassTableOffset |-> l.Arenas[d].ClassTableOffset]],
     \* The P->H table is written second and wins where the two meet.
     entries |-> [p \in tablePlaces(l, "hp") \union tablePlaces(l, "ph") |->
         IF p \in tablePlaces(l, "ph") THEN writeClassTable(l, "ph")[p] ELSE writeClassTable(l, "hp")[p]]]

-----------------------------------------------------------------------------
(* Phase 2 of an attach: every field is checked against what the others    *)
(* imply.  `written` holds the spans <<first, end>> some process has       *)
(* written outside the layout page; every other byte is zero.              *)

overlaps(aStart, aEnd, bStart, bEnd) == aStart < bEnd /\ bStart < aEnd
isZero(written, first, end) == \A w \in written : ~ overlaps(first, end, w[1], w[2])

checkHeaderScalars(p) ==
    p.LayoutVersion = 1 /\ p.PageSize = PageSize /\ p.DescriptorSize = DescriptorSize /\ p.ShardCount = 1
checkRingReservation(p) ==
    validateRingCapacity(p.RingCapacity) /\ validateLifecycleReserve(p.LifecycleReserve, p.RingCapacity)
tableEnd(p, d) == p.Arenas[d].ClassTableOffset + p.Arenas[d].n * EntrySize
checkOneClassTableRange(p, d) ==
    /\ p.Arenas[d].n >= 1
    /\ p.Arenas[d].ClassTableOffset \in HeaderSize .. PageSize - 1
    /\ tableEnd(p, d) <= PageSize
checkClassTableRanges(p) ==
    /\ \A d \in Direction : checkOneClassTableRange(p, d)
    /\ ~ overlaps(p.Arenas["hp"].ClassTableOffset, tableEnd(p, "hp"),
                  p.Arenas["ph"].ClassTableOffset, tableEnd(p, "ph"))
readClasses(p, d) ==
    [i \in 1 .. p.Arenas[d].n |-> p.entries[p.Arenas[d].ClassTableOffset + (i - 1) * EntrySize]]
checkClassBaseOffsets(classes) ==
    \A i \in DOMAIN classes : classes[i].ClassBaseOffset = computeClassBaseOffsets(classes)[i]
checkClassRules(p, d) == validateSlabBounds(readClasses(p, d)) /\ checkClassBaseOffsets(readClasses(p, d))
checkArenaTotal(p, d) ==
    arenaBytes(readClasses(p, d)) <= MaxArenaBytes /\ p.Arenas[d].Bytes = arenaBytes(readClasses(p, d))
pageSpans(p) == deriveSpans(p.RingCapacity, p.Arenas["hp"].Bytes, p.Arenas["ph"].Bytes)
checkSpansAndCoverage(p, declared, mapped) ==
    LET spans == pageSpans(p)
    IN  /\ p.SyncPageOffset = spans.sync /\ p.Rings = spans.rings
        /\ \A d \in Direction : p.Arenas[d].Offset = spans.arenas[d]
        /\ p.RegionSize = spans.regionSize
        /\ spans.regionSize = declared /\ mapped = spans.regionSize
checkSyncPageReservedTailZero(p, written) ==
    isZero(written, p.SyncPageOffset + 8 * CacheLine, p.SyncPageOffset + PageSize)
checkArenaPadZero(p, d, written) ==
    LET a == p.Arenas[d]
    IN  isZero(written, a.Offset + classTotal(readClasses(p, d)), a.Offset + a.Bytes)
checkReservedZero(p, written) ==
    /\ p.HeaderFlags = 0
    /\ checkSyncPageReservedTailZero(p, written)
    /\ \A d \in Direction : checkArenaPadZero(p, d, written)
parses(p, written, declared, mapped) ==
    /\ checkHeaderScalars(p)
    /\ checkRingReservation(p)
    /\ checkClassTableRanges(p)
    /\ \A d \in Direction : checkClassRules(p, d)
    /\ \A d \in Direction : checkArenaTotal(p, d)
    /\ spansFit(pageSpans(p))
    /\ checkSpansAndCoverage(p, declared, mapped)
    /\ checkReservedZero(p, written)
parseLayoutPhase2(p) ==
    LET spans == pageSpans(p)
    IN  [LayoutVersion |-> p.LayoutVersion, HeaderFlags |-> p.HeaderFlags, Generation |-> p.Generation,
         RegionSize |-> spans.regionSize, RingCapacity |-> p.RingCapacity,
         LifecycleReserve |-> p.LifecycleReserve, SyncPageOffset |-> spans.sync, Rings |-> spans.rings,
         Arenas |-> [d \in Direction |->
             [Offset |-> spans.arenas[d], Bytes |-> p.Arenas[d].Bytes,
              ClassTableOffset |-> p.Arenas[d].ClassTableOffset, Classes |-> readClasses(p, d)]]]

-----------------------------------------------------------------------------
(* Slabs: who serves a stored length, which offsets the allocator hands    *)
(* out, and which of them the consumer takes.                              *)

fits(classes, size) == {i \in DOMAIN classes : classes[i].SlabSize >= size}
SelectClass(classes, size) == CHOOSE i \in fits(classes, size) : \A j \in fits(classes, size) : i <= j
slabSizeLast(classes) == Last(classes).SlabSize

\* The free list a class starts with: every slab, but for the first of the first class.
newClassState(classes, i) == (IF i = 1 THEN 1 ELSE 0) .. classes[i].SlabCount - 1
allocOffsets(classes, size) ==
    LET i == SelectClass(classes, size)
    IN  {classes[i].ClassBaseOffset + k * classes[i].SlabSize : k \in newClassState(classes, i)}
slabInClass(classes, off, stored) ==
    /\ fits(classes, stored) # {}
    /\ LET i == SelectClass(classes, stored)
           rel == off - classes[i].ClassBaseOffset
       IN  /\ rel >= 0 /\ rel % classes[i].SlabSize = 0
           /\ rel \div classes[i].SlabSize < classes[i].SlabCount
           /\ ~ (i = 1 /\ rel = 0)
maxSlabExtent(classes) == classTotal(classes)

-----------------------------------------------------------------------------
(* How much a geometry admits. *)

overhead(checksum) == IF checksum THEN TrailerLen ELSE 0
usableSlabs(classes, i) == classes[i].SlabCount - (IF i = 1 THEN 1 ELSE 0)
ValidateStartupCapacity(l, maxInflight, checksum, strict) ==
    /\ maxInflight > 0
    /\ maxInflight <= l.RingCapacity - l.LifecycleReserve
    /\ \A d \in Direction : slabSizeLast(l.Arenas[d].Classes) > overhead(checksum)
    /\ strict => \A d \in Direction : \A i \in DOMAIN l.Arenas[d].Classes :
                     maxInflight <= usableSlabs(l.Arenas[d].Classes, i)
validateCapacityInvariant(cfg, l) ==
    /\ cfg.MaxInflight > 0 /\ cfg.QueueDepth > 0
    /\ cfg.MaxInflight <= l.RingCapacity - l.LifecycleReserve
    /\ \A d \in Direction :
           cfg.MaxPayload + overhead(cfg.Checksum) <= slabSizeLast(l.Arenas[d].Classes)
=============================================================================
