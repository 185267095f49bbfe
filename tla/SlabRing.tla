------------------------------ MODULE SlabRing ------------------------------
(***************************************************************************)
(* One direction of the shared-memory data plane as its single writer and  *)
(* its single reader drive it: the descriptor ring (internal/ring), the    *)
(* slab arena (internal/arena) and the writer's head-gated reclaim         *)
(* (internal/transport/shm/writer.go).  The reader's head store is the     *)
(* only message that gives a slab back, and it may come at any time after  *)
(* the tail store, before the writer has recorded whose slab it was.       *)
(***************************************************************************)
EXTENDS Integers, Sequences, FiniteSets

CONSTANTS
    W,         \* ring cursors count modulo W (2^64 in the code)
    Cap,       \* ring capacity, and the length of the handle table
    Slabs,     \* the slabs of the arena's one size class
    Payloads,  \* payload contents
    Nil        \* no slab, no payload

ASSUME SlabRingAssumption ==
    /\ W \in Nat /\ Cap \in Nat
    /\ 0 < Cap /\ Cap + 1 < W /\ W % Cap = 0
    /\ Nil \notin Slabs /\ Nil \notin Payloads

VARIABLES
    tail, head,     \* the ring's cursor words
    slots,          \* the ring's descriptors
    mem,            \* slab contents
    free,           \* slabs on the arena's free list
    handleTable,    \* slab recorded for each slot, or Nil
    lastReclaimed,  \* cursor up to which the writer has reclaimed
    carry,          \* the data intent in hand: unbuilt or built while it is stuck
    lane,           \* lane of the frame being published
    wpc,            \* where the writer goroutine is
    cpc,            \* where the reader is
    desc,           \* the descriptor the reader peeked
    out,            \* the payload last delivered
    down,           \* the region is shut down or poisoned
    corrupt         \* the writer has poisoned the region as ring-corrupt

ringVars == <<tail, head, slots>>
arenaVars == <<mem, free>>
writerVars == <<handleTable, lastReclaimed, carry, lane, wpc>>
readerVars == <<cpc, desc, out>>
vars == <<ringVars, arenaVars, writerVars, readerVars, down, corrupt>>

Cursor == 0 .. W - 1
SlotIndex == 0 .. Cap - 1
Contents == Payloads \cup {Nil}
SlabRef == Slabs \cup {Nil}
Descriptor == [slab : SlabRef, val : Contents]
NoCarry == [st |-> "none", val |-> Nil, slab |-> Nil]

\* uint64 arithmetic and the capacity mask.
Inc(c) == IF c = W - 1 THEN 0 ELSE c + 1
Dist(a, b) == IF b <= a THEN a - b ELSE a - b + W
Slot(c) == c % Cap

TypeOK ==
    /\ tail \in Cursor /\ head \in Cursor /\ lastReclaimed \in Cursor
    /\ slots \in [SlotIndex -> Descriptor]
    /\ mem \in [Slabs -> Contents]
    /\ free \subseteq Slabs
    /\ handleTable \in [SlotIndex -> SlabRef]
    /\ carry \in [st : {"none", "unbuilt", "built"}, val : Contents, slab : SlabRef]
    /\ lane \in {"data", "lifecycle"}
    /\ wpc \in {"idle", "gate", "push", "store", "record", "stopped"}
    /\ cpc \in {"peek", "read", "consume", "stopped"}
    /\ desc \in Descriptor /\ out \in Contents
    /\ down \in {0, 1} /\ corrupt \in {0, 1}

Init ==
    /\ tail = 0 /\ head = 0 /\ lastReclaimed = 0
    /\ slots = [i \in SlotIndex |-> [slab |-> Nil, val |-> Nil]]
    /\ mem = [s \in Slabs |-> Nil] /\ free = Slabs
    /\ handleTable = [i \in SlotIndex |-> Nil]
    /\ carry = NoCarry /\ lane = "data" /\ wpc = "idle"
    /\ cpc = "peek" /\ desc = [slab |-> Nil, val |-> Nil] /\ out = Nil
    /\ down = 0 /\ corrupt = 0

-----------------------------------------------------------------------------
(* Reclaim: give back the slabs of every sequence the head has passed.     *)

\* The two bounds reclaim validates the peer's head against.
ReclaimBounds(max) == Dist(tail, head) <= Cap /\ Dist(head, lastReclaimed) <= max

\* Mutant: reclaim's loop also takes the sequence at the head.
PassedInclusive == {i \in SlotIndex :
    \E c \in Cursor : Slot(c) = i /\ Dist(c, lastReclaimed) <= Dist(head, lastReclaimed)}

\* The handle-table slots of the sequences in [lastReclaimed, head).
Passed == {i \in SlotIndex :
              \E c \in Cursor : Slot(c) = i /\ Dist(c, lastReclaimed) < Dist(head, lastReclaimed)}

\* What reclaim(max) leaves in the free list, the handle table and its cursor; a
\* head outside the bounds frees nothing and poisons the region.
FreeAfter(max) ==
    IF ReclaimBounds(max) THEN free \cup ({handleTable[i] : i \in Passed} \ {Nil}) ELSE free
TableAfter(max) ==
    [i \in SlotIndex |-> IF ReclaimBounds(max) /\ i \in Passed THEN Nil ELSE handleTable[i]]
LastAfter(max) == IF ReclaimBounds(max) THEN head ELSE lastReclaimed
PoisonAfter(max) ==
    IF ReclaimBounds(max) THEN UNCHANGED <<down, corrupt>> ELSE down' = 1 /\ corrupt' = 1

-----------------------------------------------------------------------------
(* The writer goroutine.                                                   *)

\* Mutant: a stuck intent is never tried again.
BuildFresh(v) ==
    /\ wpc = "idle" /\ carry.st = "none" /\ v # Nil
    /\ lane' = "data"
    /\ handleTable' = TableAfter(Cap) /\ lastReclaimed' = LastAfter(Cap)
    /\ PoisonAfter(Cap)
    /\ \/ /\ FreeAfter(Cap) = {} /\ free' = {}
          /\ carry' = [st |-> "unbuilt", val |-> v, slab |-> Nil] /\ wpc' = "idle"
          /\ UNCHANGED mem
       \/ \E s \in FreeAfter(Cap) :
          /\ mem' = [mem EXCEPT ![s] = v] /\ free' = FreeAfter(Cap) \ {s}
          /\ carry' = [st |-> "built", val |-> v, slab |-> s] /\ wpc' = "gate"
    /\ UNCHANGED <<ringVars, readerVars>>

\* place, build and stampPayload of a new data intent or of the stuck one: reclaim,
\* then Alloc, then the payload write.  An empty free list leaves the intent stuck,
\* a fill that fails gives its slab back, an empty payload takes no slab.
Build(v) ==
    /\ wpc = "idle"
    /\ carry.st = "none" \/ (carry.st = "unbuilt" /\ carry.val = v)
    /\ lane' = "data"
    /\ \/ /\ v = Nil
          /\ carry' = [st |-> "built", val |-> v, slab |-> Nil] /\ wpc' = "gate"
          /\ UNCHANGED <<arenaVars, handleTable, lastReclaimed, down, corrupt>>
       \/ /\ v # Nil
          /\ handleTable' = TableAfter(Cap) /\ lastReclaimed' = LastAfter(Cap)
          /\ PoisonAfter(Cap)
          /\ \/ /\ FreeAfter(Cap) = {}
                /\ carry' = [st |-> "unbuilt", val |-> v, slab |-> Nil] /\ wpc' = "idle"
                /\ free' = FreeAfter(Cap) /\ UNCHANGED mem
             \/ \E s \in FreeAfter(Cap) :
                /\ mem' = [mem EXCEPT ![s] = v]
                /\ \/ /\ carry' = [st |-> "built", val |-> v, slab |-> s] /\ wpc' = "gate"
                      /\ free' = FreeAfter(Cap) \ {s}
                   \/ carry' = NoCarry /\ wpc' = "idle" /\ free' = FreeAfter(Cap)
    /\ UNCHANGED <<ringVars, readerVars>>

\* place of an intent that is already built: it was stuck on a full ring.
Retry ==
    /\ wpc = "idle" /\ carry.st = "built"
    /\ wpc' = "gate" /\ lane' = "data"
    /\ UNCHANGED <<ringVars, arenaVars, handleTable, lastReclaimed, carry, readerVars, down, corrupt>>

\* place of a stuck fill its caller has abandoned.
Abandon ==
    /\ wpc = "idle" /\ carry.st = "unbuilt"
    /\ carry' = NoCarry
    /\ UNCHANGED <<ringVars, arenaVars, handleTable, lastReclaimed, lane, wpc, readerVars, down, corrupt>>

\* emitLifecycle: a descriptor without a slab.
EmitLifecycle ==
    /\ wpc = "idle"
    /\ wpc' = "gate" /\ lane' = "lifecycle"
    /\ UNCHANGED <<ringVars, arenaVars, handleTable, lastReclaimed, carry, readerVars, down, corrupt>>

\* What becomes of the carried intent when the frame in hand is dropped.
DropFrame ==
    /\ wpc' = "idle"
    /\ IF lane = "data"
       THEN carry' = NoCarry /\ free' = free \cup ({carry.slab} \ {Nil})
       ELSE UNCHANGED <<carry, free>>

\* prePublishFault: nothing is published on a region that is down.
PrePublishFault ==
    /\ wpc = "gate"
    /\ IF down = 1 THEN DropFrame ELSE wpc' = "push" /\ UNCHANGED <<carry, free>>
    /\ UNCHANGED <<ringVars, mem, handleTable, lastReclaimed, lane, readerVars, down, corrupt>>

\* The descriptor in hand.
Frame == IF lane = "data" THEN [slab |-> carry.slab, val |-> carry.val]
                          ELSE [slab |-> Nil, val |-> Nil]

\* Mutant: the slot is written without looking at the depth.
PushSlotUnchecked ==
    /\ wpc = "push" /\ wpc' = "store"
    /\ slots' = [slots EXCEPT ![Slot(tail)] = Frame]
    /\ UNCHANGED <<tail, head, carry, arenaVars, handleTable, lastReclaimed, lane, readerVars,
                   down, corrupt>>

\* Ring.Push up to the slot write: a full ring keeps a data intent stuck and
\* refuses a lifecycle one, an impossible depth poisons the region.
PushSlot ==
    /\ wpc = "push"
    /\ \/ /\ Dist(tail, head) < Cap
          /\ slots' = [slots EXCEPT ![Slot(tail)] = Frame]
          /\ wpc' = "store" /\ UNCHANGED <<carry, free, down, corrupt>>
       \/ /\ Dist(tail, head) = Cap
          /\ wpc' = "idle" /\ UNCHANGED <<slots, carry, free, down, corrupt>>
       \/ /\ Dist(tail, head) > Cap
          /\ DropFrame /\ down' = 1 /\ corrupt' = 1 /\ UNCHANGED slots
    /\ UNCHANGED <<tail, head, mem, handleTable, lastReclaimed, lane, readerVars>>

\* Ring.Push's tail store: the reader sees the descriptor from here on.
PushTail ==
    /\ wpc = "store"
    /\ tail' = Inc(tail) /\ wpc' = "record"
    /\ UNCHANGED <<head, slots, arenaVars, handleTable, lastReclaimed, carry, lane, readerVars,
                   down, corrupt>>

\* published with a given reclaim bound and a given test that the reader has
\* already passed the frame: record the slab, or free it when it was passed.
Record(max, passed) ==
    LET ref   == IF lane = "data" THEN carry.slab ELSE Nil
        early == ref # Nil /\ passed
        seq   == IF tail = 0 THEN W - 1 ELSE tail - 1
    IN  /\ wpc = "record" /\ wpc' = "idle"
        /\ lastReclaimed' = LastAfter(max) /\ PoisonAfter(max)
        /\ handleTable' = [TableAfter(max) EXCEPT ![Slot(seq)] = IF early THEN Nil ELSE ref]
        /\ free' = FreeAfter(max) \cup (IF early THEN {ref} ELSE {})
        /\ carry' = IF lane = "data" THEN NoCarry ELSE carry
        /\ UNCHANGED <<ringVars, mem, lane, readerVars>>

\* published: after the push the head may be Cap + 1 ahead of the last reclaim, and
\* lastReclaimed = seq + 1 (here the tail) says the reader is past this frame.
Published == Record(Cap + 1, LastAfter(Cap + 1) = tail)

\* drainAndStop: the stopping writer frees the slab of the stuck intent.
Stop ==
    /\ wpc = "idle" /\ down = 1
    /\ wpc' = "stopped" /\ carry' = NoCarry
    /\ free' = free \cup ({carry.slab} \ {Nil})
    /\ UNCHANGED <<ringVars, mem, handleTable, lastReclaimed, lane, readerVars, down, corrupt>>

Writer == (\E v \in Contents : Build(v)) \/ Retry \/ Abandon \/ EmitLifecycle \/ PrePublishFault
          \/ PushSlot \/ PushTail \/ Published \/ Stop

-----------------------------------------------------------------------------
(* The reader: drain and consumeDescriptor.                                *)

\* drain's gate and Ring.Peek: copy the descriptor at the head.
Peek ==
    /\ cpc = "peek"
    /\ \/ /\ down = 1 /\ cpc' = "stopped" /\ UNCHANGED desc
       \/ /\ down = 0 /\ Dist(tail, head) \in 1 .. Cap
          /\ desc' = slots[Slot(head)] /\ cpc' = "read"
    /\ UNCHANGED <<ringVars, arenaVars, writerVars, out, down, corrupt>>

\* payloadBytes and the final gate: the payload is read through the slab from here
\* until the head moves.
FinalGate ==
    /\ cpc = "read"
    /\ cpc' = IF down = 1 THEN "stopped" ELSE "consume"
    /\ UNCHANGED <<ringVars, arenaVars, writerVars, desc, out, down, corrupt>>

\* protectedConsume, then advanceHead: the frame is delivered, or the reader's own
\* fault discards it; the slot is released either way.
Consume ==
    /\ cpc = "consume" /\ cpc' = "peek"
    /\ head' = Inc(head)
    /\ out' \in {IF desc.slab = Nil THEN Nil ELSE mem[desc.slab], out}
    /\ UNCHANGED <<tail, slots, arenaVars, writerVars, desc, down, corrupt>>

Reader == Peek \/ FinalGate \/ Consume

\* Another goroutine shuts the region down or poisons it.
TearDown ==
    /\ down = 0 /\ down' = 1
    /\ UNCHANGED <<ringVars, arenaVars, writerVars, readerVars, corrupt>>

\* Both sides have left the region.
Terminated ==
    /\ wpc = "stopped" /\ cpc = "stopped"
    /\ UNCHANGED vars

Next == Writer \/ Reader \/ TearDown \/ Terminated

Spec == Init /\ [][Next]_vars

\* The reader and the writer goroutines keep running; the writer's burst bound
\* and its retry timer give the stuck intent a turn again and again.
Fairness ==
    /\ WF_vars(Reader)
    /\ WF_vars(PrePublishFault \/ PushSlot \/ PushTail \/ Published \/ Stop)
    /\ \A v \in Payloads : SF_vars(carry.st = "unbuilt" /\ Build(v))
    /\ SF_vars(Retry)

FairSpec == Spec /\ Fairness

-----------------------------------------------------------------------------
(* Properties.                                                             *)

\* The sequences published and not yet released, oldest first.
InFlight == {c \in Cursor : Dist(c, head) < Dist(tail, head)}

\* Payloads stay intact while anyone may read them: the slab of every unreleased
\* descriptor, the one the reader has in hand included, is off the free list and
\* still holds what the writer put there (stampPayload against reclaim).
PayloadIntact ==
    /\ \A c \in InFlight :
          LET d == slots[Slot(c)] IN d.slab # Nil => d.slab \notin free /\ mem[d.slab] = d.val
    /\ cpc \in {"read", "consume"} => head # tail /\ desc = slots[Slot(head)]

\* Every slab has exactly one owner: the free list, the intent in hand, or one
\* entry of the handle table.  None leaks, none is freed twice or handed out twice
\* (Alloc, Free, published and reclaim together).
SlabConservation ==
    LET Recorded == {handleTable[i] : i \in SlotIndex} \ {Nil}
        InHand   == {carry.slab} \ {Nil}
    IN  /\ free \cup Recorded \cup InHand = Slabs
        /\ free \cap Recorded = {} /\ free \cap InHand = {} /\ Recorded \cap InHand = {}
        /\ \A i, j \in SlotIndex : handleTable[i] = handleTable[j] /\ i # j => handleTable[i] = Nil

\* An honest reader never makes the writer poison the region: reclaim's bounds of
\* Cap before a push and Cap + 1 after it are never exceeded.
NoFalsePoison == corrupt = 0

\* The direction implements a bounded FIFO of intact frames: what Consume delivers
\* through the slab is what was published, once and in order.
Queue == [k \in 1 .. Dist(tail, head) |-> slots[Slot((head + k - 1) % W)].val]
Fifo == INSTANCE FrameFifo WITH Capacity <- Cap, Frames <- Contents, queue <- Queue, out <- out
ImplementsFifo == Fifo!FifoSpec

\* A stuck data intent does not stay stuck while the reader runs: it is published
\* or dropped unless lifecycle frames keep taking the ring (run's retry of the carry).
StuckIntentResolves == []<>(carry.st = "none") \/ []<>(lane = "lifecycle")

\* Slab ownership is exact: no slab has two owners or none, a payload is intact until its frame is
\* released, and a correct peer is never accused of corrupting the ring (reclaim, placeData, Drain).
SlabsExact == TypeOK /\ PayloadIntact /\ SlabConservation /\ NoFalsePoison
=============================================================================
