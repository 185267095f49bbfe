---------------------------- MODULE WriterQueue ----------------------------
(***************************************************************************)
(* The single writer goroutine of the shared-memory transport and the      *)
(* goroutines that hand it frames (internal/transport/shm/writer.go): two  *)
(* bounded queues, the bounded lifecycle burst, the set-aside data intent  *)
(* with its retry timer, the claim/abandon handshake of a caller-supplied  *)
(* fill, and stop's shutdown / lock / barrier order.  Ring and arena are   *)
(* counted here; SlabRing models them.                                     *)
(***************************************************************************)
EXTENDS Naturals, Sequences, FiniteSets

CONSTANTS
    Copies,         \* submissions of submit and submitReporting on the data lane
    Fills,          \* submissions of submitFill, whose payload the writer marshals
    Lifecycles,     \* submissions on the lifecycle lane
    Mixes,          \* the sets of submissions made in one behaviour
    DataDepth, LifecycleDepth,  \* capacities of the two queues
    RingCap,        \* descriptors the ring holds
    Slabs,          \* number of slabs in the arena
    BurstBound,     \* lifecycleBurstBound
    NoIntent        \* no submission

Data == Copies \cup Fills
Sends == Data \cup Lifecycles

ASSUME WriterQueueAssumption ==
    /\ {DataDepth, LifecycleDepth, RingCap, Slabs, BurstBound} \subseteq Nat \ {0}
    /\ NoIntent \notin Sends /\ Mixes \subseteq SUBSET Sends
    /\ Copies \cap Fills = {} /\ Data \cap Lifecycles = {}

VARIABLES
    pc,             \* where each submission is
    res,            \* what it returned: refused and withdrawn before any queue took it
    done,           \* reports the writer made on it, in order
    fill,           \* payloadFill.state
    dataQueue, lifecycleQueue,
    wpc,            \* where the writer goroutine is
    next,           \* where it goes on after a data attempt
    carry,          \* the data intent in hand or set aside
    stuck,          \* 1: the carry is set aside
    staged,         \* lifecycle intent a blocking select received
    burst,          \* lifecycle intents published this turn
    timer,          \* retry timer: "off", "armed", "spent"
    ring,           \* slab counts (0 or 1) of the unconsumed descriptors
    used,           \* slabs the arena has handed out
    passed,         \* slabs of consumed descriptors, not yet reclaimed
    poison,         \* 1: the region refuses further publishes
    stop,           \* where stop is
    accepted,       \* data intents in the order they were queued
    published,      \* data intents in the order they were published
    streak          \* lifecycle publishes since the last data attempt

senderVars == <<pc, res>>
queueVars == <<dataQueue, lifecycleQueue>>
loopVars == <<next, stuck, staged, burst, timer, streak>>
regionVars == <<ring, used, passed>>
vars == <<senderVars, done, fill, queueVars, wpc, carry, loopVars, regionVars, poison, stop, accepted, published>>

NoCarry == [s |-> NoIntent, built |-> 0, slab |-> 0]
Lane(s) == IF s \in Lifecycles THEN "lifecycle" ELSE "data"
InSeq(s, q) == \E i \in 1 .. Len(q) : q[i] = s
Count(q, x) == Cardinality({i \in 1 .. Len(q) : q[i] = x})

\* shutdown and closed as stop's progress sets them; a waiting Lock also holds off
\* the RLock of a new enqueue.
Shutdown == stop # "no"
Closed == stop \in {"barrier", "join", "done"}
Locking == stop = "lock"

SenderTypes ==
    /\ pc \in [Sends -> {"unmade", "new", "select", "wait", "owed", "returned"}]
    /\ res \in [Sends -> {"none", "refused", "withdrawn", "ok", "failed", "closed", "ctx"}]
    /\ done \in [Sends -> Seq({"ok", "failed", "closed"})]
    /\ fill \in [Fills -> {"pending", "filling", "abandoned"}]
QueueTypes ==
    /\ dataQueue \in Seq(Data) /\ Len(dataQueue) <= DataDepth
    /\ lifecycleQueue \in Seq(Lifecycles) /\ Len(lifecycleQueue) <= LifecycleDepth
    /\ accepted \in Seq(Data) /\ published \in Seq(Data)
WriterTypes ==
    /\ wpc \in {"burst", "data", "place", "build", "filling", "push", "check",
                "select", "barrier", "drain", "stopped"}
    /\ next \in {"check", "burst"}
    /\ carry \in [s : Data \cup {NoIntent}, built : {0, 1}, slab : {0, 1}]
    /\ stuck \in {0, 1} /\ staged \in Lifecycles \cup {NoIntent}
    /\ burst \in 0 .. BurstBound /\ timer \in {"off", "armed", "spent"} /\ streak \in Nat
RegionTypes ==
    /\ ring \in Seq({0, 1}) /\ Len(ring) <= RingCap /\ used \in 0 .. Slabs /\ passed \in 0 .. Slabs
    /\ poison \in {0, 1} /\ stop \in {"no", "lock", "shut", "barrier", "join", "done"}
TypeOK == SenderTypes /\ QueueTypes /\ WriterTypes /\ RegionTypes

Init ==
    /\ \E mix \in Mixes : pc = [s \in Sends |-> IF s \in mix THEN "new" ELSE "unmade"]
    /\ res = [s \in Sends |-> "none"]
    /\ done = [s \in Sends |-> <<>>]
    /\ fill = [s \in Fills |-> "pending"]
    /\ dataQueue = <<>> /\ lifecycleQueue = <<>>
    /\ wpc = "burst" /\ next = "check" /\ carry = NoCarry /\ stuck = 0 /\ staged = NoIntent
    /\ burst = 0 /\ timer = "off" /\ streak = 0
    /\ ring = <<>> /\ used = 0 /\ passed = 0 /\ poison = 0 /\ stop = "no"
    /\ accepted = <<>> /\ published = <<>>

-----------------------------------------------------------------------------
(* Submissions.                                                            *)

Return(s, r) == pc' = [pc EXCEPT ![s] = "returned"] /\ res' = [res EXCEPT ![s] = r]

\* enqueue takes the read lock, sees closed, and enters its select.
Enqueue(s) ==
    /\ pc[s] = "new" /\ ~Locking
    /\ \/ Closed /\ Return(s, "refused")
       \/ ~Closed /\ pc' = [pc EXCEPT ![s] = "select"] /\ UNCHANGED res
    /\ UNCHANGED <<done, fill, queueVars, wpc, carry, loopVars, regionVars,
                   poison, stop, accepted, published>>

\* The select's first case: the queue takes the intent.
Accept(s) ==
    /\ pc[s] = "select" /\ pc' = [pc EXCEPT ![s] = "wait"]
    /\ \/ /\ Lane(s) = "data" /\ Len(dataQueue) < DataDepth
          /\ dataQueue' = Append(dataQueue, s) /\ accepted' = Append(accepted, s)
          /\ UNCHANGED lifecycleQueue
       \/ /\ Lane(s) = "lifecycle" /\ Len(lifecycleQueue) < LifecycleDepth
          /\ lifecycleQueue' = Append(lifecycleQueue, s) /\ UNCHANGED <<dataQueue, accepted>>
    /\ UNCHANGED <<res, done, fill, wpc, carry, loopVars, regionVars, poison,
                   stop, published>>

\* Its other two cases: the shutdown channel, and a context that is done.
Refuse(s) ==
    /\ pc[s] = "select" /\ Shutdown /\ Return(s, "refused")
    /\ UNCHANGED <<done, fill, queueVars, wpc, carry, loopVars, regionVars, poison, stop,
                   accepted, published>>

Withdraw(s) ==
    /\ pc[s] = "select" /\ Return(s, "withdrawn")
    /\ UNCHANGED <<done, fill, queueVars, wpc, carry, loopVars, regionVars, poison, stop,
                   accepted, published>>

\* The wait of submit, submitReporting and submitFill for the writer's report.
Reported(s) ==
    /\ pc[s] \in {"wait", "owed"} /\ done[s] # <<>> /\ Return(s, Head(done[s]))
    /\ UNCHANGED <<done, fill, queueVars, wpc, carry, loopVars, regionVars,
                   poison, stop, accepted, published>>

\* Mutant: submitFill returns on its context without the abandon CAS.
GiveUpUnclaimed(s) ==
    /\ pc[s] = "wait" /\ Lane(s) = "data"
    /\ Return(s, "ctx")
    /\ UNCHANGED <<done, fill, queueVars, wpc, carry, loopVars, regionVars,
                   poison, stop, accepted, published>>

\* The context case of that wait.  The lifecycle lane has none; a fill returns only
\* if its abandon CAS wins, and otherwise goes on waiting for the report.
GiveUp(s) ==
    /\ pc[s] = "wait" /\ Lane(s) = "data"
    /\ \/ s \in Copies /\ Return(s, "ctx") /\ UNCHANGED fill
       \/ /\ s \in Fills /\ fill[s] = "pending"
          /\ fill' = [fill EXCEPT ![s] = "abandoned"] /\ Return(s, "ctx")
       \/ /\ s \in Fills /\ fill[s] = "filling"
          /\ pc' = [pc EXCEPT ![s] = "owed"] /\ UNCHANGED <<res, fill>>
    /\ UNCHANGED <<done, queueVars, wpc, carry, loopVars, regionVars, poison,
                   stop, accepted, published>>

-----------------------------------------------------------------------------
(* The writer's turn.                                                      *)

\* claim's CAS, which a copied payload does not need, and abandoned.
Claimable(s) == s \in Fills => fill[s] = "pending"
Abandoned(s) == s \in Fills /\ fill[s] = "abandoned"

\* report: the done channel keeps the first report.
Report(s, r) == done' = [done EXCEPT ![s] = Append(@, r)]

\* Step 1 of the loop: emitLifecycle of the staged intent, then of queued ones, at
\* most BurstBound a turn.  A poisoned region or a full ring fails the intent.
EmitLifecycle ==
    /\ wpc = "burst" /\ burst < BurstBound
    /\ \E s \in Lifecycles :
       /\ \/ staged = s /\ staged' = NoIntent /\ UNCHANGED lifecycleQueue
          \/ /\ staged = NoIntent /\ lifecycleQueue # <<>> /\ s = Head(lifecycleQueue)
             /\ lifecycleQueue' = Tail(lifecycleQueue) /\ UNCHANGED staged
       /\ burst' = burst + 1
       /\ streak' = IF dataQueue # <<>> \/ stuck = 1 THEN streak + 1 ELSE 0
       /\ \/ /\ poison = 0 /\ Len(ring) < RingCap
             /\ ring' = Append(ring, 0) /\ Report(s, "ok")
          \/ /\ poison = 1 \/ Len(ring) = RingCap
             /\ Report(s, "failed") /\ UNCHANGED ring
    /\ UNCHANGED <<senderVars, fill, dataQueue, wpc, next, carry, stuck, timer, used, passed,
                   poison, stop, accepted, published>>

BurstOver ==
    /\ wpc = "burst" /\ (burst = BurstBound \/ (lifecycleQueue = <<>> /\ staged = NoIntent))
    /\ wpc' = "data" /\ burst' = 0
    /\ UNCHANGED <<senderVars, done, fill, queueVars, next, carry, stuck, staged, timer, streak,
                   regionVars, poison, stop, accepted, published>>

\* Step 2: one data attempt, of the carry that is set aside or of the next intent.
DataTurn ==
    /\ wpc = "data" /\ streak' = 0 /\ next' = "check"
    /\ \/ stuck = 1 /\ wpc' = "place" /\ UNCHANGED <<carry, dataQueue>>
       \/ /\ stuck = 0 /\ dataQueue # <<>> /\ wpc' = "place"
          /\ carry' = [NoCarry EXCEPT !.s = Head(dataQueue)] /\ dataQueue' = Tail(dataQueue)
       \/ stuck = 0 /\ dataQueue = <<>> /\ wpc' = "check" /\ UNCHANGED <<carry, dataQueue>>
    /\ UNCHANGED <<senderVars, done, fill, lifecycleQueue, stuck, staged, burst, timer,
                   regionVars, poison, stop, accepted, published>>

\* place's two exits.  The carry is finished with report r, and its slab freed; or
\* it is set aside with the timer armed, or armed again if the timer woke it.
Finish(r, slabFreed) ==
    /\ Report(carry.s, r) /\ carry' = NoCarry /\ stuck' = 0 /\ timer' = "off"
    /\ used' = used - slabFreed /\ wpc' = next

\* Mutant: a retry that fails again leaves the fired timer spent.
SetAsideNoBackoff(c) ==
    /\ carry' = c /\ stuck' = 1 /\ wpc' = next
    /\ timer' = IF stuck = 0 THEN "armed" ELSE timer
    /\ UNCHANGED done

SetAside(c) ==
    /\ carry' = c /\ stuck' = 1 /\ wpc' = next
    /\ timer' = IF stuck = 0 \/ timer = "spent" THEN "armed" ELSE timer
    /\ UNCHANGED done

placeFrame == <<senderVars, queueVars, next, staged, burst, streak, poison, stop, accepted>>

\* place: an abandoned fill is dropped; a carry built earlier goes straight to the push.
Place ==
    /\ wpc = "place"
    /\ \/ Abandoned(carry.s) /\ Finish("failed", carry.slab)
       \/ /\ ~Abandoned(carry.s)
          /\ wpc' = IF carry.built = 1 THEN "push" ELSE "build"
          /\ UNCHANGED <<done, carry, stuck, timer, used>>
    /\ UNCHANGED <<placeFrame, fill, ring, passed, published>>

\* build and stampPayload.  An intent may be refused outright (its kind, its size)
\* and one without payload takes no slab.  Otherwise reclaim, then Alloc, which
\* leaves the intent set aside when no slab is free; then the payload is copied, or
\* the fill claimed and run.
Build ==
    /\ wpc = "build"
    /\ \/ /\ Finish("failed", 0) /\ UNCHANGED <<fill, passed>>
       \/ /\ Claimable(carry.s)
          /\ carry' = [carry EXCEPT !.built = 1] /\ wpc' = "push"
          /\ fill' = [s \in Fills |-> IF s = carry.s THEN "filling" ELSE fill[s]]
          /\ UNCHANGED <<done, stuck, timer, used, passed>>
       \/ /\ used - passed = Slabs /\ SetAside(carry)
          /\ used' = used - passed /\ passed' = 0 /\ UNCHANGED fill
       \/ /\ used - passed < Slabs /\ passed' = 0
          /\ \/ /\ carry.s \in Copies /\ wpc' = "push"
                /\ carry' = [carry EXCEPT !.built = 1, !.slab = 1]
                /\ used' = used - passed + 1 /\ UNCHANGED <<done, stuck, timer, fill>>
             \/ /\ carry.s \in Fills /\ Claimable(carry.s) /\ wpc' = "filling"
                /\ fill' = [fill EXCEPT ![carry.s] = "filling"]
                /\ used' = used - passed + 1 /\ UNCHANGED <<done, carry, stuck, timer>>
             \/ /\ Abandoned(carry.s)
                /\ Report(carry.s, "failed") /\ carry' = NoCarry /\ stuck' = 0 /\ timer' = "off"
                /\ used' = used - passed /\ wpc' = next /\ UNCHANGED fill
    /\ UNCHANGED <<placeFrame, ring, published>>

\* fillSlab and runFill: the caller's function marshals into the slab, or fails.
RunFill ==
    /\ wpc = "filling"
    /\ \/ /\ carry' = [carry EXCEPT !.built = 1, !.slab = 1] /\ wpc' = "push"
          /\ UNCHANGED <<done, stuck, timer, used>>
       \/ Finish("failed", 1)
    /\ UNCHANGED <<placeFrame, fill, ring, passed, published>>

\* prePublishFault, Push, published and report: a poisoned region refuses the frame, a
\* full ring sets the built carry aside.
Push ==
    /\ wpc = "push"
    /\ \/ poison = 1 /\ Finish("failed", carry.slab) /\ UNCHANGED <<ring, published>>
       \/ /\ poison = 0 /\ Len(ring) = RingCap /\ SetAside(carry)
          /\ UNCHANGED <<ring, used, published>>
       \/ /\ poison = 0 /\ Len(ring) < RingCap /\ Finish("ok", 0)
          /\ ring' = Append(ring, carry.slab) /\ published' = Append(published, carry.s)
    /\ UNCHANGED <<placeFrame, fill, passed>>

\* Step 3: with lifecycle intents queued the next turn starts at once.
Check ==
    /\ wpc = "check" /\ wpc' = IF lifecycleQueue # <<>> THEN "burst" ELSE "select"
    /\ UNCHANGED <<senderVars, done, fill, queueVars, carry, loopVars,
                   regionVars, poison, stop, accepted, published>>

\* The blocking selects: stage a lifecycle intent; take data if none is set aside;
\* on a set-aside carry, the timer.
Wake ==
    /\ wpc = "select"
    /\ \/ /\ lifecycleQueue # <<>> /\ wpc' = "burst"
          /\ staged' = Head(lifecycleQueue) /\ lifecycleQueue' = Tail(lifecycleQueue)
          /\ UNCHANGED <<dataQueue, next, carry, timer, streak>>
       \/ /\ stuck = 0 /\ dataQueue # <<>> /\ wpc' = "place" /\ next' = "burst" /\ streak' = 0
          /\ carry' = [NoCarry EXCEPT !.s = Head(dataQueue)] /\ dataQueue' = Tail(dataQueue)
          /\ UNCHANGED <<lifecycleQueue, staged, timer>>
       \/ /\ stuck = 1 /\ timer = "armed" /\ timer' = "spent" /\ wpc' = "burst"
          /\ UNCHANGED <<queueVars, next, carry, staged, streak>>
    /\ UNCHANGED <<senderVars, done, fill, stuck, burst, regionVars, poison, stop, accepted,
                   published>>

\* Their shutdown case: drainAndStop waits for the barrier.
ObserveShutdown ==
    /\ \/ wpc = "select" /\ Shutdown /\ wpc' = "barrier"
       \/ wpc = "barrier" /\ stop \in {"join", "done"} /\ wpc' = "drain"
    /\ timer' = "off"
    /\ UNCHANGED <<senderVars, done, fill, queueVars, next, carry, stuck, staged, burst, streak,
                   regionVars, poison, stop, accepted, published>>

\* Mutant: the final drain drops the set-aside carry without a report.
DrainForgetsCarry ==
    /\ wpc = "drain" /\ carry' = NoCarry /\ stuck' = 0 /\ UNCHANGED used
    /\ \/ /\ lifecycleQueue # <<>> /\ Report(Head(lifecycleQueue), "closed")
          /\ lifecycleQueue' = Tail(lifecycleQueue) /\ UNCHANGED <<dataQueue, wpc>>
       \/ /\ dataQueue # <<>> /\ Report(Head(dataQueue), "closed")
          /\ dataQueue' = Tail(dataQueue) /\ UNCHANGED <<lifecycleQueue, wpc>>
       \/ /\ lifecycleQueue = <<>> /\ dataQueue = <<>> /\ wpc' = "stopped"
          /\ UNCHANGED <<done, queueVars>>
    /\ UNCHANGED <<senderVars, fill, next, staged, burst, timer, streak, ring, passed, poison,
                   stop, accepted, published>>

\* drainAndStop: the carry, then every queued intent, is reported closed.
Drain ==
    /\ wpc = "drain"
    /\ \/ /\ carry # NoCarry /\ Report(carry.s, "closed") /\ used' = used - carry.slab
          /\ carry' = NoCarry /\ stuck' = 0 /\ UNCHANGED <<queueVars, wpc>>
       \/ /\ carry = NoCarry /\ UNCHANGED <<carry, stuck, used>>
          /\ \/ /\ lifecycleQueue # <<>> /\ Report(Head(lifecycleQueue), "closed")
                /\ lifecycleQueue' = Tail(lifecycleQueue) /\ UNCHANGED <<dataQueue, wpc>>
             \/ /\ dataQueue # <<>> /\ Report(Head(dataQueue), "closed")
                /\ dataQueue' = Tail(dataQueue) /\ UNCHANGED <<lifecycleQueue, wpc>>
             \/ /\ lifecycleQueue = <<>> /\ dataQueue = <<>> /\ wpc' = "stopped"
                /\ UNCHANGED <<done, queueVars>>
    /\ UNCHANGED <<senderVars, fill, next, staged, burst, timer, streak, ring, passed, poison,
                   stop, accepted, published>>

-----------------------------------------------------------------------------
(* stop, the peer and the region.                                          *)

\* close(shutdown); Lock, which waits for the enqueues that hold the read lock;
\* closed = true; close(barrier); wait for the writer.
StopStep ==
    /\ \/ stop = "no" /\ stop' = "shut"
       \/ stop = "shut" /\ stop' = "lock"
       \/ stop = "lock" /\ {s \in Sends : pc[s] = "select"} = {} /\ stop' = "barrier"
       \/ stop = "barrier" /\ stop' = "join"
       \/ stop = "join" /\ wpc = "stopped" /\ stop' = "done"
    /\ UNCHANGED <<senderVars, done, fill, queueVars, wpc, carry, loopVars, regionVars,
                   poison, accepted, published>>

\* The peer consumes the oldest descriptor; its slab can now be reclaimed.
Consume ==
    /\ ring # <<>> /\ ring' = Tail(ring) /\ passed' = passed + Head(ring)
    /\ UNCHANGED <<senderVars, done, fill, queueVars, wpc, carry, loopVars, used, poison,
                   stop, accepted, published>>

\* notePeerProgress: a frame from the peer leaves a token that also resumes the carry.
notePeerProgress ==
    /\ wpc = "select" /\ stuck = 1 /\ wpc' = "burst"
    /\ UNCHANGED <<senderVars, done, fill, queueVars, carry, loopVars, regionVars, poison, stop,
                   accepted, published>>

Poison ==
    /\ poison = 0 /\ poison' = 1
    /\ UNCHANGED <<senderVars, done, fill, queueVars, wpc, carry, loopVars, regionVars,
                   stop, accepted, published>>

\* Nothing more can happen: stop has returned and so has every submission.
Finished ==
    /\ stop = "done" /\ \A s \in Sends : pc[s] \in {"unmade", "returned"}
    /\ UNCHANGED vars

SenderStep(s) == Enqueue(s) \/ Accept(s) \/ Refuse(s) \/ Reported(s)
WriterStep ==
    EmitLifecycle \/ BurstOver \/ DataTurn \/ Place \/ Build \/ RunFill \/ Push
    \/ Check \/ Wake \/ ObserveShutdown \/ Drain

Next ==
    \/ \E s \in Sends : SenderStep(s) \/ Withdraw(s) \/ GiveUp(s)
    \/ WriterStep \/ StopStep \/ Consume \/ notePeerProgress \/ Poison \/ Finished

Spec == Init /\ [][Next]_vars

\* Every goroutine of this process runs when it can, and stop finishes once it has
\* been called.  select picks among its ready cases at random, so a ready shutdown
\* case is not passed over for ever: strong fairness.  Nothing is assumed of the
\* callers' contexts or of the peer.
FairSpec ==
    /\ Spec /\ WF_vars(WriterStep) /\ SF_vars(ObserveShutdown)
    /\ WF_vars(stop # "no" /\ StopStep)
    /\ \A s \in Sends : WF_vars(SenderStep(s))

-----------------------------------------------------------------------------
(* Properties.                                                             *)

InHand(s) == (IF carry.s = s THEN 1 ELSE 0) + (IF staged = s THEN 1 ELSE 0)
Queued(s) == Count(dataQueue, s) + Count(lifecycleQueue, s)

\* Every intent a queue accepted is in exactly one place: queued, in the writer's
\* hand, or reported, and reported once.  One that no queue accepted is in none.
\* (enqueue, run, place, drainAndStop and report: "no pending intent is left to hang".)
IntentAccounted ==
    \A s \in Sends :
        Queued(s) + InHand(s) + Len(done[s]) =
            IF pc[s] \in {"unmade", "new", "select"} \/ res[s] \in {"refused", "withdrawn"} THEN 0 ELSE 1

\* Once the writer has stopped nothing is left in a queue and nothing arrives later:
\* the barrier closes only after no enqueue can be in flight.
StoppedEmpty == wpc = "stopped" => dataQueue = <<>> /\ lifecycleQueue = <<>> /\ carry = NoCarry

\* What a submission is told is what happened: nil means published, an error means it
\* never will be; a fill that returned its context's error was never published.
ReportHonest ==
    \A s \in Data :
        /\ res[s] = "ok" => InSeq(s, published)
        /\ res[s] \in {"refused", "withdrawn", "failed", "closed"} => ~InSeq(s, published)
        /\ s \in Fills /\ res[s] = "ctx" => ~InSeq(s, published)

\* The caller's fill function runs only while its caller is still inside submitFill,
\* so the message it marshals is not reused under it.
FillOwned == wpc = "filling" => pc[carry.s] \in {"wait", "owed"}

\* Every slab handed out belongs to an unconsumed descriptor, to a consumed one that
\* reclaim has not reached, or to the intent in hand: no exit of place leaks one.
SlabsAccounted ==
    used = passed + Count(ring, 1) + (IF wpc = "filling" THEN 1 ELSE carry.slab)

\* Data intents are published in the order the queue took them, set-aside ones included.
DataOrder ==
    \A i, j \in 1 .. Len(published) : \A m, n \in 1 .. Len(accepted) :
        i < j /\ published[i] = accepted[m] /\ published[j] = accepted[n] => m < n

\* While data waits, at most BurstBound lifecycle intents go ahead of the next data
\* attempt, the one a blocking select staged included.
BurstBounded == streak <= BurstBound

\* stop returns, whatever the callers' contexts and the peer do.
StopReturns == stop # "no" ~> stop = "done"

\* the submissions that are queued or in the writer's hand; none is made twice
Waiting == {s \in Sends : pc[s] \in {"wait", "owed"}}

\* A queued submission returns as long as the peer consumes, without its context and
\* without a peer frame: the retry timer alone resumes a set-aside intent.
QueuedReturns == WF_vars(Consume) => (Waiting # {} ~> Waiting = {})

\* Every accepted intent and every slab is somewhere: queued, set aside, being filled, in the ring
\* or reported; and once the writer has stopped nothing is left behind (enqueue, loop, drain).
EveryIntentAccounted == TypeOK /\ IntentAccounted /\ StoppedEmpty /\ SlabsAccounted

\* What a caller is told is what happened to its frame, its fill never runs after it has left, and
\* accepted data frames reach the ring in order, passed by a bounded burst of lifecycle frames only
\* (awaitResult, runFill, serviceDataTurn).
SubmissionsHonest == ReportHonest /\ FillOwned /\ DataOrder /\ BurstBounded

\* Nothing waits for ever: stop returns, and so does a submission while the peer consumes.
SubmissionsReturn == StopReturns /\ QueuedReturns
=============================================================================
