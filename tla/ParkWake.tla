------------------------------ MODULE ParkWake ------------------------------
(***************************************************************************)
(* The park/wake protocol of one direction of the shared-memory data plane *)
(* (internal/event, internal/transport/shm): the consumer spins, arms its  *)
(* park word, re-checks the ring tail and blocks in an eventfd read; the   *)
(* producer stores the tail, loads the park word and writes the eventfd    *)
(* only when the consumer is parked.  A teardown or a poison sets the      *)
(* shutdown word and writes the eventfd.  Every action is one access to a  *)
(* word the two processes share, so every interleaving of the accesses of  *)
(* SpinWaiter.Wait, producerSignal.signal and PoisonFlag.Set is explored.  *)
(***************************************************************************)
EXTENDS Integers

CONSTANTS
    W,          \* the ring cursors count modulo W (2^64 in the code)
    Cap,        \* ring capacity
    MaxCancels  \* bound on the Recv contexts the environment cancels

ASSUME ParkWakeAssumption ==
    /\ W \in Nat /\ Cap \in Nat /\ MaxCancels \in Nat
    /\ 0 < Cap /\ Cap < W

VARIABLES
    tail,     \* ring tail word, stored by the producer
    head,     \* ring head word = the consumer's lastSeen cursor
    seen,     \* newTail, the tail the consumer's last Wait returned
    park,     \* the consumer's park-state word: "awake" or "parked"
    efd,      \* the eventfd counter, saturated at 1: a read drains it
    poison,   \* the poison word: 0, or 1 for any cause
    shutdown, \* the shutdown word
    ctx,      \* the context of the current Recv call: "live" or "canceled"
    cancels,  \* contexts canceled so far
    wpc,      \* where the producer (writer goroutine) is
    cpc,      \* where the consumer (reader goroutine) is
    tpc       \* where the goroutine that tears the region down is

vars == <<tail, head, seen, park, efd, poison, shutdown, ctx, cancels, wpc, cpc, tpc>>

Cursor == 0 .. W - 1

\* Mutant: the increment does not wrap.
IncUnwrapped(c) == c + 1

\* Cursor arithmetic wraps as uint64 arithmetic does.
Inc(c) == IF c = W - 1 THEN 0 ELSE c + 1
Depth(t, h) == IF h <= t THEN t - h ELSE t - h + W

ProducerPC == {"idle", "push", "poisonGate", "shutdownGate", "loadPark", "write",
               "setPoison", "setShutdown", "setWake", "dead"}
ConsumerPC == {"ready", "spinCtx", "spinShut", "spinTail", "arm", "armCtx", "armShut",
               "armTail", "read", "woken", "wakeCtx", "wakeShut", "wakeTail",
               "disarmReturn", "disarmDrain", "disarmDone", "drain", "consume", "done"}
TeardownPC == {"idle", "setPoison", "setShutdown", "setWake", "finished"}

TypeOK ==
    /\ tail \in Cursor /\ head \in Cursor /\ seen \in Cursor
    /\ park \in {"awake", "parked"}
    /\ efd \in {0, 1} /\ poison \in {0, 1} /\ shutdown \in {0, 1}
    /\ ctx \in {"live", "canceled"}
    /\ cancels \in 0 .. MaxCancels
    /\ wpc \in ProducerPC /\ cpc \in ConsumerPC /\ tpc \in TeardownPC

Init ==
    /\ tail = 0 /\ head = 0 /\ seen = 0
    /\ park = "awake" /\ efd = 0 /\ poison = 0 /\ shutdown = 0
    /\ ctx = "live" /\ cancels = 0
    /\ wpc = "idle" /\ cpc = "ready" /\ tpc = "idle"

-----------------------------------------------------------------------------
(* The producer: the writer's publish followed by producerSignal.signal.   *)

\* prePublishFault: the writer publishes only on a region it saw healthy.
PrePublish ==
    /\ wpc = "idle" /\ poison = 0 /\ shutdown = 0
    /\ wpc' = "push"
    /\ UNCHANGED <<tail, head, seen, park, efd, poison, shutdown, ctx, cancels, cpc, tpc>>

\* Ring.Push: the tail store that publishes a descriptor; a full ring refuses it.
Push ==
    /\ wpc = "push"
    /\ \/ /\ Depth(tail, head) < Cap
          /\ tail' = Inc(tail) /\ wpc' = "poisonGate"
       \/ /\ Depth(tail, head) = Cap
          /\ wpc' = "idle" /\ UNCHANGED tail
    /\ UNCHANGED <<head, seen, park, efd, poison, shutdown, ctx, cancels, cpc, tpc>>

\* signal: no data-plane wake on a poisoned or shutting-down region.
SignalGate ==
    /\ \/ /\ wpc = "poisonGate"
          /\ wpc' = IF poison = 1 THEN "idle" ELSE "shutdownGate"
       \/ /\ wpc = "shutdownGate"
          /\ wpc' = IF shutdown = 1 THEN "idle" ELSE "loadPark"
    /\ UNCHANGED <<tail, head, seen, park, efd, poison, shutdown, ctx, cancels, cpc, tpc>>

\* signal: the park word decides whether the eventfd is written.
SignalLoadPark ==
    /\ wpc = "loadPark"
    /\ wpc' = IF park = "parked" THEN "write" ELSE "idle"
    /\ UNCHANGED <<tail, head, seen, park, efd, poison, shutdown, ctx, cancels, cpc, tpc>>

\* Mutant: a failed wake is ignored.
SignalWriteUnchecked ==
    /\ wpc = "write" /\ wpc' = "idle"
    /\ efd' \in {efd, 1}
    /\ UNCHANGED <<tail, head, seen, park, poison, shutdown, ctx, cancels, cpc, tpc>>

\* EventFD.Write by the producer, or its failure, which poisons the region.
SignalWrite ==
    /\ wpc = "write"
    /\ \/ efd' = 1 /\ wpc' = "idle"
       \/ wpc' = "setPoison" /\ UNCHANGED efd
    /\ UNCHANGED <<tail, head, seen, park, poison, shutdown, ctx, cancels, cpc, tpc>>

\* PoisonFlag.Set as the producer runs it after a failed wake: its own wake
\* write goes through the same descriptor and its failure is ignored.
SignalPoison ==
    /\ \/ /\ wpc = "setPoison" /\ wpc' = "setShutdown"
          /\ poison' = 1 /\ UNCHANGED <<shutdown, efd>>
       \/ /\ wpc = "setShutdown" /\ wpc' = "setWake"
          /\ shutdown' = 1 /\ UNCHANGED <<poison, efd>>
       \/ /\ wpc = "setWake" /\ wpc' = "idle"
          /\ efd' \in {efd, 1} /\ UNCHANGED <<poison, shutdown>>
    /\ UNCHANGED <<tail, head, seen, park, ctx, cancels, cpc, tpc>>

\* The producer's process dies between any two of its steps.
ProducerCrash ==
    /\ wpc # "dead" /\ wpc' = "dead"
    /\ UNCHANGED <<tail, head, seen, park, efd, poison, shutdown, ctx, cancels, cpc, tpc>>

-----------------------------------------------------------------------------
(* Teardown by another goroutine: PoisonFlag.Set after a conformance fault, *)
(* or PoisonFlag.Shutdown from shutdownWake.                                *)

TeardownBegin ==
    /\ tpc = "idle"
    /\ tpc' \in {"setPoison", "setShutdown"}
    /\ UNCHANGED <<tail, head, seen, park, efd, poison, shutdown, ctx, cancels, wpc, cpc>>

\* Set's three stores in order; Shutdown is the same without the first.
TeardownStep ==
    /\ \/ /\ tpc = "setPoison" /\ tpc' = "setShutdown"
          /\ poison' = 1 /\ UNCHANGED <<shutdown, efd>>
       \/ /\ tpc = "setShutdown" /\ tpc' = "setWake"
          /\ shutdown' = 1 /\ UNCHANGED <<poison, efd>>
       \/ /\ tpc = "setWake" /\ tpc' = "finished"
          /\ efd' = 1 /\ UNCHANGED <<poison, shutdown>>
    /\ UNCHANGED <<tail, head, seen, park, ctx, cancels, wpc, cpc>>

-----------------------------------------------------------------------------
(* The consumer: recvCore, SpinWaiter.Wait and drain.                      *)

\* A Recv call starts with a fresh context; the spin budget may be zero.
Recv ==
    /\ cpc = "ready"
    /\ cpc' \in {"spinCtx", "arm"} /\ ctx' = "live"
    /\ UNCHANGED <<tail, head, seen, park, efd, poison, shutdown, cancels, wpc, tpc>>

\* The caller cancels the context of a Recv in progress.
CancelCtx ==
    /\ cpc \notin {"ready", "done"} /\ ctx = "live" /\ cancels < MaxCancels
    /\ ctx' = "canceled" /\ cancels' = cancels + 1
    /\ UNCHANGED <<tail, head, seen, park, efd, poison, shutdown, wpc, cpc, tpc>>

\* spin: context, shutdown word, tail, in this order on every iteration; the
\* budget elapses after any of them.
Spin ==
    /\ \/ /\ cpc = "spinCtx"
          /\ cpc' = IF ctx = "canceled" THEN "ready" ELSE "spinShut"
          /\ UNCHANGED seen
       \/ /\ cpc = "spinShut"
          /\ cpc' = IF shutdown = 1 THEN "done" ELSE "spinTail"
          /\ UNCHANGED seen
       \/ /\ cpc = "spinTail" /\ tail # head
          /\ cpc' = "drain" /\ seen' = tail
       \/ /\ cpc = "spinTail" /\ tail = head
          /\ cpc' \in {"spinCtx", "arm"} /\ UNCHANGED seen
    /\ UNCHANGED <<tail, head, park, efd, poison, shutdown, ctx, cancels, wpc, tpc>>

\* ParkState.TryPark (C1).
TryPark ==
    /\ cpc = "arm" /\ cpc' = "armCtx"
    /\ park' = "parked"
    /\ UNCHANGED <<tail, head, seen, efd, poison, shutdown, ctx, cancels, wpc, tpc>>

\* Mutant: the tail is not re-loaded after arming.
ArmCheckNoReload ==
    /\ \/ /\ cpc = "armCtx"
          /\ cpc' = IF ctx = "canceled" THEN "disarmReturn" ELSE "armShut"
       \/ /\ cpc = "armShut"
          /\ cpc' = IF shutdown = 1 THEN "disarmDone" ELSE "armTail"
       \/ cpc = "armTail" /\ cpc' = "read"
    /\ UNCHANGED <<tail, head, seen, park, efd, poison, shutdown, ctx, cancels, wpc, tpc>>

\* The checks between arming and blocking, C2 (the tail re-load) last.
ArmCheck ==
    /\ \/ /\ cpc = "armCtx"
          /\ cpc' = IF ctx = "canceled" THEN "disarmReturn" ELSE "armShut"
          /\ UNCHANGED seen
       \/ /\ cpc = "armShut"
          /\ cpc' = IF shutdown = 1 THEN "disarmDone" ELSE "armTail"
          /\ UNCHANGED seen
       \/ /\ cpc = "armTail" /\ tail # head
          /\ cpc' = "disarmDrain" /\ seen' = tail
       \/ /\ cpc = "armTail" /\ tail = head
          /\ cpc' = "read" /\ UNCHANGED seen
    /\ UNCHANGED <<tail, head, park, efd, poison, shutdown, ctx, cancels, wpc, tpc>>

\* EventFD.Read returns: it drained the counter, or the context ended it.
ReadEventFD ==
    /\ cpc = "read"
    /\ \/ efd = 1 /\ efd' = 0 /\ cpc' = "woken"
       \/ ctx = "canceled" /\ cpc' = "disarmReturn" /\ UNCHANGED efd
    /\ UNCHANGED <<tail, head, seen, park, poison, shutdown, ctx, cancels, wpc, tpc>>

\* ParkState.MarkAwake: on every wake (C3) and on every exit that armed.
MarkAwake ==
    /\ \/ cpc = "woken" /\ cpc' = "wakeCtx"
       \/ cpc = "disarmReturn" /\ cpc' = "ready"
       \/ cpc = "disarmDrain" /\ cpc' = "drain"
       \/ cpc = "disarmDone" /\ cpc' = "done"
    /\ park' = "awake"
    /\ UNCHANGED <<tail, head, seen, efd, poison, shutdown, ctx, cancels, wpc, tpc>>

\* The checks after a wake, C4 (the re-scan) last; no new work re-arms.
WakeCheck ==
    /\ \/ /\ cpc = "wakeCtx"
          /\ cpc' = IF ctx = "canceled" THEN "ready" ELSE "wakeShut"
          /\ UNCHANGED seen
       \/ /\ cpc = "wakeShut"
          /\ cpc' = IF shutdown = 1 THEN "done" ELSE "wakeTail"
          /\ UNCHANGED seen
       \/ /\ cpc = "wakeTail" /\ tail # head
          /\ cpc' = "drain" /\ seen' = tail
       \/ /\ cpc = "wakeTail" /\ tail = head
          /\ cpc' = "arm" /\ UNCHANGED seen
    /\ UNCHANGED <<tail, head, park, efd, poison, shutdown, ctx, cancels, wpc, tpc>>

\* drain: the teardown gate before each peek; an exhausted batch waits again.
Drain ==
    /\ cpc = "drain"
    /\ \/ head = seen /\ cpc' \in {"spinCtx", "arm"}
       \/ head # seen /\ cpc' = IF poison = 1 \/ shutdown = 1 THEN "done" ELSE "consume"
    /\ UNCHANGED <<tail, head, seen, park, efd, poison, shutdown, ctx, cancels, wpc, tpc>>

\* consumeDescriptor: the final gate, then the head store.  A stale
\* descriptor is skipped and draining goes on; any other ends the Recv.
Consume ==
    /\ cpc = "consume"
    /\ \/ /\ poison = 1 \/ shutdown = 1
          /\ cpc' = "done" /\ UNCHANGED head
       \/ /\ poison = 0 /\ shutdown = 0
          /\ head' = Inc(head) /\ cpc' = "ready"
       \/ head' = Inc(head) /\ cpc' = "drain"
    /\ UNCHANGED <<tail, seen, park, efd, poison, shutdown, ctx, cancels, wpc, tpc>>

\* The connection is over: its reader has returned the teardown error.
Terminated ==
    /\ cpc = "done"
    /\ UNCHANGED vars

Producer == PrePublish \/ Push \/ SignalGate \/ SignalLoadPark \/ SignalWrite \/ SignalPoison
Consumer == Recv \/ Spin \/ TryPark \/ ArmCheck \/ ReadEventFD \/ MarkAwake \/ WakeCheck
            \/ Drain \/ Consume

Next == Producer \/ ProducerCrash \/ TeardownBegin \/ TeardownStep \/ Consumer \/ CancelCtx
        \/ Terminated

Spec == Init /\ [][Next]_vars

\* The scheduler runs a goroutine that is ready: the consumer, a producer that
\* has begun to publish, and a teardown that has begun.  The supervisor tears
\* the region down when the peer died or poisoned it.
Fairness ==
    /\ WF_vars(Consumer)
    /\ WF_vars(SignalGate \/ SignalLoadPark \/ SignalWrite \/ SignalPoison)
    /\ WF_vars(TeardownStep)
    /\ WF_vars((wpc = "dead" \/ poison = 1) /\ TeardownBegin)

FairSpec == Spec /\ Fairness

-----------------------------------------------------------------------------
(* Properties.                                                             *)

\* The producer is between its tail store and the end of its signal.
Signalling == wpc \in {"poisonGate", "shutdownGate", "loadPark", "write",
                       "setPoison", "setShutdown", "setWake"}

\* No lost wakeup (spin.go C1..C4 against signal's P1/P2): whenever the consumer
\* sits in the eventfd read with the counter at zero although the ring holds work
\* or the region is shut down, a wake is still on its way: the producer is
\* mid-signal, a teardown has yet to write the eventfd, or the producer's process
\* died or its wake write failed, for which a teardown is always still owed.
NoLostWakeup ==
    (cpc = "read" /\ efd = 0 /\ (tail # head \/ shutdown = 1)) =>
        \/ Signalling
        \/ tpc # "finished" /\ (wpc = "dead" \/ poison = 1 \/ shutdown = 1)

\* The park word is never left dangling: it reads PARKED exactly while the
\* consumer is between its arming store and the store that undoes it.
ParkedOnlyInWait ==
    park = "parked" <=>
        cpc \in {"armCtx", "armShut", "armTail", "read", "woken",
                 "disarmReturn", "disarmDrain", "disarmDone"}

\* The cursors never drift apart by more than the capacity, so the tail the
\* consumer was handed is one it may drain up to: `lastSeen # newTail` is a
\* sound loop condition although the cursors wrap.
DrainBounded ==
    /\ Depth(tail, head) <= Cap
    /\ cpc \in {"drain", "consume", "disarmDrain"} => Depth(seen, head) <= Depth(tail, head)
    /\ cpc = "consume" => head # seen

\* What a teardown leaves behind, whoever runs it: Set's words go up in order, and
\* after its wake no consumer that missed the shutdown word can block.
TeardownOrder ==
    /\ tpc \in {"setWake", "finished"} => shutdown = 1
    /\ wpc \in {"setShutdown", "setWake"} => poison = 1
    /\ tpc = "finished" /\ cpc \in {"armTail", "read"} => efd = 1

\* The inductive invariant of Wait, Signal and drain (spin.go, ring.go): the words keep their types, the
\* park word is armed only inside Wait, drain stays inside the published batch, a teardown's stores come
\* in their order, and no wakeup is lost.
IInv == TypeOK /\ ParkedOnlyInWait /\ DrainBounded /\ TeardownOrder /\ NoLostWakeup

\* A published frame is eventually drained, or the reader ends (spin.go Wait and
\* drain under any interleaving with the signal, cancellations included).
PublishedDrained ==
    \A h \in Cursor : (head = h /\ tail # h) ~> (head # h \/ cpc = "done")

\* Once the shutdown word is set the reader always returns the teardown error:
\* no consumer stays parked across a teardown or a poison (poison.go Set).
ShutdownReleasesReader == (shutdown = 1) ~> (cpc = "done")

\* A canceled Recv returns to its caller.
CancelReturns == (ctx = "canceled") ~> (cpc \in {"ready", "done"})

\* Every wait ends for the reason it should: a published frame is consumed, a shutdown or a poison
\* releases the reader, and a canceled context returns from whichever step of the wait it is in.
RecvReturns == PublishedDrained /\ ShutdownReleasesReader /\ CancelReturns
=============================================================================
