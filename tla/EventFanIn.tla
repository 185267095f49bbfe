----------------------------- MODULE EventFanIn -----------------------------
(***************************************************************************)
(* From the relays to the reader of Host.Events(): every plugin's relay    *)
(* publishes on the host's one bus, the subscription's forwarder hands the *)
(* events to a reader that may be slow or absent, and Host.Stop waits a    *)
(* bounded time for it before it ends the subscription.  What one relay    *)
(* publishes follows the order of its supervisor's stream.                 *)
(***************************************************************************)
EXTENDS EventBus, FiniteSets

CONSTANTS
    Plugins,
    MaxIncidents    \* bound: instances started, of all plugins together

VARIABLES
    relayed,    \* per plugin: the last kind its relay published, the incident, 1 when the relay has ended
    host,       \* the Events() subscription on the host's bus
    stopped,    \* 1: Host.Stop has begun
    release,    \* where maybeReleaseWorkers is
    reader,     \* the consumer of Events()
    crowded     \* history: 1 once the bus evicted while holding no more incidents than plugins

vars == <<relayed, host, stopped, release, reader, crowded>>

Init ==
    /\ relayed = [p \in Plugins |-> [kind |-> "none", inc |-> 0, done |-> 0]]
    /\ host = Subscribed /\ stopped = 0 /\ release = "no" /\ reader = "busy" /\ crowded = 0

\* NewHost sizes the shared ring for every configured plugin
CriticalCapacity == CriticalBufferCapacity * Cardinality(Plugins)

\* the instances whose start has been relayed so far
Announced == {x \in Plugins \X (1 .. MaxIncidents) : x[2] <= relayed[x[1]].inc}

Incidents(q) == {<<q[i].p, q[i].inc>> : i \in 1 .. Len(q)}

\* h.publish from the relay's loop or its drain
RelayPublishes(p, k) ==
    LET inc == IF k = "Starting" THEN relayed[p].inc + 1 ELSE relayed[p].inc
        ev == [p |-> p, kind |-> k, inc |-> inc]
        full == IsCritical(k) /\ Len(host.crit) = CriticalCapacity
    IN  /\ relayed[p].done = 0 /\ k \in Follows(relayed[p].kind) /\ (k = "Starting" => Cardinality(Announced) < MaxIncidents)
        /\ relayed' = [relayed EXCEPT ![p].kind = k, ![p].inc = inc]
        /\ host' = Enqueue(host, ev, CriticalCapacity)
        /\ crowded' = IF full /\ Cardinality(Incidents(Append(host.crit, ev))) <= Cardinality(Plugins) THEN 1 ELSE crowded
        /\ UNCHANGED <<stopped, release, reader>>

\* completeTeardown: the relay has drained what a stopped Run published
RelayEnds(p) ==
    /\ stopped = 1 /\ relayed[p].done = 0 /\ relayed[p].kind \in EndsAfter
    /\ relayed' = [relayed EXCEPT ![p].done = 1]
    /\ UNCHANGED <<host, stopped, release, reader, crowded>>

HostForwards ==
    /\ host' \in ForwarderSteps(host)
    /\ UNCHANGED <<relayed, stopped, release, reader, crowded>>

ReaderReceives ==
    /\ host.pc \in {"send", "try"} /\ reader = "waiting" /\ host' = HandOver(host) /\ reader' = "busy"
    /\ UNCHANGED <<relayed, stopped, release, crowded>>

HandOffFails ==
    /\ host.pc = "try" /\ reader # "waiting" /\ host' = DropInHand(host)
    /\ UNCHANGED <<relayed, stopped, release, reader, crowded>>

\* the reader comes back for another event, or finds the channel closed
ReaderReturns ==
    /\ \/ reader = "busy" /\ reader' = "waiting"
       \/ reader = "waiting" /\ host.pc = "closed" /\ reader' = "ended"
    /\ UNCHANGED <<relayed, host, stopped, release, crowded>>

HostStop == stopped = 0 /\ stopped' = 1 /\ UNCHANGED <<relayed, host, release, reader, crowded>>

\* maybeReleaseWorkers: once every runtime is torn down, waitEventsQuiesced, then unsubscribe
Release ==
    /\ stopped = 1
    /\ \/ release = "no" /\ (\A p \in Plugins : relayed[p].done = 1) /\ release' = "wait" /\ UNCHANGED host
       \/ release = "wait" /\ Quiesced(host) /\ release' = "quiet" /\ host' = [host EXCEPT !.done = 1]
       \/ release = "wait" /\ release' = "expired" /\ host' = [host EXCEPT !.done = 1]
    /\ UNCHANGED <<relayed, stopped, reader, crowded>>

PublishesSome(p) == \E k \in Kinds : RelayPublishes(p, k)

Next ==
    \/ \E p \in Plugins : RelayEnds(p) \/ PublishesSome(p)
    \/ HostForwards \/ ReaderReceives \/ HandOffFails \/ ReaderReturns \/ HostStop \/ Release

Spec == Init /\ [][Next]_vars

\* what goes on by itself: the relays, the forwarder and the release, whose wait is bounded;
\* the reader may stay away for ever
Progress ==
    \/ HostForwards \/ HandOffFails \/ (host.pc = "try" /\ ReaderReceives) \/ Release
    \/ \E p \in Plugins : RelayEnds(p) \/ PublishesSome(p)

-----------------------------------------------------------------------------
(* Properties.                                                             *)

\* Every variable stays in its range; a forwarder holds an event exactly while it offers it.
TypeOK ==
    /\ \A p \in Plugins : relayed[p] \in [kind : Kinds \cup {"none"}, inc : 0 .. MaxIncidents, done : {0, 1}]
    /\ SubscriberOK(host, [p : Plugins, kind : Kinds, inc : Nat])
    /\ Len(host.crit) <= CriticalCapacity /\ Len(host.info) <= InfoCap
    /\ stopped \in {0, 1} /\ release \in {"no", "wait", "quiet", "expired"} /\ reader \in {"busy", "waiting", "ended"}

\* The host's shared ring evicts a critical event only when more incidents than plugins are
\* undrained (Host.Events).
HostRoomPerPlugin == crowded = 0

\* A release that saw the Events() subscription quiesced has delivered or evicted every event
\* published before it: nothing is queued or in the forwarder's hand (waitEventsQuiesced).
QuietMeansDelivered == release = "quiet" => ~Pending(host) /\ host.hand = None

\* Stop always reaches the end of the stream, with or without a reader: until the Events()
\* channel is closed, something other than the reader can go on.
EventsEnd == stopped = 1 /\ host.pc # "closed" => ENABLED Progress

=============================================================================
