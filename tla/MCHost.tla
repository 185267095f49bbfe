------------------------------- MODULE MCHost -------------------------------
(* Instances of six parts of the host: the health record behind a plugin's   *)
(* relay, Start and Stop, the Events() stream all relays feed, one spawn with *)
(* its handshake, attach and teardown, the capture of a plugin's output, and  *)
(* the metrics.  A behaviour exercises one of the six, so they share one set  *)
(* of variables, HealthRelay's and those below: each instance says which      *)
(* stand for its own, and those it has no use for stay 0.                     *)
EXTENDS HealthRelay, TLC

CONSTANTS HostNames, Callers, Nobody, Feeds

VARIABLES
    released, releaseDone, hostStopped, torn, once, watched, sup, relays, first, spc, todo, cur, starts, sctx, pc, mine,
    unjoined, errs, ctx, res
VARIABLE active     \* the component this behaviour exercises

\* A retried Start with heartbeats, and a relay that falls behind several incidents.
MCPlans ==
    {[events |-> 2, attempts |-> 2, threshold |-> 1], [events |-> 6, attempts |-> 1, threshold |-> 0]}

\* One Start of two plugins and a Stop; and one plugin whose Start is retried, with two Stops.
HostSetups ==
    {[names |-> HostNames, starts |-> 1, callers |-> {c}] : c \in Callers}
        \cup {[names |-> {CHOOSE n \in HostNames : TRUE}, starts |-> 2, callers |-> Callers]}

Symmetric == Permutations(Callers) \cup Permutations(Feeds)

L == INSTANCE HostLifecycle WITH Setups <- HostSetups,
        setup <- plan, mu <- pub, stopBegun <- sub, stopRequested <- relay, inFlight <- rec, runtimes <- stop,
        stopping <- evicted
F == INSTANCE EventFanIn WITH Plugins <- Feeds, MaxIncidents <- 3,
        relayed <- plan, host <- pub, stopped <- sub, release <- relay, reader <- rec, crowded <- stop

N == INSTANCE Negotiation

\* A specification of each kind, with the payload sizes around the largest slab less its trailer, and
\* plugin builds that lack a flag, a transport, a layout or a version, or list a service twice.
Plain ==
    [transport |-> "", geometry |-> N!GeometryZero, burst |-> 0, chunk |-> 0, maxPayload |-> 0, requireStreaming |-> FALSE,
     services |-> [s \in {"echo"} |-> 1 .. 2], timeout |-> 0, missed |-> 0, window |-> 0, inflight |-> 0, capacityOK |-> TRUE]
Same ==
    [transports |-> {}, flags |-> {"streaming", "burst", "chunking"}, protocol |-> 1, layouts |-> {1}, streams |-> TRUE,
     services |-> <<[service |-> "echo", version |-> 2]>>]
Specs ==
    {Plain, [Plain EXCEPT !.transport = "uds"], [Plain EXCEPT !.transport = "shm", !.burst = 2 * N!oneMiB],
     [Plain EXCEPT !.burst = N!oneMiB], [Plain EXCEPT !.maxPayload = 3 * N!oneMiB, !.requireStreaming = TRUE],
     [Plain EXCEPT !.geometry = [N!GeometryZero EXCEPT !.reserve = 8], !.maxPayload = 1],
     [Plain EXCEPT !.geometry = N!GeometryLean, !.maxPayload = 2 * 4096], [Plain EXCEPT !.capacityOK = FALSE, !.timeout = 2]}
        \cup {[Plain EXCEPT !.maxPayload = N!oneMiB + d] : d \in {60, 61, 64, 65}}
Servers ==
    {Same, [Same EXCEPT !.flags = {"streaming"}], [Same EXCEPT !.flags = {"burst"}, !.streams = FALSE],
     [Same EXCEPT !.transports = {"uds"}], [Same EXCEPT !.layouts = {2}], [Same EXCEPT !.protocol = 2],
     [Same EXCEPT !.services = <<[service |-> "echo", version |-> 3], [service |-> "echo", version |-> 2]>>]}
MCDeals ==
    {[spec |-> x, server |-> y, pinned |-> TRUE] : x \in Specs, y \in Servers}
        \cup {[spec |-> Plain, server |-> Same, pinned |-> FALSE]}
A == INSTANCE Attach WITH Deals <- MCDeals,
        deal <- plan, hpc <- pub, held <- sub, htuple <- relay, verdict <- rec, dangling <- stop, ppc <- evicted,
        pheld <- released, ptuple <- releaseDone, pview <- hostStopped, armed <- torn, h2p <- once, p2h <- watched,
        twice <- sup

\* A plugin that crashes, is reloaded or whose reload is rolled back, behind a queue of one line; and one
\* that leaves its pipes to a grandchild.
MCOutputs ==
    {[lines |-> <<2, 1>>, sink |-> TRUE, inherited |-> FALSE, course |-> x] : x \in {"restart", "reload", "rollback"}}
        \cup {[lines |-> <<3, 0>>, sink |-> s, inherited |-> TRUE, course |-> "restart"] : s \in BOOLEAN}
C == INSTANCE StdioCapture WITH Streams <- {"stderr"}, bufferLines <- 1, stderrTailLines <- 2, Outputs <- MCOutputs,
        output <- plan, wrote <- pub, exited <- sub, taken <- relay, reading <- rec, queue <- stop, deliver <- evicted,
        delivered <- released, dropped <- releaseDone, panicked <- hostStopped, tail <- torn, phase <- once,
        late <- watched, serving <- sup, baseline <- relays, reported <- first

\* The host over a restart or a reload with a call that records its latency, and the plugin's own reporter.
MCObserved ==
    {[side |-> "host", gens |-> 2, moves |-> 2, calls |-> 1], [side |-> "plugin", gens |-> 1, moves |-> 3, calls |-> 0]}
O == INSTANCE Observe WITH bufSize <- 1, ObserveSetups <- MCObserved,
        obsCase <- plan, live <- pub, gen <- sub, moved <- relay, rep <- rec, call <- stop, ch <- evicted,
        cut <- released, lost <- releaseDone, disp <- hostStopped, obsDone <- torn, observed <- once, sent <- watched,
        told <- sup, unseen <- relays

\* The variables past the first 7 (HealthRelay), 14 (Attach) and 16 (StdioCapture); the rest are HostLifecycle's.
past7 == <<released, releaseDone, hostStopped, torn, once, watched, sup>>
past14 == <<relays, first>>
past16 == <<spc, todo, cur, starts, sctx, pc, mine, unjoined, errs, ctx, res>>
Unused7 ==
    released = 0 /\ releaseDone = 0 /\ hostStopped = 0 /\ torn = 0 /\ once = 0 /\ watched = 0 /\ sup = 0
Unused14 == relays = 0 /\ first = 0
Unused16 ==
    /\ spc = 0 /\ todo = 0 /\ cur = 0 /\ starts = 0 /\ sctx = 0 /\ pc = 0 /\ mine = 0 /\ unjoined = 0 /\ errs = 0
    /\ ctx = 0 /\ res = 0

MCInit ==
    \/ active = "health" /\ Init /\ Unused7 /\ Unused14 /\ Unused16
    \/ active = "host" /\ L!Init
    \/ active = "feed" /\ F!Init /\ evicted = 0 /\ Unused7 /\ Unused14 /\ Unused16
    \/ active = "spawn" /\ A!Init /\ Unused14 /\ Unused16
    \/ active = "stdio" /\ C!Init /\ Unused16
    \/ active = "metrics" /\ O!Init /\ first = 0 /\ Unused16
MCNext ==
    /\ \/ active = "health" /\ Next /\ UNCHANGED <<past7, past14, past16>>
       \/ active = "host" /\ L!Next
       \/ active = "feed" /\ F!Next /\ UNCHANGED <<evicted, past7, past14, past16>>
       \/ active = "spawn" /\ A!Next /\ UNCHANGED <<past14, past16>>
       \/ active = "stdio" /\ C!Next /\ UNCHANGED past16
       \/ active = "metrics" /\ O!Next /\ UNCHANGED <<first, past16>>
    /\ UNCHANGED active
MCSpec == MCInit /\ [][MCNext]_<<vars, past7, past14, past16, active>>

\* Stop means down: a nil Stop has left no supervisor, relay or worker behind, every supervisor has
\* an owner until it is gone, none shares its name, and the workers go last (Host.Stop, startOne,
\* abandonAttempt, retainUnjoined, maybeReleaseWorkers).
StopMeansDown ==
    active = "host" =>
        L!TypeOK /\ L!StopNilMeansDown /\ L!AlwaysOwned /\ L!OneSupervisorPerName /\ L!ReleasedLast

\* Health and Events() end up true: the record shows the last published state with the misses of
\* its own instance, and neither ring loses what it was sized to keep (recordHealthEvent,
\* coherentMissed, CriticalBufferCapacity, NewHost, waitEventsQuiesced).
EventsTrue ==
    /\ active = "health" => TypeOK /\ NewestIncidentWhole /\ HealthCatchesUp /\ MissedNeverStale
    /\ active = "feed" => F!TypeOK /\ F!HostRoomPerPlugin /\ F!QuietMeansDelivered

\* Nothing strands: a Stop that begins is answered, a teardown that was taken ends in the release
\* of the workers, every relay ends, and Events() is closed with or without a reader.
NothingStrands ==
    /\ active = "host" => L!StopReturns /\ L!EventuallyReleased
    /\ active = "health" => RelaysEnd
    /\ active = "feed" => F!EventsEnd

\* The ends of a spawn agree: a ready host has a plugin that built and acknowledged the same tuple,
\* ceilings and bounds, and incompatible is said of incompatible ends only (handshakeAndAttach, pluginHandshake).
EndsAgree == active = "spawn" => A!EndsAgree

\* Whatever fails, times out or dies, a spawn ends with no descriptor, mapping or process left and
\* none closed twice (Spawn, attachSHM, Teardown.Run, pluginAttachSHM).
NothingLeaks == active = "spawn" => A!NothingLeaks

\* A plugin's output: every line is accounted for, every drop reported once, and a crash reason
\* ends with the plugin's last words (StdioCapture, reportStdioDropped, drainThenCloseStdio).
StdioAccounted == active = "stdio" => C!StdioAccounted

\* The metrics: no read of an unmapped transport, exact deltas, and every event and drop accounted for
\* to the last report (runMetricsReporter, Dispatcher.Submit, Dispatcher.Run).
ObserveAccounted == active = "metrics" => O!ObserveAccounted
=============================================================================
