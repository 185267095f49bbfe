--------------------------- MODULE HostLifecycle ---------------------------
(***************************************************************************)
(* Host.Start and Host.Stop: a Start that holds h.mu across every spawn,   *)
(* concurrent Stops that are serialised, attempts abandoned in mid-spawn,  *)
(* supervisors that do not join inside a caller's budget and are finished  *)
(* by a detached watcher, and the single release of the host's workers.    *)
(* A runtime is <<name, attempt>>.  h.mu is held over several steps only   *)
(* by Start; every other critical section is one step.                     *)
(***************************************************************************)
EXTENDS Naturals, FiniteSets, SequencesExt

CONSTANTS
    Setups,     \* the hosts to consider: [names, starts, callers]: plugins, calls of Start, who calls Stop
    Callers,    \* goroutines that call Stop
    Nobody

VARIABLES
    setup,          \* the host of this behaviour
    mu,             \* "start" while Start holds h.mu
    stopBegun, stopRequested, inFlight,     \* inFlight: the Stop that owns the teardown
    runtimes, stopping, released, releaseDone, hostStopped,
    torn, once, watched,                    \* per runtime: torn, teardownOnce, watchOnce
    sup, relays, first,                     \* per runtime: the supervisor, its relay, firstOutcome
    spc, todo, cur, starts, sctx,           \* Start: place, names left, runtime, calls, context
    pc, mine, unjoined, errs, ctx, res      \* per actor

Names == setup.names
Runtimes == Names \X (1 .. setup.starts)
Watchers == {[watches |-> r] : r \in Runtimes}
Actors == Callers \cup Watchers

hostVars == <<stopBegun, stopRequested, inFlight, runtimes, stopping, released, releaseDone, hostStopped>>
rtVars == <<torn, once, watched, sup, relays, first>>
startVars == <<mu, spc, todo, cur, starts>>
actorVars == <<pc, mine, unjoined, errs, res>>
vars == <<setup, hostVars, rtVars, startVars, sctx, actorVars, ctx>>

Init ==
    /\ setup \in Setups
    /\ mu = "free" /\ stopBegun = 0 /\ stopRequested = 0 /\ inFlight = Nobody
    /\ runtimes = {} /\ stopping = {} /\ released = 0 /\ releaseDone = "nil" /\ hostStopped = 0
    /\ torn = {} /\ once = [r \in Runtimes |-> "no"] /\ watched = {}
    /\ sup = [r \in Runtimes |-> "none"] /\ relays = [r \in Runtimes |-> "none"] /\ first = [r \in Runtimes |-> "none"]
    /\ spc = "idle" /\ todo = <<>> /\ cur = Nobody /\ starts = 0 /\ sctx = 0
    /\ pc = [a \in Actors |-> "idle"] /\ mine = [a \in Actors |-> {}] /\ unjoined = [a \in Actors |-> {}]
    /\ errs = [a \in Actors |-> 0] /\ ctx = [a \in Callers |-> 0] /\ res = [a \in Callers |-> "none"]

-----------------------------------------------------------------------------
(* Start.                                                                  *)

Start ==
    /\ spc = "idle" /\ mu = "free" /\ starts < setup.starts /\ starts' = starts + 1 /\ sctx' = 0
    /\ \/ released = 1 /\ UNCHANGED <<mu, spc, todo>>
       \/ released = 0 /\ mu' = "start" /\ spc' = "next" /\ todo' = SetToSeq(Names)
    /\ UNCHANGED <<hostVars, rtVars, cur, actorVars, ctx>>

\* startOne's refusals: a name still stopping, one already started, a host told to stop
Admits(n) == n \notin stopping /\ (~\E r \in runtimes : r[1] = n) /\ stopRequested = 0

\* one name: refused (its configuration and its pinned binary are checked too), or spawned
StartOne ==
    /\ spc = "next" /\ todo # <<>> /\ todo' = Tail(todo)
    /\ \/ UNCHANGED <<spc, cur, sup, relays>>
       \/ /\ Admits(Head(todo)) /\ spc' = "wait" /\ cur' = <<Head(todo), starts>>
          /\ sup' = [sup EXCEPT ![cur'] = "run"] /\ relays' = [relays EXCEPT ![cur'] = "run"]
    /\ UNCHANGED <<hostVars, torn, once, watched, first, mu, starts, sctx, actorVars, ctx>>

StartReturns ==
    /\ spc = "next" /\ todo = <<>> /\ spc' = "idle" /\ mu' = "free"
    /\ UNCHANGED <<hostVars, rtVars, todo, cur, starts, sctx, actorVars, ctx>>

\* the select: the first outcome, the stop broadcast, or the caller's context
FirstOutcome ==
    /\ spc = "wait"
    /\ \/ first[cur] = "ready" /\ runtimes' = runtimes \cup {cur} /\ spc' = "next" /\ UNCHANGED sup
       \/ /\ first[cur] = "gaveup" \/ stopBegun = 1 \/ sctx = 1
          /\ spc' = "abandon" /\ sup' = [sup EXCEPT ![cur] = IF @ = "run" THEN "asked" ELSE @] /\ UNCHANGED runtimes
    /\ UNCHANGED <<stopBegun, stopRequested, inFlight, stopping, released, releaseDone, hostStopped, torn, once, watched, relays, first, mu, todo, cur, starts, sctx, actorVars, ctx>>

AbandonDrops ==
    /\ spc = "abandon"
    /\ \/ stopBegun = 0 /\ sup[cur] = "done" /\ spc' = "relay" /\ relays' = [relays EXCEPT ![cur] = "asked"] /\ UNCHANGED <<runtimes, stopping, watched, pc>>
       \/ (stopBegun = 1 \/ sctx = 1) /\ spc' = "next" /\ UNCHANGED <<relays, runtimes, stopping, watched, pc>>
    /\ UNCHANGED <<stopBegun, stopRequested, inFlight, released, releaseDone, hostStopped, torn, once, sup, first, mu, todo, cur, starts, sctx, mine, unjoined, errs, res, ctx>>

\* joinAbandonedAttempt: joined and torn down here, or handed on as a stopping runtime
Abandon ==
    /\ spc = "abandon"
    /\ \/ stopBegun = 0 /\ sup[cur] = "done" /\ spc' = "relay" /\ relays' = [relays EXCEPT ![cur] = "asked"] /\ UNCHANGED <<runtimes, stopping, watched, pc>>
       \/ /\ stopBegun = 1 \/ sctx = 1
          /\ runtimes' = runtimes \cup {cur} /\ stopping' = stopping \cup {cur[1]} /\ spc' = "next"
          /\ watched' = watched \cup {cur} /\ pc' = [pc EXCEPT ![[watches |-> cur]] = "join"] /\ UNCHANGED relays
    /\ UNCHANGED <<stopBegun, stopRequested, inFlight, released, releaseDone, hostStopped, torn, once, sup, first, mu, todo, cur, starts, sctx, mine, unjoined, errs, res, ctx>>

AbandonJoined ==
    /\ spc = "relay" /\ relays[cur] = "done" /\ spc' = "next"
    /\ UNCHANGED <<hostVars, rtVars, mu, todo, cur, starts, sctx, actorVars, ctx>>

StartStep == StartOne \/ StartReturns \/ FirstOutcome \/ Abandon \/ AbandonJoined

-----------------------------------------------------------------------------
(* Stop.                                                                   *)

SignalStopBegun(c) ==
    /\ pc[c] = "idle" /\ res[c] = "none" /\ stopBegun' = 1 /\ pc' = [pc EXCEPT ![c] = "begin"]
    /\ UNCHANGED <<stopRequested, inFlight, runtimes, stopping, released, releaseDone, hostStopped, rtVars, startVars, sctx, mine, unjoined, errs, res, ctx>>

Answer(a, e) == IF a \in Callers THEN res' = [res EXCEPT ![a] = IF e = 0 THEN "nil" ELSE "err"] ELSE UNCHANGED res

\* waits for the Stop in flight, then takes the teardown over
BeginStop(c) ==
    /\ pc[c] = "begin"
    /\ \/ inFlight # Nobody /\ ctx[c] = 1 /\ Answer(c, 1) /\ pc' = [pc EXCEPT ![c] = "done"]
          /\ UNCHANGED <<inFlight, stopRequested, mine, runtimes, stopping>>
       \/ /\ inFlight = Nobody /\ mu = "free" /\ inFlight' = c /\ stopRequested' = 1
          /\ mine' = [mine EXCEPT ![c] = runtimes] /\ runtimes' = {}
          /\ stopping' = stopping \cup {r[1] : r \in runtimes} /\ pc' = [pc EXCEPT ![c] = "pass"] /\ UNCHANGED res
    /\ UNCHANGED <<stopBegun, released, releaseDone, hostStopped, rtVars, startVars, sctx, unjoined, errs, ctx>>

\* the runtime a Stop's pass has come to
Current(c) == CHOOSE x \in mine[c] : TRUE

\* Supervisor.Stop asks, then waits for Done or the budget
StopOne(c) ==
    /\ pc[c] = "pass" /\ mine[c] # {}
    /\ \/ sup[Current(c)] = "run" /\ sup' = [sup EXCEPT ![Current(c)] = "asked"] /\ UNCHANGED pc
       \/ sup[Current(c)] = "done" /\ pc' = [pc EXCEPT ![c] = "tear"] /\ UNCHANGED sup
    /\ UNCHANGED <<hostVars, torn, once, watched, relays, first, startVars, sctx, mine, unjoined, errs, res, ctx>>

StopOneExpires(c) ==
    /\ pc[c] = "pass" /\ mine[c] # {} /\ ctx[c] = 1 /\ sup[Current(c)] = "asked"
    /\ mine' = [mine EXCEPT ![c] = @ \ {Current(c)}] /\ unjoined' = [unjoined EXCEPT ![c] = @ \cup {Current(c)}]
    /\ errs' = [errs EXCEPT ![c] = 1]
    /\ UNCHANGED <<hostVars, rtVars, startVars, sctx, pc, res, ctx>>

\* the runtime an actor is tearing down
Tearing(a) == IF a \in Callers THEN Current(a) ELSE a.watches

\* completeTeardown: teardownOnce, then the relay's drain, then the bookkeeping
EnterTeardown(a) ==
    /\ pc[a] = "tear" /\ once[Tearing(a)] # "running"
    /\ \/ once[Tearing(a)] = "no" /\ once' = [once EXCEPT ![Tearing(a)] = "running"]
          /\ relays' = [relays EXCEPT ![Tearing(a)] = IF @ = "run" THEN "asked" ELSE @] /\ pc' = [pc EXCEPT ![a] = "drain"] /\ UNCHANGED mine
       \/ once[Tearing(a)] = "done" /\ pc' = [pc EXCEPT ![a] = IF a \in Callers THEN "pass" ELSE "release"]
          /\ mine' = [mine EXCEPT ![a] = @ \ {Tearing(a)}] /\ UNCHANGED <<once, relays>>
    /\ UNCHANGED <<hostVars, torn, watched, sup, first, startVars, sctx, unjoined, errs, res, ctx>>

FinishTeardown(a) ==
    /\ pc[a] = "drain" /\ relays[Tearing(a)] = "done" /\ mu = "free"
    /\ torn' = torn \cup {Tearing(a)} /\ runtimes' = runtimes \ {Tearing(a)} /\ stopping' = stopping \ {Tearing(a)[1]}
    /\ once' = [once EXCEPT ![Tearing(a)] = "done"] /\ pc' = [pc EXCEPT ![a] = "tear"]
    /\ UNCHANGED <<stopBegun, stopRequested, inFlight, released, releaseDone, hostStopped, watched, sup, relays, first, startVars, sctx, mine, unjoined, errs, res, ctx>>

\* retainUnjoined: skip what the watcher has torn down meanwhile, watch the rest
RetainUnjoined(c) ==
    /\ pc[c] = "pass" /\ mine[c] = {} /\ mu = "free" /\ pc' = [a \in Actors |->
        IF a = c THEN "release" ELSE IF a \in Watchers /\ a.watches \in (unjoined[c] \ torn) \ watched THEN "join" ELSE pc[a]]
    /\ runtimes' = runtimes \cup (unjoined[c] \ torn) /\ stopping' = stopping \cup {r[1] : r \in unjoined[c] \ torn}
    /\ watched' = watched \cup (unjoined[c] \ torn) /\ UNCHANGED unjoined
    /\ UNCHANGED <<stopBegun, stopRequested, inFlight, released, releaseDone, hostStopped, torn, once, sup, relays, first, startVars, sctx, mine, errs, res, ctx>>

WatcherJoins(w) ==
    /\ pc[w] = "join" /\ sup[w.watches] = "done" /\ pc' = [pc EXCEPT ![w] = "tear"]
    /\ UNCHANGED <<hostVars, rtVars, startVars, sctx, mine, unjoined, errs, res, ctx>>

\* maybeReleaseWorkers: the claim is taken under the lock, the waits are not
Release(a) ==
    /\ pc[a] = "release" /\ mu = "free"
    /\ \/ /\ stopRequested = 1 /\ stopping = {} /\ released = 0
          /\ released' = 1 /\ releaseDone' = "open" /\ pc' = [pc EXCEPT ![a] = "releasing"]
       \/ /\ ~(stopRequested = 1 /\ stopping = {} /\ released = 0)
          /\ pc' = [pc EXCEPT ![a] = "await"] /\ UNCHANGED <<released, releaseDone>>
    /\ UNCHANGED <<stopBegun, stopRequested, inFlight, runtimes, stopping, hostStopped, rtVars, startVars, sctx, mine, unjoined, errs, res, ctx>>

Released(a) ==
    /\ pc[a] = "releasing" /\ hostStopped' = 1 /\ releaseDone' = "closed" /\ pc' = [pc EXCEPT ![a] = "end"]
    /\ UNCHANGED <<stopBegun, stopRequested, inFlight, runtimes, stopping, released, rtVars, startVars, sctx, mine, unjoined, errs, res, ctx>>

\* awaitWorkerRelease
AwaitRelease(a) ==
    /\ pc[a] = "await" /\ pc' = [pc EXCEPT ![a] = "end"]
    /\ \/ releaseDone \in {"nil", "closed"} /\ UNCHANGED errs
       \/ releaseDone = "open" /\ a \in Callers /\ ctx[a] = 1 /\ errs' = [errs EXCEPT ![a] = 1]
    /\ UNCHANGED <<hostVars, rtVars, startVars, sctx, mine, unjoined, res, ctx>>

EndStopForgets(a) ==
    /\ pc[a] = "end" /\ pc' = [pc EXCEPT ![a] = "done"] /\ Answer(a, errs[a])
    /\ UNCHANGED <<hostVars, rtVars, startVars, sctx, mine, unjoined, errs, ctx>>

\* endStop, and Stop's answer; a watcher just ends
EndStop(a) ==
    /\ pc[a] = "end" /\ (a \in Callers => mu = "free") /\ pc' = [pc EXCEPT ![a] = "done"] /\ Answer(a, errs[a])
    /\ inFlight' = IF a \in Callers THEN Nobody ELSE inFlight
    /\ UNCHANGED <<stopBegun, stopRequested, runtimes, stopping, released, releaseDone, hostStopped, rtVars, startVars, sctx, mine, unjoined, errs, ctx>>

ActorStep(a) ==
    \/ a \in Callers /\ (BeginStop(a) \/ StopOne(a) \/ StopOneExpires(a) \/ RetainUnjoined(a))
    \/ a \in Watchers /\ WatcherJoins(a)
    \/ EnterTeardown(a) \/ FinishTeardown(a) \/ Release(a) \/ Released(a) \/ AwaitRelease(a) \/ EndStop(a)

-----------------------------------------------------------------------------
(* Supervisors, relays and contexts.                                       *)

\* a first instance is ready or the supervisor gives up; either is told to Start once
SupReports(r) ==
    /\ sup[r] \in {"run", "asked"} /\ first[r] = "none" /\ first' = [first EXCEPT ![r] = "ready"]
    /\ UNCHANGED <<hostVars, torn, once, watched, sup, relays, startVars, sctx, actorVars, ctx>>

\* Run returns: it gave up, or it was asked to stop
SupEnds(r) ==
    /\ \/ sup[r] = "run" /\ first' = [first EXCEPT ![r] = IF @ = "none" THEN "gaveup" ELSE @]
       \/ sup[r] = "asked" /\ UNCHANGED first
    /\ sup' = [sup EXCEPT ![r] = "done"]
    /\ UNCHANGED <<hostVars, torn, once, watched, relays, startVars, sctx, actorVars, ctx>>

\* drainOnStop empties the subscription of a supervisor that has returned
RelayEnds(r) ==
    /\ relays[r] = "asked" /\ relays' = [relays EXCEPT ![r] = "done"]
    /\ UNCHANGED <<hostVars, torn, once, watched, sup, first, startVars, sctx, actorVars, ctx>>

ContextEnds ==
    /\ \/ spc # "idle" /\ sctx = 0 /\ sctx' = 1 /\ UNCHANGED ctx
       \/ \E c \in setup.callers : ctx[c] = 0 /\ ctx' = [ctx EXCEPT ![c] = 1] /\ UNCHANGED sctx
    /\ UNCHANGED <<hostVars, rtVars, startVars, actorVars>>

Next ==
    /\ \/ Start \/ StartStep \/ ContextEnds
       \/ \E c \in setup.callers : SignalStopBegun(c)
       \/ \E a \in Actors : ActorStep(a)
       \/ \E r \in Runtimes : SupReports(r) \/ SupEnds(r) \/ RelayEnds(r)
    /\ UNCHANGED setup

Spec == Init /\ [][Next]_vars

\* what goes on by itself: a Start or Stop under way, a relay's drain and, since a teardown ends
\* in a kill and a reap, the return of a supervisor that was asked to stop
Progress ==
    \/ StartStep \/ \E a \in Actors : ActorStep(a)
    \/ \E r \in Runtimes : RelayEnds(r) \/ (sup[r] = "asked" /\ SupEnds(r))

-----------------------------------------------------------------------------
(* Properties.                                                             *)

\* Every variable stays in its range, and nobody holds h.mu but a Start.
TypeOK ==
    /\ mu = (IF spc = "idle" THEN "free" ELSE "start") /\ spc \in {"idle", "next", "wait", "abandon", "relay"}
    /\ runtimes \subseteq Runtimes /\ stopping \subseteq Names /\ torn \subseteq Runtimes
    /\ \A r \in Runtimes : sup[r] \in {"none", "run", "asked", "done"} /\ relays[r] \in {"none", "run", "asked", "done"}
    /\ \A a \in Actors : pc[a] \in {"idle", "begin", "pass", "tear", "join", "drain", "release", "releasing", "await", "end", "done"}
    /\ (releaseDone = "nil" <=> released = 0) /\ (hostStopped = 1 <=> releaseDone = "closed")

\* A Stop that returns nil has left nothing behind: every supervisor this host ever ran has
\* returned, its relay has drained, and the host's workers are down.
StopNilMeansDown ==
    \A c \in Callers : res[c] = "nil" =>
        /\ hostStopped = 1
        /\ \A r \in Runtimes : sup[r] \in {"none", "done"} /\ relays[r] \in {"none", "done"}

\* No supervisor is left unowned: one that has not returned is registered, is in the hands of the
\* Start that spawned it, or is on the list of the Stop in flight.
AlwaysOwned ==
    \A r \in Runtimes : sup[r] \in {"run", "asked"} =>
        r \in runtimes \/ (spc \in {"wait", "abandon"} /\ cur = r) \/ \E c \in Callers : inFlight = c /\ r \in mine[c] \cup unjoined[c]

\* Two supervisors never run under one name, whatever Starts are retried over abandoned attempts.
OneSupervisorPerName ==
    \A r, q \in Runtimes : r[1] = q[1] /\ r # q => ~(sup[r] \in {"run", "asked"} /\ sup[q] \in {"run", "asked"})

\* The workers are released after the last relay has drained: nothing is published on a bus whose
\* subscription has ended.
ReleasedLast == released = 1 => \A r \in Runtimes : relays[r] \in {"none", "done"}

\* A Stop that begins is answered, however many Starts, Stops and watchers contend with it:
\* while one is not, some goroutine can go on (and no goroutine goes round in a circle).
StopReturns == (\E c \in Callers : pc[c] # "idle" /\ res[c] = "none") => ENABLED Progress

\* Once a Stop has taken the teardown the workers are released, even if its budget ran out and
\* only a watcher is left to do it.
EventuallyReleased == stopRequested = 1 /\ hostStopped = 0 => ENABLED Progress

=============================================================================
