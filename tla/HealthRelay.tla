---------------------------- MODULE HealthRelay ----------------------------
(***************************************************************************)
(* From a supervisor to the host's health record: Run publishes lifecycle  *)
(* events on its bus and reports heartbeats through hooks, the relay takes *)
(* the events off its subscription and records them, Host.Stop (or an      *)
(* abandoned Start) drains the subscription, and a retry of Start writes   *)
(* the same record from a new supervisor.                                  *)
(***************************************************************************)
EXTENDS EventBus

CONSTANTS
    Plugins,
    Plans       \* the courses to consider: [events, attempts, threshold]

VARIABLES
    plan,       \* the course of this behaviour
    pub,        \* per plugin: the supervisor's Run goroutine and its heartbeat loop
    sub,        \* per plugin: the relay's subscription on the supervisor's bus
    relay,      \* per plugin: the relay goroutine
    rec,        \* per plugin: the health record
    stop,       \* 1: Host.Stop has begun
    evicted     \* history: per plugin, the newest incident that lost a critical event

vars == <<plan, pub, sub, relay, rec, stop, evicted>>

MaxEvents == plan.events        \* bound: no instance is announced after this many events
Attempts == plan.attempts       \* bound: Start attempts of one plugin
Threshold == plan.threshold     \* Config.MissedHeartbeats

NoRun == [run |-> "off", kind |-> "none", seq |-> 0, inc |-> 0, gen |-> 0, next |-> 0, attempt |-> 0,
          stop |-> 0, watched |-> 0, missed |-> 0]
NoRelay == [pc |-> "off", ev |-> None, drain |-> 0]

Init ==
    /\ plan \in Plans
    /\ pub = [p \in Plugins |-> NoRun] /\ sub = [p \in Plugins |-> Subscribed]
    /\ relay = [p \in Plugins |-> NoRelay]
    /\ rec = [p \in Plugins |-> [origin |-> 0, seq |-> 0, kind |-> "none", gen |-> 0,
                                 missed |-> 0, hookOrigin |-> 0, hookGen |-> 0]]
    /\ stop = 0 /\ evicted = [p \in Plugins |-> 0]

-----------------------------------------------------------------------------
(* The supervisor's Run goroutine.                                         *)

\* startOne: a new attempt builds a new supervisor, bus, subscription and relay
StartAttempt(p) ==
    /\ stop = 0 /\ pub[p].run \in {"off", "done"} /\ relay[p].pc \in {"off", "done"} /\ pub[p].attempt < Attempts
    /\ pub' = [pub EXCEPT ![p] = [NoRun EXCEPT !.run = "on", !.attempt = pub[p].attempt + 1]]
    /\ sub' = [sub EXCEPT ![p] = Subscribed]
    /\ relay' = [relay EXCEPT ![p] = [NoRelay EXCEPT !.pc = "select"]]
    /\ evicted' = [evicted EXCEPT ![p] = 0]
    /\ UNCHANGED <<rec, stop>>

\* EventBus.Publish on the Run goroutine
Publish(p, k) ==
    LET u == pub[p]
        fresh == k = "Starting" \/ (u.kind = "Ready" /\ k = "Ready")
        g == IF fresh THEN u.next + 1 ELSE u.gen
        inc == IF k = "Starting" THEN u.inc + 1 ELSE u.inc
        ev == [p |-> p, kind |-> k, seq |-> u.seq + 1, inc |-> inc, gen |-> g, at |-> u.attempt]
        full == IsCritical(k) /\ Len(sub[p].crit) = CriticalBufferCapacity
    IN  /\ u.run = "on" /\ k \in Follows(u.kind) /\ (fresh => u.seq < MaxEvents)
        /\ pub' = [pub EXCEPT ![p] = [u EXCEPT !.kind = k, !.seq = @ + 1, !.inc = inc, !.gen = g,
                                              !.next = IF fresh THEN @ + 1 ELSE @]]
        /\ sub' = [sub EXCEPT ![p] = Enqueue(@, ev, CriticalBufferCapacity)]
        /\ evicted' = IF full THEN [evicted EXCEPT ![p] = Head(sub[p].crit).inc] ELSE evicted
        /\ UNCHANGED <<relay, rec, stop>>

\* Supervisor.Stop, from an abandoned Start or from Host.Stop
StopRun(p) ==
    /\ pub[p].run # "off" /\ pub[p].stop = 0 /\ pub' = [pub EXCEPT ![p].stop = 1]
    /\ UNCHANGED <<sub, relay, rec, stop, evicted>>

RunReturns(p) ==
    /\ pub[p].run = "on" /\ (pub[p].kind = "GaveUp" \/ (pub[p].stop = 1 /\ pub[p].kind \in EndsAfter))
    /\ pub' = [pub EXCEPT ![p].run = "done"]
    /\ UNCHANGED <<sub, relay, rec, stop, evicted>>

\* recordHeartbeat: a hook of an older instance than the record's is ignored
RecordHeartbeat(r, at, g, missed) ==
    IF at < r.hookOrigin \/ (at = r.hookOrigin /\ g < r.hookGen) THEN r
    ELSE [r EXCEPT !.hookOrigin = at, !.hookGen = g, !.missed = missed]

\* what Health reports of the count half
CoherentMissed(r) ==
    IF r.origin > r.hookOrigin \/ (r.origin = r.hookOrigin /\ r.gen > r.hookGen) THEN 0 ELSE r.missed

\* the heartbeat loop's entry, a received beat or a serviced reload
HeartbeatOK(p) ==
    /\ Threshold > 0 /\ pub[p].run = "on" /\ pub[p].kind = "Ready"
    /\ pub[p].watched < pub[p].gen \/ pub[p].missed > 0
    /\ pub' = [pub EXCEPT ![p].watched = pub[p].gen, ![p].missed = 0]
    /\ rec' = [rec EXCEPT ![p] = RecordHeartbeat(@, pub[p].attempt, pub[p].gen, 0)]
    /\ UNCHANGED <<sub, relay, stop, evicted>>

HeartbeatMiss(p) ==
    /\ pub[p].run = "on" /\ pub[p].kind = "Ready" /\ pub[p].watched = pub[p].gen /\ pub[p].missed < Threshold
    /\ pub' = [pub EXCEPT ![p].missed = @ + 1]
    /\ rec' = [rec EXCEPT ![p] = RecordHeartbeat(@, pub[p].attempt, pub[p].gen, rec[p].missed + 1)]
    /\ UNCHANGED <<sub, relay, stop, evicted>>


-----------------------------------------------------------------------------
(* The relay and the health record.                                        *)

SubForwards(p) ==
    /\ \E t \in ForwarderSteps(sub[p]) : sub' = [sub EXCEPT ![p] = t]
    /\ UNCHANGED <<pub, relay, rec, stop, evicted>>

\* relayEvents and drainOnStop receive
RelayReceives(p) ==
    /\ relay[p].pc \in {"select", "drain"} /\ sub[p].pc = "send"
    /\ relay' = [relay EXCEPT ![p].pc = "record", ![p].ev = sub[p].hand]
    /\ sub' = [sub EXCEPT ![p] = HandOver(@)]
    /\ UNCHANGED <<pub, rec, stop, evicted>>

ApplyBySeq(r, ev) == ev.seq > r.seq

\* recordHealthEvent applies only what is newer in (attempt, seq) order
Applies(r, ev) == ev.at > r.origin \/ (ev.at = r.origin /\ ev.seq > r.seq)

\* the event is recorded, then published on the host's bus (EventFanIn), which never blocks
RecordHealthEvent(p) ==
    LET r == rec[p]  ev == relay[p].ev IN
    /\ relay[p].pc = "record"
    /\ rec' = IF Applies(r, ev)
              THEN [rec EXCEPT ![p] = [r EXCEPT !.kind = ev.kind, !.origin = ev.at, !.seq = ev.seq, !.gen = ev.gen]]
              ELSE rec
    /\ relay' = [relay EXCEPT ![p].pc = IF relay[p].drain = 1 THEN "drain" ELSE "select", ![p].ev = None]
    /\ UNCHANGED <<pub, sub, stop, evicted>>

\* completeTeardown closes stopRelay once Run has returned
StopRelay(p) ==
    /\ pub[p].run = "done" /\ pub[p].stop = 1 /\ relay[p].pc = "select"
    /\ relay' = [relay EXCEPT ![p].pc = "drain", ![p].drain = 1]
    /\ UNCHANGED <<pub, sub, rec, stop, evicted>>

\* drainOnStop: nothing offered, then the probe
DrainProbe(p) ==
    /\ \/ relay[p].pc = "drain" /\ sub[p].pc # "send" /\ relay' = [relay EXCEPT ![p].pc = "probe"] /\ UNCHANGED sub
       \/ /\ relay[p].pc = "probe"
          /\ IF Quiesced(sub[p])
             THEN relay' = [relay EXCEPT ![p].pc = "done"] /\ sub' = [sub EXCEPT ![p].done = 1]
             ELSE relay' = [relay EXCEPT ![p].pc = "drain"] /\ UNCHANGED sub
    /\ UNCHANGED <<pub, rec, stop, evicted>>

HostStop == stop = 0 /\ stop' = 1 /\ UNCHANGED <<pub, sub, relay, rec, evicted>>

Run(p) == RunReturns(p) \/ \E k \in Kinds : Publish(p, k)
Relays(p) == RelayReceives(p) \/ RecordHealthEvent(p) \/ StopRelay(p) \/ DrainProbe(p)

Next ==
    /\ \/ HostStop
       \/ \E p \in Plugins : \/ StartAttempt(p) \/ StopRun(p) \/ Run(p) \/ HeartbeatOK(p) \/ HeartbeatMiss(p)
                            \/ SubForwards(p) \/ Relays(p)
    /\ UNCHANGED plan

Spec == Init /\ [][Next]_vars

\* what goes on by itself once the host stops, other than the drain's polling of its subscription
Progress(p) == StopRun(p) \/ Run(p) \/ SubForwards(p) \/ RelayReceives(p) \/ RecordHealthEvent(p) \/ StopRelay(p)

-----------------------------------------------------------------------------
(* Properties.                                                             *)

Events == [p : Plugins, kind : Kinds, seq : Nat, inc : Nat, gen : Nat, at : Nat]

\* Every variable stays in its range; a forwarder holds an event exactly while it offers it,
\* and "sending" covers it from the check-out to clearSending.
TypeOK ==
    /\ stop \in {0, 1}
    /\ \A p \in Plugins : /\ SubscriberOK(sub[p], Events) /\ pub[p].run \in {"off", "on", "done"}
                          /\ pub[p].kind \in Kinds \cup {"none"}
                          /\ relay[p].pc \in {"off", "select", "record", "drain", "probe", "done"}
                          /\ relay[p].ev \in Events \cup {None}
                          /\ rec[p].kind \in Kinds \cup {"none"} /\ rec[p].missed \in 0 .. Threshold

\* However far the relay falls behind, the critical ring of a supervisor's bus never loses an
\* event of the incident being reported (CriticalBufferCapacity).
NewestIncidentWhole == \A p \in Plugins : evicted[p] # 0 => evicted[p] < pub[p].inc

\* When a relay has drained and gone, the health record shows the last event its supervisor
\* published: priority delivery, evictions and restarted numbering lose nothing of the final state.
HealthCatchesUp ==
    \A p \in Plugins :
        relay[p].pc = "done" /\ pub[p].seq > 0 =>
            rec[p].origin = pub[p].attempt /\ rec[p].seq = pub[p].seq /\ rec[p].kind = pub[p].kind

\* A missed-heartbeat count that Health reports was really run up by a heartbeat loop, and by
\* one of an instance no older than the one the reported state describes (coherentMissed).
MissedNeverStale ==
    \A p \in Plugins :
        CoherentMissed(rec[p]) > 0 /\ pub[p].attempt \in {rec[p].origin, rec[p].hookOrigin} =>
            /\ CoherentMissed(rec[p]) = pub[p].missed
            /\ rec[p].origin = pub[p].attempt => rec[p].gen <= pub[p].watched

\* Once the host is stopping every relay that was started ends: a drain never polls a subscription
\* that is not quiesced and that nobody will move on (a lost wake-up).
RelaysEnd ==
    \A p \in Plugins :
        stop = 1 /\ relay[p].pc \notin {"off", "done"} =>
            \/ relay[p].pc \in {"drain", "probe"} /\ (Quiesced(sub[p]) \/ sub[p].pc = "send")
            \/ ENABLED Progress(p)

=============================================================================
