------------------------------ MODULE Recovery ------------------------------
(***************************************************************************)
(* When a shared-memory region is condemned, and how both ends learn of    *)
(* it.  Each end's receive loop takes descriptors that may be stamped by   *)
(* an earlier generation, may break the format, or may make its own        *)
(* consume step fail; an escalation policy decides which patterns poison   *)
(* the region, and poisoning is four separate stores into shared words     *)
(* (internal/transport/shm: recovery.go, poison.go, transport.go).         *)
(***************************************************************************)
EXTENDS Integers, Sequences, FiniteSets

CONSTANTS Cases,       \* [gen, cfg, fed, stops, ticks]: a region's generation, the policies, the frames
                       \* each end receives, how often the host shuts down, how far the clock runs
          Stamps,      \* 2^32 in the code: how many values a descriptor's stamp has
          DefaultGrace, DefaultWindow, DefaultRate, DefaultRun

VARIABLES case, now, rx, poison, shutdown, efd, stop, hist

vars == <<case, now, rx, poison, shutdown, efd, stop, hist>>

Sides == {"host", "plugin"}
inboundEFD(e) == IF e = "host" THEN "ph" ELSE "hp"
PoisonCause == {"none", "generic", "bad_frame", "peer_crash"}

\* A receive loop and its policy: `recent` holds the late discards inside the rate window, `run` the
\* consume faults since the last delivery, `seen` what the loop ended with.
Receiver ==
    [pc : {"wait", "parked", "poison?", "shutdown?", "peek", "payload", "consume", "cas", "store", "hp", "ph",
           "advance", "down"},
     then : {"peek", "consume", "advance", "down"}, seen : {"none", "closed", "fault"} \union PoisonCause]

-----------------------------------------------------------------------------
(* The policy. *)

EscalationConfig == [grace : Int, window : Int, rate : Int, run : Int]
\* Zero and negative durations and counts mean the default, but a negative run threshold disables.
NewEscalationPolicy(cfg) ==
    [grace |-> IF cfg.grace <= 0 THEN DefaultGrace ELSE cfg.grace,
     window |-> IF cfg.window <= 0 THEN DefaultWindow ELSE cfg.window,
     rate |-> IF cfg.rate <= 0 THEN DefaultRate ELSE cfg.rate,
     run |-> IF cfg.run = 0 THEN DefaultRun ELSE cfg.run]
policy(e) == NewEscalationPolicy(case.cfg[e])

\* The signed difference of truncated generations: how many restarts the stamp is behind.
Truncated(g) == g % Stamps
truncatedGenerationDelta(g, stamp) ==
    LET d == (Truncated(g) - stamp + Stamps) % Stamps
    IN  IF d >= Stamps \div 2 THEN d - Stamps ELSE d
discardIfStale(g, stamp) == Truncated(g) # stamp
evictBefore(times, cutoff) == SelectSeq(times, LAMBDA t : t >= cutoff)

\* What one discard does to the window, and whether it escalates.  Both policies start at attach, time 0.
pastGrace(e) == now >= policy(e).grace
noted(e) == evictBefore(Append(rx[e].recent, now), now - policy(e).window)
late(delta) == delta \notin {0, 1}
ObserveInGrace(e, stamp) ==
    LET delta == truncatedGenerationDelta(case.gen, stamp)
    IN  [recent |-> noted(e), escalate |-> late(delta) \/ Len(noted(e)) >= policy(e).rate]
Observe(e, stamp) ==
    LET delta == truncatedGenerationDelta(case.gen, stamp)
    IN  IF late(delta) THEN [recent |-> rx[e].recent, escalate |-> TRUE]
        ELSE IF pastGrace(e) THEN [recent |-> noted(e), escalate |-> Len(noted(e)) >= policy(e).rate]
        ELSE [recent |-> rx[e].recent, escalate |-> FALSE]
ObserveConsumeFault(e) ==
    IF policy(e).run < 0 THEN [run |-> rx[e].run, escalate |-> FALSE]
    ELSE [run |-> rx[e].run + 1, escalate |-> rx[e].run + 1 >= policy(e).run /\ pastGrace(e)]

-----------------------------------------------------------------------------
Init ==
    /\ case \in Cases
    /\ now = 0
    /\ rx = [e \in Sides |-> [pc |-> "wait", then |-> "peek", seen |-> "none", cause |-> "none",
                              stamp |-> 0, body |-> "none", recent |-> <<>>, run |-> 0,
                              left |-> case.fed[e], advanced |-> 0]]
    /\ poison = "none" /\ shutdown = FALSE
    /\ efd = [d \in {"hp", "ph"} |-> FALSE]
    /\ stop = [left |-> case.stops, pc |-> "idle"]
    /\ hist = [e \in Sides |-> <<>>]

moves(e, fields) == rx' = [rx EXCEPT ![e] = [f \in DOMAIN rx[e] |-> IF f \in DOMAIN fields THEN fields[f] ELSE rx[e][f]]]
records(e, what) == hist' = [hist EXCEPT ![e] = Append(@, [at |-> now, what |-> what])]
sync == <<poison, shutdown, efd>>

\* recvCore: teardown wakes the wait; otherwise a descriptor is there to drain, or the loop parks
Wait(e) ==
    /\ rx[e].pc = "wait"
    /\ IF shutdown THEN moves(e, [pc |-> "poison?", then |-> "down"])
       ELSE moves(e, IF rx[e].left > 0 THEN [pc |-> "poison?", then |-> "peek"] ELSE [pc |-> "parked"])
    /\ UNCHANGED <<case, now, sync, stop, hist>>
Unpark(e) ==
    /\ rx[e].pc = "parked" /\ efd[inboundEFD(e)]
    /\ efd' = [efd EXCEPT ![inboundEFD(e)] = FALSE]
    /\ moves(e, [pc |-> "wait"])
    /\ UNCHANGED <<case, now, poison, shutdown, stop, hist>>
\* TeardownError: the poison word, then the shutdown word, in two loads
LoadPoison(e) ==
    /\ rx[e].pc = "poison?"
    /\ moves(e, IF poison # "none" THEN [pc |-> "down", seen |-> poison] ELSE [pc |-> "shutdown?"])
    /\ UNCHANGED <<case, now, sync, stop, hist>>
LoadShutdown(e) ==
    /\ rx[e].pc = "shutdown?"
    /\ moves(e, IF shutdown THEN [pc |-> "down", seen |-> "closed"] ELSE [pc |-> rx[e].then])
    /\ UNCHANGED <<case, now, sync, stop, hist>>
\* Peek hands over whatever descriptor the peer, or a dying predecessor, left in the ring.
Peek(e) ==
    /\ rx[e].pc = "peek"
    /\ \E stamp \in 0 .. Stamps - 1, body \in {"good", "fault", "malformed", "bad"} :
           /\ discardIfStale(case.gen, stamp) => body = "good"
           /\ moves(e, [pc |-> "payload", stamp |-> stamp, body |-> body, left |-> rx[e].left - 1])
    /\ UNCHANGED <<case, now, sync, stop, hist>>
\* consumeDescriptor: a stale descriptor is discarded unread and observed; a format breach faults at
\* once; anything else meets the final gate with its payload in hand
Classify(e) ==
    /\ rx[e].pc = "payload"
    /\ \/ /\ discardIfStale(case.gen, rx[e].stamp)
          /\ LET o == Observe(e, rx[e].stamp)
             IN  moves(e, [pc |-> IF o.escalate THEN "cas" ELSE "advance", then |-> "advance",
                           cause |-> "peer_crash", recent |-> o.recent])
          /\ records(e, IF late(truncatedGenerationDelta(case.gen, rx[e].stamp)) THEN "far" ELSE "late")
       \/ /\ ~ discardIfStale(case.gen, rx[e].stamp) /\ rx[e].body = "bad"
          /\ moves(e, [pc |-> "cas", then |-> "down", cause |-> "bad_frame"])
          /\ records(e, "bad")
       \/ /\ ~ discardIfStale(case.gen, rx[e].stamp) /\ rx[e].body # "bad"
          /\ moves(e, [pc |-> "poison?", then |-> "consume"])
          /\ UNCHANGED hist
    /\ UNCHANGED <<case, now, sync, stop>>
\* protectedConsume: delivered, or blamed on the peer, or this side's own fault
Consume(e) ==
    /\ rx[e].pc = "consume"
    /\ \/ /\ rx[e].body = "good"
          /\ moves(e, [pc |-> "advance", run |-> 0]) /\ records(e, "ok")
       \/ /\ rx[e].body = "malformed"
          /\ moves(e, [pc |-> "cas", then |-> "down", cause |-> "bad_frame"]) /\ records(e, "bad")
       \/ /\ rx[e].body = "fault"
          /\ LET o == ObserveConsumeFault(e)
             IN  moves(e, [pc |-> IF o.escalate THEN "cas" ELSE "advance", then |-> "advance",
                           cause |-> "generic", run |-> o.run])
          /\ records(e, "fault")
    /\ UNCHANGED <<case, now, sync, stop>>
Advance(e) ==
    /\ rx[e].pc = "advance"
    /\ moves(e, [pc |-> "wait", advanced |-> rx[e].advanced + 1])
    /\ UNCHANGED <<case, now, sync, stop, hist>>

\* PoisonFlag.Set: the first cause is kept; the shutdown word and both eventfds follow whoever won
SetCAS(e) ==
    /\ rx[e].pc = "cas"
    /\ poison' = IF poison = "none" THEN rx[e].cause ELSE poison
    /\ moves(e, [pc |-> "store"])
    /\ UNCHANGED <<case, now, shutdown, efd, stop, hist>>
SetStore(e) ==
    /\ rx[e].pc = "store"
    /\ shutdown' = TRUE /\ moves(e, [pc |-> "hp"])
    /\ UNCHANGED <<case, now, poison, efd, stop, hist>>
SetWake(e) ==
    /\ rx[e].pc \in {"hp", "ph"}
    /\ efd' = [efd EXCEPT ![rx[e].pc] = TRUE]
    /\ moves(e, IF rx[e].pc = "hp" THEN [pc |-> "ph"]
                ELSE [pc |-> rx[e].then, seen |-> IF rx[e].then = "down" THEN "fault" ELSE "none"])
    /\ UNCHANGED <<case, now, poison, shutdown, stop, hist>>
\* PoisonFlag.Shutdown, from the host's teardown
Shutdown ==
    /\ \/ stop.pc = "idle" /\ stop.left > 0 /\ shutdown' = TRUE /\ UNCHANGED efd
          /\ stop' = [left |-> stop.left - 1, pc |-> "hp"]
       \/ stop.pc \in {"hp", "ph"} /\ efd' = [efd EXCEPT ![stop.pc] = TRUE] /\ UNCHANGED shutdown
          /\ stop' = [stop EXCEPT !.pc = IF @ = "hp" THEN "ph" ELSE "idle"]
    /\ UNCHANGED <<case, now, rx, poison, hist>>
Tick ==
    /\ now < case.ticks /\ now' = now + 1
    /\ UNCHANGED <<case, rx, sync, stop, hist>>

Step(e) ==
    \/ Wait(e) \/ Unpark(e) \/ LoadPoison(e) \/ LoadShutdown(e) \/ Peek(e) \/ Classify(e) \/ Consume(e)
    \/ Advance(e) \/ SetCAS(e) \/ SetStore(e) \/ SetWake(e)
Next == Shutdown \/ Tick \/ \E e \in Sides : Step(e)
Spec == Init /\ [][Next]_vars

-----------------------------------------------------------------------------
TypeOK ==
    /\ poison \in PoisonCause /\ shutdown \in BOOLEAN
    /\ \A e \in Sides : /\ case.cfg[e] \in EscalationConfig
                        /\ [f \in {"pc", "then", "seen"} |-> rx[e][f]] \in Receiver

\* The causes an end's whole history of receptions justifies: a stamp of no possible predecessor or
\* enough late stamps in one window, none of them inside the grace window; enough faults with no
\* delivery between them, the last past the grace window; a breach of the format.
justified(e) ==
    LET h == hist[e]
        p == policy(e)
        lates(k) == {j \in 1 .. k : h[j].what = "late" /\ h[j].at >= p.grace /\ h[j].at >= h[k].at - p.window}
        crash(k) == h[k].what = "far" \/ (k \in lates(k) /\ Cardinality(lates(k)) >= p.rate)
        faults(k) == {j \in 1 .. k : h[j].what = "fault" /\ \A i \in j .. k : h[i].what # "ok"}
        tired(k) == p.run > 0 /\ h[k].at >= p.grace /\ k \in faults(k) /\ Cardinality(faults(k)) >= p.run
    IN  {c \in PoisonCause : \E k \in DOMAIN h :
            \/ c = "peer_crash" /\ crash(k)
            \/ c = "generic" /\ tired(k)
            \/ c = "bad_frame" /\ h[k].what = "bad"}

poisoning(e) == rx[e].pc \in {"cas", "store", "hp", "ph"}
stopping == stop.pc # "idle"

\* A region is poisoned for a reason one end's history justifies, and once a history justifies it and
\* the end is past its poisoning, the region is poisoned (EscalationPolicy).
PoisonIffJustified ==
    /\ poison # "none" => \E e \in Sides : poison \in justified(e)
    /\ \A e \in Sides : justified(e) # {} /\ rx[e].pc # "cas" => poison # "none"
\* Every end that finds a poison reports the word's one cause, and one that raised its own fault has
\* condemned the region; a plain close is reported only of a
\* region that was shut down or condemned (TeardownError).
ReportsTrue ==
    \A e \in Sides :
        /\ rx[e].seen \in PoisonCause \ {"none"} => rx[e].seen = poison
        /\ rx[e].seen = "fault" => poison # "none"
        /\ rx[e].seen = "closed" => shutdown /\ (poison # "none" \/ stop.left < case.stops)
        /\ rx[e].pc = "down" => rx[e].seen # "none"
\* Once whoever is tearing the region down is through, no end stays parked unsignalled.
TeardownReachesAll ==
    shutdown /\ ~ stopping /\ (\A e \in Sides : ~ poisoning(e))
        => \A e \in Sides : rx[e].pc = "parked" => efd[inboundEFD(e)]
\* A slot is released exactly for the frames delivered, discarded as stale or lost to an own fault;
\* a breach of the format releases none.
HeadAccounts ==
    \A e \in Sides :
        rx[e].advanced + (IF rx[e].pc = "advance" \/ (poisoning(e) /\ rx[e].then = "advance") THEN 1 ELSE 0)
            = Len(SelectSeq(hist[e], LAMBDA h : h.what # "bad"))

\* Condemnation is justified, complete, reported truly and reaches both ends.
RecoverySound == TypeOK /\ PoisonIffJustified /\ ReportsTrue /\ TeardownReachesAll /\ HeadAccounts
=============================================================================
