------------------------------- MODULE Observe -------------------------------
(* Metrics off the hot path: a Dispatcher with a bounded drop-oldest queue and *)
(* one delivery goroutine, the periodic reporter that samples the live         *)
(* transport's counters, and the calls that submit their own latency. Three    *)
(* orders matter: a transport is unmapped while a reporter may be reading it,  *)
(* a fresh transport's counters start from zero, and the shutdown publishes    *)
(* a last drop count nothing may add to.                                       *)
EXTENDS Integers, Sequences

CONSTANTS
    bufSize,        \* the Dispatcher's buffer
    ObserveSetups   \* [side, gens, moves, calls]: which process, transports in turn, counts per transport, calls recorded

VARIABLES
    obsCase,      \* the case; never changes
    live,       \* the transport routing points at, 0 when there is none
    gen,        \* each transport: "unborn", "up", "stopping" or "released"
    moved,      \* each transport's own counter
    rep,        \* the reporter: [at, tr, lastTr, last, ev]
    call,       \* the callers' submissions: [at, left]
    ch, cut, lost,
    disp,       \* the Dispatcher's Run: [at, ev]
    obsDone,    \* the observability context has ended
    observed,  \* events the sink was handed, in order
    sent,       \* per transport, the sum of the deltas submitted
    told,       \* drops published through the drop reporter
    unseen        \* drops of calls that submitted after the last report
obsVars == <<obsCase, live, gen, moved, rep, call, ch, cut, lost, disp, obsDone, observed, sent, told, unseen>>

Gens == 1 .. obsCase.gens
noEvent == [from |-> "none", n |-> 0]

Init ==
    /\ obsCase \in ObserveSetups
    /\ live = 1 /\ gen = [g \in Gens |-> IF g = 1 THEN "up" ELSE "unborn"] /\ moved = [g \in Gens |-> 0]
    /\ rep = [at |-> "tick", tr |-> 0, lastTr |-> 0, last |-> 0, ev |-> noEvent]
    /\ call = [at |-> "idle", left |-> obsCase.calls]
    /\ ch = <<>> /\ cut = FALSE /\ lost = 0 /\ disp = [at |-> "serve", ev |-> noEvent] /\ obsDone = FALSE
    /\ observed = <<>> /\ sent = [g \in Gens |-> 0] /\ told = 0 /\ unseen = 0

(* ---- transports come and go ---- *)

TransportMoves(g) ==
    /\ gen[g] \in {"up", "stopping"} /\ moved[g] < obsCase.moves /\ moved' = [moved EXCEPT ![g] = @ + 1]
    /\ UNCHANGED <<obsCase, live, gen, rep, call, ch, cut, lost, disp, obsDone, observed, sent, told, unseen>>

\* wireConnState for the next instance: after the old one's release (restart) or while it still serves (reload).
Install(g) ==
    /\ gen[g] = "unborn" /\ gen[g - 1] \in {"up", "released"} /\ ~obsDone
    /\ gen' = [gen EXCEPT ![g] = "up"] /\ live' = g
    /\ UNCHANGED <<obsCase, moved, rep, call, ch, cut, lost, disp, obsDone, observed, sent, told, unseen>>

\* StopAdmission clears the routing only while this instance still owns it.
StopAdmission(g) ==
    /\ gen[g] = "up" /\ gen' = [gen EXCEPT ![g] = "stopping"]
    /\ live' = IF live = g /\ obsCase.side = "host" THEN 0 ELSE live
    /\ UNCHANGED <<obsCase, moved, rep, call, ch, cut, lost, disp, obsDone, observed, sent, told, unseen>>

\* The host takes the write side of trReleaseMu; the plugin joins its reporter first.
\* Mutant: the host releases without waiting for the reader.
releasableUnguarded == IF obsCase.side = "host" THEN TRUE ELSE obsDone /\ rep.at = "done"
releasable == IF obsCase.side = "host" THEN rep.at \in {"tick", "done"} ELSE obsDone /\ rep.at = "done"
ReleaseTransportGuarded(g) ==
    /\ gen[g] = "stopping" /\ releasable /\ gen' = [gen EXCEPT ![g] = "released"]
    /\ UNCHANGED <<obsCase, live, moved, rep, call, ch, cut, lost, disp, obsDone, observed, sent, told, unseen>>

\* The host ends the context once every runtime is torn down, the plugin while its transport is still mapped.
EndObservability ==
    /\ ~obsDone /\ obsDone' = TRUE
    /\ obsCase.side = "host" => \A g \in Gens : gen[g] \in {"unborn", "released"}
    /\ UNCHANGED <<obsCase, live, gen, moved, rep, call, ch, cut, lost, disp, observed, sent, told, unseen>>

(* ---- the reporter and the calls ---- *)

counterDelta(cur, last) == IF cur < last THEN cur ELSE cur - last

\* A tick: the read lock, the live transport, and a fresh baseline when it is not the one of the last tick.
ReporterTick ==
    /\ rep.at = "tick" /\ ~obsDone /\ live # 0
    /\ rep' = [rep EXCEPT !.at = "read", !.tr = live, !.lastTr = live, !.last = IF live = rep.lastTr THEN @ ELSE 0]
    /\ UNCHANGED <<obsCase, live, gen, moved, call, ch, cut, lost, disp, obsDone, observed, sent, told, unseen>>

\* One counter read and its delta; nothing new submits nothing and ends the tick.
ReportDelta ==
    LET delta == counterDelta(moved[rep.tr], rep.last)
    IN /\ rep.at = "read"
       /\ rep' = IF delta = 0 THEN [rep EXCEPT !.at = "tick", !.last = moved[rep.tr]]
                 ELSE [rep EXCEPT !.at = "submit", !.last = moved[rep.tr],
                                  !.ev = [from |-> "reporter", n |-> rep.ev.n + 1]]
       /\ sent' = [sent EXCEPT ![rep.tr] = @ + delta]
       /\ UNCHANGED <<obsCase, live, gen, moved, call, ch, cut, lost, disp, obsDone, observed, told, unseen>>

ReporterEnds ==
    /\ rep.at = "tick" /\ obsDone /\ rep' = [rep EXCEPT !.at = "done"]
    /\ UNCHANGED <<obsCase, live, gen, moved, call, ch, cut, lost, disp, obsDone, observed, sent, told, unseen>>

\* recordCompleted, recordAbandoned: a caller's goroutine, which nothing joins.
CallEnds ==
    /\ call.at = "idle" /\ call.left > 0 /\ call' = [at |-> "submit", left |-> call.left - 1]
    /\ UNCHANGED <<obsCase, live, gen, moved, rep, ch, cut, lost, disp, obsDone, observed, sent, told, unseen>>

(* ---- Submit ---- *)

at(p) == IF p = "reporter" THEN rep.at ELSE call.at
event(p) == IF p = "reporter" THEN rep.ev ELSE [from |-> "call", n |-> obsCase.calls - call.left]
Goto(p, a) ==
    IF p = "reporter" THEN rep' = [rep EXCEPT !.at = IF a = "idle" THEN "tick" ELSE a] /\ UNCHANGED call
    ELSE call' = [call EXCEPT !.at = a] /\ UNCHANGED rep

\* The read lock and the check of stopped: past the cutoff the event is dropped and counted.
SubmitLocks(p) ==
    /\ at(p) = "submit" /\ Goto(p, IF cut THEN "idle" ELSE "send")
    /\ lost' = IF cut THEN lost + 1 ELSE lost
    /\ unseen' = IF disp.at = "over" /\ p = "call" THEN unseen + 1 ELSE unseen
    /\ UNCHANGED <<ch, cut>>

SubmitSends(p) ==
    /\ at(p) = "send"
    /\ IF Len(ch) < bufSize THEN ch' = Append(ch, event(p)) /\ Goto(p, "idle") ELSE Goto(p, "evict") /\ UNCHANGED ch
    /\ UNCHANGED <<cut, lost, unseen>>

\* The oldest goes, unless someone took it meanwhile; then the send is tried again.
SubmitEvicts(p) ==
    /\ at(p) = "evict" /\ Goto(p, "send")
    /\ IF ch = <<>> THEN UNCHANGED <<ch, lost>> ELSE ch' = Tail(ch) /\ lost' = lost + 1
    /\ UNCHANGED <<cut, unseen>>

Submit(p) ==
    /\ SubmitLocks(p) \/ SubmitSends(p) \/ SubmitEvicts(p)
    /\ UNCHANGED <<obsCase, live, gen, moved, disp, obsDone, observed, sent, told>>

(* ---- Run ---- *)

idle == disp.ev = noEvent
Take ==
    /\ idle /\ disp.at \in {"serve", "join", "drain"} /\ ch # <<>>
    /\ ch' = Tail(ch) /\ disp' = [disp EXCEPT !.ev = Head(ch)] /\ UNCHANGED <<cut, observed, told>>

\* The sink returns or panics; either way the event was consumed. A wedged sink never gets here.
Invoke == ~idle /\ observed' = Append(observed, disp.ev) /\ disp' = [disp EXCEPT !.ev = noEvent]
          /\ UNCHANGED <<ch, cut, told>>

\* The drop reporter's own baseline is the total it last published.
reportDrop == told' = told + counterDelta(lost, told)
DropTick == idle /\ disp.at \in {"serve", "join"} /\ told # lost /\ reportDrop /\ UNCHANGED <<ch, cut, disp, observed>>
ContextDone == idle /\ disp.at = "serve" /\ obsDone /\ disp' = [disp EXCEPT !.at = "join"] /\ UNCHANGED <<ch, cut, observed, told>>
ProducersJoined == idle /\ disp.at = "join" /\ rep.at = "done" /\ disp' = [disp EXCEPT !.at = "cutoff"]
                   /\ UNCHANGED <<ch, cut, observed, told>>

\* The write lock waits for every Submit that saw stopped unset.
Cutoff ==
    /\ disp.at = "cutoff" /\ \A p \in {"reporter", "call"} : at(p) \notin {"send", "evict"}
    /\ cut' = TRUE /\ disp' = [disp EXCEPT !.at = "drain"] /\ UNCHANGED <<ch, observed, told>>
Drained == idle /\ disp.at = "drain" /\ ch = <<>> /\ disp' = [disp EXCEPT !.at = "final"] /\ UNCHANGED <<ch, cut, observed, told>>
FinalReport == disp.at = "final" /\ reportDrop /\ disp' = [disp EXCEPT !.at = "over"] /\ UNCHANGED <<ch, cut, observed>>

Run ==
    /\ Take \/ Invoke \/ DropTick \/ ContextDone \/ ProducersJoined \/ Cutoff \/ Drained \/ FinalReport
    /\ UNCHANGED <<obsCase, live, gen, moved, rep, call, lost, obsDone, sent, unseen>>

Next ==
    \/ \E g \in Gens : TransportMoves(g) \/ Install(g) \/ StopAdmission(g) \/ ReleaseTransportGuarded(g)
    \/ EndObservability \/ ReporterTick \/ ReportDelta \/ ReporterEnds \/ CallEnds \/ Run
    \/ \E p \in {"reporter", "call"} : Submit(p)
Spec == Init /\ [][Next]_obsVars

(* ---- properties ---- *)

TypeOK ==
    /\ obsCase \in ObserveSetups /\ live \in 0 .. obsCase.gens /\ Len(ch) <= bufSize
    /\ gen \in [Gens -> {"unborn", "up", "stopping", "released"}]

\* A transport is never read by the reporter after its release unmapped it (trReleaseMu, stopReporter).
NoReadAfterUnmap == rep.at = "read" => gen[rep.tr] # "released"

\* The deltas submitted for one transport add up to what was read of its counter, never to a difference
\* against another transport's (runMetricsReporter's baselines).
DeltasExact ==
    /\ \A g \in Gens : sent[g] <= moved[g]
    /\ rep.lastTr # 0 /\ rep.at # "read" => sent[rep.lastTr] = rep.last

Order(p) == SelectSeq(observed, LAMBDA e : e.from = p)
inFlight == (IF idle THEN 0 ELSE 1) + Len(ch)
pending == (IF rep.at \in {"submit", "send", "evict"} THEN 1 ELSE 0) + (IF call.at = "idle" THEN 0 ELSE 1)

\* Every event submitted is delivered, queued or counted as dropped; each producer's reach the sink in
\* order; and nothing is left in a queue nobody drains (Submit against cutoffAndDrain).
EveryEventAccounted ==
    /\ rep.ev.n + (obsCase.calls - call.left) = Len(observed) + lost + inFlight + pending
    /\ \A p \in {"reporter", "call"} : \A i, j \in 1 .. Len(Order(p)) : i < j => Order(p)[i].n < Order(p)[j].n
    /\ disp.at = "over" => ch = <<>>

\* The published drop count never runs ahead, and the last report covers every drop but those of
\* calls that submit after it, which no join waits for (SetProducerJoin, the final reportDrop).
FinalReportTerminal == told <= lost /\ (disp.at = "over" => told + unseen = lost)

\* The four together, with the type of the state.
ObserveAccounted == TypeOK /\ NoReadAfterUnmap /\ DeltasExact /\ EveryEventAccounted /\ FinalReportTerminal
=============================================================================
