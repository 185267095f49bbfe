----------------------------- MODULE Supervisor -----------------------------
(***************************************************************************)
(* The supervisor of one plugin: Run's restart loop, one instance from     *)
(* spawn to reap, the heartbeat loop with the reloads it runs inline, Stop *)
(* and the callers of Reload.  What a heartbeat says about health is       *)
(* WedgeWatch, what happens inside a reload is ReloadProtocol: here a beat *)
(* may bring a wedge verdict, and a reload may end in each of its ways.    *)
(***************************************************************************)
EXTENDS Naturals, FiniteSets, EventKinds

CONSTANTS
    Max,        \* Config.Restart.Max
    Missed,     \* Config.MissedHeartbeats
    Resets,     \* bound: instances that outlive the reset window
    Callers,    \* callers of Reload
    NoCaller

ASSUME SupervisorAssumption ==
    Max \in Nat /\ Missed \in Nat \ {0} /\ Resets \in Nat /\ NoCaller \notin Callers

VARIABLES
    pc,         \* where Run is
    reason,     \* why the instance ended: "none", "stop", "crash" or "incompatible"
    used,       \* restartsUsed
    resets,     \* instances that outlived the window so far
    gen, cur,   \* s.generation; the generation of *current
    missed,     \* the heartbeat loop's run of missed beats
    connLost,   \* 1: the routing layer has ended the current instance
    procs,      \* generations whose process exists unreaped
    stop,       \* 1: stopCh is closed
    reloadCh,   \* the request in reloadCh's one slot
    serving,    \* the request the loop is running
    caller,     \* where each caller of Reload is
    done,       \* what each request's done channel holds
    ctx,        \* 1: the caller's context is done
    kind, egen, \* the last event published and its Gen
    streak      \* history: instances started since one outlived the reset window

loopVars == <<reason, used, resets, missed, connLost, streak>>
callVars == <<caller, ctx>>
eventVars == <<kind, egen>>
vars == <<pc, loopVars, gen, cur, procs, stop, reloadCh, serving, callVars, done, eventVars>>

Init ==
    /\ pc = "top" /\ reason = "none" /\ used = 0 /\ resets = 0 /\ gen = 0 /\ cur = 0 /\ missed = 0 /\ connLost = 0
    /\ procs = {} /\ stop = 0 /\ reloadCh = NoCaller /\ serving = NoCaller
    /\ caller = [c \in Callers |-> "idle"] /\ done = [c \in Callers |-> "none"] /\ ctx = [c \in Callers |-> 0]
    /\ kind = "none" /\ egen = 0 /\ streak = 0

Emit(k, g) == kind' = k /\ egen' = g

-----------------------------------------------------------------------------
(* Run: one instance after another.                                        *)

Top ==
    /\ pc = "top"
    /\ IF stop = 1 THEN pc' = "returned" /\ UNCHANGED <<gen, eventVars, streak>>
       ELSE /\ pc' = "spawn" /\ gen' = gen + 1 /\ Emit("Starting", gen + 1) /\ streak' = streak + 1
    /\ UNCHANGED <<reason, used, resets, missed, connLost, cur, procs, stop, reloadCh, serving, callVars, done>>

\* newLiveInstance kills and reaps what it spawned before it reports the failure
SpawnFails ==
    /\ pc = "spawn" /\ reason' \in {"crash", "incompatible"} /\ pc' = "policy" /\ Emit("Crashed", gen)
    /\ UNCHANGED <<used, resets, missed, connLost, streak, gen, cur, procs, stop, reloadCh, serving, callVars, done>>

SpawnReady ==
    /\ pc = "spawn" /\ procs' = procs \cup {gen} /\ cur' = gen /\ Emit("Ready", gen)
    /\ missed' = 0 /\ connLost' = 0 /\ pc' = "loop"
    /\ UNCHANGED <<reason, used, resets, streak, gen, stop, reloadCh, serving, callVars, done>>

\* the heartbeat loop returns
EndInstance(why) ==
    /\ pc' = "teardown" /\ reason' = why
    /\ UNCHANGED <<used, resets, missed, connLost, streak, gen, cur, procs, stop, reloadCh, serving, callVars, done, eventVars>>

LoopUnstoppable ==
    /\ pc = "loop"
    /\ \/ connLost = 1 /\ EndInstance("crash")
       \/ /\ connLost = 0 /\ pc' = "recv"
          /\ UNCHANGED <<loopVars, gen, cur, procs, stop, reloadCh, serving, callVars, done, eventVars>>

Loop ==
    /\ pc = "loop"
    /\ \/ stop = 1 /\ EndInstance("stop")
       \/ stop = 0 /\ connLost = 1 /\ EndInstance("crash")
       \/ /\ stop = 0 /\ connLost = 0 /\ pc' = "recv"
          /\ UNCHANGED <<loopVars, gen, cur, procs, stop, reloadCh, serving, callVars, done, eventVars>>

\* the control connection is lost
RecvFails == pc = "recv" /\ EndInstance("crash")

\* nothing arrived for HeartbeatInterval
RecvTimesOut ==
    /\ pc = "recv" /\ missed' = missed + 1
    /\ IF missed + 1 >= Missed
       THEN pc' = "teardown" /\ reason' = "crash" /\ Emit("Unhealthy", cur)
       ELSE pc' = "loop" /\ UNCHANGED <<reason, eventVars>>
    /\ UNCHANGED <<used, resets, connLost, streak, gen, cur, procs, stop, reloadCh, serving, callVars, done>>

\* a message that is not a heartbeat is ignored
RecvOther ==
    /\ pc = "recv" /\ pc' = "loop"
    /\ UNCHANGED <<loopVars, gen, cur, procs, stop, reloadCh, serving, callVars, done, eventVars>>

\* a heartbeat, with no request pending: acknowledge and classify
Classified ==
    \/ pc' = "loop" /\ missed' = 0 /\ UNCHANGED <<reason, eventVars>>
    \/ pc' = "teardown" /\ missed' = 0 /\ reason' = "crash" /\ Emit("Unhealthy", cur)

RecvBeat ==
    /\ pc = "recv" /\ reloadCh = NoCaller /\ Classified
    /\ UNCHANGED <<used, resets, connLost, streak, gen, cur, procs, stop, reloadCh, serving, callVars, done>>

\* the request's context is already done: decline it and acknowledge the beat
DeclineReload ==
    /\ pc = "recv" /\ reloadCh # NoCaller /\ ctx[reloadCh] = 1
    /\ done' = [done EXCEPT ![reloadCh] = "error"] /\ reloadCh' = NoCaller /\ Classified
    /\ UNCHANGED <<used, resets, connLost, streak, gen, cur, procs, stop, serving, callVars>>

BeginReload ==
    /\ pc = "recv" /\ reloadCh # NoCaller /\ ctx[reloadCh] = 0
    /\ serving' = reloadCh /\ reloadCh' = NoCaller /\ gen' = gen + 1 /\ pc' = "reload"
    /\ UNCHANGED <<loopVars, cur, procs, stop, callVars, done, eventVars>>

ReloadSpawns ==
    /\ pc = "reload" /\ procs' = procs \cup {gen} /\ pc' = "successor"
    /\ UNCHANGED <<loopVars, gen, cur, stop, reloadCh, serving, callVars, done, eventVars>>

\* the successor is routing and the predecessor reaped; the caller may still get the
\* predecessor's teardown fault
ReloadCommits ==
    /\ pc = "successor" /\ procs' = procs \ {cur} /\ cur' = gen /\ Emit("Ready", gen)
    /\ missed' = 0 /\ connLost' = 0 /\ pc' = "loop" /\ serving' = NoCaller
    /\ \E result \in {"ok", "error"} : done' = [done EXCEPT ![serving] = result]
    /\ UNCHANGED <<reason, used, resets, streak, gen, stop, reloadCh, callVars>>

ReloadForgetsSuccessor ==
    /\ pc \in {"reload", "successor"} /\ serving' = NoCaller
    /\ done' = [done EXCEPT ![serving] = "error"] /\ Classified
    /\ UNCHANGED <<used, resets, connLost, streak, gen, cur, procs, stop, reloadCh, callVars>>

\* rolled back: a context error counts the beat as an ordinary one, any other resets health
ReloadRollsBack ==
    /\ pc \in {"reload", "successor"} /\ procs' = procs \ {gen} /\ serving' = NoCaller
    /\ done' = [done EXCEPT ![serving] = "error"] /\ Classified
    /\ UNCHANGED <<used, resets, connLost, streak, gen, cur, stop, reloadCh, callVars>>

\* ErrReloadCrashEquivalent
ReloadGivesUp ==
    /\ pc \in {"reload", "successor"} /\ procs' = procs \ {gen} /\ serving' = NoCaller
    /\ done' = [done EXCEPT ![serving] = "error"] /\ pc' = "teardown" /\ reason' = "crash"
    /\ UNCHANGED <<used, resets, missed, connLost, streak, gen, cur, stop, reloadCh, callVars, eventVars>>

\* Teardown.Run always reaps
Teardown ==
    /\ pc = "teardown" /\ procs' = procs \ {cur} /\ pc' = (IF reason = "stop" THEN "returned" ELSE "crashed")
    /\ UNCHANGED <<loopVars, gen, cur, stop, reloadCh, serving, callVars, done, eventVars>>

CrashedByCounter ==
    /\ pc = "crashed" /\ Emit("Crashed", gen) /\ pc' = "policy"
    /\ UNCHANGED <<reason, used, resets, streak, missed, connLost, gen, cur, procs, stop, reloadCh, serving, callVars, done>>

\* effectiveRestartsUsed: an instance that outlived the reset window restores the budget
Crashed ==
    /\ pc = "crashed" /\ Emit("Crashed", cur) /\ pc' = "policy"
    /\ \/ UNCHANGED <<used, resets, streak>>
       \/ resets < Resets /\ resets' = resets + 1 /\ used' = 0 /\ streak' = 0
    /\ UNCHANGED <<reason, missed, connLost, gen, cur, procs, stop, reloadCh, serving, callVars, done>>

Exhausted == used >= Max

Policy ==
    /\ pc = "policy"
    /\ IF stop = 1 THEN pc' = "returned" /\ UNCHANGED <<used, eventVars>>
       ELSE IF reason = "incompatible" \/ Exhausted
       THEN pc' = "gaveup" /\ Emit("GaveUp", egen) /\ UNCHANGED used
       ELSE pc' = "sleep" /\ Emit("Restarting", egen) /\ used' = used + 1
    /\ UNCHANGED <<reason, resets, missed, connLost, streak, gen, cur, procs, stop, reloadCh, serving, callVars, done>>

GiveUp ==
    /\ pc = "gaveup" /\ pc' = "returned"
    /\ UNCHANGED <<loopVars, gen, cur, procs, stop, reloadCh, serving, callVars, done, eventVars>>

\* the backoff delay, cut short by Stop
Sleep ==
    /\ pc = "sleep" /\ (pc' = "top" \/ (stop = 1 /\ pc' = "returned"))
    /\ UNCHANGED <<loopVars, gen, cur, procs, stop, reloadCh, serving, callVars, done, eventVars>>

Heard == RecvFails \/ RecvTimesOut \/ RecvBeat \/ DeclineReload \/ BeginReload

Run ==
    \/ Top \/ SpawnFails \/ SpawnReady \/ Loop \/ Heard \/ RecvOther \/ ReloadSpawns \/ ReloadCommits \/ ReloadRollsBack \/ ReloadGivesUp
    \/ Teardown \/ Crashed \/ Policy \/ GiveUp \/ Sleep

-----------------------------------------------------------------------------
(* The other goroutines.                                                   *)

Stop ==
    /\ stop = 0 /\ stop' = 1
    /\ UNCHANGED <<pc, loopVars, gen, cur, procs, reloadCh, serving, callVars, done, eventVars>>

\* the routing layer escalates a data-plane fault of the instance it routes to
NotifyConnLost ==
    /\ pc \in {"loop", "recv", "reload", "successor"} /\ connLost = 0 /\ connLost' = 1
    /\ UNCHANGED <<pc, reason, used, resets, missed, streak, gen, cur, procs, stop, reloadCh, serving, callVars, done, eventVars>>

\* Reload: offer the request
Offer(c) ==
    /\ \/ caller[c] = "idle" /\ caller' = [caller EXCEPT ![c] = "offer"] /\ UNCHANGED reloadCh
       \/ /\ caller[c] = "offer" /\ reloadCh = NoCaller
          /\ reloadCh' = c /\ caller' = [caller EXCEPT ![c] = "await"]
       \/ caller[c] = "offer" /\ pc = "returned" /\ caller' = [caller EXCEPT ![c] = "unavailable"] /\ UNCHANGED reloadCh
       \/ caller[c] = "offer" /\ ctx[c] = 1 /\ caller' = [caller EXCEPT ![c] = "error"] /\ UNCHANGED reloadCh
    /\ UNCHANGED <<pc, loopVars, gen, cur, procs, stop, serving, ctx, done, eventVars>>

\* Reload: the outcome, or a supervisor that has returned
Await(c) ==
    /\ caller[c] = "await"
    /\ \/ done[c] # "none" /\ caller' = [caller EXCEPT ![c] = done[c]]
       \/ pc = "returned" /\ caller' = [caller EXCEPT ![c] = "unavailable"]
    /\ UNCHANGED <<pc, loopVars, gen, cur, procs, stop, reloadCh, serving, ctx, done, eventVars>>

Cancel(c) ==
    /\ ctx[c] = 0 /\ ctx' = [ctx EXCEPT ![c] = 1]
    /\ UNCHANGED <<pc, loopVars, gen, cur, procs, stop, reloadCh, serving, caller, done, eventVars>>

Next == Run \/ Stop \/ NotifyConnLost \/ \E c \in Callers : Offer(c) \/ Await(c) \/ Cancel(c)

Spec == Init /\ [][Next]_vars

\* Run keeps running (its receives are bounded by HeartbeatInterval) and so do Reload's callers;
\* a plugin does not send messages other than heartbeats for ever
FairSpec ==
    /\ Spec /\ WF_vars(Run) /\ SF_vars(Heard)
    /\ \A c \in Callers : WF_vars(Await(c)) /\ WF_vars(caller[c] = "offer" /\ Offer(c))

-----------------------------------------------------------------------------
(* Properties.                                                             *)

\* Every variable stays in its range; the generation routed to never overtakes the counter.
TypeOK ==
    /\ pc \in {"top", "spawn", "loop", "recv", "reload", "successor", "teardown", "crashed", "policy", "gaveup", "sleep",
               "returned"}
    /\ reason \in {"none", "stop", "crash", "incompatible"} /\ used \in 0 .. Max /\ resets \in 0 .. Resets
    /\ gen \in Nat /\ cur \in 0 .. gen /\ egen \in 0 .. gen /\ missed \in 0 .. Missed /\ {connLost, stop} \subseteq {0, 1}
    /\ procs \subseteq 1 .. gen /\ {reloadCh, serving} \subseteq Callers \cup {NoCaller} /\ streak \in Nat
    /\ caller \in [Callers -> {"idle", "offer", "await", "ok", "error", "unavailable"}]
    /\ done \in [Callers -> {"none", "ok", "error"}] /\ ctx \in [Callers -> {0, 1}] /\ kind \in Kinds \cup {"none"}

\* No instance is started while an earlier one is unreaped, and Run returns with none left:
\* only a reload ever has two processes, the routed one and its successor.
NeverTwoInstances ==
    procs = CASE pc \in {"loop", "recv", "reload", "teardown"} -> {cur}
              [] pc = "successor" -> {cur, gen}
              [] OTHER -> {}

\* However restarts, reloads and reset windows interleave, at most Max restarts follow one
\* another without an instance that outlived the reset window.
RestartBudget == streak <= Max + 1

\* Each request is held by one goroutine at a time and answered at most once: a caller waits
\* exactly while its request is queued, being run, or answered.
RequestAccounted ==
    \A c \in Callers :
        /\ caller[c] = "await" => (reloadCh = c) \/ (serving = c) \/ done[c] # "none"
        /\ serving = c \/ reloadCh = c => done[c] = "none"

Events == INSTANCE EventStream WITH gen <- egen, ended <- IF pc = "returned" THEN 1 ELSE 0

\* The supervisor publishes the event stream it promises (EventStream).
PublishesTheStream == Events!Spec

\* Stop always gets its join: Run returns.
StopJoins == stop = 1 ~> pc = "returned"

\* the callers inside Reload; none calls it twice
InReload == {c \in Callers : caller[c] \in {"offer", "await"}}

\* Every Reload returns, whether its request is run, declined, carried over a restart or left
\* behind by Run.
ReloadAnswered == InReload # {} ~> InReload = {}

\* One process serves and is accounted for: never two unreaped outside a reload, never more
\* restarts than the budget, and no reload request lost (runOneInstance, policy, serviceReload).
OneInstance == TypeOK /\ NeverTwoInstances /\ RestartBudget /\ RequestAccounted

\* Everyone who waits is answered: Stop ends Run, and every reload caller returns.
RunAnswers == StopJoins /\ ReloadAnswered
=============================================================================
