--------------------------- MODULE ReloadProtocol ---------------------------
(***************************************************************************)
(* Hot reload: the supervisor's heartbeat loop running lifecycle's         *)
(* Transaction (cutoff, drain, snapshot, restore, promote, or rollback)    *)
(* against the plugin's control loop (ServeReloadAfterDrain) and its       *)
(* ticker-driven heartbeat sender, over each instance's FIFO control       *)
(* socket, with callers crossing the admission gate and the instance's     *)
(* state growing by one at every call served and every mutator step.       *)
(***************************************************************************)
EXTENDS Naturals, Sequences, FiniteSetsExt

CONSTANT
    Plans       \* what may happen in one behaviour

ASSUME ReloadAssumption ==
    Plans \subseteq [reloads : Nat \ {0}, ticks : Nat, work : Nat,
                    faults : SUBSET {"cancel", "timeout", "missDrain", "crash", "refuse"}]

VARIABLES
    plan,               \* the plan at hand
    hpc, cause,         \* where the heartbeat loop is in the transaction; why it rolls back
    req, cancelled,     \* reload requests made so far; the pending one; its context
    cur, succ, next,    \* supervised instance, unpromoted successor, last generation used
    route, open,        \* routing target; the admission gate
    span, queued,       \* per instance: callers inside the gate, requests unanswered
    pc, frozen, ticking, ticks, \* per instance: control loop, mutators, heartbeat sender
    state, saved, snap, applied, \* per instance state, sealed memfd; the host's copy; all updates
    toP, toH,           \* control sockets
    dl                  \* "live"; "plugin": Drain's deadline passed; "host": also the host's

Reloads == plan.reloads     \* reload requests
Ticks == plan.ticks         \* heartbeats each instance sends
Work == plan.work           \* calls and mutator steps
Faults == plan.faults       \* the faults that may happen
Gens == 1 .. Reloads + 1    \* instance generations: the first and one per reload

gateVars == <<route, open, span>>
reqVars == <<req, cancelled>>
genVars == <<cur, succ, next>>
procVars == <<pc, frozen, ticking>>
dataVars == <<state, applied>>
snapVars == <<saved, snap>>
sockVars == <<toP, toH>>
vars == <<plan, hpc, cause, reqVars, genVars, gateVars, queued, procVars, ticks, dataVars, snapVars, sockVars, dl>>

HostPC == {"loop", "cutoff", "drain", "awaitDrainAck", "awaitSaveState", "spawn", "restore",
           "awaitRestoreAck", "retire", "reap", "rollback", "resume", "awaitResumeAck", "crashEquivalent",
           "crashed"}
PluginPC == {"none", "restoring", "serving", "draining", "acking", "saving", "awaitSaveOutcome",
             "awaitResume", "dead"}
Messages == {"Heartbeat", "HeartbeatAck", "Drain", "DrainAck", "SaveState", "SaveStateAck", "Resume",
             "ResumeAck", "Restore", "RestoreReady", "RestoreRefused", "Shutdown", "ShutdownAck"}

Alive(g) == pc[g] \notin {"none", "dead"}

Init ==
    /\ plan \in Plans
    /\ hpc = "loop" /\ cause = "none" /\ req = [made |-> 0, pending |-> FALSE] /\ cancelled = FALSE
    /\ cur = 1 /\ succ = 0 /\ next = 1 /\ route = 1 /\ open = TRUE
    /\ span = [g \in Gens |-> 0] /\ queued = [g \in Gens |-> 0]
    /\ pc = [g \in Gens |-> IF g = 1 THEN "serving" ELSE "none"]
    /\ frozen = [g \in Gens |-> 0] /\ ticking = [g \in Gens |-> g = 1] /\ ticks = [g \in Gens |-> 0]
    /\ state = [g \in Gens |-> 0] /\ saved = [g \in Gens |-> 0] /\ snap = 0 /\ applied = 0
    /\ toP = [g \in Gens |-> <<>>] /\ toH = [g \in Gens |-> <<>>] /\ dl = "live"

-----------------------------------------------------------------------------
(* Callers and the instance's data plane.                                  *)

\* what has been or will be applied, kept within Work
Load == applied + MapThenSumSet(LAMBDA g : span[g] + queued[g], Gens)

\* AdmissionGate.Enter, then the load of the routing target
Enter ==
    /\ open /\ Load < Work
    /\ span' = [span EXCEPT ![route] = @ + 1]
    /\ UNCHANGED <<hpc, cause, reqVars, genVars, route, open, queued, procVars, ticks, dataVars, snapVars, sockVars, dl>>

\* the request is handed to the transport (it fails on a dead peer), then Leave
Publish(g) ==
    /\ span[g] > 0
    /\ span' = [span EXCEPT ![g] = @ - 1]
    /\ queued' = [queued EXCEPT ![g] = IF Alive(g) THEN @ + 1 ELSE @]
    /\ UNCHANGED <<hpc, cause, reqVars, genVars, route, open, procVars, ticks, dataVars, snapVars, sockVars, dl>>

\* the serve loop reads, dispatches and answers throughout a drain
Serve(g) ==
    /\ Alive(g) /\ pc[g] # "restoring" /\ queued[g] > 0
    /\ queued' = [queued EXCEPT ![g] = @ - 1]
    /\ state' = [state EXCEPT ![g] = @ + 1] /\ applied' = applied + 1
    /\ UNCHANGED <<hpc, cause, reqVars, genVars, gateVars, procVars, ticks, snapVars, sockVars, dl>>

\* a registered Mutator of the routed instance changes state on its own schedule
Mutate ==
    /\ Alive(route) /\ frozen[route] = 0 /\ Load < Work
    /\ state' = [state EXCEPT ![route] = @ + 1] /\ applied' = applied + 1
    /\ UNCHANGED <<hpc, cause, reqVars, genVars, gateVars, queued, procVars, ticks, snapVars, sockVars, dl>>

-----------------------------------------------------------------------------
(* The plugin: control loop and heartbeat sender of instance g.            *)

ToHost(g, m) == toH' = [toH EXCEPT ![g] = Append(@, m)]

\* the process exits: its calls fail, its inbound socket is gone, what it sent stays readable
Exits(g) ==
    /\ pc' = [pc EXCEPT ![g] = "dead"] /\ frozen' = [frozen EXCEPT ![g] = 0]
    /\ ticking' = [ticking EXCEPT ![g] = FALSE] /\ queued' = [queued EXCEPT ![g] = 0]

\* dispatchControl leaves by Shutdown or by a retired reload: the sender stops, ShutdownAck goes out
Retires(g) ==
    /\ Exits(g) /\ ToHost(g, "ShutdownAck") /\ toP' = [toP EXCEPT ![g] = <<>>]

\* heartbeatSender.run: every tick sends, acked or not, until pause
Tick(g) ==
    /\ ticking[g] /\ ticks[g] < Ticks
    /\ ticks' = [ticks EXCEPT ![g] = @ + 1] /\ ToHost(g, "Heartbeat")
    /\ UNCHANGED <<hpc, cause, reqVars, genVars, gateVars, queued, procVars, dataVars, snapVars, toP, dl>>

\* dispatchControl: acks are ignored; Drain pauses the sender and freezes the mutators
DispatchControl(g) ==
    /\ pc[g] = "serving" /\ toP[g] # <<>>
    /\ \/ /\ Head(toP[g]) = "Shutdown" /\ Retires(g)
       \/ /\ Head(toP[g]) = "Drain"
          /\ ticking' = [ticking EXCEPT ![g] = FALSE] /\ frozen' = [frozen EXCEPT ![g] = 1]
          /\ pc' = [pc EXCEPT ![g] = "draining"] /\ toP' = [toP EXCEPT ![g] = Tail(@)]
          /\ UNCHANGED <<queued, toH>>
       \/ /\ Head(toP[g]) \notin {"Shutdown", "Drain"}
          /\ toP' = [toP EXCEPT ![g] = Tail(@)] /\ UNCHANGED <<queued, procVars, toH>>
    /\ UNCHANGED <<hpc, cause, reqVars, genVars, gateVars, ticks, dataVars, snapVars, dl>>

\* mutant: DrainAck certifies the freeze only
WaitDrainedSkipped(g) ==
    /\ pc[g] = "draining" /\ pc' = [pc EXCEPT ![g] = "acking"]
    /\ UNCHANGED <<hpc, cause, reqVars, genVars, gateVars, queued, frozen, ticking, ticks, dataVars, snapVars, sockVars, dl>>

\* waitDrained: nothing accepted is unanswered, or Drain's deadline passed and no ack will be sent
WaitDrained(g) ==
    /\ pc[g] = "draining"
    /\ \/ queued[g] = 0 /\ pc' = [pc EXCEPT ![g] = "acking"]
       \/ dl # "live" /\ pc' = [pc EXCEPT ![g] = "awaitResume"]
    /\ UNCHANGED <<hpc, cause, reqVars, genVars, gateVars, queued, frozen, ticking, ticks, dataVars, snapVars, sockVars, dl>>

\* conn.Send(dctx, DrainAck) fails once the deadline has passed, and the instance exits
SendDrainAck(g) ==
    /\ pc[g] = "acking"
    /\ \/ /\ dl = "live" /\ ToHost(g, "DrainAck") /\ pc' = [pc EXCEPT ![g] = "saving"]
          /\ UNCHANGED <<queued, frozen, ticking, toP>>
       \/ dl # "live" /\ Exits(g) /\ toP' = [toP EXCEPT ![g] = <<>>] /\ UNCHANGED toH
    /\ UNCHANGED <<hpc, cause, reqVars, genVars, gateVars, ticks, dataVars, snapVars, dl>>

\* runSnapshotPhase: the saver's payload in a sealed memfd, or a failure nobody is told of
RunSnapshotPhase(g) ==
    /\ pc[g] = "saving"
    /\ \/ /\ saved' = [saved EXCEPT ![g] = state[g]] /\ ToHost(g, "SaveState")
          /\ pc' = [pc EXCEPT ![g] = "awaitSaveOutcome"]
       \/ /\ "timeout" \in Faults /\ pc' = [pc EXCEPT ![g] = "awaitResume"] /\ UNCHANGED <<saved, toH>>
    /\ UNCHANGED <<hpc, cause, reqVars, genVars, gateVars, queued, frozen, ticking, ticks, dataVars, snap, toP, dl>>

\* handleResume: mutators restart, ResumeAck goes out, then the heartbeat sender resumes
HandleResume(g) ==
    /\ frozen' = [frozen EXCEPT ![g] = 0] /\ ToHost(g, "ResumeAck")
    /\ ticking' = [ticking EXCEPT ![g] = TRUE] /\ pc' = [pc EXCEPT ![g] = "serving"]
    /\ toP' = [toP EXCEPT ![g] = Tail(@)] /\ UNCHANGED queued

\* awaitSaveStateOutcome and awaitResumeOrExit; anything unexpected ends the instance
AwaitOutcome(g) ==
    /\ pc[g] \in {"awaitSaveOutcome", "awaitResume"} /\ toP[g] # <<>>
    /\ LET kind == Head(toP[g])
           acked == pc[g] = "awaitSaveOutcome" /\ kind = "SaveStateAck"
           retired == pc[g] = "awaitResume" /\ kind = "Shutdown"
       IN  \/ /\ acked /\ pc' = [pc EXCEPT ![g] = "awaitResume"]
              /\ toP' = [toP EXCEPT ![g] = Tail(@)] /\ UNCHANGED <<queued, frozen, ticking, toH>>
           \/ kind = "Resume" /\ HandleResume(g)
           \/ retired /\ Retires(g)
           \/ /\ ~acked /\ ~retired /\ kind # "Resume"
              /\ Exits(g) /\ toP' = [toP EXCEPT ![g] = <<>>] /\ UNCHANGED toH
    /\ UNCHANGED <<hpc, cause, reqVars, genVars, gateVars, ticks, dataVars, snapVars, dl>>

\* ServeRestore at a successor; it serves (and heartbeats) whether or not the restore succeeded
ServeRestore(g) ==
    /\ pc[g] = "restoring" /\ toP[g] # <<>> /\ Head(toP[g]) = "Restore"
    /\ \/ state' = [state EXCEPT ![g] = snap] /\ ToHost(g, "RestoreReady")
       \/ "refuse" \in Faults /\ ToHost(g, "RestoreRefused") /\ UNCHANGED state
    /\ toP' = [toP EXCEPT ![g] = Tail(@)]
    /\ pc' = [pc EXCEPT ![g] = "serving"] /\ ticking' = [ticking EXCEPT ![g] = TRUE]
    /\ UNCHANGED <<hpc, cause, reqVars, genVars, gateVars, queued, frozen, ticks, applied, snapVars, dl>>

\* the process dies
Crash(g) ==
    /\ "crash" \in Faults /\ Alive(g) /\ Exits(g) /\ toP' = [toP EXCEPT ![g] = <<>>]
    /\ UNCHANGED <<hpc, cause, reqVars, genVars, gateVars, ticks, dataVars, snapVars, toH, dl>>

-----------------------------------------------------------------------------
(* The host: heartbeat loop and transaction.                               *)

Gone(g) == ~Alive(g) /\ toH[g] = <<>>               \* Recv finds the end of the connection
Sent(g, m) == toP' = [toP EXCEPT ![g] = IF Alive(g) THEN Append(@, m) ELSE @]
Received(g) == toH[g] # <<>> /\ toH' = [toH EXCEPT ![g] = Tail(@)]
hostRest == <<queued, procVars, ticks, dataVars>>

\* Supervisor.Reload hands the loop a request; its caller may cancel it
RequestReload ==
    /\ ~req.pending /\ req.made < Reloads /\ hpc = "loop"
    /\ req' = [made |-> req.made + 1, pending |-> TRUE] /\ cancelled' = FALSE
    /\ UNCHANGED <<hpc, cause, genVars, gateVars, hostRest, snapVars, sockVars, dl>>

CancelReload ==
    /\ "cancel" \in Faults /\ req.pending /\ ~cancelled /\ cancelled' = TRUE
    /\ UNCHANGED <<hpc, cause, req, genVars, gateVars, hostRest, snapVars, sockVars, dl>>

\* the loop's receive: a heartbeat is acked, or starts a pending reload unacked
ReceiveHeartbeat ==
    /\ hpc = "loop" /\ Received(cur)
    /\ \/ /\ Head(toH[cur]) = "Heartbeat" /\ req.pending /\ ~cancelled
          /\ hpc' = "cutoff" /\ open' = FALSE /\ next' = next + 1
          /\ UNCHANGED <<req, toP>>
       \/ /\ Head(toH[cur]) = "Heartbeat" /\ (~req.pending \/ cancelled)
          /\ req' = [req EXCEPT !.pending = FALSE] /\ Sent(cur, "HeartbeatAck")
          /\ UNCHANGED <<hpc, open, next>>
       \/ /\ Head(toH[cur]) # "Heartbeat" /\ UNCHANGED <<hpc, open, next, req, toP>>
    /\ UNCHANGED <<cause, cancelled, cur, succ, route, span, hostRest, snapVars, dl>>

\* a receive error or the end of the connection ends the loop; Run's restart is not modelled here
LoopLosesInstance ==
    /\ hpc = "loop" /\ Gone(cur) /\ hpc' = "crashed" /\ req' = [req EXCEPT !.pending = FALSE]
    /\ UNCHANGED <<cause, cancelled, genVars, gateVars, hostRest, snapVars, sockVars, dl>>

\* serviceReload returns to the loop; an aborted request's heartbeat is acked after all
Finish(ctxErr) ==
    /\ hpc' = "loop" /\ req' = [req EXCEPT !.pending = FALSE] /\ cause' = "none"
    /\ IF ctxErr THEN Sent(cur, "HeartbeatAck") ELSE UNCHANGED toP

\* phase 1: AdmissionGate.Close joined every caller inside its span
CutoffJoined ==
    /\ hpc = "cutoff" /\ span[cur] = 0 /\ hpc' = "drain"
    /\ UNCHANGED <<cause, reqVars, genVars, gateVars, hostRest, snapVars, sockVars, dl>>

\* its bound passed first: rollback from PhaseCutoff only reopens the gate
CutoffExpires ==
    /\ hpc = "cutoff" /\ span[cur] > 0 /\ (cancelled \/ "timeout" \in Faults)
    /\ open' = TRUE /\ Finish(TRUE)
    /\ UNCHANGED <<cancelled, genVars, route, span, hostRest, snapVars, toH, dl>>

\* phase 2: the send of Drain is the commitment point; before it, a cutoff abort
SendDrain ==
    /\ hpc = "drain"
    /\ \/ /\ (cancelled \/ ~Alive(cur)) /\ open' = TRUE /\ Finish(cancelled) /\ UNCHANGED dl
       \/ /\ ~cancelled /\ Alive(cur) /\ Sent(cur, "Drain") /\ dl' = "live"
          /\ hpc' = "awaitDrainAck" /\ UNCHANGED <<open, req, cause>>
    /\ UNCHANGED <<cancelled, genVars, route, span, hostRest, snapVars, toH>>

\* Drain's deadline passes; a margin later, with anything sent before it delivered, the host's wait
DrainDeadline ==
    /\ "missDrain" \in Faults /\ hpc = "awaitDrainAck"
    /\ \/ dl = "live" /\ dl' = "plugin"
       \/ dl = "plugin" /\ toH[cur] = <<>> /\ dl' = "host"
    /\ UNCHANGED <<hpc, cause, reqVars, genVars, gateVars, hostRest, snapVars, sockVars>>

Abort(why) == hpc' = "rollback" /\ cause' = why

\* recvExpected(StateDraining, DrainAck), on a wait detached from the caller's cancellation
AwaitDrainAck ==
    /\ hpc = "awaitDrainAck"
    /\ \/ /\ Received(cur)
          /\ \/ Head(toH[cur]) = "DrainAck" /\ hpc' = "awaitSaveState" /\ UNCHANGED cause
             \/ Head(toH[cur]) # "DrainAck" /\ Abort("violation")
       \/ Gone(cur) /\ Abort("violation") /\ UNCHANGED toH
       \/ dl = "host" /\ toH[cur] = <<>> /\ Abort("ctx") /\ UNCHANGED toH
    /\ UNCHANGED <<reqVars, genVars, gateVars, hostRest, snapVars, toP, dl>>

CtxDone == cancelled \/ "timeout" \in Faults

\* phase 3: SaveState and its memfd, verified and acked, or the phase's context is done first
AwaitSaveState ==
    /\ hpc = "awaitSaveState"
    /\ \/ /\ Received(cur) /\ Head(toH[cur]) = "SaveState"
          /\ \/ /\ Alive(cur) /\ ~cancelled /\ snap' = saved[cur] /\ Sent(cur, "SaveStateAck")
                /\ hpc' = "spawn" /\ UNCHANGED cause
             \/ /\ "refuse" \in Faults \/ ~Alive(cur) \/ cancelled
                /\ Abort(IF cancelled THEN "ctx" ELSE "violation") /\ UNCHANGED <<snap, toP>>
       \/ Received(cur) /\ Head(toH[cur]) # "SaveState" /\ Abort("violation") /\ UNCHANGED <<snap, toP>>
       \/ Gone(cur) /\ Abort("violation") /\ UNCHANGED <<snap, sockVars>>
       \/ CtxDone /\ Abort("ctx") /\ UNCHANGED <<snap, sockVars>>
    /\ UNCHANGED <<reqVars, genVars, gateVars, hostRest, saved, dl>>

\* phase 4: spawn the successor, which may fail, and send it Restore with the snapshot
SpawnSuccessor ==
    /\ hpc = "spawn"
    /\ \/ /\ ~cancelled /\ succ' = next /\ hpc' = "restore" /\ pc' = [pc EXCEPT ![next] = "restoring"]
          /\ UNCHANGED cause
       \/ /\ CtxDone \/ "refuse" \in Faults
          /\ \E why \in {"ctx", "violation"} : Abort(why)
          /\ UNCHANGED <<succ, pc>>
    /\ UNCHANGED <<reqVars, cur, next, gateVars, queued, frozen, ticking, ticks, dataVars, snapVars, sockVars, dl>>

SendRestore ==
    /\ hpc = "restore"
    /\ \/ ~cancelled /\ Alive(succ) /\ Sent(succ, "Restore") /\ hpc' = "awaitRestoreAck" /\ UNCHANGED cause
       \/ (cancelled \/ ~Alive(succ)) /\ Abort(IF cancelled THEN "ctx" ELSE "violation") /\ UNCHANGED toP
    /\ UNCHANGED <<reqVars, genVars, gateVars, hostRest, snapVars, toH, dl>>

\* RestoreAck(Ready): phase 5, promote swaps the routing and only then the gate reopens
AwaitRestoreAck ==
    /\ hpc = "awaitRestoreAck"
    /\ \/ /\ Received(succ)
          /\ \/ Head(toH[succ]) = "RestoreReady" /\ hpc' = "retire" /\ route' = succ /\ open' = TRUE /\ UNCHANGED cause
             \/ Head(toH[succ]) # "RestoreReady" /\ Abort("violation") /\ UNCHANGED <<route, open>>
       \/ Gone(succ) /\ Abort("violation") /\ UNCHANGED <<route, open, toH>>
       \/ CtxDone /\ Abort("ctx") /\ UNCHANGED <<route, open, toH>>
    /\ UNCHANGED <<reqVars, genVars, span, hostRest, snapVars, toP, dl>>

\* the retired instance is sent Shutdown and reaped, killed if it does not exit
RetireOld ==
    /\ hpc = "retire" /\ Sent(cur, "Shutdown") /\ hpc' = "reap"
    /\ UNCHANGED <<cause, reqVars, genVars, gateVars, hostRest, snapVars, toH, dl>>

ReapOld ==
    /\ hpc = "reap" /\ Exits(cur) /\ (Alive(cur) => "timeout" \in Faults)
    /\ hpc' = "loop" /\ cur' = succ /\ succ' = 0 /\ req' = [req EXCEPT !.pending = FALSE]
    /\ toP' = [toP EXCEPT ![cur] = <<>>] /\ toH' = [toH EXCEPT ![cur] = <<>>]
    /\ saved' = [saved EXCEPT ![cur] = 0]
    /\ UNCHANGED <<cause, cancelled, next, gateVars, ticks, dataVars, snap, dl>>

\* mutant: every rollback is taken for one from PhaseCutoff
RollbackReopens ==
    /\ hpc = "rollback" /\ open' = TRUE /\ Finish(FALSE)
    /\ UNCHANGED <<cancelled, genVars, route, span, hostRest, snapVars, toH, dl>>

\* rollback: an unpromoted successor is torn down before the old instance is resumed
RollbackSuccessor ==
    /\ hpc = "rollback" /\ hpc' = "resume"
    /\ IF succ = 0 THEN UNCHANGED <<queued, procVars, succ, sockVars>>
       ELSE /\ Exits(succ) /\ succ' = 0
            /\ toP' = [toP EXCEPT ![succ] = <<>>] /\ toH' = [toH EXCEPT ![succ] = <<>>]
    /\ UNCHANGED <<cause, reqVars, cur, next, gateVars, ticks, dataVars, snapVars, dl>>

\* resumeOld: Resume, on a context detached from the caller's
SendResume ==
    /\ hpc = "resume" /\ Sent(cur, "Resume")
    /\ hpc' = IF Alive(cur) THEN "awaitResumeAck" ELSE "crashEquivalent"
    /\ UNCHANGED <<cause, reqVars, genVars, gateVars, hostRest, snapVars, toH, dl>>

\* recvExpected(StateDraining, ResumeAck): then the gate reopens; otherwise it stays closed
AwaitResumeAck ==
    /\ hpc = "awaitResumeAck"
    /\ \/ /\ Received(cur)
          /\ \/ Head(toH[cur]) = "ResumeAck" /\ open' = TRUE /\ Finish(cause = "ctx")
             \/ Head(toH[cur]) # "ResumeAck" /\ hpc' = "crashEquivalent" /\ UNCHANGED <<open, req, cause, toP>>
       \/ /\ Gone(cur) \/ "timeout" \in Faults
          /\ hpc' = "crashEquivalent" /\ UNCHANGED <<open, req, cause, sockVars>>
    /\ UNCHANGED <<cancelled, genVars, route, span, hostRest, snapVars, dl>>

\* reloadCrashEquivalent ends the loop and runOneInstance tears the instance down
TearDownFrozen ==
    /\ hpc = "crashEquivalent" /\ hpc' = "crashed" /\ Exits(cur) /\ req' = [req EXCEPT !.pending = FALSE]
    /\ toP' = [toP EXCEPT ![cur] = <<>>]
    /\ UNCHANGED <<cause, cancelled, genVars, gateVars, ticks, dataVars, snapVars, toH, dl>>

PluginStep(g) ==
    \/ DispatchControl(g) \/ WaitDrained(g) \/ SendDrainAck(g) \/ RunSnapshotPhase(g)
    \/ AwaitOutcome(g) \/ ServeRestore(g)
HostStep ==
    \/ ReceiveHeartbeat \/ LoopLosesInstance \/ CutoffJoined \/ CutoffExpires \/ SendDrain
    \/ AwaitDrainAck \/ AwaitSaveState \/ SpawnSuccessor \/ SendRestore \/ AwaitRestoreAck
    \/ RetireOld \/ ReapOld \/ RollbackSuccessor \/ SendResume \/ AwaitResumeAck \/ TearDownFrozen
Next ==
    /\ \/ Enter \/ Mutate \/ RequestReload \/ CancelReload \/ DrainDeadline \/ HostStep
       \/ \E g \in Gens : Publish(g) \/ Serve(g) \/ Tick(g) \/ PluginStep(g) \/ Crash(g)
    /\ UNCHANGED plan

Spec == Init /\ [][Next]_vars

\* What goroutines and timers do by themselves; requests, calls, mutators, cancellations and
\* crashes need not happen.  No behaviour repeats a state, so one that takes these steps while
\* it can ends in a state where none of them is enabled.
Progress ==
    \/ HostStep \/ DrainDeadline
    \/ \E g \in Gens : PluginStep(g) \/ Serve(g) \/ Publish(g) \/ Tick(g)

-----------------------------------------------------------------------------
(* Properties.                                                             *)

\* Every variable stays in its range.
TypeOK ==
    /\ plan \in Plans
    /\ hpc \in HostPC /\ cause \in {"none", "ctx", "violation"} /\ cancelled \in BOOLEAN
    /\ req \in [made : 0 .. Reloads, pending : BOOLEAN]
    /\ cur \in Gens /\ succ \in {0} \union Gens /\ next \in Gens /\ route \in Gens /\ open \in BOOLEAN
    /\ span \in [Gens -> 0 .. Work] /\ queued \in [Gens -> 0 .. Work]
    /\ pc \in [Gens -> PluginPC] /\ frozen \in [Gens -> {0, 1}] /\ ticking \in [Gens -> BOOLEAN]
    /\ ticks \in [Gens -> 0 .. Ticks] /\ state \in [Gens -> 0 .. Work] /\ saved \in [Gens -> 0 .. Work]
    /\ snap \in 0 .. Work /\ applied \in 0 .. Work
    /\ \A g \in Gens : toP[g] \in Seq(Messages) /\ toH[g] \in Seq(Messages)
    /\ dl \in {"live", "plugin", "host"}

\* While the gate admits calls, the instance they are routed to has its mutators running: the
\* transaction closes the gate before Drain and reopens it only after ResumeAck or promote.
AdmitsOnlyUnfrozen == open => frozen[route] = 0

\* The routed instance's state holds every update ever applied: cutoff, the join of callers in
\* their span, quiescence before DrainAck and the freeze together leave nothing behind the snapshot.
NoUpdateLost == Alive(route) => state[route] = applied

\* Once the successor routes, the predecessor is never unfrozen again and has no caller or request.
RetiredStaysQuiet ==
    \A g \in Gens : g < route /\ Alive(g) => frozen[g] = 1 /\ span[g] = 0 /\ queued[g] = 0

\* A rollback is given up as crash-equivalent only because the old instance is gone
\* (Transaction.Run's contract).
CrashEquivalentMeansGone == hpc = "crashEquivalent" => ~Alive(cur)

\* The same, as far as it holds: nobody cancels, the plugin answers within the host's bounds and
\* the heartbeat that started the reload was the last one sent.  A missed drain deadline, a
\* rejected snapshot or a failing successor then rolls back to a resumed instance.
RollbackResumes == Faults \cap {"cancel", "timeout"} = {} /\ Ticks = 1 => CrashEquivalentMeansGone

\* Every transaction reaches an outcome: the loop resumes or hands the instance to the restart path.
ReloadEnds == hpc \notin {"loop", "crashed"} => ENABLED Progress

\* No instance stays frozen: it is resumed, retired or torn down.
NoneStaysFrozen == (\E g \in Gens : frozen[g] = 1) => ENABLED Progress
=============================================================================
