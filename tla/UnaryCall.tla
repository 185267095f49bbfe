----------------------------- MODULE UnaryCall -----------------------------
(***************************************************************************)
(* The life of unary calls on one ClientConn: the caller goroutines inside *)
(* invokeCore, the call table of each plugin generation, the host's read   *)
(* loop, the plugin's serve loop, and the supervisor goroutine that        *)
(* reloads, tears down and restarts the generation underneath them.        *)
(*                                                                         *)
(* A call is one Invoke; its identifier is never reused, so calls and      *)
(* identifiers are the same set.  A generation g has a wire of frames to   *)
(* the plugin (bounded: a Send blocks while it is full) and a wire back.   *)
(***************************************************************************)
EXTENDS Naturals, Sequences, FiniteSets

CONSTANTS
  Calls,      \* the Invokes made on the connection
  Timed,      \* those whose context carries a deadline, hence a budget
  MaxGen,     \* generations the supervisor may start (restart policy bound)
  WireCap,    \* frames the ring to the plugin holds
  Plans,      \* what may happen in a behaviour: the calls made, how their contexts
              \* may end (pairs <<call, "canceled" or "expired">>), how many generations
              \* there are, and whether (1) plugin processes may hang or die
  Prompt      \* 1: teardownAdmissionCloseBound (5 s) only expires on callers
              \* that are blocked in Send; 0: a caller may stall anywhere

ASSUME UnaryCallAssumption ==
  /\ Timed \subseteq Calls
  /\ MaxGen \in Nat \ {0} /\ WireCap \in Nat \ {0}
  /\ Prompt \in {0, 1}
  /\ \A p \in Plans : /\ p.calls \subseteq Calls /\ p.gens \in 1 .. MaxGen /\ p.faults \in {0, 1}
                       /\ p.ends \subseteq (Calls \X {"canceled"}) \cup (Timed \X {"expired"})

VARIABLES
  plan,       \* the bounds of this behaviour
  pc,         \* where each caller is inside invokeCore
  gen,        \* the generation whose connState it routes to; 0 before routing
  ctx,        \* the caller's context: live, canceled or expired
  st,         \* Table state of the call
  resultCh,   \* what terminate sent on the call's buffered channel
  ret,        \* what Invoke returns
  ran,        \* how often a plugin handler was entered for the call
  routing,    \* cc.state: the generation calls route to; 0 is nil
  open,       \* AdmissionGate.open
  active,     \* the callers between Enter and Leave
  wire,       \* frames towards each generation's plugin
  back,       \* frames from it
  plugin,     \* the plugin process: none, up, hung, dead
  handling,   \* the calls its serve loop runs a handler for (inline: at most one)
  writer,     \* the host's writer of each generation: up, stopped
  reader,     \* its read loop: run, failing, done
  rfail,      \* FailAll snapshot the read loop still has to go through
  sup,        \* the supervisor goroutine's position
  sgen,       \* the generation it supervises, or tears down
  sfail,      \* its own FailAll snapshot
  stop,       \* Stop was requested
  retiring,   \* the teardown under way retires a reload's predecessor
  calm        \* 1 until something is torn down, fails or gives up waiting
callerVars == <<pc, gen, ctx, st, resultCh, ret>>
gateVars   == <<routing, open, active>>
wireVars   == <<wire, back, plugin, handling, ran>>
hostVars   == <<writer, reader, rfail>>
supVars    == <<sup, sgen, sfail, stop, retiring, calm, plan>>
vars       == <<callerVars, gateVars, wireVars, hostVars, supVars>>

Gens == 1 .. MaxGen

Live    == {"submitted", "published"}
Outcome == {"ok", "status", "garbled", "unknown", "unavailable", "canceled",
            "deadline", "rejected", "drained"}
None    == "none"

CallerPC == {"idle", "enter", "load", "submit", "publish", "send", "leave",
             "wait", "read", "abandon", "cancel", "done"}
SupPC    == {"ready", "cutoff", "drain", "successor", "join", "stop",
             "stopjoin", "snapshot", "fail", "stopwriter", "joinreader",
             "reap", "spawn", "stopped"}

TypeOK ==
  /\ pc \in [Calls -> CallerPC]
  /\ gen \in [Calls -> 0 .. MaxGen]
  /\ ctx \in [Calls -> {"live", "canceled", "expired"}]
  /\ st \in [Calls -> {None} \cup Live
                      \cup {"completed", "failed", "canceled", "deadline",
                            "unknown", "rejected"}]
  /\ resultCh \in [Calls -> Seq(Outcome)]
  /\ ret \in [Calls -> {None} \cup Outcome]
  /\ ran \in [Calls -> Nat]
  /\ routing \in 0 .. MaxGen /\ open \in {0, 1} /\ active \subseteq Calls
  /\ \A g \in Gens : wire[g] \in Seq(Calls \X {"req", "cancel"})
  /\ \A g \in Gens : back[g] \in Seq(Calls \X {"ok", "status", "garbled"})
  /\ plugin \in [Gens -> {"none", "up", "hung", "dead"}]
  /\ handling \in [Gens -> SUBSET Calls]
  /\ writer \in [Gens -> {"up", "stopped"}]
  /\ reader \in [Gens -> {"run", "failing", "done"}]
  /\ rfail \in [Gens -> SUBSET Calls]
  /\ sup \in SupPC /\ sgen \in Gens /\ sfail \subseteq Calls
  /\ stop \in {0, 1} /\ retiring \in {0, 1} /\ calm \in {0, 1} /\ plan \in Plans

\* The first generation is wired (wireConnState) and serving.
Init ==
  /\ plan \in Plans
  /\ pc = [c \in Calls |-> IF c \in plan.calls THEN "idle" ELSE "done"] /\ gen = [c \in Calls |-> 0]
  /\ ctx = [c \in Calls |-> "live"] /\ st = [c \in Calls |-> None]
  /\ resultCh = [c \in Calls |-> <<>>] /\ ret = [c \in Calls |-> None]
  /\ ran = [c \in Calls |-> 0]
  /\ routing = 1 /\ open = 1 /\ active = {}
  /\ wire = [g \in Gens |-> <<>>] /\ back = [g \in Gens |-> <<>>]
  /\ plugin = [g \in Gens |-> IF g = 1 THEN "up" ELSE "none"]
  /\ handling = [g \in Gens |-> {}]
  /\ writer = [g \in Gens |-> "up"] /\ reader = [g \in Gens |-> "run"]
  /\ rfail = [g \in Gens |-> {}]
  /\ sup = "ready" /\ sgen = 1 /\ sfail = {} /\ stop = 0 /\ retiring = 0 /\ calm = 1

-----------------------------------------------------------------------------
(* The call table.  terminate looks the call up, moves it from one of the  *)
(* states "from" to "to" with a compare-and-swap and, for the winner only, *)
(* sends the result on the capacity-one channel and deletes the entry.     *)
(* The lookup fails exactly when the entry was deleted, after the          *)
(* transition to a terminal state; nothing else distinguishes the moments  *)
(* between the three steps of the winner, so they are one step.            *)

terminate(c, to, r, from) ==
  IF st[c] \in from
  THEN /\ st' = [st EXCEPT ![c] = to]
       /\ resultCh' = [resultCh EXCEPT ![c] = Append(@, r)]
  ELSE UNCHANGED <<st, resultCh>>

Complete(c)         == terminate(c, "completed", "ok", {"published"})
Fail(c)             == terminate(c, "failed", "status", {"published"})
OutcomeUnknown(c)   == terminate(c, "unknown", "unknown", {"published"})
Garbled(c)          == terminate(c, "unknown", "garbled", {"published"})
Cancel(c)           == terminate(c, "canceled", "canceled", Live)
DeadlineExceeded(c) == terminate(c, "deadline", "deadline", Live)
Reject(c)           == terminate(c, "rejected", "rejected", Live)

\* Mutant: published calls too are reported as never dispatched.
FailOneRejects(c) == terminate(c, "rejected", "unavailable", Live)

\* One iteration of FailAll's loop: Submitted -> Rejected first, and only if
\* that loses Published -> OutcomeUnknown.
FailOne(c) ==
  IF st[c] = "submitted"
  THEN terminate(c, "rejected", "unavailable", {"submitted"})
  ELSE terminate(c, "unknown", "unknown", {"published"})

\* The calls a table lists: PublishedCount and FailAll's snapshot read it.
TableOf(g) == {c \in Calls : gen[c] = g /\ st[c] \in Live}

CtxErr(c) == IF ctx[c] = "expired" THEN "deadline" ELSE "canceled"
Goto(c, l) == pc' = [pc EXCEPT ![c] = l]
Return(c, r) == ret' = [ret EXCEPT ![c] = r]

-----------------------------------------------------------------------------
(* A caller, through invokeCore.                                           *)

\* Routing is gone: unavailable takes precedence over draining.
Start(c) ==
  /\ pc[c] = "idle"
  /\ IF routing = 0
     THEN Goto(c, "done") /\ Return(c, "unavailable")
     ELSE Goto(c, "enter") /\ UNCHANGED ret
  /\ UNCHANGED <<gen, ctx, st, resultCh, gateVars, wireVars, hostVars, supVars>>

Enter(c) ==
  /\ pc[c] = "enter"
  /\ IF open = 1
     THEN Goto(c, "load") /\ active' = active \cup {c} /\ UNCHANGED ret
     ELSE Goto(c, "done") /\ Return(c, "drained") /\ UNCHANGED active
  /\ UNCHANGED <<gen, ctx, st, resultCh, routing, open, wireVars, hostVars, supVars>>

\* The routing state is loaded again inside the admission barrier; a request
\* that does not marshal fails here.
Load(c) ==
  /\ pc[c] = "load"
  /\ \/ /\ routing = 0
        /\ Goto(c, "leave") /\ Return(c, "unavailable") /\ UNCHANGED gen
     \/ /\ routing # 0 /\ ctx[c] # "live"
        /\ Goto(c, "leave") /\ Return(c, CtxErr(c)) /\ UNCHANGED gen
     \/ /\ routing # 0 /\ ctx[c] = "live"
        /\ Goto(c, "leave") /\ Return(c, "rejected") /\ UNCHANGED gen
     \/ /\ routing # 0 /\ ctx[c] = "live"
        /\ Goto(c, "submit") /\ gen' = [gen EXCEPT ![c] = routing] /\ UNCHANGED ret
  /\ UNCHANGED <<ctx, st, resultCh, gateVars, wireVars, hostVars, supVars>>

SubmitDecoding(c) ==
  /\ pc[c] = "submit"
  /\ Goto(c, "publish") /\ st' = [st EXCEPT ![c] = "submitted"]
  /\ UNCHANGED <<gen, ctx, resultCh, ret, gateVars, wireVars, hostVars, supVars>>

\* Only the winner of Submitted -> Published sends.
Publish(c) ==
  /\ pc[c] = "publish"
  /\ IF st[c] = "submitted"
     THEN Goto(c, "send") /\ st' = [st EXCEPT ![c] = "published"]
     ELSE Goto(c, "leave") /\ UNCHANGED st
  /\ UNCHANGED <<gen, ctx, resultCh, ret, gateVars, wireVars, hostVars, supVars>>

Room(g)   == writer[g] = "up" /\ Len(wire[g]) < WireCap
Broken(g) == writer[g] = "stopped" \/ plugin[g] = "dead"

SendAccepted(c) ==
  /\ pc[c] = "send" /\ Room(gen[c])
  /\ wire' = [wire EXCEPT ![gen[c]] = Append(@, <<c, "req">>)]
  /\ Goto(c, "leave")
  /\ UNCHANGED <<gen, ctx, st, resultCh, ret, gateVars, back, plugin, handling,
                 ran, hostVars, supVars>>

\* A fill callback that fails, an oversize payload, an unimplemented kind or
\* backpressure: refused before a byte reaches the wire.
SendRefused(c) ==
  /\ pc[c] = "send" /\ Reject(c)
  /\ Goto(c, "leave") /\ Return(c, "rejected")
  /\ UNCHANGED <<gen, ctx, gateVars, wireVars, hostVars, supVars>>

\* The caller's context wins the abandonment handshake of a fill send.
SendAbandoned(c) ==
  /\ pc[c] = "send" /\ ctx[c] # "live"
  /\ IF ctx[c] = "expired" THEN DeadlineExceeded(c) ELSE Cancel(c)
  /\ Goto(c, "leave") /\ Return(c, CtxErr(c))
  /\ UNCHANGED <<gen, ctx, gateVars, wireVars, hostVars, supVars>>

\* Any other failure leaves acceptance unknown; the wait reports it.
SendFailed(c) ==
  /\ pc[c] = "send" /\ Broken(gen[c])
  /\ OutcomeUnknown(c)
  /\ Goto(c, "leave")
  /\ UNCHANGED <<gen, ctx, ret, gateVars, wireVars, hostVars, supVars>>

Leave(c) ==
  /\ pc[c] = "leave"
  /\ active' = active \ {c}
  /\ Goto(c, IF ret[c] = None THEN "wait" ELSE "done")
  /\ UNCHANGED <<gen, ctx, st, resultCh, ret, routing, open, wireVars, hostVars, supVars>>

WaitResult(c) ==
  /\ pc[c] \in {"wait", "read"} /\ resultCh[c] # <<>>
  /\ Goto(c, "done") /\ Return(c, Head(resultCh[c]))
  /\ UNCHANGED <<gen, ctx, st, resultCh, gateVars, wireVars, hostVars, supVars>>

\* The budget timer: try to win, then read back whichever result was sent.
WaitDeadline(c) ==
  /\ pc[c] = "wait" /\ c \in Timed /\ ctx[c] = "expired"
  /\ DeadlineExceeded(c)
  /\ Goto(c, "read")
  /\ UNCHANGED <<gen, ctx, ret, gateVars, wireVars, hostVars, supVars>>

\* Leaving the wait changes no table state; abandon then cancels, and only the
\* winner owes the peer a CANCEL frame.
WaitAbandoned(c) ==
  /\ pc[c] = "wait" /\ ctx[c] # "live"
  /\ Goto(c, "abandon") /\ Return(c, CtxErr(c))
  /\ UNCHANGED <<gen, ctx, st, resultCh, gateVars, wireVars, hostVars, supVars>>

Abandon(c) ==
  /\ pc[c] = "abandon"
  /\ Cancel(c)
  /\ Goto(c, IF st[c] \in Live THEN "cancel" ELSE "done")
  /\ UNCHANGED <<gen, ctx, ret, gateVars, wireVars, hostVars, supVars>>

SendCancel(c) ==
  /\ pc[c] = "cancel"
  /\ \/ /\ Room(gen[c])
        /\ wire' = [wire EXCEPT ![gen[c]] = Append(@, <<c, "cancel">>)]
     \/ Broken(gen[c]) /\ UNCHANGED wire
  /\ Goto(c, "done")
  /\ UNCHANGED <<gen, ctx, st, resultCh, ret, gateVars, back, plugin, handling,
                 ran, hostVars, supVars>>

ContextEnds(c) ==
  /\ ctx[c] = "live" /\ pc[c] # "done"
  /\ \E e \in {"canceled", "expired"} :
       <<c, e>> \in plan.ends /\ ctx' = [ctx EXCEPT ![c] = e]
  /\ UNCHANGED <<pc, gen, st, resultCh, ret, gateVars, wireVars, hostVars, supVars>>

Send(c) == SendAccepted(c) \/ SendRefused(c) \/ SendAbandoned(c) \/ SendFailed(c)
Wait(c) == WaitResult(c) \/ WaitDeadline(c) \/ WaitAbandoned(c)
invokeCore(c) == \/ Enter(c) \/ Load(c) \/ SubmitDecoding(c) \/ Publish(c)
                 \/ Send(c) \/ Leave(c) \/ Wait(c) \/ Abandon(c) \/ SendCancel(c)

-----------------------------------------------------------------------------
(* The host's read loop of generation g.                                   *)

\* Mutant: an undecodable response is skipped without failing its call.
ReadFrameSkipsGarbled(g) ==
  /\ reader[g] = "run" /\ back[g] # <<>>
  /\ LET c == Head(back[g])[1] k == Head(back[g])[2] IN
       CASE k = "ok" -> Complete(c) [] k = "status" -> Fail(c)
         [] OTHER -> UNCHANGED <<st, resultCh>>
  /\ back' = [back EXCEPT ![g] = Tail(@)]
  /\ UNCHANGED <<pc, gen, ctx, ret, gateVars, wire, plugin, handling, ran,
                 hostVars, supVars>>

\* A response completes or fails its call; one that does not decode, and one
\* the transport discards as frame-local, fails its own call and nothing else.
\* A frame for a call that is no longer live is dropped.
ReadFrame(g) ==
  /\ reader[g] = "run" /\ back[g] # <<>>
  /\ LET c == Head(back[g])[1] k == Head(back[g])[2] IN
       CASE k = "ok" -> Complete(c) [] k = "status" -> Fail(c) [] OTHER -> Garbled(c)
  /\ back' = [back EXCEPT ![g] = Tail(@)]
  /\ UNCHANGED <<pc, gen, ctx, ret, gateVars, wire, plugin, handling, ran,
                 hostVars, supVars>>

\* The data plane fails under the loop: escalate with FailAll.  A frame fault
\* also stops the writer; a peer that closed leaves it up.
ReaderFault(g) ==
  /\ reader[g] = "run" /\ plugin[g] \in {"hung", "dead"}
  /\ reader' = [reader EXCEPT ![g] = "failing"]
  /\ \E w \in {writer[g], "stopped"} : writer' = [writer EXCEPT ![g] = w]
  /\ rfail' = [rfail EXCEPT ![g] = TableOf(g)]
  /\ UNCHANGED <<callerVars, gateVars, wireVars, supVars>>

ReaderFailAll(g) ==
  /\ reader[g] = "failing" /\ rfail[g] # {}
  /\ \E c \in rfail[g] : FailOne(c) /\ rfail' = [rfail EXCEPT ![g] = @ \ {c}]
  /\ UNCHANGED <<pc, gen, ctx, ret, gateVars, wireVars, writer, reader, supVars>>

\* After the fan-out, or at a local stop, which does not escalate.
ReaderExit(g) ==
  /\ \/ reader[g] = "failing" /\ rfail[g] = {}
     \/ reader[g] = "run" /\ writer[g] = "stopped"
  /\ reader' = [reader EXCEPT ![g] = "done"]
  /\ UNCHANGED <<callerVars, gateVars, wireVars, writer, rfail, supVars>>

runReadLoop(g) == ReadFrame(g) \/ ReaderFailAll(g) \/ ReaderExit(g)

-----------------------------------------------------------------------------
(* The plugin's serve loop of generation g: one frame at a time, a unary   *)
(* handler inline, so a CANCEL is read only when no handler runs and finds *)
(* no call to cancel.                                                      *)

\* A request whose budget elapsed before dispatch is dropped unanswered.
ServeFrame(g) ==
  /\ plugin[g] = "up" /\ handling[g] = {} /\ wire[g] # <<>>
  /\ LET c == Head(wire[g])[1] k == Head(wire[g])[2] IN
       \/ /\ k = "req"
          /\ handling' = [handling EXCEPT ![g] = {c}]
          /\ ran' = [ran EXCEPT ![c] = @ + 1]
       \/ /\ k = "cancel" \/ ctx[c] = "expired"
          /\ UNCHANGED <<handling, ran>>
  /\ wire' = [wire EXCEPT ![g] = Tail(@)]
  /\ UNCHANGED <<callerVars, gateVars, back, plugin, hostVars, supVars>>

\* The handler returns; past its budget nothing is answered.
HandlerReturns(g) ==
  /\ plugin[g] = "up"
  /\ \E c \in handling[g] :
       \/ \E k \in {"ok", "status", "garbled"} :
            back' = [back EXCEPT ![g] = Append(@, <<c, k>>)]
       \/ ctx[c] = "expired" /\ UNCHANGED back
  /\ handling' = [handling EXCEPT ![g] = {}]
  /\ UNCHANGED <<callerVars, gateVars, wire, plugin, ran, hostVars, supVars>>

\* Bound: what the environment does after the last Invoke returned is not explored.
Busy == \E c \in Calls : pc[c] # "done"

PluginFails(g) ==
  /\ plan.faults = 1 /\ Busy
  /\ \/ plugin[g] = "up" /\ plugin' = [plugin EXCEPT ![g] = "hung"]
        /\ UNCHANGED handling
     \/ plugin[g] \in {"up", "hung"} /\ plugin' = [plugin EXCEPT ![g] = "dead"]
        /\ handling' = [handling EXCEPT ![g] = {}]
  /\ calm' = 0
  /\ UNCHANGED <<callerVars, gateVars, wire, back, ran, hostVars, sup, sgen,
                 sfail, stop, retiring, plan>>

-----------------------------------------------------------------------------
(* The supervisor goroutine: reload transaction, teardown, restart.        *)

At(l)  == sup = l /\ UNCHANGED <<callerVars, wire, back, ran>>
Move(l) == sup' = l

ReloadBegin ==
  /\ At("ready") /\ Busy /\ plugin[sgen] = "up" /\ sgen < plan.gens
  /\ Move("cutoff") /\ open' = 0
  /\ UNCHANGED <<routing, active, plugin, handling, hostVars, sgen, sfail, stop, retiring, calm, plan>>

\* Mutant: the gate closes without joining the callers already admitted.
CutoffUnjoined ==
  /\ At("cutoff") /\ Move("drain")
  /\ UNCHANGED <<gateVars, plugin, handling, hostVars, sgen, sfail, stop, retiring, calm, plan>>

\* AdmissionGate.Close joins the admitted callers, or its bound expires and the
\* transaction rolls back by reopening the gate.
Cutoff ==
  /\ At("cutoff")
  /\ \/ active = {} /\ Move("drain") /\ UNCHANGED open
     \/ active # {} /\ Move("ready") /\ open' = 1
  /\ UNCHANGED <<routing, active, plugin, handling, hostVars, sgen, sfail, stop, retiring, calm, plan>>

\* The plugin acknowledges once it is quiescent; it then freezes and saves its
\* state, so what it executes later is lost to the successor.
DrainAck ==
  /\ At("drain") /\ plugin[sgen] = "up" /\ wire[sgen] = <<>> /\ handling[sgen] = {}
  /\ Move("successor")
  /\ UNCHANGED <<gateVars, plugin, handling, hostVars, sgen, sfail, stop, retiring, calm, plan>>

\* A later phase fails: the predecessor resumes and the gate reopens, or it
\* cannot and the reload is equivalent to a crash, the gate left closed.
RollBack ==
  /\ sup \in {"drain", "successor"} /\ At(sup)
  /\ \/ plugin[sgen] = "up" /\ Move("ready") /\ open' = 1 /\ UNCHANGED calm
     \/ Move("stop") /\ calm' = 0 /\ UNCHANGED open
  /\ UNCHANGED <<routing, active, plugin, handling, hostVars, sgen, sfail, stop, retiring, plan>>

\* The successor restored; its routing is installed before the gate reopens.
Promote ==
  /\ At("successor")
  /\ Move("join") /\ plugin' = [plugin EXCEPT ![sgen + 1] = "up"]
  /\ routing' = sgen + 1 /\ open' = 1 /\ retiring' = 1
  /\ UNCHANGED <<active, handling, hostVars, sgen, sfail, stop, calm, plan>>

Published(g) == {c \in TableOf(g) : st[c] = "published"}

\* Mutant: the predecessor is torn down at once.
JoinResponsesSkipped ==
  /\ At("join") /\ Move("stop")
  /\ UNCHANGED <<gateVars, plugin, handling, hostVars, sgen, sfail, stop, retiring, calm, plan>>

\* joinPublishedResponses: let the reader deliver the answers the retiring peer
\* already sent, for at most responseJoinBound.
JoinResponses ==
  /\ At("join") /\ Move("stop")
  /\ \/ back[sgen] = <<>> /\ Published(sgen) = {} /\ UNCHANGED calm
     \/ calm' = 0
  /\ UNCHANGED <<gateVars, plugin, handling, hostVars, sgen, sfail, stop, retiring, plan>>

CrashDetected ==
  /\ At("ready") /\ plugin[sgen] # "up" /\ Move("stop") /\ calm' = 0
  /\ UNCHANGED <<gateVars, plugin, handling, hostVars, sgen, sfail, stop, retiring, plan>>

StopRequested ==
  /\ At("ready") /\ Busy /\ Move("stop") /\ stop' = 1 /\ calm' = 0
  /\ UNCHANGED <<gateVars, plugin, handling, hostVars, sgen, sfail, retiring, plan>>

\* Only the owner of the routing closes it: after a promotion the predecessor's
\* teardown leaves the successor's routing and admission alone.
StopAdmission ==
  /\ At("stop")
  /\ IF routing = sgen
     THEN Move("stopjoin") /\ routing' = 0 /\ open' = 0
     ELSE Move("snapshot") /\ UNCHANGED <<routing, open>>
  /\ UNCHANGED <<active, plugin, handling, hostVars, sgen, sfail, stop, retiring, calm, plan>>

Blocked(c) == /\ pc[c] = "send" /\ writer[gen[c]] = "up"
              /\ Len(wire[gen[c]]) = WireCap

\* The bounded join of admitted callers.
StopJoin ==
  /\ At("stopjoin") /\ Move("snapshot")
  /\ \/ active = {}
     \/ active # {} /\ (Prompt = 0 \/ \A c \in active : Blocked(c))
  /\ UNCHANGED <<gateVars, plugin, handling, hostVars, sgen, sfail, stop, retiring, calm, plan>>

FailAllSnapshot ==
  /\ At("snapshot") /\ Move("fail") /\ sfail' = TableOf(sgen)
  /\ UNCHANGED <<gateVars, plugin, handling, hostVars, sgen, stop, retiring, calm, plan>>

FailAll ==
  /\ sup = "fail"
  /\ \/ /\ sfail = {} /\ Move("stopwriter") /\ UNCHANGED <<st, resultCh, sfail>>
     \/ \E c \in sfail : FailOne(c) /\ sfail' = sfail \ {c} /\ UNCHANGED sup
  /\ UNCHANGED <<pc, gen, ctx, ret, gateVars, wireVars, hostVars, sgen, stop, retiring, calm, plan>>

StopWriter ==
  /\ At("stopwriter") /\ Move("joinreader")
  /\ writer' = [writer EXCEPT ![sgen] = "stopped"]
  /\ UNCHANGED <<gateVars, plugin, handling, reader, rfail, sgen, sfail, stop, retiring, calm, plan>>

JoinReader ==
  /\ At("joinreader") /\ reader[sgen] = "done" /\ Move("reap")
  /\ UNCHANGED <<gateVars, plugin, handling, hostVars, sgen, sfail, stop, retiring, calm, plan>>

\* The process is killed and waited for, and the mapping is gone.
Reap ==
  /\ sup = "reap"
  /\ wire' = [wire EXCEPT ![sgen] = <<>>] /\ back' = [back EXCEPT ![sgen] = <<>>]
  /\ plugin' = [plugin EXCEPT ![sgen] = "dead"]
  /\ handling' = [handling EXCEPT ![sgen] = {}]
  /\ retiring' = 0
  /\ IF retiring = 1
     THEN Move("ready") /\ sgen' = sgen + 1
     ELSE /\ Move(IF stop = 1 \/ sgen = plan.gens THEN "stopped" ELSE "spawn")
          /\ UNCHANGED sgen
  /\ UNCHANGED <<callerVars, ran, gateVars, hostVars, sfail, stop, calm, plan>>

\* wireConnState of the restarted instance.
Spawn ==
  /\ At("spawn") /\ Move("ready") /\ sgen' = sgen + 1
  /\ plugin' = [plugin EXCEPT ![sgen + 1] = "up"]
  /\ routing' = sgen + 1 /\ open' = 1
  /\ UNCHANGED <<active, handling, hostVars, sfail, stop, retiring, calm, plan>>

Supervisor == \/ Cutoff \/ DrainAck \/ RollBack \/ Promote \/ JoinResponses
              \/ CrashDetected \/ StopAdmission \/ StopJoin \/ FailAllSnapshot
              \/ FailAll \/ StopWriter \/ JoinReader \/ Reap \/ Spawn

Terminated ==
  /\ \A c \in Calls : pc[c] = "done"
  /\ UNCHANGED vars

Next == \/ \E c \in Calls : Start(c) \/ invokeCore(c) \/ ContextEnds(c)
        \/ \E g \in Gens : \/ runReadLoop(g) \/ ReaderFault(g)
                            \/ ServeFrame(g) \/ HandlerReturns(g) \/ PluginFails(g)
        \/ Supervisor \/ ReloadBegin \/ StopRequested
        \/ Terminated

Spec == Init /\ [][Next]_vars

\* What a runnable caller does without outside help: being refused by the
\* transport, and having the context win a fill send, may never happen.
Runs(c) == \/ Enter(c) \/ Load(c) \/ SubmitDecoding(c) \/ Publish(c)
           \/ SendAccepted(c) \/ SendFailed(c) \/ Leave(c) \/ Wait(c)
           \/ Abandon(c) \/ SendCancel(c)

\* Runnable goroutines run; a plugin that is up serves and its handlers return.
Fairness ==
  /\ \A c \in Calls : WF_vars(Runs(c))
  /\ \A g \in Gens : /\ WF_vars(runReadLoop(g)) /\ WF_vars(ServeFrame(g))
                     /\ WF_vars(HandlerReturns(g))
  /\ WF_vars(Supervisor)

FairSpec == Spec /\ Fairness

-----------------------------------------------------------------------------
Requests(g) == {c \in Calls : \E i \in DOMAIN wire[g] : wire[g][i] = <<c, "req">>}

\* Every outcome Invoke reports is true of the plugin: after one of the
\* not-dispatched class (unavailable, drained, rejected) no handler ran and no
\* request is left on any wire that could still start one, so retrying cannot
\* execute the call twice; after an answer exactly one handler ran.
OutcomeHonest ==
  \A c \in Calls : pc[c] = "done" =>
    /\ ret[c] \in {"unavailable", "drained", "rejected"} =>
         ran[c] = 0 /\ \A g \in Gens : c \notin Requests(g)
    /\ ret[c] \in {"ok", "status", "garbled"} => ran[c] = 1

\* First terminal wins (Table.terminate): however the response, the deadline, the
\* cancel, a send failure and two FailAll fan-outs race, at most one result is
\* sent on a call's capacity-one channel, so no terminating goroutine blocks.
OneResult == \A c \in Calls : Len(resultCh[c]) <= (IF st[c] \in Live \cup {None} THEN 0 ELSE 1)

\* Cutoff plus drain is complete (Transaction.Run): once the predecessor has
\* acknowledged the drain no request of a caller admitted earlier is on its wire
\* or in a handler, so the snapshot misses no effect.
SnapshotComplete ==
  sup = "successor" => Requests(sgen) = {} /\ handling[sgen] = {}

\* While the supervisor serves an instance, calls route to it and are admitted:
\* a predecessor's late teardown never detaches its successor (StopAdmission's
\* ownership check), and every rollback reopens the gate it closed.
ReadyRoutes == sup = "ready" => routing = sgen /\ open = 1

\* An undisturbed hot reload loses no answer: unless a process fails, Stop is
\* called or a bounded join gives up, no Invoke reports an unknown outcome or an
\* unavailable plugin (joinPublishedResponses before FailInFlight).
ReloadKeepsAnswers ==
  calm = 1 => \A c \in Calls : ret[c] \notin {"unknown", "unavailable"}

\* A request is never put on the wire of a generation whose successor already
\* owns the routing (the state is loaded inside the admission barrier).
NoStaleRouting ==
  [][\A g \in Gens : Len(wire'[g]) > Len(wire[g])
                        /\ wire'[g][Len(wire'[g])][2] = "req" => routing <= g]_vars

\* the Invokes that have begun and not returned
InFlight == {c \in Calls : pc[c] \notin {"idle", "done"}}

\* Every Invoke returns, through crashes, hangs, reloads, restarts and Stop, with
\* or without a deadline: somebody always wins the call's terminal transition.
EveryInvokeReturns == InFlight # {} ~> InFlight = {}

\* Each call gets at most one result, and one that is true of what the plugin did: not-started
\* means not started, and a drained predecessor runs nothing more (terminate, FailAll, DrainAck).
CallsHonest == TypeOK /\ OutcomeHonest /\ OneResult /\ SnapshotComplete

\* A hot reload is invisible to callers: the routed instance is the served one, and no call is
\* refused or loses its answer because of it (StopAdmission, joinPublishedResponses).
ReloadSeamless == ReadyRoutes /\ ReloadKeepsAnswers
=============================================================================
