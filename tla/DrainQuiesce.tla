---------------------------- MODULE DrainQuiesce ----------------------------
(***************************************************************************)
(* One serving session of the plugin: the serve loop's reserve-before-     *)
(* dequeue accounting, the obligation table, unary handlers run inline and *)
(* stream handlers on goroutines of their own, the handler-panic policy    *)
(* with its admission gate, and the drain predicate that reload's DrainAck *)
(* waits for (drain_quiescence.go), evaluated one load at a time.          *)
(***************************************************************************)
EXTENDS Naturals, Sequences

CONSTANT
    Sessions        \* the sessions considered: what the host sends and the panic policy

VARIABLES
    session,        \* the session at hand
    sent, read,     \* frames sent, frames dequeued
    rpc,            \* where the serve loop is with frame read
    pending,        \* ingressPending
    obliged,        \* open response obligations
    replied,        \* calls whose response or terminal frame reached the transport
    handler,            \* where each stream handler is
    gate,           \* 1: the serve loop holds the admission gate's read side
    taint, signal,  \* tainted; the terminate channel
    wake,           \* the coordinator's cap-1 wake channel
    qpc             \* where waitQuiescent is

Kinds == session.kinds          \* the kinds of the frames the host sends, in order
Continue == session.continue    \* PluginServerConfig.ContinueAfterPanic
Frames == 1 .. Len(Kinds)
Calls == {i \in Frames : Kinds[i] # "other"}

readVars == <<sent, read, rpc>>
panicVars == <<gate, taint, signal>>
vars == <<session, readVars, pending, obliged, replied, handler, panicVars, wake, qpc>>

Init ==
    /\ session \in Sessions
    /\ sent = 0 /\ read = 0 /\ rpc = "idle" /\ pending = 0 /\ obliged = {} /\ replied = {}
    /\ handler = [i \in Frames |-> "none"] /\ gate = 0 /\ taint = 0 /\ signal = 0 /\ wake = 0 /\ qpc = "idle"

ReadableNow == read < sent

\* the host publishes; its cutoff joins callers before it sends Drain, stream traffic goes on
Arrive ==
    /\ sent < Len(Kinds) /\ (qpc = "idle" \/ Kinds[sent + 1] = "other")
    /\ sent' = sent + 1
    /\ UNCHANGED <<read, rpc, pending, obliged, replied, handler, panicVars, wake, qpc>>

-----------------------------------------------------------------------------
(* The serve loop.                                                         *)

\* RecvReserving: the reservation precedes the destructive read
Reserve ==
    /\ rpc = "idle" /\ ReadableNow /\ rpc' = "reserved" /\ pending' = pending + 1
    /\ UNCHANGED <<sent, read, obliged, replied, handler, panicVars, wake, qpc>>

Dequeue ==
    /\ rpc = "reserved" /\ read' = read + 1 /\ rpc' = "fence"
    /\ UNCHANGED <<sent, pending, obliged, replied, handler, panicVars, wake, qpc>>

\* serveOneFrame: the coarse fence, then beginAdmit for a frame that starts a call
Route ==
    /\ rpc = "fence"
    /\ \/ taint = 1 /\ rpc' = "stop" /\ UNCHANGED gate
       \/ taint = 0 /\ Kinds[read] = "other" /\ rpc' = "retire" /\ UNCHANGED gate
       \/ taint = 0 /\ Kinds[read] # "other" /\ rpc' = "admitted" /\ gate' = 1
    /\ UNCHANGED <<sent, read, pending, obliged, replied, handler, taint, signal, wake, qpc>>

\* OpenObligation, before the dispatch
OpenObligation ==
    /\ rpc = "admitted" /\ obliged' = obliged \union {read} /\ rpc' = "obliged"
    /\ UNCHANGED <<sent, read, pending, replied, handler, panicVars, wake, qpc>>

\* endAdmit at handler entry: a unary handler runs here, a stream's on its own goroutine
EnterHandler ==
    /\ rpc = "obliged" /\ gate' = 0
    /\ IF Kinds[read] = "unary" THEN rpc' = "handler" /\ UNCHANGED handler
       ELSE rpc' = "retire" /\ handler' = [handler EXCEPT ![read] = "run"]
    /\ UNCHANGED <<sent, read, pending, obliged, replied, taint, signal, wake, qpc>>

\* the unary handler returns or panics; with its budget spent, nothing is answered
UnaryReturns ==
    /\ rpc = "handler"
    /\ rpc' \in {"reply", "close"} /\ taint' \in {taint, IF Continue THEN 0 ELSE 1}
    /\ UNCHANGED <<sent, read, pending, obliged, replied, handler, gate, signal, wake, qpc>>

Reply ==
    /\ rpc = "reply" /\ replied' = replied \union {read} /\ rpc' = "close"
    /\ UNCHANGED <<sent, read, pending, obliged, handler, panicVars, wake, qpc>>

\* CloseObligation: the entry goes, then the hook pokes
CloseUnary ==
    /\ rpc = "close" /\ obliged' = obliged \ {read} /\ rpc' = "poke"
    /\ UNCHANGED <<sent, read, pending, replied, handler, panicVars, wake, qpc>>

PokeUnary ==
    /\ rpc = "poke" /\ wake' = 1 /\ rpc' = IF taint = 1 THEN "stop" ELSE "retire"
    /\ UNCHANGED <<sent, read, pending, obliged, replied, handler, panicVars, qpc>>

\* the deferred retire, on every exit path: the decrement, then the poke
Retire ==
    \/ /\ rpc \in {"retire", "stop"} /\ pending' = pending - 1
       /\ rpc' = IF rpc = "stop" THEN "stopPoke" ELSE "retirePoke"
       /\ UNCHANGED <<sent, read, obliged, replied, handler, panicVars, wake, qpc>>
    \/ /\ rpc \in {"retirePoke", "stopPoke"} /\ wake' = 1
       /\ rpc' = IF rpc = "stopPoke" THEN "stopped" ELSE "idle"
       /\ UNCHANGED <<sent, read, pending, obliged, replied, handler, panicVars, qpc>>

-----------------------------------------------------------------------------
(* Stream handlers.                                                        *)

\* recordStreamPanicTaint: the store waits for the admission gate's readers
PanicHandler(i) ==
    /\ handler[i] = "run" /\ (Continue \/ gate = 0)
    /\ taint' = (IF Continue THEN 0 ELSE 1) /\ handler' = [handler EXCEPT ![i] = "panicked"]
    /\ UNCHANGED <<readVars, pending, obliged, replied, gate, signal, wake, qpc>>

\* the handler ends: its terminal frame is submitted
Terminal(i) ==
    /\ handler[i] \in {"run", "panicked"} /\ replied' = replied \union {i}
    /\ handler' = [handler EXCEPT ![i] = IF @ = "run" THEN "close" ELSE "closePanicked"]
    /\ UNCHANGED <<readVars, pending, obliged, panicVars, wake, qpc>>

\* and its obligation closed, then the hook pokes; a panic raises the terminate signal last
CloseStream(i) ==
    \/ /\ handler[i] \in {"close", "closePanicked"} /\ obliged' = obliged \ {i}
       /\ handler' = [handler EXCEPT ![i] = IF @ = "close" THEN "poke" ELSE "pokePanicked"]
       /\ UNCHANGED <<readVars, pending, replied, panicVars, wake, qpc>>
    \/ /\ handler[i] \in {"poke", "pokePanicked"} /\ wake' = 1 /\ handler' = [handler EXCEPT ![i] = "done"]
       /\ signal' = IF handler[i] = "pokePanicked" /\ ~Continue THEN 1 ELSE signal
       /\ UNCHANGED <<readVars, pending, obliged, replied, gate, taint, qpc>>

-----------------------------------------------------------------------------
(* waitQuiescent.                                                          *)

StartDrain ==
    /\ qpc = "idle" /\ qpc' = "a" /\ UNCHANGED <<readVars, pending, obliged, replied, handler, panicVars, wake>>

\* mutant: taint is read before the obligation count
EvaluateTaintFirst ==
    /\ \/ qpc = "a" /\ qpc' = IF ReadableNow THEN "park" ELSE "b"
       \/ qpc = "b" /\ qpc' = IF pending # 0 THEN "park" ELSE "taint"
       \/ qpc = "taint" /\ qpc' = IF taint = 1 THEN "park" ELSE "c"
       \/ qpc = "c" /\ qpc' = IF obliged # {} THEN "park" ELSE "d"
       \/ qpc = "d" /\ qpc' = IF ReadableNow THEN "park" ELSE "e"
       \/ qpc = "e" /\ qpc' = IF pending # 0 THEN "park" ELSE "quiesced"
    /\ UNCHANGED <<readVars, pending, obliged, replied, handler, panicVars, wake>>

\* quiescedOnce: (a) readable, (b) reservations, (c) obligations then taint, (d) (a) and (b) again
Evaluate ==
    /\ \/ qpc = "a" /\ qpc' = IF ReadableNow THEN "park" ELSE "b"
       \/ qpc = "b" /\ qpc' = IF pending # 0 THEN "park" ELSE "c"
       \/ qpc = "c" /\ qpc' = IF obliged # {} THEN "park" ELSE "taint"
       \/ qpc = "taint" /\ qpc' = IF taint = 1 THEN "park" ELSE "d"
       \/ qpc = "d" /\ qpc' = IF ReadableNow THEN "park" ELSE "e"
       \/ qpc = "e" /\ qpc' = IF pending # 0 THEN "park" ELSE "quiesced"
    /\ UNCHANGED <<readVars, pending, obliged, replied, handler, panicVars, wake>>

Woken ==
    /\ qpc = "park" /\ wake = 1 /\ wake' = 0 /\ qpc' = "a"
    /\ UNCHANGED <<readVars, pending, obliged, replied, handler, panicVars>>

\* the drain deadline passes, or the session's context is canceled
DeadlineMissed ==
    /\ qpc = "park" /\ qpc' = "missed"
    /\ UNCHANGED <<readVars, pending, obliged, replied, handler, panicVars, wake>>

Reader ==
    \/ Reserve \/ Dequeue \/ Route \/ OpenObligation \/ EnterHandler \/ UnaryReturns \/ Reply
    \/ CloseUnary \/ PokeUnary \/ Retire
Handler(i) == PanicHandler(i) \/ Terminal(i) \/ CloseStream(i)
Next ==
    /\ \/ Arrive \/ Reader \/ StartDrain \/ Evaluate \/ Woken \/ DeadlineMissed
       \/ \E i \in Frames : Handler(i)
    /\ UNCHANGED session

Spec == Init /\ [][Next]_vars

\* the goroutines run and handlers return; the drain deadline need not be missed
Progress == Reader \/ Evaluate \/ Woken \/ \E i \in Frames : Handler(i)

-----------------------------------------------------------------------------
(* Properties.                                                             *)

\* Every variable stays in its range; a reservation is never leaked or dropped twice.
TypeOK ==
    /\ session \in Sessions /\ sent \in 0 .. Len(Kinds) /\ read \in 0 .. sent
    /\ rpc \in {"idle", "reserved", "fence", "admitted", "obliged", "handler", "reply", "close", "poke",
                "retire", "retirePoke", "stop", "stopPoke", "stopped"}
    /\ pending = (IF rpc \in {"idle", "retirePoke", "stopPoke", "stopped"} THEN 0 ELSE 1)
    /\ obliged \subseteq Calls /\ replied \subseteq Calls
    /\ handler \in [Frames -> {"none", "run", "panicked", "close", "closePanicked", "poke", "pokePanicked", "done"}]
    /\ gate \in {0, 1} /\ taint \in {0, 1} /\ signal \in {0, 1} /\ wake \in {0, 1}
    /\ qpc \in {"idle", "a", "b", "c", "taint", "d", "e", "park", "quiesced", "missed"}

\* When the drain predicate reports quiescence, every call the host sent is finished: none is
\* unread, in the serve loop's hands, running or owing its terminal frame.
QuiescedMeansAnswered ==
    qpc = "quiesced" =>
        /\ \A i \in Calls \cap 1 .. sent : i <= read /\ (i = read => rpc \notin {"fence", "admitted", "obliged", "handler", "reply"})
        /\ \A i \in Frames : handler[i] \notin {"run", "panicked", "close"}

\* A session whose handler panicked never certifies a drain: the taint is stored before the call's
\* obligation closes and read after the obligations are counted.
NoDrainAfterPanic == qpc = "quiesced" => taint = 0

\* No handler begins once the taint is stored: the admission gate is held from the check to the entry.
NoHandlerAfterTaint == rpc = "obliged" => taint = 0

\* The predicate is woken whenever it may have become true: a started drain ends on its own,
\* without its deadline, unless the session is tainted.  (Every wake is consumed and every frame
\* read once, so a session that cannot move has no fair behaviour left.)
DrainCompletes ==
    qpc \notin {"idle", "quiesced", "missed"} /\ taint = 0 => ENABLED Progress
=============================================================================
