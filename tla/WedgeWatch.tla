----------------------------- MODULE WedgeWatch -----------------------------
(***************************************************************************)
(* Progress monitoring of one serving plugin: the data plane's counters,   *)
(* the sender that snapshots them load by load into heartbeats on its own  *)
(* ticker, a control stream that loses a beat whose send fails, and the    *)
(* host's Classify and wedgeTracker, which turn beats into a restart       *)
(* verdict on the sender's time.                                           *)
(***************************************************************************)
EXTENDS Naturals, Sequences

CONSTANT
    Courses     \* what may happen in one behaviour: the configuration and the bounds below

VARIABLES
    course,     \* the course of this behaviour
    inbound,    \* frames readable on the transport
    reading,       \* 1: the receive is inside a bounded read
    call,       \* the call the serve loop has consumed, if any
    hung,       \* 1: the serve loop will never return to its receive
    consumed, produced,     \* FramesReceived, FramesSent
    phase, tick,            \* the ticker: time since it last fired, its one-slot channel
    age,        \* time since the last build and, history, since each counter last moved (up to Window)
    loading, seq, msg,           \* the sender: next load, Sequence, the beat being built
    run,        \* history: built beats in a row that show each stall
    chan,       \* beats sent and not yet received
    prev, tracker,          \* heartbeatLoop's locals
    verdict,    \* the beat and kind a restart was decided on
    seen,       \* history: beats of the hang received back to back
    lost, reloads

dataVars == <<inbound, reading, call, hung, consumed, produced>>
sendVars == <<phase, tick, loading, seq, msg, run>>
hostVars == <<prev, tracker, verdict, seen, reloads>>
vars == <<course, dataVars, age, sendVars, chan, hostVars, lost>>

Cadence == course.cadence   \* the sender's interval, in ticks of model time
Slack == course.slack       \* cadence/heartbeatSpacingToleranceDivisor
Window == course.window     \* Config.WedgeWindow
Backlog == 1                \* bound: beats waiting in the control socket
MaxSeq == course.beats      \* bounds: beats built, frames in and out, calls among the frames in,
MaxIn == course.in          \* oversize frames, beats lost, reloads
MaxOut == course.out
MaxCalls == course.calls
MaxReads == course.reads
MaxLost == course.lost
MaxReloads == course.reloads

MinSpacing == Cadence - Slack

\* newWedgeTracker: ceil(window / minSpacing)
WindowBeats == Window \div MinSpacing + (IF Window % MinSpacing # 0 THEN 1 ELSE 0)

Cleared == [kind |-> "none", anchor |-> 0, last |-> 0, fired |-> 0]

Blank == [seq |-> 0, consumed |-> 0, readable |-> 0, bounded |-> 0, produced |-> 0, owed |-> 0,
          whole |-> [transport |-> 0, dispatch |-> 0], hung |-> 0, run |-> [transport |-> 0, dispatch |-> 0]]

FreshPlugin ==
    /\ inbound' = 0 /\ reading' = 0 /\ call' = "none" /\ hung' = 0 /\ consumed' = 0 /\ produced' = 0
    /\ phase' = 0 /\ tick' = 1 /\ age' = [built |-> 0, consume |-> 0, produce |-> 0]
    /\ loading' = "wait" /\ seq' = 0 /\ msg' = Blank /\ run' = Blank.run /\ chan' = <<>>

Init ==
    /\ course \in Courses
    /\ inbound = 0 /\ reading = 0 /\ call = "none" /\ hung = 0 /\ consumed = 0 /\ produced = 0
    /\ phase = 0 /\ tick = 1 /\ age = [built |-> 0, consume |-> 0, produce |-> 0]
    /\ loading = "wait" /\ seq = 0 /\ msg = Blank /\ run = Blank.run /\ chan = <<>>
    /\ prev = Blank /\ tracker = Cleared /\ verdict = [kind |-> "none", beat |-> Blank] /\ seen = 0
    /\ lost = 0 /\ reloads = 0

-----------------------------------------------------------------------------
(* The plugin's data plane.                                                *)

Arrive ==
    /\ inbound = 0 /\ inbound' = 1
    /\ UNCHANGED <<reading, call, hung, consumed, produced, age, sendVars, chan, hostVars, lost>>

Counted == consumed < MaxIn /\ consumed' = consumed + 1 /\ inbound' = inbound - 1 /\ age' = [age EXCEPT !.consume = 0]

\* a frame of a stream, or a request, whose response is owed from here on
Consume ==
    /\ hung = 0 /\ reading = 0 /\ call = "none" /\ inbound > 0 /\ Counted /\ (call' = "none" \/ (consumed < MaxCalls /\ call' = "owed"))
    /\ UNCHANGED <<reading, hung, produced, sendVars, chan, hostVars, lost>>

\* the destructive read of an oversize frame: readable and uncounted until it ends
BeginRead ==
    /\ hung = 0 /\ reading = 0 /\ call = "none" /\ inbound > 0 /\ consumed < MaxReads /\ reading' = 1
    /\ UNCHANGED <<inbound, call, hung, consumed, produced, age, sendVars, chan, hostVars, lost>>

EndRead ==
    /\ reading = 1 /\ reading' = 0 /\ Counted
    /\ UNCHANGED <<call, hung, produced, sendVars, chan, hostVars, lost>>

\* the handler takes its lease, and returns it; a refused call never runs one
Handle ==
    /\ hung = 0 /\ \/ call = "owed" /\ call' \in {"leased", "returned"}
                   \/ call = "leased" /\ call' = "returned"
    /\ UNCHANGED <<inbound, reading, hung, consumed, produced, age, sendVars, chan, hostVars, lost>>

Sent == produced < MaxOut /\ produced' = produced + 1 /\ age' = [age EXCEPT !.produce = 0]

\* the response is handed to the transport, or fails, and the obligation closes
Respond ==
    /\ hung = 0 /\ call = "returned" /\ call' = "none" /\ (Sent \/ UNCHANGED <<produced, age>>)
    /\ UNCHANGED <<inbound, reading, hung, consumed, sendVars, chan, hostVars, lost>>

StreamSend ==
    /\ Sent
    /\ UNCHANGED <<inbound, reading, call, hung, consumed, sendVars, chan, hostVars, lost>>

Hang ==
    /\ hung = 0 /\ reading = 0 /\ inbound > 0 /\ hung' = 1
    /\ UNCHANGED <<inbound, reading, call, consumed, produced, age, sendVars, chan, hostVars, lost>>

-----------------------------------------------------------------------------
(* The heartbeat sender.                                                   *)

Capped(n, bound) == IF n < bound THEN n + 1 ELSE n

Pass ==
    /\ phase' = (phase + 1) % Cadence /\ tick' = (IF phase' = 0 THEN 1 ELSE tick)
    /\ age' = [built |-> Capped(age.built, MinSpacing), consume |-> Capped(age.consume, Window),
               produce |-> Capped(age.produce, Window)]
    /\ UNCHANGED <<dataVars, loading, seq, msg, run, chan, hostVars, lost>>

TooSoon == seq > 0 /\ age.built < MinSpacing

\* the spacing guard: a caught-up tick is skipped and takes no Sequence
Tick ==
    /\ loading = "wait" /\ tick = 1 /\ tick' = 0
    /\ IF TooSoon THEN UNCHANGED <<loading, seq, msg, age>>
       ELSE /\ seq < MaxSeq /\ seq' = seq + 1 /\ age' = [age EXCEPT !.built = 0] /\ loading' = "consumed"
            /\ msg' = [msg EXCEPT !.seq = seq + 1]
    /\ UNCHANGED <<dataVars, phase, run, chan, hostVars, lost>>

Load(from, to, beat) ==
    /\ loading = from /\ loading' = to /\ msg' = beat
    /\ UNCHANGED <<dataVars, phase, tick, age, seq, run, chan, hostVars, lost>>

LoadConsumed ==
    Load("consumed", "readable", [msg EXCEPT !.consumed = consumed, !.whole.transport = age.consume \div Window,
        !.run = [transport |-> IF consumed = msg.consumed THEN run.transport + 1 ELSE 0,
                 dispatch |-> run.dispatch + 1], !.hung = hung])

LoadReadable == Load("readable", "bounded", [msg EXCEPT !.readable = IF inbound > 0 THEN 1 ELSE 0])

LoadBounded == Load("bounded", "produced", [msg EXCEPT !.bounded = reading])

LoadProduced ==
    Load("produced", "leases", [msg EXCEPT !.produced = produced, !.whole.dispatch = age.produce \div Window,
        !.run.dispatch = IF produced = msg.produced THEN @ ELSE 0])

\* SnapshotWithObligations: one lock, the obligations with no lease
LoadLeases ==
    LET owed == IF call \in {"owed", "returned"} THEN 1 ELSE 0 IN
    Load("leases", "send", [msg EXCEPT !.owed = owed,
        !.run.transport = IF msg.readable = 1 /\ msg.bounded = 0 THEN @ ELSE 0,
        !.run.dispatch = IF owed = 1 THEN @ ELSE 0])

\* what the next beat is compared with
Numbers(beat) == [Blank EXCEPT !.seq = beat.seq, !.consumed = beat.consumed, !.produced = beat.produced]

\* a failed send keeps its Sequence
Send ==
    /\ loading = "send" /\ loading' = "wait" /\ run' = msg.run /\ msg' = Numbers(msg)
    /\ \/ Len(chan) < Backlog /\ chan' = Append(chan, msg) /\ UNCHANGED lost
       \/ lost < MaxLost /\ lost' = lost + 1 /\ UNCHANGED chan
    /\ UNCHANGED <<dataVars, phase, tick, age, seq, hostVars>>

-----------------------------------------------------------------------------
(* The host's heartbeat loop.                                              *)

\* the wedge kind of a pair of samples ("none": healthy or overloaded)
Classify(before, beat) ==
    IF beat.consumed = before.consumed /\ beat.readable = 1 /\ beat.bounded = 0 THEN "transport"
    ELSE IF beat.produced = before.produced /\ beat.owed = 1 THEN "dispatch" ELSE "none"

ObserveAnyKind(w, kind, s) ==
    LET t == IF w.last # 0 /\ s # w.last + 1 THEN Cleared ELSE w IN
    IF kind = "none" THEN Cleared
    ELSE IF t.kind = "none" THEN [kind |-> kind, anchor |-> s, last |-> s, fired |-> 0]
    ELSE [t EXCEPT !.last = s, !.kind = kind, !.fired = IF s - t.anchor >= WindowBeats THEN 1 ELSE 0]

\* wedgeTracker.observe
Observe(w, kind, s) ==
    LET t == IF w.last # 0 /\ s # w.last + 1 THEN Cleared ELSE w IN
    IF kind = "none" THEN Cleared
    ELSE IF t.kind # kind THEN [kind |-> kind, anchor |-> s, last |-> s, fired |-> 0]
    ELSE [t EXCEPT !.last = s, !.fired = IF s - t.anchor >= WindowBeats THEN 1 ELSE 0]

Recv ==
    /\ chan # <<>> /\ chan' = Tail(chan) /\ prev' = Numbers(Head(chan))
    /\ LET beat == Head(chan)
           kind == Classify(prev, beat)
       IN  /\ tracker' = (IF prev.seq = 0 THEN tracker ELSE Observe(tracker, kind, beat.seq))
           /\ verdict' = (IF tracker'.fired = 1 THEN [kind |-> kind, beat |-> beat] ELSE verdict)
           /\ seen' = (IF beat.hung = 0 THEN 0
                       ELSE IF seen = 0 \/ beat.seq = prev.seq + 1 THEN seen + 1 ELSE 1)
    /\ UNCHANGED <<dataVars, age, sendVars, lost, reloads>>

\* a beat at which a reload is serviced: rolled back, or committed to a successor
RecvReload ==
    /\ chan # <<>> /\ reloads < MaxReloads /\ reloads' = reloads + 1
    /\ prev' = Blank /\ tracker' = Cleared /\ seen' = 0
    /\ \/ FreshPlugin
       \/ chan' = Tail(chan) /\ UNCHANGED <<dataVars, age, sendVars>>
    /\ UNCHANGED <<verdict, lost>>

\* a verdict ends the instance
Next ==
    /\ verdict.kind = "none" /\ UNCHANGED course
    /\ \/ Arrive \/ Consume \/ BeginRead \/ EndRead \/ Handle \/ Respond \/ StreamSend \/ Hang
       \/ Pass \/ Tick \/ LoadConsumed \/ LoadReadable \/ LoadBounded \/ LoadProduced \/ LoadLeases \/ Send
       \/ Recv \/ RecvReload

Spec == Init /\ [][Next]_vars

-----------------------------------------------------------------------------
(* Properties.                                                             *)

\* Every variable stays in its range; the tracker never anchors past the last beat it saw.
TypeOK ==
    /\ {inbound, reading, hung, tick} \subseteq {0, 1} /\ call \in {"none", "owed", "leased", "returned"}
    /\ consumed \in 0 .. MaxIn /\ produced \in 0 .. MaxOut /\ seq \in 0 .. MaxSeq /\ phase \in 0 .. Cadence - 1
    /\ loading \in {"wait", "consumed", "readable", "bounded", "produced", "leases", "send"}
    /\ Len(chan) <= Backlog /\ tracker.kind \in {"none", "transport", "dispatch"} /\ tracker.anchor <= tracker.last
    /\ \A i \in DOMAIN chan : chan[i].seq \in 1 .. seq

\* A verdict is never early: when the tracker fires, the counter it accuses has stood still for
\* at least the wedge window of real sender time, whatever the ticker's catching up, the skew
\* between the snapshot's loads, and the host's own delays.
VerdictProven ==
    verdict.kind # "none" => verdict.beat.whole[verdict.kind] = 1

\* A verdict rests on an unbroken stall: every beat built since the anchor showed the same
\* condition, those that never reached the host included.
VerdictContinuous ==
    verdict.kind # "none" => verdict.beat.run[verdict.kind] >= WindowBeats + 1

\* A consumer that hangs with work queued is caught: the host never sees more than
\* WindowBeats + 1 adjacent beats of it without a verdict.
HangCaught == seen > WindowBeats + 1 => verdict.kind # "none"

=============================================================================
