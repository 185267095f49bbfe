---------------------------- MODULE StdioCapture ----------------------------
(* The capture of a plugin's stdout and stderr: per stream a reader that       *)
(* never blocks on the Sink, a bounded queue and a delivery goroutine nobody  *)
(* joins; the tail a crash reason is built from; and the supervisor that      *)
(* reports drops and Sink panics while it serves and once more at the end.    *)
(* Two captures live in sequence after a crash, side by side in a reload.     *)
EXTENDS Integers, Sequences, FiniteSets

CONSTANTS
    Streams,        \* the captured streams; "stderr" feeds the tail
    bufferLines,    \* the queue of one stream
    stderrTailLines,\* lines the tail keeps
    Outputs         \* plans: [lines, sink, inherited, course]

Captures == 1 .. 2
Ends == Captures \X Streams

VARIABLES
    output,     \* lines each plugin writes, whether there is a Sink, whether a grandchild keeps the pipe; never changes
    wrote,      \* lines each plugin has written
    exited,     \* plugins that are gone
    taken,      \* lines each reader has taken
    reading,     \* "off", "run" or "done"
    queue,      \* lines waiting for the Sink
    deliver,    \* what each delivery goroutine does: [at, line]
    delivered,  \* lines the Sink has accepted
    dropped, panicked,
    tail,       \* the stderr lines kept
    phase,      \* where each capture's instance is
    late,       \* captures whose drain wait expired
    serving,    \* the capture of the instance the heartbeat loop serves, 0 when it serves none
    baseline,   \* what the loop last read: [capture, dropped, panicked]
    reported    \* what the hooks were told, per capture and stream
capVars == <<output, wrote, exited, taken, reading, queue, deliver, delivered, dropped, panicked, tail, phase, late,
             serving, baseline, reported>>

zero == [st \in Streams |-> 0]
noBaseline == [capture |-> 0, dropped |-> zero, panicked |-> zero]

Init ==
    /\ output \in Outputs
    /\ wrote = [e \in Ends |-> 0] /\ exited = {} /\ taken = [e \in Ends |-> 0]
    /\ reading = [e \in Ends |-> IF e[1] = 1 THEN "run" ELSE "off"]
    /\ queue = [e \in Ends |-> <<>>] /\ delivered = [e \in Ends |-> <<>>]
    /\ deliver = [e \in Ends |-> [at |-> IF e[1] = 1 /\ output.sink THEN "run" ELSE "off", line |-> 0]]
    /\ dropped = [e \in Ends |-> 0] /\ panicked = [e \in Ends |-> 0]
    /\ tail = [c \in Captures |-> <<>>]
    /\ phase = [c \in Captures |-> IF c = 1 THEN "live" ELSE "unborn"] /\ late = {}
    /\ serving = 1 /\ baseline = noBaseline
    /\ reported = [c \in Captures |-> [dropped |-> zero, panicked |-> zero]]

(* ---- the plugin ---- *)

PluginWrites(e) ==
    /\ phase[e[1]] \in {"live", "ending"} /\ e[1] \notin exited /\ wrote[e] < output.lines[e[1]]
    /\ wrote' = [wrote EXCEPT ![e] = @ + 1]
    /\ UNCHANGED <<output, exited, taken, reading, queue, deliver, delivered, dropped, panicked, tail, phase, late,
                   serving, baseline, reported>>

PluginExits(c) ==
    /\ phase[c] \in {"live", "ending"} /\ c \notin exited /\ exited' = exited \cup {c}
    /\ UNCHANGED <<output, wrote, taken, reading, queue, deliver, delivered, dropped, panicked, tail, phase, late,
                   serving, baseline, reported>>

(* ---- the readers and the Sink ---- *)

LastOf(s, n) == SubSeq(s, IF Len(s) > n THEN Len(s) - n + 1 ELSE 1, Len(s))

\* tailSink.WriteLine
Tap(c, st, line) ==
    tail' = IF st = "stderr" THEN [tail EXCEPT ![c] = LastOf(Append(@, line), stderrTailLines)] ELSE tail

\* One line: the tap first, then the queue, or the drop counter when the queue is full.
ReadLine(e) ==
    LET line == taken[e] + 1
        room == Len(queue[e]) < bufferLines
    IN /\ reading[e] = "run" /\ taken[e] < wrote[e]
       /\ taken' = [taken EXCEPT ![e] = line] /\ Tap(e[1], e[2], line)
       /\ queue' = IF output.sink /\ room THEN [queue EXCEPT ![e] = Append(@, line)] ELSE queue
       /\ dropped' = IF output.sink /\ ~room THEN [dropped EXCEPT ![e] = @ + 1] ELSE dropped
       /\ UNCHANGED <<output, wrote, exited, reading, deliver, delivered, panicked, phase, late, serving, baseline, reported>>

\* End of file once every writer is gone, or the error of a read end closed under the reader.
ReadEnds(e) ==
    /\ reading[e] = "run"
    /\ \/ taken[e] = wrote[e] /\ e[1] \in exited /\ ~output.inherited
       \/ phase[e[1]] = "closed"
    /\ reading' = [reading EXCEPT ![e] = "done"]
    /\ UNCHANGED <<output, wrote, exited, taken, queue, deliver, delivered, dropped, panicked, tail, phase, late,
                   serving, baseline, reported>>

\* The delivery goroutine takes a line, or ends: its queue is closed and empty, or its context is canceled.
DeliverLoop(e) ==
    /\ deliver[e].at = "run"
    /\ \/ /\ queue[e] # <<>> /\ queue' = [queue EXCEPT ![e] = Tail(@)]
          /\ deliver' = [deliver EXCEPT ![e] = [at |-> "write", line |-> Head(queue[e])]]
       \/ /\ (queue[e] = <<>> /\ reading[e] = "done") \/ phase[e[1]] \notin {"unborn", "live"}
          /\ deliver' = [deliver EXCEPT ![e].at = "done"] /\ UNCHANGED queue
    /\ UNCHANGED <<output, wrote, exited, taken, reading, delivered, dropped, panicked, tail, phase, late, serving,
                   baseline, reported>>

\* The Sink returns, or panics and is counted; it may also never return.
DeliverLine(e) ==
    /\ deliver[e].at = "write" /\ deliver' = [deliver EXCEPT ![e] = [at |-> "run", line |-> 0]]
    /\ \/ delivered' = [delivered EXCEPT ![e] = Append(@, deliver[e].line)] /\ UNCHANGED panicked
       \/ panicked' = [panicked EXCEPT ![e] = @ + 1] /\ UNCHANGED delivered
    /\ UNCHANGED <<output, wrote, exited, taken, reading, queue, dropped, tail, phase, late, serving, baseline, reported>>

(* ---- the supervisor ---- *)

deltaSinceBaseline(now, last) == IF now < last THEN now ELSE now - last

\* A capture the baseline does not name starts from that capture's own zero.
rebased(b, c) == IF b.capture = c THEN b ELSE [noBaseline EXCEPT !.capture = c]
reportStdio(c, b) ==
    [c2 \in Captures |->
        IF c2 # c THEN reported[c2]
        ELSE [dropped |-> [st \in Streams |->
                  reported[c].dropped[st] + deltaSinceBaseline(dropped[<<c, st>>], rebased(b, c).dropped[st])],
              panicked |-> [st \in Streams |->
                  reported[c].panicked[st] + deltaSinceBaseline(panicked[<<c, st>>], rebased(b, c).panicked[st])]]]
read(c) == [capture |-> c, dropped |-> [st \in Streams |-> dropped[<<c, st>>]],
            panicked |-> [st \in Streams |-> panicked[<<c, st>>]]]

\* Every iteration of the heartbeat loop; a reload runs inside the loop, so there is none until it settled.
HeartbeatSamples ==
    /\ serving # 0
    /\ phase[serving] = "live"
    /\ serving = 2 \/ phase[2] \in {"unborn", "over"}
    /\ reported' = reportStdio(serving, baseline) /\ baseline' = read(serving)
    /\ reported' # reported \/ baseline' # baseline
    /\ UNCHANGED <<output, wrote, exited, taken, reading, queue, deliver, delivered, dropped, panicked, tail, phase,
                   late, serving>>

\* A reload starts its successor beside the served instance; a restart starts it once that one is over.
NewLiveInstance ==
    /\ phase[2] = "unborn"
    /\ IF output.course = "restart" THEN phase[1] = "over" /\ serving' = 2 /\ baseline' = noBaseline
       ELSE phase[1] = "live" /\ UNCHANGED <<serving, baseline>>
    /\ phase' = [phase EXCEPT ![2] = "live"]
    /\ reading' = [e \in Ends |-> IF e[1] = 2 THEN "run" ELSE reading[e]]
    /\ deliver' = [e \in Ends |-> IF e[1] = 2 /\ output.sink THEN [at |-> "run", line |-> 0] ELSE deliver[e]]
    /\ UNCHANGED <<output, wrote, exited, taken, queue, delivered, dropped, panicked, tail, late, reported>>

\* Which instance ends next: the retired one or the successor of a reload, then whatever is served.
mayEnd(c) ==
    CASE output.course = "reload" -> c = 1 \/ phase[1] = "over"
      [] output.course = "rollback" -> IF c = 1 THEN phase[2] \in {"unborn", "over"} ELSE TRUE
      [] OTHER -> TRUE

\* teardown: cancel the delivery, reap the child, drain, close the pipes, join the readers.
CancelCapture(c) == phase[c] = "live" /\ mayEnd(c) /\ phase' = [phase EXCEPT ![c] = "ending"] /\ UNCHANGED <<exited, late>>
Reap(c) == phase[c] = "ending" /\ phase' = [phase EXCEPT ![c] = "reaped"] /\ exited' = exited \cup {c} /\ UNCHANGED late
drained(c) == \A st \in Streams : reading[<<c, st>>] = "done"

\* The read ends close after the readers finished, or when the bound on that wait expires.
DrainThenCloseStdio(c) ==
    /\ phase[c] = "reaped" /\ phase' = [phase EXCEPT ![c] = "closed"] /\ UNCHANGED exited
    /\ \/ drained(c) /\ UNCHANGED late
       \/ ~drained(c) /\ late' = late \cup {c}

Teardown(c) ==
    /\ CancelCapture(c) \/ Reap(c) \/ DrainThenCloseStdio(c)
    /\ UNCHANGED <<output, wrote, taken, reading, queue, deliver, delivered, dropped, panicked, tail, serving, baseline,
                   reported>>

\* Mutant: only an instance some heartbeat already sampled is reported.
ReportFinalStdioSampledOnly(c) ==
    /\ phase[c] = "closed" /\ drained(c) /\ phase' = [phase EXCEPT ![c] = "over"]
    /\ reported' = IF baseline.capture = c THEN reportStdio(c, baseline) ELSE reported
    /\ baseline' = read(c) /\ serving' = IF output.course = "reload" /\ c = 1 THEN (IF phase[2] = "live" THEN 2 ELSE 0) ELSE 0
    /\ UNCHANGED <<output, wrote, exited, taken, reading, queue, deliver, delivered, dropped, panicked, tail, late>>

\* The readers are joined, so the drop counts are final; a successor that never served has a baseline of its own.
ReportFinalStdio(c) ==
    /\ phase[c] = "closed" /\ drained(c) /\ phase' = [phase EXCEPT ![c] = "over"]
    /\ IF output.course = "rollback" /\ c = 2
       THEN reported' = reportStdio(c, noBaseline) /\ UNCHANGED <<serving, baseline>>
       ELSE /\ reported' = reportStdio(c, baseline) /\ baseline' = read(c)
            /\ serving' = IF output.course = "reload" /\ c = 1 THEN (IF phase[2] = "live" THEN 2 ELSE 0) ELSE 0
    /\ UNCHANGED <<output, wrote, exited, taken, reading, queue, deliver, delivered, dropped, panicked, tail, late>>

Next ==
    \/ \E e \in Ends : PluginWrites(e) \/ ReadLine(e) \/ ReadEnds(e) \/ DeliverLoop(e) \/ DeliverLine(e)
    \/ \E c \in Captures : PluginExits(c) \/ Teardown(c) \/ ReportFinalStdio(c)
    \/ HeartbeatSamples \/ NewLiveInstance
Spec == Init /\ [][Next]_capVars

(* ---- properties ---- *)

TypeOK ==
    /\ output \in Outputs /\ exited \subseteq Captures /\ late \subseteq Captures /\ serving \in 0 .. 2
    /\ \A e \in Ends : reading[e] \in {"off", "run", "done"} /\ Len(queue[e]) <= bufferLines

\* A line the reader took is in one place: delivered, with the Sink, queued, panicked over or counted
\* as dropped, and lines reach the Sink in the order they were written (readLoop, deliverLoop).
EveryLineAccounted ==
    /\ output.sink => \A e \in Ends :
          taken[e] = Len(delivered[e]) + panicked[e] + dropped[e] + Len(queue[e])
                         + (IF deliver[e].at = "write" THEN 1 ELSE 0)
    /\ \A e \in Ends : \A i, j \in 1 .. Len(delivered[e]) : i < j => delivered[e][i] < delivered[e][j]

\* Every drop is reported exactly once by the time its instance is over, whichever of restart, reload
\* and rollback ended it, and never before it happened (reportStdioDropped, reportFinalStdio).
DropsReportedOnce ==
    \A c \in Captures, st \in Streams :
        /\ reported[c].dropped[st] <= dropped[<<c, st>>] /\ reported[c].panicked[st] <= panicked[<<c, st>>]
        /\ phase[c] = "over" => reported[c].dropped[st] = dropped[<<c, st>>]

\* The crash tail holds the plugin's last words: unless the drain wait expired, the last stderr lines it
\* wrote before it was reaped, however slow or full the Sink is (drainThenCloseStdio, tailSink).
TailHoldsLastWords ==
    \A c \in Captures \ late :
        phase[c] \in {"closed", "over"} /\ "stderr" \in Streams =>
            tail[c] = LastOf([i \in 1 .. wrote[<<c, "stderr">>] |-> i], stderrTailLines)

\* The three together, with the type of the state.
StdioAccounted == TypeOK /\ EveryLineAccounted /\ DropsReportedOnce /\ TailHoldsLastWords
=============================================================================
