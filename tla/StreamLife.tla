----------------------------- MODULE StreamLife -----------------------------
(***************************************************************************)
(* The life of one stream at both of its ends (src/stream.go and           *)
(* internal/rpcruntime): OpenStream with its pre-send window, half-closes, *)
(* the terminal transition and its finisher, the lifecycle-submission      *)
(* token shared with the ack dispatcher, the STREAM_ERR emitter, the       *)
(* detached teardown an opener owes, the plugin's terminal obligation and  *)
(* the table's close.  Message flow is in StreamFlow.                      *)
(***************************************************************************)
EXTENDS Naturals, Sequences, FiniteSets

CONSTANT
    Plans       \* what may happen around the stream in one behaviour

ASSUME StreamLifeAssumption == Plans \subseteq [drops : Nat, failures : {0, 1}, acks : Nat]

Sides == {"c", "s"}
Peer(x) == IF x = "c" THEN "s" ELSE "c"

VARIABLES
    phase,      \* phase[x]: the stream's phase at x ("none": not in x's table yet)
    presend,    \* openSendPending, at the client
    bits,       \* close bits at x
    owes,       \* 1: teardownCode # 0, x's terminal was initiated locally
    token,      \* the lifecycle-submission token
    fin,        \* where finishTerminal is at x
    opc,        \* where the client's OpenStream is
    openQ,      \* 1: an OPEN of unknown acceptance is still in the writer's data lane
    owed,       \* where the detached sender of EmitOwedOpenTeardown is
    apc,        \* where x's application is in CloseSend
    dpc, acks,  \* where x's ack dispatcher is; acks it served
    emitQ,      \* x's queued STREAM_ERRs; 1: the obligation is kept
    obl, told,  \* the plugin's obligation; 1: a terminal frame or CLOSE was submitted
    wire,       \* frames in flight from x
    conn,       \* "up" or "failed"
    tpc,        \* where x's StreamTable.Close is
    drops,      \* emitter overflows so far
    plan        \* the plan at hand

endVars == <<phase, presend, bits, owes>>
openVars == <<opc, openQ, owed>>
ackVars == <<dpc, acks>>
oblVars == <<obl, told>>
connVars == <<conn, tpc>>
vars == <<endVars, token, fin, openVars, apc, ackVars, emitQ, oblVars, wire, connVars, drops, plan>>

Drops == plan.drops         \* times the emitter's queue may be found full (other streams' jobs)
Failures == plan.failures   \* 1: the connection may fail
Acks == plan.acks           \* acks each side's dispatcher may serve

Live(x) == phase[x] \in {"submitted", "published"}
Terminal(x) == phase[x] \in {"completed", "canceled", "observed", "failed", "crashed"}

StateTypes ==
    /\ phase \in [Sides -> {"none", "submitted", "published", "completed", "canceled", "observed",
                            "failed", "crashed"}]
    /\ presend \in {0, 1} /\ bits \in [Sides -> SUBSET {"local", "remote"}]
    /\ owes \in [Sides -> {0, 1}]
    /\ token \in [Sides -> {"idle", "ack", "cancelOwed", "terminal"}]
    /\ fin \in [Sides -> {"none", "claim", "cancel", "emit", "emitKeep", "oblige", "close", "done"}]
    /\ opc \in {"admit", "publish", "send", "confirm", "ambiguous", "discard", "wait", "owed", "returned"}
    /\ openQ \in {0, 1} /\ owed \in {"none", "claim", "cancel", "emit", "done"}
    /\ apc \in [Sides -> {"open", "bit", "check", "closed"}]
    /\ dpc \in [Sides -> {"idle", "take", "release", "cancel", "oblige"}]
    /\ acks \in [Sides -> 0 .. Acks] /\ obl \in {0, 1} /\ told \in {0, 1}
    /\ conn \in {"up", "failed"} /\ tpc \in [Sides -> {"open", "failing", "join", "joined"}]
    /\ plan \in Plans /\ drops \in 0 .. Drops
TrafficTypes ==
    /\ emitQ \in [Sides -> Seq({0, 1})] /\ wire \in [Sides -> Seq({"open", "close", "err", "cancel"})]
    /\ (conn = "failed" => \A x \in Sides : wire[x] = <<>>)
TypeOK == StateTypes /\ TrafficTypes

Init ==
    /\ phase = [x \in Sides |-> "none"] /\ presend = 0 /\ bits = [x \in Sides |-> {}]
    /\ owes = [x \in Sides |-> 0] /\ token = [x \in Sides |-> "idle"]
    /\ fin = [x \in Sides |-> "none"] /\ opc = "admit" /\ openQ = 0 /\ owed = "none"
    /\ apc = [x \in Sides |-> "open"] /\ dpc = [x \in Sides |-> "idle"]
    /\ acks = [x \in Sides |-> 0] /\ emitQ = [x \in Sides |-> <<>>]
    /\ obl = 0 /\ told = 0 /\ wire = [x \in Sides |-> <<>>]
    /\ conn = "up" /\ tpc = [x \in Sides |-> "open"] /\ drops = 0 /\ plan \in Plans

\* A frame handed to the transport goes out only while the connection is up.
Put(x, f) ==
    wire' = IF conn = "up" THEN [wire EXCEPT ![x] = Append(@, f)] ELSE wire

\* A connection that fails loses what is in flight.
Fail == conn' = "failed" /\ wire' = [x \in Sides |-> <<>>]

\* The plugin has submitted the frame that ends its side, or tried to.
Tell(x) == told' = IF x = "s" THEN 1 ELSE told

\* casTerminal under the stream's lock: the winner records the outcome, the teardown
\* code and whether the OPEN is still unconfirmed; its finisher skips the wire then.
Terminate(x, to, local) ==
    /\ phase' = [phase EXCEPT ![x] = to] /\ owes' = [owes EXCEPT ![x] = local]
    /\ fin' = [fin EXCEPT ![x] = IF x = "c" /\ presend = 1 THEN "oblige" ELSE "claim"]

-----------------------------------------------------------------------------
(* OpenStream at the client.                                               *)

openFrame == <<bits, token, apc, ackVars, emitQ, oblVars, connVars, drops>>

\* OpenClient: into the table, with the deadline watcher running.
OpenClient ==
    /\ opc = "admit" /\ tpc["c"] = "open"
    /\ phase' = [phase EXCEPT !["c"] = "submitted"] /\ presend' = 1 /\ opc' = "publish"
    /\ UNCHANGED <<openFrame, owes, fin, openQ, owed, wire>>

\* Publish, or return the outcome of a stream that ended first.
Publish ==
    /\ opc = "publish"
    /\ \/ /\ phase["c"] = "submitted" /\ phase' = [phase EXCEPT !["c"] = "published"]
          /\ opc' = "send"
       \/ Terminal("c") /\ opc' = "wait" /\ UNCHANGED phase
    /\ UNCHANGED <<openFrame, presend, owes, fin, openQ, owed, wire>>

\* The OPEN's Send: accepted, refused, or given up on by the context while the writer
\* still holds it.
SendOpen ==
    /\ opc = "send"
    /\ \/ conn = "up" /\ Put("c", "open") /\ opc' = "confirm" /\ UNCHANGED openQ
       \/ opc' = "discard" /\ UNCHANGED <<wire, openQ>>
       \/ openQ' = 1 /\ opc' = "ambiguous" /\ UNCHANGED wire
    /\ UNCHANGED <<openFrame, endVars, fin, owed>>

\* The writer reaches the OPEN its caller gave up on.
PublishLate ==
    /\ openQ = 1 /\ openQ' = 0 /\ Put("c", "open")
    /\ UNCHANGED <<openFrame, endVars, fin, opc, owed>>

\* ConfirmOpenSent under the stream's lock: the stream is handed out, or a terminal won
\* while the OPEN was being sent and its teardown is still owed.
ConfirmOpenSent ==
    /\ opc = "confirm"
    /\ \/ phase["c"] = "published" /\ presend' = 0 /\ opc' = "returned"
       \/ Terminal("c") /\ opc' = "owed" /\ UNCHANGED presend
    /\ UNCHANGED <<openFrame, phase, owes, fin, openQ, owed, wire>>

\* resolveOpenSendFailure: DiscardUnaccepted of a refused OPEN, TerminateOpenAmbiguous of
\* one that may still go out.
ResolveOpenSendFailure ==
    /\ opc \in {"discard", "ambiguous"}
    /\ IF ~Live("c") THEN UNCHANGED <<phase, owes, fin>>
       ELSE IF opc = "discard" THEN Terminate("c", "crashed", 0) ELSE Terminate("c", "canceled", 1)
    /\ opc' = IF opc = "discard" THEN "wait" ELSE "owed"
    /\ UNCHANGED <<openFrame, presend, openQ, owed, wire>>

\* Mutant: the opener returns and leaves the teardown to the finisher.
EmitOwedOpenTeardownSkipped ==
    /\ opc \in {"wait", "owed"} /\ fin["c"] = "done" /\ opc' = "returned"
    /\ UNCHANGED <<openFrame, endVars, fin, openQ, wire, owed>>

\* The opener waits for the outcome; a local one makes it start the detached sender,
\* unless the table is closing.
EmitOwedOpenTeardown ==
    /\ opc \in {"wait", "owed"} /\ fin["c"] = "done" /\ opc' = "returned"
    /\ owed' = IF opc = "owed" /\ owes["c"] = 1 /\ tpc["c"] = "open" THEN "claim" ELSE owed
    /\ UNCHANGED <<openFrame, endVars, fin, openQ, wire>>

-----------------------------------------------------------------------------
(* Local terminals, the finisher and the token.                            *)

\* The deadline watcher, a canceled context or a failed send ends a live stream.  The
\* plugin's watcher starts once the stream is published.
TerminateLocal(x) ==
    /\ Live(x) /\ (x = "s" => phase[x] = "published") /\ Terminate(x, "canceled", 1)
    /\ UNCHANGED <<presend, bits, token, openVars, apc, ackVars, emitQ, oblVars, wire, connVars,
                   drops>>

\* TerminateHandlerError: the plugin's handler returned an error.
TerminateHandlerError ==
    /\ phase["s"] = "published" /\ Terminate("s", "failed", 0)
    /\ UNCHANGED <<presend, bits, token, openVars, apc, ackVars, emitQ, oblVars, wire, connVars,
                   drops>>

\* claimTerminalToken spins unless the token is free or lent to an ack.
Claim(x, needCancel) ==
    /\ token[x] \in {"idle", "ack"}
    /\ token' = [token EXCEPT ![x] = IF @ = "ack" /\ needCancel THEN "cancelOwed" ELSE "terminal"]

finFrame == <<endVars, openVars, apc, ackVars, connVars>>

\* finishTerminal's first half: a terminal the peer does not know of is announced.
FinishClaim(x) ==
    /\ fin[x] = "claim" /\ Claim(x, owes[x] = 1)
    /\ fin' = [fin EXCEPT ![x] = IF owes[x] = 0 THEN (IF phase[x] = "failed" THEN "emit" ELSE "oblige")
                                 ELSE IF token[x] = "idle" THEN "cancel" ELSE "emitKeep"]
    /\ UNCHANGED <<finFrame, emitQ, oblVars, wire, drops>>

\* sendTeardownCancel; a CANCEL that cannot be published on a live connection fails it.
SendCancel(x) ==
    \/ Put(x, "cancel") /\ Tell(x) /\ UNCHANGED <<conn, obl>>
    \/ Failures = 1 /\ Fail /\ Tell(x) /\ UNCHANGED obl

FinishCancel(x) ==
    /\ fin[x] = "cancel" /\ SendCancel(x) /\ fin' = [fin EXCEPT ![x] = "emit"]
    /\ UNCHANGED <<endVars, token, openVars, apc, ackVars, emitQ, tpc, drops>>

\* enqueueEmit: queued, or the queue is full.
Enqueue(x, keep, queued) ==
    \/ queued /\ emitQ' = [emitQ EXCEPT ![x] = Append(@, keep)] /\ UNCHANGED drops
    \/ ~queued /\ drops < Drops /\ drops' = drops + 1 /\ UNCHANGED emitQ

\* Mutant: the finisher closes the obligation although an ack still owes the CANCEL.
FinishEmitEager(x) ==
    /\ fin[x] \in {"emit", "emitKeep"}
    /\ \E queued \in BOOLEAN :
         /\ Enqueue(x, IF fin[x] = "emitKeep" THEN 1 ELSE 0, queued)
         /\ fin' = [fin EXCEPT ![x] = IF owes[x] = 0 /\ queued THEN "close" ELSE "oblige"]
    /\ UNCHANGED <<finFrame, token, oblVars, wire>>

\* The STREAM_ERR.  The obligation stays open for the emitter (a handler error) or for
\* the ack that owes the CANCEL; otherwise the finisher closes it.
FinishEmit(x) ==
    /\ fin[x] \in {"emit", "emitKeep"}
    /\ \E queued \in BOOLEAN :
         /\ Enqueue(x, IF fin[x] = "emitKeep" THEN 1 ELSE 0, queued)
         /\ fin' = [fin EXCEPT ![x] = IF fin[x] = "emitKeep" \/ (owes[x] = 0 /\ queued)
                                      THEN "close" ELSE "oblige"]
    /\ UNCHANGED <<finFrame, token, oblVars, wire>>

CloseObligation(x) == obl' = IF x = "s" THEN 0 ELSE obl

FinishOblige(x) ==
    /\ fin[x] = "oblige" /\ CloseObligation(x) /\ fin' = [fin EXCEPT ![x] = "close"]
    /\ UNCHANGED <<finFrame, token, emitQ, told, wire, drops>>

\* The stream is done and leaves the table.
FinishClose(x) ==
    /\ fin[x] = "close" /\ fin' = [fin EXCEPT ![x] = "done"]
    /\ UNCHANGED <<finFrame, token, emitQ, oblVars, wire, drops>>

\* The emitter goroutine: a data-lane frame, behind an OPEN that is still queued there.
Emit(x) ==
    /\ emitQ[x] # <<>> /\ tpc[x] # "joined" /\ (x = "c" => openQ = 0)
    /\ emitQ' = [emitQ EXCEPT ![x] = Tail(@)] /\ Put(x, "err") /\ Tell(x)
    /\ obl' = IF x = "s" /\ Head(emitQ[x]) = 0 THEN 0 ELSE obl
    /\ UNCHANGED <<endVars, token, fin, openVars, apc, ackVars, connVars, drops>>

\* The detached sender: CANCEL, then the STREAM_ERR that must not be lost.
OwedStep ==
    \/ /\ owed = "claim" /\ Claim("c", TRUE)
       /\ owed' = (IF token["c"] = "idle" THEN "cancel" ELSE "emit")
       /\ UNCHANGED <<emitQ, oblVars, wire, conn, drops>>
    \/ /\ owed = "cancel" /\ SendCancel("c") /\ owed' = "emit"
       /\ UNCHANGED <<token, emitQ, drops>>
    \/ /\ owed = "emit" /\ owed' = "done"
       /\ \E queued \in BOOLEAN :
            /\ Enqueue("c", 0, queued)
            /\ IF ~queued /\ tpc["c"] = "open" THEN Fail ELSE UNCHANGED <<conn, wire>>
       /\ UNCHANGED <<token, oblVars>>

OwedTeardown ==
    OwedStep /\ UNCHANGED <<endVars, fin, opc, openQ, apc, ackVars, tpc>>

-----------------------------------------------------------------------------
(* The ack dispatcher's use of the token.                                  *)

ackFrame == <<endVars, fin, openVars, apc, emitQ, tpc, drops>>

\* runAckDispatch: the stream was live when looked at; the token may be gone when asked.
AckTake(x) ==
    /\ \/ dpc[x] = "idle" /\ Live(x) /\ acks[x] < Acks /\ tpc[x] # "joined"
          /\ dpc' = [dpc EXCEPT ![x] = "take"]
          /\ acks' = [acks EXCEPT ![x] = @ + 1] /\ UNCHANGED token
       \/ dpc[x] = "take" /\ token[x] = "idle" /\ token' = [token EXCEPT ![x] = "ack"]
          /\ dpc' = [dpc EXCEPT ![x] = "release"] /\ UNCHANGED acks
       \/ dpc[x] = "take" /\ token[x] # "idle" /\ dpc' = [dpc EXCEPT ![x] = "idle"]
          /\ UNCHANGED <<token, acks>>
    /\ UNCHANGED <<ackFrame, oblVars, wire, conn>>

\* releaseAckToken, after the ack's Send: give the token back, or find a CANCEL owed.
AckRelease(x) ==
    /\ dpc[x] = "release"
    /\ \/ token[x] = "ack" /\ token' = [token EXCEPT ![x] = "idle"]
          /\ dpc' = [dpc EXCEPT ![x] = "idle"]
       \/ token[x] = "cancelOwed" /\ token' = [token EXCEPT ![x] = "terminal"]
          /\ dpc' = [dpc EXCEPT ![x] = "cancel"]
       \/ token[x] = "terminal" /\ dpc' = [dpc EXCEPT ![x] = "idle"] /\ UNCHANGED token
    /\ UNCHANGED <<ackFrame, acks, oblVars, wire, conn>>

AckCancel(x) ==
    /\ \/ dpc[x] = "cancel" /\ SendCancel(x) /\ dpc' = [dpc EXCEPT ![x] = "oblige"]
       \/ /\ dpc[x] = "oblige" /\ CloseObligation(x) /\ dpc' = [dpc EXCEPT ![x] = "idle"]
          /\ UNCHANGED <<wire, conn, told>>
    /\ UNCHANGED <<ackFrame, acks, token>>

-----------------------------------------------------------------------------
(* Half-close.                                                             *)

BothClosed(x) == bits[x] = {"local", "remote"}
closeFrame == <<presend, token, openVars, ackVars, emitQ, connVars, drops>>

\* CloseSend: the frame, then the local bit (and the obligation), then the test.
CloseSend(x) ==
    /\ \/ /\ apc[x] = "open" /\ phase[x] = "published" /\ (x = "c" => opc = "returned")
          /\ conn = "up" /\ Put(x, "close") /\ Tell(x)
          /\ apc' = [apc EXCEPT ![x] = "bit"] /\ UNCHANGED <<phase, owes, fin, bits, obl>>
       \/ /\ apc[x] = "bit" /\ bits' = [bits EXCEPT ![x] = @ \cup {"local"}]
          /\ CloseObligation(x)
          /\ apc' = [apc EXCEPT ![x] = "check"] /\ UNCHANGED <<phase, owes, fin, told, wire>>
       \/ /\ apc[x] = "check" /\ apc' = [apc EXCEPT ![x] = "closed"]
          /\ IF BothClosed(x) /\ Live(x) THEN Terminate(x, "completed", 0)
             ELSE UNCHANGED <<phase, owes, fin>>
          /\ UNCHANGED <<bits, oblVars, wire>>
    /\ UNCHANGED closeFrame

-----------------------------------------------------------------------------
(* The readers.                                                            *)

Arrives(x, f) ==
    /\ wire[Peer(x)] # <<>> /\ Head(wire[Peer(x)]) = f
    /\ conn = "up" /\ wire' = [wire EXCEPT ![Peer(x)] = Tail(@)]

readFrame == <<token, openVars, apc, ackVars, emitQ, told, connVars, drops>>

\* onStreamOpen at the plugin: admitted with its obligation open, and published.
OnStreamOpen ==
    /\ Arrives("s", "open") /\ tpc["s"] = "open" /\ phase["s"] = "none"
    /\ phase' = [phase EXCEPT !["s"] = "published"] /\ obl' = 1
    /\ UNCHANGED <<readFrame, presend, bits, owes, fin>>

\* An OPEN the plugin rejects: no handler, or the table is at capacity.
RejectOpen ==
    /\ Arrives("s", "open") /\ phase["s"] = "none"
    /\ \E queued \in BOOLEAN : Enqueue("s", 0, queued)
    /\ UNCHANGED <<token, openVars, apc, ackVars, told, connVars, endVars, fin, obl>>

\* STREAM_CLOSE: the remote bit, then the pair's test under the lock.
OnStreamClose(x) ==
    /\ Arrives(x, "close") /\ Live(x)
    /\ bits' = [bits EXCEPT ![x] = @ \cup {"remote"}]
    /\ IF "local" \in bits[x] THEN Terminate(x, "completed", 0) ELSE UNCHANGED <<phase, owes, fin>>
    /\ UNCHANGED <<readFrame, presend, obl>>

\* STREAM_ERR and CANCEL end a live stream.
OnStreamEnd(x) ==
    /\ (Arrives(x, "err") \/ Arrives(x, "cancel")) /\ Live(x) /\ Terminate(x, "observed", 0)
    /\ UNCHANGED <<readFrame, presend, bits, obl>>

\* A frame for an unknown or a terminal stream is discarded.
Discard(x) ==
    /\ (Arrives(x, "close") \/ Arrives(x, "err") \/ Arrives(x, "cancel")) /\ ~Live(x)
    /\ UNCHANGED <<readFrame, endVars, fin, obl>>

-----------------------------------------------------------------------------
(* The end of the connection.                                              *)

\* The connection fails for a reason of its own: peer death, poison, stop.
ConnFails ==
    /\ Failures = 1 /\ conn = "up" /\ Fail
    /\ UNCHANGED <<endVars, token, fin, openVars, apc, ackVars, emitQ, oblVars, tpc, drops>>

\* Mutant: Close does not wait for the finishers.
CloseTableHasty(x) ==
    /\ \/ tpc[x] = "open" /\ conn = "failed" /\ tpc' = [tpc EXCEPT ![x] = "failing"]
          /\ UNCHANGED <<phase, owes, fin>>
       \/ /\ tpc[x] = "failing" /\ tpc' = [tpc EXCEPT ![x] = "join"]
          /\ IF Live(x) THEN Terminate(x, "crashed", 0) ELSE UNCHANGED <<phase, owes, fin>>
       \/ /\ tpc[x] = "join" /\ tpc' = [tpc EXCEPT ![x] = "joined"]
          /\ UNCHANGED <<phase, owes, fin>>
    /\ UNCHANGED <<presend, bits, token, openVars, apc, ackVars, emitQ, oblVars, wire, conn, drops>>

\* teardown and StreamTable.Close: stop admission, fail every stream, join the finishers.
CloseTable(x) ==
    /\ \/ tpc[x] = "open" /\ conn = "failed" /\ tpc' = [tpc EXCEPT ![x] = "failing"]
          /\ UNCHANGED <<phase, owes, fin>>
       \/ /\ tpc[x] = "failing" /\ tpc' = [tpc EXCEPT ![x] = "join"]
          /\ IF Live(x) THEN Terminate(x, "crashed", 0) ELSE UNCHANGED <<phase, owes, fin>>
       \/ /\ tpc[x] = "join" /\ fin[x] \in {"none", "done"}
          /\ (x = "c" => owed \in {"none", "done"})
          /\ tpc' = [tpc EXCEPT ![x] = "joined"] /\ UNCHANGED <<phase, owes, fin>>
    /\ UNCHANGED <<presend, bits, token, openVars, apc, ackVars, emitQ, oblVars, wire, conn, drops>>

-----------------------------------------------------------------------------
Opener ==
    OpenClient \/ Publish \/ SendOpen \/ ConfirmOpenSent \/ ResolveOpenSendFailure
        \/ EmitOwedOpenTeardown
Finisher(x) == FinishClaim(x) \/ FinishCancel(x) \/ FinishEmit(x) \/ FinishOblige(x) \/ FinishClose(x)
AckDispatch(x) == AckTake(x) \/ AckRelease(x) \/ AckCancel(x)
Reader == OnStreamOpen \/ RejectOpen \/ \E x \in Sides : OnStreamClose(x) \/ OnStreamEnd(x) \/ Discard(x)

Next ==
    /\ \/ Opener \/ PublishLate \/ OwedTeardown \/ Reader \/ TerminateHandlerError \/ ConnFails
       \/ \E x \in Sides : TerminateLocal(x) \/ Finisher(x) \/ Emit(x) \/ AckDispatch(x)
                           \/ CloseSend(x) \/ CloseTable(x)
    /\ UNCHANGED plan

Spec == Init /\ [][Next]_vars

\* The steps of goroutines that are under way: an open, a finisher, an emitter, a reader,
\* a CloseSend or a table close goes on when it can.  The program does not loop: once
\* none of these is enabled, only a deadline, the application or the peer can act.
Progress ==
    \/ Opener \/ PublishLate \/ OwedTeardown \/ Reader
    \/ \E x \in Sides : \/ Finisher(x) \/ Emit(x) \/ CloseTable(x)
                        \/ dpc[x] # "idle" /\ AckDispatch(x)
                        \/ apc[x] # "open" /\ CloseSend(x)

-----------------------------------------------------------------------------
(* Properties.                                                             *)

\* Nothing is under way on a connection that is up.
Quiet ==
    /\ conn = "up" /\ opc = "returned" /\ openQ = 0 /\ owed \in {"none", "done"}
    /\ \A x \in Sides : /\ wire[x] = <<>> /\ emitQ[x] = <<>> /\ dpc[x] = "idle"
                        /\ fin[x] \in {"none", "done"} /\ apc[x] \in {"open", "closed"}

\* A stream that ended at the client does not live on at the plugin: as long as it does,
\* some goroutine is on its way to end it, whichever of CANCEL, STREAM_ERR, the owed pair
\* of an unconfirmed OPEN, the ack dispatcher and the connection's failure carries the
\* news (casTerminal's presend, EmitOwedOpenTeardown, StreamTable.Close).
NoOrphanAtPlugin == Terminal("c") /\ Live("s") => ENABLED Progress

\* The reverse, for a stream the plugin ended or never admitted, unless its STREAM_ERR
\* found the emitter's queue full: the host's own deadline ends the stream then.
NoOrphanAtHost == Quiet /\ ~Live("s") /\ drops = 0 => ~Live("c")

\* claimTerminalToken never meets a token that was already claimed: it would spin forever.
ClaimFindsToken ==
    /\ \A x \in Sides : fin[x] = "claim" => token[x] \in {"idle", "ack"}
    /\ owed = "claim" => token["c"] \in {"idle", "ack"}

\* The plugin's obligation is closed only once the frame that ends its side was submitted
\* or could not be: a drain that sees no obligation may let the process go.
ObligationHonest ==
    obl = 0 /\ phase["s"] \in {"canceled", "failed"} => told = 1 \/ drops > 0 \/ conn = "failed"

\* And it is closed in the end: none leaks into the reload's quiescence wait.
ObligationSettled == Quiet /\ Terminal("s") => obl = 0

\* Once Close has joined them, no finisher and no detached sender runs on the transport.
JoinComplete ==
    \A x \in Sides : tpc[x] = "joined" =>
        fin[x] \in {"none", "done"} /\ (x = "c" => owed \in {"none", "done"})

\* Both directions closed ends the stream, whichever bit was set last.
ClosedCompletes ==
    \A x \in Sides : BothClosed(x) /\ apc[x] = "closed" => Terminal(x)

\* Neither end keeps a live stream that the other has ended, unless the connection is failing.
NoOrphan == NoOrphanAtPlugin /\ NoOrphanAtHost

\* The obligation behind a drain is closed neither before the terminal frame is out nor never.
ObligationExact == ObligationHonest /\ ObligationSettled

\* A stream ends once: its submission token is there for whoever claims it, both half-closes
\* complete it, and the table's close joins everyone who may still use the transport.
EndsCleanly == TypeOK /\ ClaimFindsToken /\ JoinComplete /\ ClosedCompletes
=============================================================================
