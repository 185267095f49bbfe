----------------------------- MODULE StreamFlow -----------------------------
(***************************************************************************)
(* One direction of a stream (internal/rpcruntime): the sender's credit    *)
(* window, sequence numbers, fragment trains and half-close, and at the    *)
(* receiver the connection reader, the application in RecvMsg, the ack     *)
(* dispatcher and the back-off timer, four goroutines that together decide *)
(* when a STREAM_ACK returns credit.  The stream is live throughout;       *)
(* StreamLife models how it ends.                                          *)
(***************************************************************************)
EXTENDS Naturals, Sequences, FiniteSets

CONSTANT
    Plans       \* the streams considered: each one's window and what is done with it

ASSUME StreamFlowAssumption ==
    Plans \subseteq [credits : Nat \ {0}, messages : Nat \ {0}, frags : Nat \ {0},
                    wire : Nat \ {0}, faults : Nat]

VARIABLES
    plan,               \* the stream at hand
    sent, acked,        \* the sender's credit counter
    sendSeq,            \* last sequence number given to a frame
    sendWake,           \* the buffered wake-up of a parked SendMsg
    spc,                \* where the sending goroutine is
    frag, frags,        \* fragments already sent, and to send, of this message
    data, acks,         \* frames in flight, each way
    expectedSeq, accum, \* receiver: next sequence, fragments accumulated
    recvCh,             \* receiver: items ready for RecvMsg
    remoteClosed,       \* receiver: the close bit and the recvClosed channel
    conformance,        \* 1: some frame was rejected as a protocol violation
    drainOwed, drained, \* reader: drain signal owed; table: drain mark
    rpc,                \* where the receiver's reader is
    apc,                \* where the application is in RecvMsg
    got,                \* what RecvMsg has returned, in order
    consumed, ackedOut, \* the receiver's credit counter
    armed, queued,      \* the armed flag; entries of this stream in the arming queue
    deferred,           \* 1: acks are held back until the back-off timer
    timer, tpc,         \* 1: the back-off timer is set; where its callback is
    dpc, cum,           \* where the ack dispatcher is, and the value it sends
    faults              \* refusals so far

sendVars == <<plan, sent, acked, sendSeq, sendWake, spc, frag, frags>>
wireVars == <<data, acks>>
readVars == <<expectedSeq, accum, recvCh, remoteClosed, conformance, drainOwed, drained, rpc>>
appVars == <<apc, got>>
ackVars == <<consumed, ackedOut, armed, queued, deferred, timer, tpc, dpc, cum>>
vars == <<sendVars, wireVars, readVars, appVars, ackVars, faults>>

Credits == plan.credits     \* the window N
Messages == plan.messages   \* messages the application sends before it half-closes
MaxFrags == plan.frags      \* frames one message may take
WireCap == plan.wire        \* frames in flight before a Send blocks
Faults == plan.faults       \* sends the transport may refuse

Frame(kind, seq, msg) == [kind |-> kind, seq |-> seq, msg |-> msg]

\* ceilHalf: the count trigger's threshold.
AckThresh == (Credits + 1) \div 2

SendTypes ==
    /\ plan \in Plans /\ sent \in 0 .. Messages /\ acked \in 0 .. Messages
    /\ sendSeq \in 0 .. Messages * MaxFrags /\ sendWake \in {0, 1}
    /\ spc \in {"idle", "admit", "parked", "frame", "closed", "closedWith"}
    /\ frag \in 0 .. MaxFrags /\ frags \in 0 .. MaxFrags /\ faults \in 0 .. Faults
WireTypes ==
    /\ data \in Seq([kind : {"chunk", "msg", "close"}, seq : Nat, msg : Nat]) /\ Len(data) <= WireCap
    /\ acks \in Seq(Nat) /\ Len(acks) <= WireCap
ReadTypes ==
    /\ expectedSeq \in 1 .. Messages * MaxFrags + 1 /\ accum \in 0 .. MaxFrags
    /\ recvCh \in Seq([msg : Nat, credited : {0, 1}]) /\ Len(recvCh) <= Credits + 1
    /\ remoteClosed \in {0, 1} /\ conformance \in {0, 1}
    /\ drainOwed \in {0, 1} /\ drained \in {0, 1} /\ rpc \in {"recv", "sweep", "arm", "append"}
    /\ apc \in {"poll", "block", "eof?", "consume", "drain?", "arm", "append", "eof"}
    /\ got \in Seq(Nat)
AckTypes ==
    /\ consumed \in 0 .. Messages /\ ackedOut \in 0 .. Messages
    /\ armed \in {0, 1} /\ queued \in Nat /\ deferred \in {0, 1}
    /\ timer \in {0, 1} /\ tpc \in {"off", "fired", "append"}
    /\ dpc \in {"pop", "test", "build", "send", "again", "append"} /\ cum \in 0 .. Messages
TypeOK == SendTypes /\ WireTypes /\ ReadTypes /\ AckTypes

Init ==
    /\ plan \in Plans
    /\ sent = 0 /\ acked = 0 /\ sendSeq = 0 /\ sendWake = 0 /\ spc = "idle"
    /\ frag = 0 /\ frags = 0 /\ data = <<>> /\ acks = <<>>
    /\ expectedSeq = 1 /\ accum = 0 /\ recvCh = <<>> /\ remoteClosed = 0 /\ conformance = 0
    /\ drainOwed = 0 /\ drained = 0 /\ rpc = "recv" /\ apc = "poll" /\ got = <<>>
    /\ consumed = 0 /\ ackedOut = 0 /\ armed = 0 /\ queued = 0 /\ deferred = 0
    /\ timer = 0 /\ tpc = "off" /\ dpc = "pop" /\ cum = 0 /\ faults = 0

-----------------------------------------------------------------------------
(* The sender: SendMsg, sendChunked and CloseSend on one goroutine.        *)

\* SendMsg of the next message, as one frame or as a train of n fragments.
SendMsg ==
    /\ spc = "idle" /\ sent < Messages
    /\ \E n \in 1 .. MaxFrags : frags' = n
    /\ frag' = 0 /\ spc' = "admit"
    /\ UNCHANGED <<plan, sent, acked, sendSeq, sendWake, wireVars, readVars, appVars, ackVars,
                   faults>>

\* Mutant: the window test is off by one.
AdmitWide ==
    /\ spc = "admit"
    /\ \/ /\ sent - acked <= Credits /\ sent' = sent + 1 /\ sendSeq' = sendSeq + 1
          /\ spc' = "frame"
       \/ sent - acked > Credits /\ spc' = "parked" /\ UNCHANGED <<sent, sendSeq>>
    /\ UNCHANGED <<plan, acked, sendWake, frag, frags, wireVars, readVars, appVars, ackVars,
                   faults>>

\* admit: reserve a unit of credit, or park.
Admit ==
    /\ spc = "admit"
    /\ \/ /\ sent - acked < Credits /\ sent' = sent + 1 /\ sendSeq' = sendSeq + 1
          /\ spc' = "frame"
       \/ sent - acked = Credits /\ spc' = "parked" /\ UNCHANGED <<sent, sendSeq>>
    /\ UNCHANGED <<plan, acked, sendWake, frag, frags, wireVars, readVars, appVars, ackVars,
                   faults>>

Unpark ==
    /\ spc = "parked" /\ sendWake = 1 /\ sendWake' = 0 /\ spc' = "admit"
    /\ UNCHANGED <<plan, sent, acked, sendSeq, frag, frags, wireVars, readVars, appVars,
                   ackVars, faults>>

\* The caller's context ends while the message waits for credit: nothing was reserved.
GiveUp ==
    /\ spc = "parked" /\ spc' = "idle"
    /\ UNCHANGED <<plan, sent, acked, sendSeq, sendWake, frag, frags, wireVars, readVars,
                   appVars, ackVars, faults>>

\* One frame of the message is accepted: STREAM_CHUNK for all but the last.
SendFrame ==
    /\ spc = "frame" /\ Len(data) < WireCap
    /\ data' = Append(data, Frame(IF frag + 1 < frags THEN "chunk" ELSE "msg", sendSeq, sent))
    /\ \/ /\ frag + 1 < frags /\ frag' = frag + 1 /\ sendSeq' = sendSeq + 1 /\ spc' = "frame"
       \/ /\ frag + 1 = frags /\ frag' = 0 /\ spc' = "idle" /\ UNCHANGED sendSeq
    /\ UNCHANGED <<plan, sent, acked, sendWake, frags, acks, readVars, appVars, ackVars,
                   faults>>

\* The transport refuses the first frame and it was never published: handleSendErr
\* gives credit and sequence number back.  A later fragment is retried instead.
SendRefused ==
    /\ spc = "frame" /\ frag = 0 /\ faults < Faults /\ faults' = faults + 1
    /\ sent' = sent - 1 /\ sendSeq' = sendSeq - 1 /\ spc' = "idle"
    /\ UNCHANGED <<plan, acked, sendWake, frag, frags, wireVars, readVars, appVars, ackVars>>

\* CloseSend: STREAM_CLOSE with the final sequence, and a trailing payload or none.  A
\* refused one changes nothing and may be tried again.
CloseSend ==
    /\ spc = "idle" /\ Len(data) < WireCap
    /\ \/ data' = Append(data, Frame("close", sendSeq, 0)) /\ spc' = "closed"
       \/ data' = Append(data, Frame("close", sendSeq, sent + 1)) /\ spc' = "closedWith"
    /\ UNCHANGED <<plan, sent, acked, sendSeq, sendWake, frag, frags, acks, readVars, appVars,
                   ackVars, faults>>

\* onStreamAck at the sender.
OnStreamAck ==
    /\ acks # <<>> /\ acks' = Tail(acks)
    /\ \/ /\ Head(acks) > acked /\ Head(acks) <= sent
          /\ acked' = Head(acks) /\ sendWake' = 1 /\ UNCHANGED conformance
       \/ /\ Head(acks) <= acked \/ Head(acks) > sent
          /\ conformance' = 1 /\ UNCHANGED <<acked, sendWake>>
    /\ UNCHANGED <<plan, sent, sendSeq, spc, frag, frags, data, expectedSeq, accum, recvCh,
                   remoteClosed, drainOwed, drained, rpc, appVars, ackVars, faults>>

-----------------------------------------------------------------------------
(* The receiver's reader.                                                  *)

Room == Len(recvCh) < Credits + 1

\* onStreamMsg, onStreamChunk and onStreamClose: what is rejected.
Rejects(f) ==
    \/ f.kind # "close" /\ (remoteClosed = 1 \/ f.seq # expectedSeq)
    \/ f.kind = "msg" /\ ~Room
    \/ f.kind = "close" /\ (accum > 0 \/ remoteClosed = 1 \/ f.seq # expectedSeq - 1)
    \/ f.kind = "close" /\ f.msg # 0 /\ ~Room

\* Dispatch clears the drain mark, then runs the handler under the stream's lock.
Dispatch ==
    /\ rpc = "recv" /\ data # <<>> /\ data' = Tail(data)
    /\ drained' = 0 /\ drainOwed' = 1
    /\ LET f == Head(data) IN
       \/ Rejects(f) /\ conformance' = 1 /\ UNCHANGED <<expectedSeq, accum, recvCh, remoteClosed>>
       \/ /\ ~Rejects(f) /\ UNCHANGED conformance
          /\ expectedSeq' = IF f.kind = "close" THEN expectedSeq ELSE expectedSeq + 1
          /\ accum' = IF f.kind = "chunk" THEN accum + 1 ELSE 0
          /\ remoteClosed' = IF f.kind = "close" THEN 1 ELSE remoteClosed
          /\ recvCh' = IF f.kind = "chunk" \/ f.msg = 0 THEN recvCh
                       ELSE Append(recvCh, [msg |-> f.msg, credited |-> IF f.kind = "msg" THEN 1 ELSE 0])
    /\ UNCHANGED <<sendVars, acks, rpc, appVars, ackVars, faults>>

\* probeDrain and ReaderDrained: the mark first, then the sweep, then arm.
ReaderDrained ==
    /\ rpc = "recv" /\ data = <<>> /\ drainOwed = 1
    /\ drained' = 1 /\ drainOwed' = 0 /\ rpc' = "sweep"
    /\ UNCHANGED <<sendVars, wireVars, expectedSeq, accum, recvCh, remoteClosed, conformance,
                   appVars, ackVars, faults>>

Sweep ==
    /\ rpc = "sweep" /\ rpc' = IF consumed > ackedOut THEN "arm" ELSE "recv"
    /\ UNCHANGED <<sendVars, wireVars, expectedSeq, accum, recvCh, remoteClosed, conformance,
                   drainOwed, drained, appVars, ackVars, faults>>

\* arm's CAS and appendArm, reached with deferred seen clear.
Arm ==
    \/ armed = 0 /\ armed' = 1 /\ queued' = queued + 1
    \/ armed = 1 /\ UNCHANGED <<armed, queued>>

SweepArm ==
    /\ \/ /\ rpc = "arm" /\ rpc' = (IF deferred = 1 THEN "recv" ELSE "append")
          /\ UNCHANGED <<armed, queued>>
       \/ rpc = "append" /\ Arm /\ rpc' = "recv"
    /\ UNCHANGED <<sendVars, wireVars, expectedSeq, accum, recvCh, remoteClosed, conformance,
                   drainOwed, drained, appVars, consumed, ackedOut, deferred, timer, tpc, dpc,
                   cum, faults>>

-----------------------------------------------------------------------------
(* The application in RecvMsg.                                             *)

Take(next) ==
    /\ got' = Append(got, Head(recvCh).msg) /\ recvCh' = Tail(recvCh)
    /\ apc' = IF Head(recvCh).credited = 1 THEN next ELSE "poll"

\* Mutant: RecvMsg does not look at the channel again once it saw the close.
RecvMsgHasty ==
    /\ \/ apc = "poll" /\ recvCh # <<>> /\ Take("consume")
       \/ apc = "poll" /\ recvCh = <<>> /\ apc' = "block" /\ UNCHANGED <<got, recvCh>>
       \/ apc = "block" /\ recvCh # <<>> /\ Take("consume")
       \/ apc = "block" /\ remoteClosed = 1 /\ apc' = "eof?" /\ UNCHANGED <<got, recvCh>>
       \/ apc = "eof?" /\ apc' = "eof" /\ UNCHANGED <<got, recvCh>>
    /\ UNCHANGED <<sendVars, wireVars, expectedSeq, accum, remoteClosed, conformance, drainOwed,
                   drained, rpc, ackVars, faults>>

\* RecvMsg: drainOne, then the blocking select; a closed direction is drained once
\* more before EOF.
RecvMsg ==
    /\ \/ apc = "poll" /\ recvCh # <<>> /\ Take("consume")
       \/ apc = "poll" /\ recvCh = <<>> /\ apc' = "block" /\ UNCHANGED <<got, recvCh>>
       \/ apc = "block" /\ recvCh # <<>> /\ Take("consume")
       \/ apc = "block" /\ remoteClosed = 1 /\ apc' = "eof?" /\ UNCHANGED <<got, recvCh>>
       \/ apc = "eof?" /\ recvCh # <<>> /\ Take("consume")
       \/ apc = "eof?" /\ recvCh = <<>> /\ apc' = "eof" /\ UNCHANGED <<got, recvCh>>
    /\ UNCHANGED <<sendVars, wireVars, expectedSeq, accum, remoteClosed, conformance, drainOwed,
                   drained, rpc, ackVars, faults>>

\* consumeIfOpen under the stream's lock: no unit is consumed after the peer's close;
\* the count trigger arms.
Consume ==
    /\ apc = "consume"
    /\ consumed' = IF remoteClosed = 1 THEN consumed ELSE consumed + 1
    /\ apc' = IF remoteClosed = 0 /\ consumed + 1 - ackedOut >= AckThresh THEN "arm" ELSE "drain?"
    /\ UNCHANGED <<sendVars, wireVars, readVars, got, ackedOut, armed, queued, deferred, timer,
                   tpc, dpc, cum, faults>>

\* Mutant: a delivery below the threshold leaves the drain mark unread.
DeliveredDrainIgnores ==
    /\ apc = "drain?" /\ apc' = "poll"
    /\ UNCHANGED <<sendVars, wireVars, readVars, got, ackVars, faults>>

\* onDelivered's drain trigger.
DeliveredDrain ==
    /\ apc = "drain?"
    /\ apc' = IF drained = 1 /\ consumed > ackedOut THEN "arm" ELSE "poll"
    /\ UNCHANGED <<sendVars, wireVars, readVars, got, ackVars, faults>>

DeliveredArm ==
    /\ \/ /\ apc = "arm" /\ apc' = (IF deferred = 1 THEN "poll" ELSE "append")
          /\ UNCHANGED <<armed, queued>>
       \/ apc = "append" /\ Arm /\ apc' = "poll"
    /\ UNCHANGED <<sendVars, wireVars, readVars, got, consumed, ackedOut, deferred, timer, tpc,
                   dpc, cum, faults>>

-----------------------------------------------------------------------------
(* The ack dispatcher and its back-off timer.                              *)

ackFrame == <<sendVars, data, readVars, appVars, consumed>>

\* popArm, the armed flag's clear, and the test that drops an idle or deferred stream.
PopArm ==
    /\ \/ dpc = "pop" /\ queued > 0 /\ queued' = queued - 1 /\ dpc' = "test" /\ UNCHANGED armed
       \/ dpc = "test" /\ armed' = 0 /\ dpc' = "build" /\ UNCHANGED queued
    /\ UNCHANGED <<ackFrame, acks, ackedOut, deferred, timer, tpc, cum, faults>>

BuildAck ==
    /\ dpc = "build" /\ cum' = consumed
    /\ dpc' = IF consumed > ackedOut /\ deferred = 0 THEN "send" ELSE "pop"
    /\ UNCHANGED <<ackFrame, acks, ackedOut, armed, queued, deferred, timer, tpc, faults>>

\* serveAck: a sent value is recorded before the token is given back; a refused one
\* defers further acks and sets the timer.
SendAck ==
    /\ dpc = "send"
    /\ \/ /\ Len(acks) < WireCap /\ acks' = Append(acks, cum) /\ ackedOut' = cum /\ dpc' = "again"
          /\ UNCHANGED <<deferred, timer, faults>>
       \/ /\ faults < Faults /\ faults' = faults + 1
          /\ deferred' = 1 /\ timer' = 1 /\ dpc' = "pop" /\ UNCHANGED <<acks, ackedOut>>
    /\ UNCHANGED <<ackFrame, armed, queued, tpc, cum>>

\* releaseAckToken: units consumed meanwhile arm again.
ReleaseAckToken ==
    /\ \/ /\ dpc = "again" /\ UNCHANGED <<armed, queued>>
          /\ dpc' = IF consumed > ackedOut /\ deferred = 0 THEN "append" ELSE "pop"
       \/ dpc = "append" /\ Arm /\ dpc' = "pop"
    /\ UNCHANGED <<ackFrame, acks, ackedOut, deferred, timer, tpc, cum, faults>>

\* reArmAfterBackoff: its own CAS, not through arm.
ReArmAfterBackoff ==
    /\ \/ /\ timer = 1 /\ tpc = "off" /\ timer' = 0 /\ deferred' = 0 /\ tpc' = "fired"
          /\ UNCHANGED <<armed, queued>>
       \/ /\ tpc = "fired" /\ tpc' = (IF consumed > ackedOut THEN "append" ELSE "off")
          /\ UNCHANGED <<deferred, armed, queued, timer>>
       \/ tpc = "append" /\ Arm /\ tpc' = "off" /\ UNCHANGED <<deferred, timer>>
    /\ UNCHANGED <<ackFrame, acks, ackedOut, dpc, cum, faults>>

-----------------------------------------------------------------------------
Sender == SendMsg \/ Admit \/ Unpark \/ SendFrame \/ CloseSend
Reader == Dispatch \/ ReaderDrained \/ Sweep \/ SweepArm
App == RecvMsg \/ Consume \/ DeliveredDrain \/ DeliveredArm
AckDispatch == PopArm \/ BuildAck \/ SendAck \/ ReleaseAckToken

Next ==
    Sender \/ GiveUp \/ SendRefused \/ OnStreamAck \/ Reader \/ App \/ AckDispatch
        \/ ReArmAfterBackoff

Spec == Init /\ [][Next]_vars

\* Every goroutine runs when it can, and a timer that is set fires.  The sending
\* application finishes the call it is in but need not make another.
FairSpec ==
    /\ Spec /\ WF_vars(Admit \/ Unpark \/ SendFrame) /\ WF_vars(OnStreamAck) /\ WF_vars(Reader)
    /\ WF_vars(App) /\ WF_vars(AckDispatch) /\ WF_vars(ReArmAfterBackoff)

-----------------------------------------------------------------------------
(* Properties.                                                             *)

\* Two endpoints that run this code never see each other violate the protocol: the
\* window keeps the receive channel from filling, sequence numbers stay dense across
\* refused sends, acks are strictly increasing and never exceed what was sent, and the
\* final sequence of a half-close matches (Rejects and onStreamAck).
NoConformanceFault == conformance = 0

\* RecvMsg returns the messages whole and in the order they were sent.
DeliveredInOrder == \A i \in 1 .. Len(got) : got[i] = i

\* RecvMsg reports EOF only after every message and the trailer of the close.
EofComplete == apc = "eof" => Len(got) = sent + (IF spc = "closedWith" THEN 1 ELSE 0)

\* Credit outstanding at the sender is exactly what is on its way, buffered, being
\* consumed or waiting to be acked, as long as the direction is open, and never more
\* than the window.
MsgsIn(q) == Cardinality({i \in 1 .. Len(q) : q[i].kind = "msg"})
CreditConserved ==
    /\ sent - acked <= Credits
    /\ remoteClosed = 0 =>
         sent = consumed + MsgsIn(data) + Len(recvCh) + (IF apc = "consume" THEN 1 ELSE 0)
                + (IF spc = "frame" THEN 1 ELSE 0)

\* The intrusive arming queue never holds the stream twice.
QueuedOnce == queued <= 1

\* A sender parked on credit goes on, however few messages the receiver consumed and
\* whichever of reader, application, dispatcher and timer came first.
ParkedResumes == spc = "parked" ~> spc # "parked"

\* Every unit the application consumed is returned to the sender, also when the sender
\* falls silent with fewer than the threshold outstanding: the reader that ran out of
\* frames and the application that just took one cannot both leave it to the other.
OwedReturned == consumed > ackedOut ~> consumed = ackedOut

\* The application sees the stream the peer sent: whole messages, in order, all of them before the
\* end; and neither correct endpoint accuses the other (onData, chunk reassembly, half-close).
StreamIntact == NoConformanceFault /\ DeliveredInOrder /\ EofComplete

\* Credit is conserved by the four goroutines that move it, and a stream is linked at most once in
\* the dispatcher's list (consumeCredit, creditConsumed, arm, OnStreamAck).
WindowConserved == TypeOK /\ CreditConserved /\ QueuedOnce

\* Credit keeps flowing: what is owed is returned and a parked sender resumes.
CreditFlows == OwedReturned /\ ParkedResumes
=============================================================================
