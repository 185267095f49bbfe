-------------------------- MODULE StreamFlowControl -------------------------
(***************************************************************************)
(* The inductive invariant of one direction of a stream, and what each     *)
(* step of the sender, the application, the ack dispatcher and the timer   *)
(* does to it.  The step of the reader, which takes a frame off the wire,  *)
(* and the count of the messages in flight are in StreamFlowProofs, with   *)
(* the theorems.                                                           *)
(***************************************************************************)
EXTENDS StreamFlow, Integers, TLAPS

-----------------------------------------------------------------------------
(* The inductive invariant.                                                *)

\* 1: a message is admitted whose last frame is not out; the messages whose last frame is.
Sending == IF spc = "frame" THEN 1 ELSE 0
Whole == sent - Sending

\* 1: the close is in flight; 1: it came with a payload; the messages reassembled so far.
Closing == IF spc \in {"closed", "closedWith"} /\ remoteClosed = 0 THEN 1 ELSE 0
Trailer == IF spc = "closedWith" /\ remoteClosed = 1 THEN 1 ELSE 0
Received == Len(got) + Len(recvCh) - Trailer

\* The sending goroutine: a message waiting for credit is one of the plan's, a train in progress
\* has a frame left, and sequence numbers are spent on frames only.
SenderPlace ==
    /\ spc \in {"admit", "parked"} => sent < Messages /\ frags >= 1
    /\ spc = "frame" => frag < frags /\ sent >= 1
    /\ spc # "frame" => frag = 0
    /\ sendSeq <= Whole * MaxFrags + (IF spc = "frame" THEN frag + 1 ELSE 0)

\* Sequence numbers are dense from what the receiver expects to what the sender has given out; a
\* close is the last frame and carries the final number.
SeqDense ==
    /\ sendSeq = expectedSeq - 1 + (Len(data) - Closing) + Sending
    /\ \A i \in 1 .. Len(data) :
         IF data[i].kind = "close"
         THEN /\ i = Len(data) /\ Closing = 1 /\ data[i].seq = sendSeq
              /\ data[i].msg = (IF spc = "closedWith" THEN sent + 1 ELSE 0)
         ELSE data[i].seq = expectedSeq + i - 1
    /\ Closing = 1 => data # <<>> /\ data[Len(data)].kind = "close"
    /\ remoteClosed = 1 => data = <<>> /\ spc \in {"closed", "closedWith"}

\* The frames in flight belong to the messages after the last one reassembled, in order, each
\* train ending in its STREAM_MSG; the last train may still be growing.
Between == \A i \in 1 .. Len(data) : data[i].kind # "close" => data[i].msg <= sent
FirstNext == data # <<>> /\ data[1].kind # "close" => data[1].msg = Received + 1
Ascending ==
    \A i, j \in 1 .. Len(data) :
        i < j /\ data[i].kind # "close" /\ data[j].kind # "close" =>
            data[i].msg <= data[j].msg /\ (data[i].kind = "msg" => data[i].msg < data[j].msg)
Adjacent ==
    \A i \in 1 .. Len(data) : i + 1 \in 1 .. Len(data) =>
        /\ data[i].kind = "chunk" => data[i + 1].kind # "close" /\ data[i + 1].msg = data[i].msg
        /\ data[i].kind = "msg" /\ data[i + 1].kind # "close" => data[i + 1].msg = data[i].msg + 1
LastFrame ==
    data # <<>> =>
        /\ data[Len(data)].kind = "chunk" => spc = "frame" /\ frag > 0 /\ data[Len(data)].msg = sent
        /\ data[Len(data)].kind = "msg" => data[Len(data)].msg = Whole /\ frag = 0
Accumulating ==
    accum > 0 => IF data = <<>> THEN spc = "frame" /\ frag > 0 ELSE data[1].kind # "close"
MsgOrder == Between /\ FirstNext /\ Ascending /\ Adjacent /\ LastFrame /\ Accumulating

\* No train is longer than the plan lets a message be, in flight or half received.
TrainBound ==
    /\ \A i, j \in 1 .. Len(data) :
         i <= j /\ data[i].kind # "close" /\ data[j].kind # "close" /\ data[i].msg = data[j].msg =>
             j - i < MaxFrags
    /\ spc = "frame" => \A i \in 1 .. Len(data) : data[i].msg = sent => Len(data) - i + 1 <= frag
    /\ \A i \in 1 .. Len(data) :
         data[i].kind # "close" /\ data[i].msg = Received + 1 => accum + i <= MaxFrags
    /\ spc = "frame" /\ sent = Received + 1 => accum + Len(data) <= frag

\* Every whole message was reassembled or is in flight.
MessagesCounted ==
    /\ MsgsIn(data) \in Nat /\ (data = <<>> => MsgsIn(data) = 0)
    /\ Whole = Received + MsgsIn(data)

\* What is buffered continues what RecvMsg returned; as long as the direction is open every item
\* carries a credit, taken when RecvMsg takes it.
Buffered ==
    /\ \A i \in 1 .. Len(recvCh) : recvCh[i].msg = Len(got) + i
    /\ remoteClosed = 0 => \A i \in 1 .. Len(recvCh) : recvCh[i].credited = 1
CreditTaken ==
    /\ remoteClosed = 0 => Len(got) = consumed + (IF apc = "consume" THEN 1 ELSE 0)
    /\ consumed <= Whole
    /\ apc \in {"eof?", "eof"} => remoteClosed = 1
    /\ apc = "eof" => recvCh = <<>>

\* Acks in flight rise strictly from what the sender has to what the dispatcher sent last.
AckOrder ==
    /\ acked <= ackedOut /\ ackedOut <= consumed
    /\ \A i \in 1 .. Len(acks) : acked < acks[i] /\ acks[i] <= ackedOut
    /\ \A i, j \in 1 .. Len(acks) : i < j => acks[i] < acks[j]
    /\ dpc = "send" => ackedOut < cum /\ cum <= consumed
    /\ sent - acked <= Credits

\* The armed flag stands for the stream's one entry in the queue or in the dispatcher's hand.
ArmedOnce == queued + (IF dpc = "test" THEN 1 ELSE 0) = armed

IInv ==
    /\ TypeOK /\ SenderPlace /\ SeqDense /\ MsgOrder /\ TrainBound /\ MessagesCounted
    /\ Buffered /\ DeliveredInOrder /\ CreditTaken /\ AckOrder /\ ArmedOnce /\ NoConformanceFault

-----------------------------------------------------------------------------
(* Numbers and sequences.                                                  *)

FrameType == [kind : {"chunk", "msg", "close"}, seq : Nat, msg : Nat]
ItemType == [msg : Nat, credited : {0, 1}]

\* The plan's bounds are positive, and the counters are natural numbers.
LEMMA PlanNumbers ==
    ASSUME SendTypes
    PROVE  /\ Credits \in Nat \ {0} /\ Messages \in Nat \ {0} /\ MaxFrags \in Nat \ {0}
           /\ WireCap \in Nat \ {0} /\ Faults \in Nat
BY StreamFlowAssumption DEF SendTypes, Credits, Messages, MaxFrags, WireCap, Faults

LEMMA SendNumbers ==
    ASSUME SendTypes
    PROVE  /\ sent \in Nat /\ acked \in Nat /\ sendSeq \in Nat /\ frag \in Nat /\ frags \in Nat
           /\ sent <= Messages /\ acked <= Messages /\ frag <= MaxFrags /\ frags <= MaxFrags
           /\ Sending \in {0, 1} /\ Whole \in Int
BY PlanNumbers DEF SendTypes, Sending, Whole

LEMMA ReadNumbers ==
    ASSUME SendTypes, WireTypes, ReadTypes
    PROVE  /\ Len(data) \in Nat /\ Len(recvCh) \in Nat /\ Len(got) \in Nat
           /\ expectedSeq \in Nat /\ expectedSeq >= 1 /\ accum \in Nat /\ accum <= MaxFrags
           /\ Closing \in {0, 1} /\ Trailer \in {0, 1} /\ Received \in Int
BY PlanNumbers DEF WireTypes, ReadTypes, Closing, Trailer, Received

\* A frame put on the wire is its last, behind what was there.
LEMMA Appended ==
    ASSUME NEW S, NEW q \in Seq(S), NEW f \in S, NEW r, r = Append(q, f)
    PROVE  /\ r \in Seq(S) /\ r # <<>> /\ Len(q) \in Nat /\ Len(r) = Len(q) + 1
           /\ r[Len(q) + 1] = f /\ \A i \in 1 .. Len(q) : r[i] = q[i]
OBVIOUS

LEMMA NonEmpty == ASSUME NEW S, NEW q \in Seq(S), q # <<>> PROVE Len(q) \in Nat /\ Len(q) >= 1
OBVIOUS

\* A frame taken off the wire is its first, and the others move up.
LEMMA Taken ==
    ASSUME NEW S, NEW q \in Seq(S), q # <<>>, NEW r, r = Tail(q)
    PROVE  /\ r \in Seq(S) /\ Len(q) \in Nat /\ Len(q) >= 1 /\ Len(r) = Len(q) - 1
           /\ Head(q) = q[1] /\ q[1] \in S /\ (r = <<>> <=> Len(q) = 1)
           /\ \A i \in 1 .. Len(r) : i + 1 \in 1 .. Len(q) /\ r[i] = q[i + 1]
<1>1. /\ r \in Seq(S) /\ Len(q) \in Nat /\ Len(q) >= 1 /\ Len(r) = Len(q) - 1
      /\ Head(q) = q[1] /\ q[1] \in S
    OBVIOUS
<1>2. ASSUME NEW i \in 1 .. Len(r) PROVE i + 1 \in 1 .. Len(q) /\ r[i] = q[i + 1]
    BY <1>1
<1>3. r = <<>> <=> Len(r) = 0
    <2>1. r \in Seq(S)
        BY <1>1
    <2>2. r # <<>> => Len(r) >= 1
        BY <2>1, NonEmpty
    <2>3. r = <<>> => Len(r) = 0
        OBVIOUS
    <2>4. QED
        BY <2>2, <2>3
<1>4. QED
    BY <1>1, <1>2, <1>3

-----------------------------------------------------------------------------
(* What the steps have in common.                                          *)

Traffic == SeqDense /\ MsgOrder /\ TrainBound

\* The frames in flight and what they are measured against stay as they are.
LEMMA TrafficKept ==
    ASSUME Traffic, UNCHANGED <<data, sent, sendSeq, frag, expectedSeq, accum, remoteClosed, plan>>,
           Received' = Received, Sending' = Sending, Closing' = Closing,
           spc' = "closedWith" <=> spc = "closedWith",
           spc' \in {"closed", "closedWith"} <=> spc \in {"closed", "closedWith"}
    PROVE  Traffic'
<1>1. Whole' = Whole /\ (spc' = "frame" <=> spc = "frame") /\ MaxFrags' = MaxFrags
    BY DEF Sending, Whole, MaxFrags
<1>2. SeqDense'
    BY DEF Traffic, SeqDense
<1>3. Between' /\ FirstNext' /\ Ascending' /\ Adjacent'
    BY DEF Traffic, MsgOrder, Between, FirstNext, Ascending, Adjacent
<1>4. LastFrame' /\ Accumulating'
    BY <1>1 DEF Traffic, MsgOrder, LastFrame, Accumulating
<1>5. TrainBound'
    BY <1>1 DEF Traffic, TrainBound
<1>6. QED
    BY <1>2, <1>3, <1>4, <1>5 DEF Traffic, MsgOrder

\* Arming leaves the flag and the queue in step.
LEMMA ArmKeeps ==
    ASSUME AckTypes, ArmedOnce, Arm, dpc' = dpc \/ (dpc # "test" /\ dpc' # "test")
    PROVE  ArmedOnce' /\ armed' \in {0, 1} /\ queued' \in Nat
BY DEF AckTypes, ArmedOnce, Arm

\* The invariant in two parts: what the sender, the wire and the reader do, and what returns credit.
StreamPart ==
    /\ SendTypes /\ SenderPlace /\ Traffic /\ MessagesCounted /\ Buffered /\ DeliveredInOrder
    /\ NoConformanceFault
CreditPart == AckTypes /\ CreditTaken /\ AckOrder /\ ArmedOnce

LEMMA Parts == IInv <=> WireTypes /\ ReadTypes /\ StreamPart /\ CreditPart
BY DEF IInv, TypeOK, StreamPart, CreditPart, Traffic

LEMMA PartsNext == IInv' <=> (WireTypes /\ ReadTypes /\ StreamPart /\ CreditPart)'
BY DEF IInv, TypeOK, StreamPart, CreditPart, Traffic

\* The stream part stays when the sender, the frames in flight and the items received do.
LEMMA StreamPartKept ==
    ASSUME StreamPart, UNCHANGED <<sendVars, data, expectedSeq, accum, recvCh, remoteClosed,
                                   conformance, got>>,
           faults' \in 0 .. Faults
    PROVE  StreamPart'
<1>1. /\ UNCHANGED <<plan, sent, acked, sendSeq, sendWake, spc, frag, frags>>
      /\ Sending' = Sending /\ Whole' = Whole /\ Received' = Received /\ Closing' = Closing
    BY DEF sendVars, Sending, Whole, Received, Closing, Trailer
<1>2. SendTypes' /\ SenderPlace'
    BY <1>1 DEF StreamPart, SendTypes, SenderPlace, Messages, MaxFrags, Faults
<1>3. Traffic'
    BY <1>1, TrafficKept DEF StreamPart
<1>4. MessagesCounted' /\ Buffered' /\ DeliveredInOrder' /\ NoConformanceFault'
    BY <1>1 DEF StreamPart, MessagesCounted, Buffered, DeliveredInOrder, NoConformanceFault
<1>5. QED
    BY <1>2, <1>3, <1>4 DEF StreamPart

\* While the direction is open, what was delivered and buffered are whole messages of the sender.
LEMMA UnitsWithin ==
    ASSUME IInv, remoteClosed = 0
    PROVE  /\ Len(got) \in Nat /\ Len(recvCh) \in Nat /\ Whole \in Int /\ consumed \in Nat
           /\ Len(got) + Len(recvCh) + MsgsIn(data) = Whole /\ MsgsIn(data) \in Nat
           /\ Whole <= sent /\ sent <= Messages /\ sent \in Nat /\ Messages \in Nat
           /\ Len(got) = consumed + (IF apc = "consume" THEN 1 ELSE 0)
<1>1. SendTypes /\ WireTypes /\ ReadTypes /\ AckTypes
    BY DEF IInv, TypeOK
<1>2. MsgsIn(data) \in Nat
    BY DEF IInv, MessagesCounted
<1>3. /\ Len(got) \in Nat /\ Len(recvCh) \in Nat /\ Whole \in Int /\ consumed \in Nat
      /\ Sending \in {0, 1} /\ sent \in Nat /\ sent <= Messages /\ Messages \in Nat
    BY <1>1, ReadNumbers, SendNumbers, PlanNumbers DEF AckTypes
<1>4. Received = Len(got) + Len(recvCh)
    BY <1>3 DEF Received, Trailer
<1>5. Whole = Received + MsgsIn(data) /\ Whole = sent - Sending
    BY DEF IInv, MessagesCounted, Whole
<1>6. Len(got) = consumed + (IF apc = "consume" THEN 1 ELSE 0)
    BY DEF IInv, CreditTaken
<1>7. QED
    BY <1>2, <1>3, <1>4, <1>5, <1>6

-----------------------------------------------------------------------------
(* The steps that return credit.                                           *)

\* The drain mark, set when the reader runs out of frames.
LEMMA ReaderDrainedKeeps ==
    ASSUME IInv, ReaderDrained
    PROVE  IInv'
<1> USE DEF sendVars, wireVars, readVars, appVars, ackVars, ackFrame
<1>1. WireTypes /\ ReadTypes /\ StreamPart /\ CreditPart
    BY Parts
<1>2. StreamPart'
    BY <1>1, StreamPartKept DEF ReaderDrained, StreamPart, SendTypes
<1>3. WireTypes' /\ ReadTypes'
    BY <1>1 DEF ReaderDrained, WireTypes, ReadTypes, WireCap, Messages, MaxFrags, Credits
<1>4. AckTypes'
    BY <1>1 DEF ReaderDrained, CreditPart, AckTypes, Messages
<1>5. CreditTaken'
    BY <1>1 DEF ReaderDrained, CreditPart, CreditTaken, Whole, Sending
<1>6. AckOrder'
    BY <1>1 DEF ReaderDrained, CreditPart, AckOrder, Credits
<1>7. ArmedOnce'
    BY <1>1 DEF ReaderDrained, CreditPart, ArmedOnce
<1>8. QED
    BY <1>2, <1>3, <1>4, <1>5, <1>6, <1>7, PartsNext DEF CreditPart

\* The sweep's look at what is owed.
LEMMA SweepKeeps ==
    ASSUME IInv, Sweep
    PROVE  IInv'
<1> USE DEF sendVars, wireVars, readVars, appVars, ackVars, ackFrame
<1>1. WireTypes /\ ReadTypes /\ StreamPart /\ CreditPart
    BY Parts
<1>2. StreamPart'
    BY <1>1, StreamPartKept DEF Sweep, StreamPart, SendTypes
<1>3. WireTypes' /\ ReadTypes'
    BY <1>1 DEF Sweep, WireTypes, ReadTypes, WireCap, Messages, MaxFrags, Credits
<1>4. AckTypes'
    BY <1>1 DEF Sweep, CreditPart, AckTypes, Messages
<1>5. CreditTaken'
    BY <1>1 DEF Sweep, CreditPart, CreditTaken, Whole, Sending
<1>6. AckOrder'
    BY <1>1 DEF Sweep, CreditPart, AckOrder, Credits
<1>7. ArmedOnce'
    BY <1>1 DEF Sweep, CreditPart, ArmedOnce
<1>8. QED
    BY <1>2, <1>3, <1>4, <1>5, <1>6, <1>7, PartsNext DEF CreditPart

\* The sweep's arm.
LEMMA SweepArmKeeps ==
    ASSUME IInv, SweepArm
    PROVE  IInv'
<1> USE DEF sendVars, wireVars, readVars, appVars, ackVars, ackFrame
<1>1. WireTypes /\ ReadTypes /\ StreamPart /\ CreditPart
    BY Parts
<1>2. StreamPart'
    BY <1>1, StreamPartKept DEF SweepArm, StreamPart, SendTypes
<1>3. WireTypes' /\ ReadTypes'
    BY <1>1 DEF SweepArm, WireTypes, ReadTypes, WireCap, Messages, MaxFrags, Credits
<1>4. AckTypes'
    <2>1. CASE UNCHANGED <<armed, queued>>
        BY <1>1, <2>1 DEF SweepArm, CreditPart, AckTypes, Messages
    <2>2. CASE Arm
        BY <1>1, <2>2, ArmKeeps DEF SweepArm, CreditPart, AckTypes, Messages
    <2>3. QED
        BY <2>1, <2>2 DEF SweepArm
<1>5. CreditTaken'
    BY <1>1 DEF SweepArm, CreditPart, CreditTaken, Whole, Sending
<1>6. AckOrder'
    BY <1>1 DEF SweepArm, CreditPart, AckOrder, Credits
<1>7. ArmedOnce'
    <2>1. CASE UNCHANGED <<armed, queued>>
        BY <1>1, <2>1 DEF SweepArm, CreditPart, ArmedOnce
    <2>2. CASE Arm
        BY <1>1, <2>2, ArmKeeps DEF SweepArm, CreditPart
    <2>3. QED
        BY <2>1, <2>2 DEF SweepArm
<1>8. QED
    BY <1>2, <1>3, <1>4, <1>5, <1>6, <1>7, PartsNext DEF CreditPart

\* A delivery's arm.
LEMMA DeliveredArmKeeps ==
    ASSUME IInv, DeliveredArm
    PROVE  IInv'
<1> USE DEF sendVars, wireVars, readVars, appVars, ackVars, ackFrame
<1>1. WireTypes /\ ReadTypes /\ StreamPart /\ CreditPart
    BY Parts
<1>2. StreamPart'
    BY <1>1, StreamPartKept DEF DeliveredArm, StreamPart, SendTypes
<1>3. WireTypes' /\ ReadTypes'
    BY <1>1 DEF DeliveredArm, WireTypes, ReadTypes, WireCap, Messages, MaxFrags, Credits
<1>4. AckTypes'
    <2>1. CASE UNCHANGED <<armed, queued>>
        BY <1>1, <2>1 DEF DeliveredArm, CreditPart, AckTypes, Messages
    <2>2. CASE Arm
        BY <1>1, <2>2, ArmKeeps DEF DeliveredArm, CreditPart, AckTypes, Messages
    <2>3. QED
        BY <2>1, <2>2 DEF DeliveredArm
<1>5. CreditTaken'
    BY <1>1 DEF DeliveredArm, CreditPart, CreditTaken, Whole, Sending
<1>6. AckOrder'
    BY <1>1 DEF DeliveredArm, CreditPart, AckOrder, Credits
<1>7. ArmedOnce'
    <2>1. CASE UNCHANGED <<armed, queued>>
        BY <1>1, <2>1 DEF DeliveredArm, CreditPart, ArmedOnce
    <2>2. CASE Arm
        BY <1>1, <2>2, ArmKeeps DEF DeliveredArm, CreditPart
    <2>3. QED
        BY <2>1, <2>2 DEF DeliveredArm
<1>8. QED
    BY <1>2, <1>3, <1>4, <1>5, <1>6, <1>7, PartsNext DEF CreditPart

\* The dispatcher's arm when units were consumed meanwhile.
LEMMA ReleaseAckTokenKeeps ==
    ASSUME IInv, ReleaseAckToken
    PROVE  IInv'
<1> USE DEF sendVars, wireVars, readVars, appVars, ackVars, ackFrame
<1>1. WireTypes /\ ReadTypes /\ StreamPart /\ CreditPart
    BY Parts
<1>2. StreamPart'
    BY <1>1, StreamPartKept DEF ReleaseAckToken, StreamPart, SendTypes
<1>3. WireTypes' /\ ReadTypes'
    BY <1>1 DEF ReleaseAckToken, WireTypes, ReadTypes, WireCap, Messages, MaxFrags, Credits
<1>4. AckTypes'
    <2>1. CASE UNCHANGED <<armed, queued>>
        BY <1>1, <2>1 DEF ReleaseAckToken, CreditPart, AckTypes, Messages
    <2>2. CASE Arm
        BY <1>1, <2>2, ArmKeeps DEF ReleaseAckToken, CreditPart, AckTypes, Messages
    <2>3. QED
        BY <2>1, <2>2 DEF ReleaseAckToken
<1>5. CreditTaken'
    BY <1>1 DEF ReleaseAckToken, CreditPart, CreditTaken, Whole, Sending
<1>6. AckOrder'
    BY <1>1 DEF ReleaseAckToken, CreditPart, AckOrder, Credits
<1>7. ArmedOnce'
    <2>1. CASE UNCHANGED <<armed, queued>>
        BY <1>1, <2>1 DEF ReleaseAckToken, CreditPart, ArmedOnce
    <2>2. CASE Arm
        BY <1>1, <2>2, ArmKeeps DEF ReleaseAckToken, CreditPart
    <2>3. QED
        BY <2>1, <2>2 DEF ReleaseAckToken
<1>8. QED
    BY <1>2, <1>3, <1>4, <1>5, <1>6, <1>7, PartsNext DEF CreditPart

\* The timer's arm.
LEMMA ReArmAfterBackoffKeeps ==
    ASSUME IInv, ReArmAfterBackoff
    PROVE  IInv'
<1> USE DEF sendVars, wireVars, readVars, appVars, ackVars, ackFrame
<1>1. WireTypes /\ ReadTypes /\ StreamPart /\ CreditPart
    BY Parts
<1>2. StreamPart'
    BY <1>1, StreamPartKept DEF ReArmAfterBackoff, StreamPart, SendTypes
<1>3. WireTypes' /\ ReadTypes'
    BY <1>1 DEF ReArmAfterBackoff, WireTypes, ReadTypes, WireCap, Messages, MaxFrags, Credits
<1>4. AckTypes'
    <2>1. CASE UNCHANGED <<armed, queued>>
        BY <1>1, <2>1 DEF ReArmAfterBackoff, CreditPart, AckTypes, Messages
    <2>2. CASE Arm
        BY <1>1, <2>2, ArmKeeps DEF ReArmAfterBackoff, CreditPart, AckTypes, Messages
    <2>3. QED
        BY <2>1, <2>2 DEF ReArmAfterBackoff
<1>5. CreditTaken'
    BY <1>1 DEF ReArmAfterBackoff, CreditPart, CreditTaken, Whole, Sending
<1>6. AckOrder'
    BY <1>1 DEF ReArmAfterBackoff, CreditPart, AckOrder, Credits
<1>7. ArmedOnce'
    <2>1. CASE UNCHANGED <<armed, queued>>
        BY <1>1, <2>1 DEF ReArmAfterBackoff, CreditPart, ArmedOnce
    <2>2. CASE Arm
        BY <1>1, <2>2, ArmKeeps DEF ReArmAfterBackoff, CreditPart
    <2>3. QED
        BY <2>1, <2>2 DEF ReArmAfterBackoff
<1>8. QED
    BY <1>2, <1>3, <1>4, <1>5, <1>6, <1>7, PartsNext DEF CreditPart

\* A delivery below the threshold looks at the drain mark.
LEMMA DeliveredDrainKeeps ==
    ASSUME IInv, DeliveredDrain
    PROVE  IInv'
<1> USE DEF sendVars, wireVars, readVars, appVars, ackVars, ackFrame
<1>1. WireTypes /\ ReadTypes /\ StreamPart /\ CreditPart
    BY Parts
<1>2. StreamPart'
    BY <1>1, StreamPartKept DEF DeliveredDrain, StreamPart, SendTypes
<1>3. WireTypes' /\ ReadTypes'
    BY <1>1 DEF DeliveredDrain, WireTypes, ReadTypes, WireCap, Messages, MaxFrags, Credits
<1>4. AckTypes'
    BY <1>1 DEF DeliveredDrain, CreditPart, AckTypes, Messages
<1>5. CreditTaken'
    BY <1>1 DEF DeliveredDrain, CreditPart, CreditTaken, Whole, Sending
<1>6. AckOrder'
    BY <1>1 DEF DeliveredDrain, CreditPart, AckOrder, Credits
<1>7. ArmedOnce'
    BY <1>1 DEF DeliveredDrain, CreditPart, ArmedOnce
<1>8. QED
    BY <1>2, <1>3, <1>4, <1>5, <1>6, <1>7, PartsNext DEF CreditPart

\* The dispatcher takes the stream off its queue and clears the flag.
LEMMA PopArmKeeps ==
    ASSUME IInv, PopArm
    PROVE  IInv'
<1> USE DEF sendVars, wireVars, readVars, appVars, ackVars, ackFrame
<1>1. WireTypes /\ ReadTypes /\ StreamPart /\ CreditPart
    BY Parts
<1>2. StreamPart'
    BY <1>1, StreamPartKept DEF PopArm, StreamPart, SendTypes
<1>3. WireTypes' /\ ReadTypes'
    BY <1>1 DEF PopArm, WireTypes, ReadTypes, WireCap, Messages, MaxFrags, Credits
<1>4. AckTypes'
    BY <1>1 DEF PopArm, CreditPart, AckTypes, Messages
<1>5. CreditTaken'
    BY <1>1 DEF PopArm, CreditPart, CreditTaken, Whole, Sending
<1>6. AckOrder'
    BY <1>1 DEF PopArm, CreditPart, AckOrder, Credits
<1>7. ArmedOnce'
    BY <1>1 DEF PopArm, CreditPart, ArmedOnce, AckTypes
<1>8. QED
    BY <1>2, <1>3, <1>4, <1>5, <1>6, <1>7, PartsNext DEF CreditPart

\* The dispatcher reads the value to send.
LEMMA BuildAckKeeps ==
    ASSUME IInv, BuildAck
    PROVE  IInv'
<1> USE DEF sendVars, wireVars, readVars, appVars, ackVars, ackFrame
<1>1. WireTypes /\ ReadTypes /\ StreamPart /\ CreditPart
    BY Parts
<1>2. StreamPart'
    BY <1>1, StreamPartKept DEF BuildAck, StreamPart, SendTypes
<1>3. WireTypes' /\ ReadTypes'
    BY <1>1 DEF BuildAck, WireTypes, ReadTypes, WireCap, Messages, MaxFrags, Credits
<1>4. AckTypes'
    BY <1>1 DEF BuildAck, CreditPart, AckTypes, Messages
<1>5. CreditTaken'
    BY <1>1 DEF BuildAck, CreditPart, CreditTaken, Whole, Sending
<1>6. AckOrder'
    BY <1>1 DEF BuildAck, CreditPart, AckOrder, Credits, AckTypes
<1>7. ArmedOnce'
    BY <1>1 DEF BuildAck, CreditPart, ArmedOnce
<1>8. QED
    BY <1>2, <1>3, <1>4, <1>5, <1>6, <1>7, PartsNext DEF CreditPart

\* A unit is consumed unless the peer has closed.
LEMMA ConsumeKeeps ==
    ASSUME IInv, Consume
    PROVE  IInv'
<1> USE DEF sendVars, wireVars, readVars, appVars, ackVars, ackFrame
<1>1. WireTypes /\ ReadTypes /\ StreamPart /\ CreditPart
    BY Parts
<1>2. StreamPart'
    BY <1>1, StreamPartKept DEF Consume, StreamPart, SendTypes
<1>3. WireTypes' /\ ReadTypes'
    BY <1>1 DEF Consume, WireTypes, ReadTypes, WireCap, Messages, MaxFrags, Credits
<1>4. AckTypes'
    <2>1. consumed' \in 0 .. Messages
        <3>1. CASE remoteClosed = 1
            BY <1>1, <3>1 DEF Consume, CreditPart, AckTypes
        <3>2. CASE remoteClosed = 0
            <4>1. consumed' = Len(got) /\ Len(got) <= Whole /\ Whole <= Messages
                BY <3>2, UnitsWithin DEF Consume
            <4>2. QED
                BY <3>2, <4>1, UnitsWithin
        <3>3. QED
            BY <1>1, <3>1, <3>2 DEF ReadTypes
    <2>2. QED
        BY <1>1, <2>1 DEF Consume, CreditPart, AckTypes, Messages
<1>5. CreditTaken'
    <2>1. CASE remoteClosed = 1
        BY <1>1, <2>1 DEF Consume, CreditPart, CreditTaken, Whole, Sending
    <2>2. CASE remoteClosed = 0
        <3>1. consumed' = Len(got) /\ Len(got) <= Whole /\ apc' \in {"arm", "drain?"}
            BY <2>2, UnitsWithin DEF Consume
        <3>2. QED
            BY <1>1, <2>2, <3>1 DEF Consume, CreditTaken, Whole, Sending
    <2>3. QED
        BY <1>1, <2>1, <2>2 DEF ReadTypes
<1>6. AckOrder'
    <2>1. consumed \in Nat /\ consumed' \in Nat /\ consumed' >= consumed
        BY <1>1 DEF Consume, CreditPart, AckTypes
    <2>2. QED
        BY <1>1, <2>1 DEF Consume, CreditPart, AckOrder, Credits, AckTypes
<1>7. ArmedOnce'
    BY <1>1 DEF Consume, CreditPart, ArmedOnce
<1>8. QED
    BY <1>2, <1>3, <1>4, <1>5, <1>6, <1>7, PartsNext DEF CreditPart


\* The ack goes out, above every ack before it, or is refused and retried after the back-off.
LEMMA SendAckKeeps ==
    ASSUME IInv, SendAck
    PROVE  IInv'
<1> USE DEF sendVars, wireVars, readVars, appVars, ackVars, ackFrame
<1>1. WireTypes /\ ReadTypes /\ StreamPart /\ CreditPart
    BY Parts
<1>2. StreamPart'
    <2>1. SendTypes /\ Faults \in Nat
        BY <1>1, PlanNumbers DEF StreamPart
    <2>2. faults' \in 0 .. Faults
        BY <2>1 DEF SendAck, SendTypes
    <2>3. QED
        BY <1>1, <2>2, StreamPartKept DEF SendAck
<1>3. ReadTypes'
    BY <1>1 DEF SendAck, ReadTypes, Messages, MaxFrags, Credits
<1>4. cum \in Nat /\ ackedOut \in Nat /\ acked \in Nat /\ consumed \in Nat /\ acks \in Seq(Nat)
    BY <1>1, SendNumbers, PlanNumbers DEF StreamPart, CreditPart, AckTypes, WireTypes
<1>5. CASE Len(acks) < WireCap /\ acks' = Append(acks, cum) /\ ackedOut' = cum /\ dpc' = "again"
           /\ UNCHANGED <<deferred, timer, faults>>
    <2>1. /\ acks' \in Seq(Nat) /\ Len(acks) \in Nat /\ Len(acks') = Len(acks) + 1
          /\ acks'[Len(acks) + 1] = cum /\ \A i \in 1 .. Len(acks) : acks'[i] = acks[i]
        BY <1>4, <1>5, Appended
    <2>2. WireTypes'
        <3>1. WireCap' = WireCap /\ WireCap \in Nat
            BY <1>1, PlanNumbers DEF SendAck, WireCap, StreamPart
        <3>2. QED
            BY <1>1, <1>5, <2>1, <3>1 DEF SendAck, WireTypes
    <2>3. AckTypes'
        BY <1>1, <1>5 DEF SendAck, CreditPart, AckTypes, Messages
    <2>4. CreditTaken'
        BY <1>1 DEF SendAck, CreditPart, CreditTaken, Whole, Sending
    <2>5. AckOrder'
        <3>1. ackedOut < cum /\ cum <= consumed /\ acked <= ackedOut
            BY <1>1 DEF SendAck, CreditPart, AckOrder
        <3>2. UNCHANGED <<sent, acked, consumed, plan>>
            BY DEF SendAck
        <3>3. /\ \A i \in 1 .. Len(acks) : acks[i] \in Nat /\ acked < acks[i] /\ acks[i] <= ackedOut
              /\ \A i, j \in 1 .. Len(acks) : i < j => acks[i] < acks[j]
            BY <1>1, <1>4 DEF CreditPart, AckOrder
        <3>4. ASSUME NEW i \in 1 .. Len(acks')
              PROVE  i \in 1 .. Len(acks) \/ i = Len(acks) + 1
            BY <2>1
        <3>5. ASSUME NEW i \in 1 .. Len(acks') PROVE acked < acks'[i] /\ acks'[i] <= cum
            BY <1>4, <2>1, <3>1, <3>3, <3>4
        <3>6. ASSUME NEW i \in 1 .. Len(acks'), NEW j \in 1 .. Len(acks'), i < j
              PROVE  acks'[i] < acks'[j]
            <4>1. i \in 1 .. Len(acks)
                BY <2>1, <3>6
            <4>2. CASE j \in 1 .. Len(acks)
                BY <2>1, <3>3, <3>6, <4>1, <4>2
            <4>3. CASE j = Len(acks) + 1
                <5>1. acks'[i] = acks[i] /\ acks[i] \in Nat /\ acks[i] <= ackedOut
                    BY <2>1, <3>3, <4>1
                <5>2. acks'[j] = cum
                    BY <2>1, <4>3
                <5>3. QED
                    BY <1>4, <3>1, <5>1, <5>2
            <4>4. QED
                BY <3>4, <4>2, <4>3
        <3>7. QED
            BY <1>1, <1>4, <1>5, <3>1, <3>2, <3>5, <3>6 DEF CreditPart, AckOrder, Credits
    <2>6. ArmedOnce'
        BY <1>1, <1>5 DEF SendAck, CreditPart, ArmedOnce
    <2>7. QED
        BY <1>2, <1>3, <2>2, <2>3, <2>4, <2>5, <2>6, PartsNext DEF CreditPart
<1>6. CASE deferred' = 1 /\ timer' = 1 /\ dpc' = "pop" /\ UNCHANGED <<acks, ackedOut>>
    <2>1. WireTypes'
        BY <1>1, <1>6 DEF SendAck, WireTypes, WireCap
    <2>2. AckTypes'
        BY <1>1, <1>6 DEF SendAck, CreditPart, AckTypes, Messages
    <2>3. CreditTaken'
        BY <1>1 DEF SendAck, CreditPart, CreditTaken, Whole, Sending
    <2>4. AckOrder'
        BY <1>1, <1>6 DEF SendAck, CreditPart, AckOrder, Credits
    <2>5. ArmedOnce'
        BY <1>1, <1>6 DEF SendAck, CreditPart, ArmedOnce
    <2>6. QED
        BY <1>2, <1>3, <2>1, <2>2, <2>3, <2>4, <2>5, PartsNext DEF CreditPart
<1>7. QED
    BY <1>5, <1>6 DEF SendAck

\* onStreamAck takes the ack: it is above the last one and within what was sent, so it is accepted.
LEMMA OnStreamAckKeeps ==
    ASSUME IInv, OnStreamAck
    PROVE  IInv'
<1> USE DEF sendVars, wireVars, readVars, appVars, ackVars, ackFrame
<1>1. WireTypes /\ ReadTypes /\ StreamPart /\ CreditPart
    BY Parts
<1>2. /\ acks \in Seq(Nat) /\ acks # <<>> /\ acks' = Tail(acks)
    BY <1>1 DEF WireTypes, OnStreamAck
<1>3. /\ acks' \in Seq(Nat) /\ Len(acks) \in Nat /\ Len(acks) >= 1 /\ Len(acks') = Len(acks) - 1
      /\ Head(acks) = acks[1] /\ acks[1] \in Nat
      /\ \A i \in 1 .. Len(acks') : i + 1 \in 1 .. Len(acks) /\ acks'[i] = acks[i + 1]
    BY <1>2, Taken
<1>4. /\ sent \in Nat /\ acked \in Nat /\ Sending \in {0, 1} /\ sent <= Messages /\ Messages \in Nat
      /\ ackedOut \in Nat /\ consumed \in Nat /\ WireCap \in Nat /\ Credits \in Nat
    BY <1>1, SendNumbers, PlanNumbers DEF StreamPart, CreditPart, AckTypes
<1>5. /\ acked < acks[1] /\ acks[1] <= ackedOut /\ ackedOut <= consumed /\ consumed <= Whole
      /\ sent - acked <= Credits
    BY <1>1, <1>3 DEF CreditPart, AckOrder, CreditTaken
<1>6. acks[1] <= sent
    BY <1>3, <1>4, <1>5 DEF Whole
<1>7. acked' = acks[1] /\ sendWake' = 1 /\ UNCHANGED conformance
    BY <1>3, <1>4, <1>5, <1>6 DEF OnStreamAck
<1>8. /\ UNCHANGED <<plan, sent, sendSeq, spc, frag, frags, data, expectedSeq, accum, recvCh,
                     remoteClosed, drainOwed, drained, rpc, apc, got, consumed, ackedOut, armed,
                     queued, deferred, timer, tpc, dpc, cum, faults>>
      /\ Sending' = Sending /\ Whole' = Whole /\ Received' = Received /\ Closing' = Closing
    BY DEF OnStreamAck, Sending, Whole, Received, Closing, Trailer
<1>9. StreamPart'
    <2>1. SendTypes'
        BY <1>1, <1>3, <1>4, <1>6, <1>7, <1>8 DEF StreamPart, SendTypes, Messages, MaxFrags, Faults
    <2>2. SenderPlace'
        BY <1>1, <1>8 DEF StreamPart, SenderPlace, Messages, MaxFrags
    <2>3. Traffic'
        BY <1>1, <1>8, TrafficKept DEF StreamPart
    <2>4. MessagesCounted' /\ Buffered' /\ DeliveredInOrder' /\ NoConformanceFault'
        BY <1>1, <1>7, <1>8 DEF StreamPart, MessagesCounted, Buffered, DeliveredInOrder,
           NoConformanceFault
    <2>5. QED
        BY <2>1, <2>2, <2>3, <2>4 DEF StreamPart
<1>10. WireTypes' /\ ReadTypes'
    <2>1. WireCap' = WireCap
        BY <1>8 DEF WireCap
    <2>2. WireTypes'
        BY <1>1, <1>3, <1>4, <1>8, <2>1 DEF WireTypes
    <2>3. QED
        BY <1>1, <1>7, <1>8, <2>2 DEF ReadTypes, Messages, MaxFrags, Credits
<1>11. AckTypes' /\ CreditTaken' /\ ArmedOnce'
    BY <1>1, <1>8 DEF CreditPart, AckTypes, CreditTaken, ArmedOnce, Messages
<1>12. AckOrder'
    <2>a. /\ \A i \in 1 .. Len(acks) : acks[i] <= ackedOut
          /\ \A i, j \in 1 .. Len(acks) : i < j => acks[i] < acks[j]
        BY <1>1 DEF CreditPart, AckOrder
    <2>1. ASSUME NEW i \in 1 .. Len(acks') PROVE acks[1] < acks'[i] /\ acks'[i] <= ackedOut
        <3>1. i + 1 \in 1 .. Len(acks) /\ 1 \in 1 .. Len(acks) /\ 1 < i + 1 /\ acks'[i] = acks[i + 1]
            BY <1>3
        <3>2. QED
            BY <2>a, <3>1
    <2>2. ASSUME NEW i \in 1 .. Len(acks'), NEW j \in 1 .. Len(acks'), i < j
          PROVE  acks'[i] < acks'[j]
        <3>1. /\ i + 1 \in 1 .. Len(acks) /\ j + 1 \in 1 .. Len(acks) /\ i + 1 < j + 1
              /\ acks'[i] = acks[i + 1] /\ acks'[j] = acks[j + 1]
            BY <1>3, <2>2
        <3>2. QED
            BY <2>a, <3>1
    <2>3. sent - acks[1] <= Credits /\ Credits' = Credits
        BY <1>3, <1>4, <1>5, <1>8 DEF Credits
    <2>4. QED
        BY <1>1, <1>5, <1>7, <1>8, <2>1, <2>2, <2>3 DEF CreditPart, AckOrder
<1>13. QED
    BY <1>9, <1>10, <1>11, <1>12, PartsNext DEF CreditPart

\* RecvMsg takes the next item, or waits, or sees the close with nothing left.
LEMMA RecvMsgKeeps ==
    ASSUME IInv, RecvMsg
    PROVE  IInv'
<1> USE DEF sendVars, wireVars, readVars, appVars, ackVars, ackFrame
<1>1. WireTypes /\ ReadTypes /\ StreamPart /\ CreditPart
    BY Parts
<1>2. UNCHANGED <<plan, sent, acked, sendSeq, sendWake, spc, frag, frags, data, acks, expectedSeq,
                  accum, remoteClosed, conformance, drainOwed, drained, rpc, consumed, ackedOut,
                  armed, queued, deferred, timer, tpc, dpc, cum, faults>>
    BY DEF RecvMsg
<1>3. Sending' = Sending /\ Whole' = Whole /\ Closing' = Closing /\ Trailer' = Trailer
    BY <1>2 DEF Sending, Whole, Closing, Trailer
<1>4. AckTypes' /\ AckOrder' /\ ArmedOnce' /\ WireTypes' /\ SendTypes' /\ SenderPlace'
    <2>1. AckTypes' /\ AckOrder' /\ ArmedOnce'
        BY <1>1, <1>2 DEF CreditPart, AckTypes, AckOrder, ArmedOnce, Messages, Credits
    <2>2. WireTypes' /\ SendTypes' /\ SenderPlace'
        BY <1>1, <1>2, <1>3 DEF StreamPart, WireTypes, SendTypes, SenderPlace, WireCap, Messages,
           MaxFrags, Faults
    <2>3. QED
        BY <2>1, <2>2
<1>5. CASE UNCHANGED <<got, recvCh>>
    <2>1. StreamPart'
        BY <1>1, <1>2, <1>5, StreamPartKept DEF StreamPart, SendTypes
    <2>3. /\ apc' \in {"block", "eof?", "eof"} /\ apc # "consume"
          /\ apc' \in {"eof?", "eof"} => remoteClosed = 1
          /\ apc' = "eof" => recvCh = <<>>
        <3>1. ~Take("consume") \/ recvCh = <<>>
            <4>1. SUFFICES ASSUME Take("consume"), recvCh # <<>> PROVE FALSE
                OBVIOUS
            <4>2. recvCh \in Seq(ItemType)
                BY <1>1 DEF ReadTypes, ItemType
            <4>3. Len(recvCh') = Len(recvCh) - 1 /\ Len(recvCh) \in Nat
                BY <4>1, <4>2, Taken DEF Take
            <4>4. QED
                BY <1>5, <4>3
        <3>2. apc = "eof?" => remoteClosed = 1
            BY <1>1 DEF CreditPart, CreditTaken
        <3>3. QED
            BY <3>1, <3>2 DEF RecvMsg
    <2>4. CreditTaken'
        BY <1>1, <1>2, <1>3, <1>5, <2>3 DEF CreditPart, CreditTaken
    <2>5. ReadTypes'
        BY <1>1, <1>2, <1>5, <2>3 DEF ReadTypes, Messages, MaxFrags, Credits
    <2>6. QED
        BY <1>4, <2>1, <2>4, <2>5, PartsNext DEF CreditPart
<1>6. CASE recvCh # <<>> /\ Take("consume") /\ apc # "consume"
    <2>1. recvCh \in Seq(ItemType) /\ got \in Seq(Nat) /\ recvCh' = Tail(recvCh)
        BY <1>1, <1>6 DEF ReadTypes, ItemType, Take
    <2>2. /\ recvCh' \in Seq(ItemType) /\ Len(recvCh) \in Nat /\ Len(recvCh) >= 1
          /\ Len(recvCh') = Len(recvCh) - 1 /\ Head(recvCh) = recvCh[1] /\ recvCh[1] \in ItemType
          /\ \A i \in 1 .. Len(recvCh') : i + 1 \in 1 .. Len(recvCh) /\ recvCh'[i] = recvCh[i + 1]
        BY <1>6, <2>1, Taken
    <2>3. recvCh[1].msg \in Nat /\ got' = Append(got, recvCh[1].msg)
        BY <1>6, <2>2 DEF Take, ItemType
    <2>4. /\ got' \in Seq(Nat) /\ Len(got) \in Nat /\ Len(got') = Len(got) + 1
          /\ got'[Len(got) + 1] = recvCh[1].msg /\ \A i \in 1 .. Len(got) : got'[i] = got[i]
        BY <2>1, <2>3, Appended
    <2>5. Received' = Received
        BY <1>1, <1>3, <2>2, <2>4, ReadNumbers DEF Received, StreamPart
    <2>6. Traffic' /\ MessagesCounted'
        <3>1. Traffic'
            BY <1>1, <1>2, <1>3, <2>5, TrafficKept DEF StreamPart
        <3>2. QED
            BY <1>1, <1>2, <1>3, <2>5, <3>1 DEF StreamPart, MessagesCounted
    <2>7. Buffered'
        <3>1. ASSUME NEW i \in 1 .. Len(recvCh')
              PROVE  recvCh'[i].msg = Len(got') + i /\ (remoteClosed = 0 => recvCh'[i].credited = 1)
            <4>1. i + 1 \in 1 .. Len(recvCh) /\ recvCh'[i] = recvCh[i + 1]
                BY <2>2
            <4>2. recvCh[i + 1].msg = Len(got) + (i + 1)
                BY <1>1, <4>1 DEF StreamPart, Buffered
            <4>3. remoteClosed = 0 => recvCh[i + 1].credited = 1
                BY <1>1, <4>1 DEF StreamPart, Buffered
            <4>4. QED
                BY <2>2, <2>4, <4>1, <4>2, <4>3
        <3>2. QED
            BY <1>2, <3>1 DEF Buffered
    <2>8. DeliveredInOrder'
        <3>1. recvCh[1].msg = Len(got) + 1
            BY <1>1, <2>2 DEF StreamPart, Buffered
        <3>2. QED
            BY <1>1, <2>4, <3>1 DEF StreamPart, DeliveredInOrder
    <2>9. NoConformanceFault'
        BY <1>1, <1>2 DEF StreamPart, NoConformanceFault
    <2>10. CreditTaken'
        <3>1. remoteClosed = 0 => apc' = "consume"
            BY <1>1, <1>6, <2>2 DEF StreamPart, Buffered, Take
        <3>2. apc' \in {"consume", "poll"}
            BY <1>6 DEF Take
        <3>3. QED
            BY <1>1, <1>2, <1>3, <1>6, <2>4, <3>1, <3>2 DEF CreditPart, CreditTaken, AckTypes
    <2>11. ReadTypes'
        <3>1. apc' \in {"consume", "poll"}
            BY <1>6 DEF Take
        <3>2. Credits' = Credits /\ Credits \in Nat /\ Messages' = Messages /\ MaxFrags' = MaxFrags
            BY <1>1, <1>2, PlanNumbers DEF StreamPart, Credits, Messages, MaxFrags
        <3>3. QED
            BY <1>1, <1>2, <2>2, <2>4, <3>1, <3>2 DEF ReadTypes, ItemType
    <2>12. QED
        BY <1>4, <2>6, <2>7, <2>8, <2>9, <2>10, <2>11, PartsNext DEF StreamPart, CreditPart
<1>7. QED
    BY <1>5, <1>6 DEF RecvMsg

-----------------------------------------------------------------------------
(* The sender's steps.                                                     *)

\* Products of the plan's bounds grow with their first factor.
LEMMA Products ==
    ASSUME NEW a \in Nat, NEW b \in Nat, NEW c \in Nat, a + 1 <= b
    PROVE  a * c + c <= b * c
<1>1. PICK d \in Nat : b = a + 1 + d
    <2>1. b - (a + 1) \in Nat /\ b = a + 1 + (b - (a + 1))
        OBVIOUS
    <2>2. QED
        BY <2>1
<1>2. b * c = a * c + c + d * c /\ d * c \in Nat /\ a * c \in Nat
    BY <1>1
<1>3. QED
    BY <1>2

\* Everything the sender and the reader count with is a number.
LEMMA Numbers ==
    ASSUME SendTypes, WireTypes, ReadTypes
    PROVE  /\ sent \in Nat /\ acked \in Nat /\ sendSeq \in Nat /\ frag \in Nat /\ frags \in Nat
           /\ sent <= Messages /\ frags <= MaxFrags /\ Sending \in {0, 1} /\ Whole \in Int
           /\ Messages \in Nat /\ MaxFrags \in Nat /\ MaxFrags >= 1 /\ Credits \in Nat
           /\ WireCap \in Nat /\ Faults \in Nat
           /\ Len(data) \in Nat /\ expectedSeq \in Nat /\ accum \in Nat /\ Received \in Int
           /\ Closing \in {0, 1} /\ Len(recvCh) \in Nat /\ Len(got) \in Nat /\ expectedSeq >= 1
<1>1. /\ sent \in Nat /\ acked \in Nat /\ sendSeq \in Nat /\ frag \in Nat /\ frags \in Nat
      /\ sent <= Messages /\ frags <= MaxFrags /\ Sending \in {0, 1} /\ Whole \in Int
    BY SendNumbers
<1>2. /\ Messages \in Nat /\ MaxFrags \in Nat /\ MaxFrags >= 1 /\ Credits \in Nat
      /\ WireCap \in Nat /\ Faults \in Nat
    BY PlanNumbers
<1>3. /\ Len(data) \in Nat /\ expectedSeq \in Nat /\ accum \in Nat /\ Received \in Int
      /\ Closing \in {0, 1} /\ Len(recvCh) \in Nat /\ Len(got) \in Nat /\ expectedSeq >= 1
    BY ReadNumbers
<1>4. QED
    BY <1>1, <1>2, <1>3

\* A frame in flight has the fields of one.
LEMMA FrameAt ==
    ASSUME WireTypes, NEW i \in 1 .. Len(data)
    PROVE  /\ data[i] \in FrameType /\ data[i].kind \in {"chunk", "msg", "close"}
           /\ data[i].seq \in Nat /\ data[i].msg \in Nat
<1>1. data \in Seq(FrameType)
    BY DEF WireTypes, FrameType
<1>2. data[i] \in FrameType
    BY <1>1
<1>3. QED
    BY <1>2 DEF FrameType

\* Before the half-close nothing on either side says closed.
LEMMA StillOpen ==
    ASSUME StreamPart, ReadTypes, spc \notin {"closed", "closedWith"}
    PROVE  /\ Closing = 0 /\ Trailer = 0 /\ remoteClosed = 0
           /\ \A i \in 1 .. Len(data) : data[i].kind # "close"
BY DEF StreamPart, Traffic, SeqDense, ReadTypes, Closing, Trailer

\* What a step of the sender alone leaves in place.
LEMMA ReceiverKept ==
    ASSUME WireTypes, ReadTypes, AckTypes, ArmedOnce, Buffered, DeliveredInOrder, NoConformanceFault,
           UNCHANGED <<plan, acks, readVars, appVars, ackVars>>
    PROVE  /\ ReadTypes' /\ AckTypes' /\ ArmedOnce' /\ Buffered' /\ DeliveredInOrder'
           /\ NoConformanceFault'
<1> USE DEF readVars, appVars, ackVars
<1>1. ReadTypes'
    BY DEF ReadTypes, Messages, MaxFrags, Credits
<1>2. AckTypes' /\ ArmedOnce'
    BY DEF AckTypes, ArmedOnce, Messages
<1>3. QED
    BY <1>1, <1>2 DEF Buffered, DeliveredInOrder, NoConformanceFault

\* Between two messages the sending goroutine moves no frame and no credit.
LEMMA SenderIdleKeeps ==
    ASSUME IInv, SendTypes', SenderPlace',
           {spc, spc'} \cap {"frame", "closed", "closedWith"} = {},
           UNCHANGED <<plan, sent, acked, sendSeq, data, acks, readVars, appVars, ackVars>>
    PROVE  IInv'
<1> USE DEF readVars, appVars, ackVars
<1>1. WireTypes /\ ReadTypes /\ StreamPart /\ CreditPart
    BY Parts
<1>2. /\ Sending' = Sending /\ Whole' = Whole /\ Closing' = Closing /\ Received' = Received
      /\ spc # "frame" /\ spc' # "frame" /\ spc \notin {"closed", "closedWith"}
      /\ spc' \notin {"closed", "closedWith"}
    BY DEF Sending, Whole, Closing, Received, Trailer
<1>3. frag' = frag
    BY <1>1, <1>2 DEF StreamPart, SenderPlace
<1>4. Traffic'
    BY <1>1, <1>2, <1>3, TrafficKept DEF StreamPart
<1>5. MessagesCounted'
    BY <1>1, <1>2 DEF StreamPart, MessagesCounted
<1>6. ReadTypes' /\ AckTypes' /\ ArmedOnce' /\ Buffered' /\ DeliveredInOrder' /\ NoConformanceFault'
    BY <1>1, ReceiverKept DEF StreamPart, CreditPart
<1>7. WireTypes'
    BY <1>1 DEF WireTypes, WireCap
<1>8. CreditTaken' /\ AckOrder'
    BY <1>1, <1>2 DEF CreditPart, CreditTaken, AckOrder, Credits
<1>9. QED
    BY <1>4, <1>5, <1>6, <1>7, <1>8, PartsNext DEF StreamPart, CreditPart

\* SendMsg starts a message.
LEMMA SendMsgKeeps ==
    ASSUME IInv, SendMsg
    PROVE  IInv'
<1> USE DEF wireVars, readVars, appVars, ackVars
<1>1. SendTypes /\ SenderPlace
    BY DEF IInv, TypeOK
<1>2. MaxFrags \in Nat \ {0} /\ MaxFrags' = MaxFrags
    BY <1>1, PlanNumbers DEF SendMsg, MaxFrags
<1>3. SendTypes'
    BY <1>1, <1>2 DEF SendMsg, SendTypes, Messages, Faults
<1>4. SenderPlace'
    <2>1. Whole' = Whole /\ frags' >= 1
        BY <1>2 DEF SendMsg, Whole, Sending
    <2>2. QED
        BY <1>1, <1>2, <2>1 DEF SendMsg, SenderPlace, Messages
<1>5. QED
    BY <1>3, <1>4, SenderIdleKeeps DEF SendMsg

\* A parked message is woken and asks again.
LEMMA UnparkKeeps ==
    ASSUME IInv, Unpark
    PROVE  IInv'
<1> USE DEF wireVars, readVars, appVars, ackVars
<1>1. SendTypes /\ SenderPlace
    BY DEF IInv, TypeOK
<1>2. SendTypes'
    BY <1>1 DEF Unpark, SendTypes, Messages, MaxFrags, Faults
<1>3. SenderPlace'
    BY <1>1 DEF Unpark, SenderPlace, Messages, MaxFrags, Whole, Sending
<1>4. QED
    BY <1>2, <1>3, SenderIdleKeeps DEF Unpark

\* A parked message is given up: nothing was reserved for it.
LEMMA GiveUpKeeps ==
    ASSUME IInv, GiveUp
    PROVE  IInv'
<1> USE DEF wireVars, readVars, appVars, ackVars
<1>1. SendTypes /\ SenderPlace
    BY DEF IInv, TypeOK
<1>2. SendTypes'
    BY <1>1 DEF GiveUp, SendTypes, Messages, MaxFrags, Faults
<1>3. SenderPlace'
    BY <1>1 DEF GiveUp, SenderPlace, Messages, MaxFrags, Whole, Sending
<1>4. QED
    BY <1>2, <1>3, SenderIdleKeeps DEF GiveUp

\* admit reserves the next message's credit and first sequence number, or parks.
LEMMA AdmitKeeps ==
    ASSUME IInv, Admit
    PROVE  IInv'
<1> USE DEF wireVars, readVars, appVars, ackVars
<1>1. WireTypes /\ ReadTypes /\ StreamPart /\ CreditPart
    BY Parts
<1>2. SendTypes /\ SenderPlace /\ Traffic
    BY <1>1 DEF StreamPart
<1>3. CASE spc' = "parked" /\ UNCHANGED <<sent, sendSeq>>
    <2>1. SendTypes'
        BY <1>2, <1>3 DEF Admit, SendTypes, Messages, MaxFrags, Faults
    <2>2. SenderPlace'
        BY <1>2, <1>3 DEF Admit, SenderPlace, Messages, MaxFrags, Whole, Sending
    <2>3. QED
        BY <1>3, <2>1, <2>2, SenderIdleKeeps DEF Admit
<1>4. CASE sent - acked < Credits /\ sent' = sent + 1 /\ sendSeq' = sendSeq + 1 /\ spc' = "frame"
    <2>1. /\ sent \in Nat /\ acked \in Nat /\ sendSeq \in Nat /\ frag \in Nat /\ frags \in Nat
          /\ Messages \in Nat /\ MaxFrags \in Nat /\ MaxFrags >= 1 /\ Credits \in Nat
          /\ Len(data) \in Nat /\ expectedSeq \in Nat /\ accum \in Nat /\ Received \in Int
        BY <1>1, <1>2, Numbers
    <2>2. /\ UNCHANGED <<plan, acked, sendWake, frag, frags, data, acks, expectedSeq, accum, recvCh,
                         remoteClosed, apc, got, consumed, ackedOut, dpc, cum, faults>>
          /\ spc = "admit"
        BY DEF Admit
    <2>3. Credits' = Credits /\ Messages' = Messages /\ MaxFrags' = MaxFrags /\ WireCap' = WireCap
          /\ Faults' = Faults
        BY <2>2 DEF Credits, Messages, MaxFrags, WireCap, Faults
    <2>4. /\ Closing = 0 /\ remoteClosed = 0 /\ \A i \in 1 .. Len(data) : data[i].kind # "close"
        BY <1>1, <2>2, StillOpen
    <2>5. /\ Sending = 0 /\ Sending' = 1 /\ Whole = sent /\ Whole' = sent /\ Closing' = 0
          /\ Received' = Received
        BY <1>4, <2>1, <2>2, <2>4 DEF Sending, Whole, Closing, Received, Trailer
    <2>6. frag = 0 /\ frags >= 1 /\ sent < Messages /\ sendSeq <= sent * MaxFrags
        BY <1>2, <2>1, <2>2, <2>5 DEF SenderPlace
    <2>7. SendTypes'
        <3>1. sent * MaxFrags + MaxFrags <= Messages * MaxFrags
            BY <2>1, <2>6, Products
        <3>2. sendSeq' \in 0 .. Messages * MaxFrags
            BY <1>4, <2>1, <2>6, <3>1
        <3>3. QED
            BY <1>2, <1>4, <2>1, <2>2, <2>3, <2>6, <3>2 DEF SendTypes
    <2>8. SenderPlace'
        <3>1. sent * MaxFrags \in Nat
            BY <2>1
        <3>2. QED
            BY <1>4, <2>1, <2>2, <2>3, <2>5, <2>6, <3>1 DEF SenderPlace
    <2>9. SeqDense'
        <3>1. sendSeq' = expectedSeq - 1 + (Len(data) - Closing') + Sending'
            BY <1>2, <1>4, <2>1, <2>4, <2>5 DEF Traffic, SeqDense
        <3>2. QED
            BY <1>2, <1>4, <2>2, <2>4, <2>5, <3>1 DEF Traffic, SeqDense
    <2>10. MsgOrder'
        <3>1. Between'
            <4>1. ASSUME NEW i \in 1 .. Len(data) PROVE data[i].msg <= sent + 1
                <5>1. data[i].msg <= sent /\ data[i].msg \in Nat
                    BY <1>1, <1>2, <2>4, FrameAt DEF Traffic, MsgOrder, Between
                <5>2. QED
                    BY <2>1, <5>1
            <4>2. QED
                BY <1>4, <2>2, <4>1 DEF Between
        <3>2. FirstNext' /\ Ascending' /\ Adjacent'
            BY <1>2, <2>2, <2>5 DEF Traffic, MsgOrder, FirstNext, Ascending, Adjacent
        <3>3. LastFrame' /\ Accumulating'
            BY <1>2, <1>4, <2>2, <2>5 DEF Traffic, MsgOrder, LastFrame, Accumulating
        <3>4. QED
            BY <3>1, <3>2, <3>3 DEF MsgOrder
    <2>11. TrainBound'
        <3>1. ASSUME NEW i \in 1 .. Len(data) PROVE data[i].msg # sent + 1
            <4>1. data[i].msg <= sent
                BY <1>2, <2>4 DEF Traffic, MsgOrder, Between
            <4>2. QED
                BY <2>1, <4>1
        <3>2. sent + 1 = Received + 1 => accum + Len(data) <= 0
            <4>1. SUFFICES ASSUME Received = sent PROVE accum = 0 /\ Len(data) = 0
                BY <2>1
            <4>2. data = <<>>
                <5>1. SUFFICES ASSUME data # <<>> PROVE FALSE
                    OBVIOUS
                <5>2. 1 \in 1 .. Len(data)
                    BY <1>1, <5>1, NonEmpty DEF WireTypes
                <5>3. data[1].msg = sent + 1
                    BY <1>2, <2>4, <4>1, <5>1, <5>2 DEF Traffic, MsgOrder, FirstNext
                <5>4. QED
                    BY <3>1, <5>2, <5>3
            <4>3. accum = 0
                BY <1>2, <2>1, <2>2, <4>2 DEF Traffic, MsgOrder, Accumulating
            <4>4. QED
                BY <4>2, <4>3
        <3>3. QED
            BY <1>2, <1>4, <2>2, <2>3, <2>5, <2>6, <3>1, <3>2 DEF Traffic, TrainBound
    <2>12. MessagesCounted'
        BY <1>1, <2>2, <2>5 DEF StreamPart, MessagesCounted
    <2>13. /\ ReadTypes' /\ AckTypes' /\ ArmedOnce' /\ Buffered' /\ DeliveredInOrder'
           /\ NoConformanceFault'
        BY <1>1, ReceiverKept DEF Admit, StreamPart, CreditPart
    <2>14. WireTypes' /\ CreditTaken'
        BY <1>1, <2>2, <2>3, <2>5 DEF WireTypes, CreditPart, CreditTaken
    <2>15. AckOrder'
        <3>1. sent' - acked' <= Credits
            BY <1>4, <2>1, <2>2
        <3>2. QED
            BY <1>1, <2>2, <2>3, <3>1 DEF CreditPart, AckOrder
    <2>16. QED
        BY <2>7, <2>8, <2>9, <2>10, <2>11, <2>12, <2>13, <2>14, <2>15, PartsNext
           DEF StreamPart, CreditPart, Traffic
<1>5. QED
    BY <1>3, <1>4 DEF Admit

\* A frame goes out: the next fragment of the message, or its last.
LEMMA SendFrameKeeps ==
    ASSUME IInv, SendFrame, MessagesCounted'
    PROVE  IInv'
<1> USE DEF wireVars, readVars, appVars, ackVars
<1> DEFINE last == frag + 1 = frags
           f == Frame(IF last THEN "msg" ELSE "chunk", sendSeq, sent)
<1>1. WireTypes /\ ReadTypes /\ StreamPart /\ CreditPart
    BY Parts
<1>2. SendTypes /\ SenderPlace /\ SeqDense /\ MsgOrder /\ TrainBound
    BY <1>1 DEF StreamPart, Traffic
<1>3. /\ sent \in Nat /\ acked \in Nat /\ sendSeq \in Nat /\ frag \in Nat /\ frags \in Nat
      /\ sent <= Messages /\ frags <= MaxFrags /\ Messages \in Nat /\ MaxFrags \in Nat
      /\ MaxFrags >= 1 /\ Len(data) \in Nat /\ expectedSeq \in Nat /\ accum \in Nat
      /\ Received \in Int /\ WireCap \in Nat
    BY <1>1, <1>2, Numbers
<1>4. /\ UNCHANGED <<plan, sent, acked, sendWake, frags, acks, expectedSeq, accum, recvCh,
                     remoteClosed, apc, got, consumed, ackedOut, dpc, cum, faults>>
      /\ spc = "frame" /\ Len(data) < WireCap
    BY DEF SendFrame
<1>5. Credits' = Credits /\ Messages' = Messages /\ MaxFrags' = MaxFrags /\ WireCap' = WireCap
      /\ Faults' = Faults
    BY <1>4 DEF Credits, Messages, MaxFrags, WireCap, Faults
<1>6. /\ Closing = 0 /\ remoteClosed = 0 /\ \A i \in 1 .. Len(data) : data[i].kind # "close"
    BY <1>1, <1>4, StillOpen
<1>7. frag < frags /\ sent >= 1 /\ Sending = 1 /\ Whole = sent - 1
    BY <1>2, <1>3, <1>4 DEF SenderPlace, Sending, Whole
<1>8. /\ data' = Append(data, f)
      /\ last => frag' = 0 /\ spc' = "idle" /\ sendSeq' = sendSeq
      /\ ~last => frag' = frag + 1 /\ spc' = "frame" /\ sendSeq' = sendSeq + 1
    BY <1>3, <1>7 DEF SendFrame
<1>9. /\ f \in FrameType /\ f.seq = sendSeq /\ f.msg = sent /\ f.kind # "close"
      /\ f.kind = (IF last THEN "msg" ELSE "chunk")
    BY <1>3 DEF Frame, FrameType
<1> HIDE DEF f
<1>10. /\ data' \in Seq(FrameType) /\ Len(data') = Len(data) + 1 /\ data' # <<>>
       /\ data'[Len(data) + 1] = f /\ \A i \in 1 .. Len(data) : data'[i] = data[i]
    <2>1. data \in Seq(FrameType) /\ f \in FrameType /\ data' = Append(data, f)
        BY <1>1, <1>8, <1>9 DEF WireTypes, FrameType
    <2>2. QED
        BY <2>1, Appended
<1>11. /\ Closing' = 0 /\ Received' = Received /\ Sending' = (IF last THEN 0 ELSE 1)
       /\ Whole' = (IF last THEN sent ELSE sent - 1)
    <2>1. /\ sent \in Nat /\ sent' = sent /\ remoteClosed = 0 /\ remoteClosed' = 0
          /\ recvCh' = recvCh /\ got' = got /\ spc = "frame"
        BY <1>3, <1>4, <1>6
    <2>2. (last => spc' = "idle") /\ (~last => spc' = "frame")
        BY <1>8
    <2>3. Closing' = 0 /\ Trailer' = Trailer /\ Sending' = (IF last THEN 0 ELSE 1)
        BY <2>1, <2>2 DEF Closing, Trailer, Sending
    <2>4. Received' = Received
        BY <2>1, <2>3 DEF Received
    <2>5. QED
        BY <2>1, <2>2, <2>3, <2>4 DEF Whole
<1> HIDE DEF last
<1>12. ASSUME NEW i \in 1 .. Len(data')
       PROVE  \/ i \in 1 .. Len(data) /\ data'[i] = data[i]
              \/ i = Len(data) + 1 /\ data'[i] = f
    BY <1>3, <1>10
<1>13. sendSeq <= (sent - 1) * MaxFrags + frag + 1 /\ (sent - 1) * MaxFrags \in Nat
    BY <1>2, <1>3, <1>4, <1>7 DEF SenderPlace
<1>14. (sent - 1) * MaxFrags + MaxFrags <= sent * MaxFrags /\ sent * MaxFrags \in Nat
    BY <1>3, <1>7, Products, sent - 1 \in Nat
<1>15. sent * MaxFrags <= Messages * MaxFrags
    <2>1. CASE sent = Messages
        BY <1>3, <2>1
    <2>2. CASE sent + 1 <= Messages
        BY <1>3, <1>14, <2>2, Products
    <2>3. QED
        BY <1>3, <2>1, <2>2
<1>16. SendTypes'
    <2>1. sendSeq' \in 0 .. Messages * MaxFrags /\ frag' \in 0 .. MaxFrags
        BY <1>3, <1>7, <1>8, <1>13, <1>14, <1>15 DEF last
    <2>2. QED
        BY <1>2, <1>4, <1>5, <1>8, <2>1 DEF SendTypes
<1>17. SenderPlace'
    <2>1. CASE last
        BY <1>3, <1>5, <1>7, <1>8, <1>11, <1>13, <1>14, <2>1 DEF SenderPlace, last
    <2>2. CASE ~last
        BY <1>3, <1>4, <1>5, <1>7, <1>8, <1>11, <1>13, <2>2 DEF SenderPlace, last
    <2>3. QED
        BY <2>1, <2>2
<1>18. SeqDense'
    <2>1. sendSeq = expectedSeq - 1 + Len(data) + 1
        BY <1>2, <1>3, <1>6, <1>7 DEF SeqDense
    <2>2. sendSeq' = expectedSeq - 1 + (Len(data') - Closing') + Sending'
        BY <1>3, <1>8, <1>10, <1>11, <2>1
    <2>3. ASSUME NEW i \in 1 .. Len(data')
          PROVE  data'[i].kind # "close" /\ data'[i].seq = expectedSeq + i - 1
        <3>1. CASE i \in 1 .. Len(data) /\ data'[i] = data[i]
            BY <1>2, <1>6, <3>1 DEF SeqDense
        <3>2. CASE i = Len(data) + 1 /\ data'[i] = f
            BY <1>3, <1>9, <2>1, <3>2
        <3>3. QED
            BY <1>12, <3>1, <3>2
    <2>4. QED
        BY <1>4, <1>6, <1>11, <2>2, <2>3 DEF SeqDense
<1>19. \A i \in 1 .. Len(data) : data[i].msg \in Nat /\ data[i].msg <= sent
    BY <1>1, <1>2, <1>6, FrameAt DEF MsgOrder, Between
<1>20. \A i \in 1 .. Len(data) : data[i].kind = "msg" => data[i].msg < sent
    <2>1. SUFFICES ASSUME NEW i \in 1 .. Len(data), data[i].kind = "msg" PROVE data[i].msg < sent
        OBVIOUS
    <2>2. Len(data) \in 1 .. Len(data) /\ data # <<>>
        BY <1>3, <2>1
    <2>3. CASE i = Len(data)
        BY <1>2, <1>3, <1>7, <2>1, <2>2, <2>3 DEF MsgOrder, LastFrame
    <2>4. CASE i < Len(data)
        <3>1. data[i].msg < data[Len(data)].msg
            BY <1>2, <1>6, <2>1, <2>2, <2>4 DEF MsgOrder, Ascending
        <3>2. QED
            BY <1>3, <1>19, <2>2, <3>1
    <2>5. QED
        BY <1>3, <2>3, <2>4
<1>21. MsgOrder'
    <2>1. Between'
        <3>1. ASSUME NEW i \in 1 .. Len(data') PROVE data'[i].msg <= sent
            BY <1>3, <1>9, <1>12, <1>19
        <3>2. QED
            BY <1>4, <3>1 DEF Between
    <2>2. FirstNext'
        <3>1. CASE data = <<>>
            <4>1. data'[1] = f
                BY <1>10, <3>1
            <4>2. MsgsIn(data) = 0
                BY <1>1, <3>1 DEF StreamPart, MessagesCounted
            <4>3. sent = Received + 1
                BY <1>1, <1>3, <1>7, <4>2 DEF StreamPart, MessagesCounted
            <4>4. QED
                BY <1>9, <1>11, <4>1, <4>3 DEF FirstNext
        <3>2. CASE data # <<>>
            <4>1. 1 \in 1 .. Len(data)
                BY <1>1, <3>2, NonEmpty DEF WireTypes
            <4>2. QED
                BY <1>2, <1>10, <1>11, <3>2, <4>1 DEF MsgOrder, FirstNext
        <3>3. QED
            BY <3>1, <3>2
    <2>3. Ascending'
        <3>1. SUFFICES ASSUME NEW i \in 1 .. Len(data'), NEW j \in 1 .. Len(data'), i < j
                       PROVE  /\ data'[i].msg <= data'[j].msg
                              /\ data'[i].kind = "msg" => data'[i].msg < data'[j].msg
            BY DEF Ascending
        <3>2. i \in 1 .. Len(data) /\ data'[i] = data[i]
            BY <1>3, <1>10, <3>1
        <3>3. CASE j \in 1 .. Len(data) /\ data'[j] = data[j]
            BY <1>2, <1>6, <3>1, <3>2, <3>3 DEF MsgOrder, Ascending
        <3>4. CASE j = Len(data) + 1 /\ data'[j] = f
            BY <1>9, <1>19, <1>20, <3>2, <3>4
        <3>5. QED
            BY <1>12, <3>3, <3>4
    <2>4. Adjacent'
        <3>1. SUFFICES ASSUME NEW i \in 1 .. Len(data'), i + 1 \in 1 .. Len(data')
                       PROVE  /\ data'[i].kind = "chunk" => /\ data'[i + 1].kind # "close"
                                                            /\ data'[i + 1].msg = data'[i].msg
                              /\ data'[i].kind = "msg" => data'[i + 1].msg = data'[i].msg + 1
            BY DEF Adjacent
        <3>2. i \in 1 .. Len(data) /\ data'[i] = data[i]
            BY <1>3, <1>10, <3>1
        <3>3. CASE i + 1 \in 1 .. Len(data) /\ data'[i + 1] = data[i + 1]
            BY <1>2, <1>6, <3>2, <3>3 DEF MsgOrder, Adjacent
        <3>4. CASE i + 1 = Len(data) + 1 /\ data'[i + 1] = f
            <4>1. i = Len(data) /\ data # <<>>
                BY <1>3, <3>2, <3>4
            <4>2. /\ data[i].kind = "chunk" => data[i].msg = sent
                  /\ data[i].kind = "msg" => data[i].msg = sent - 1
                BY <1>2, <1>7, <4>1 DEF MsgOrder, LastFrame
            <4>3. QED
                BY <1>3, <1>9, <3>2, <3>4, <4>2
        <3>5. QED
            BY <1>12, <3>1, <3>3, <3>4
    <2>5. LastFrame'
        <3>1. data'[Len(data')] = f
            BY <1>10
        <3>2. ~last => frag' > 0
            BY <1>3, <1>8
        <3>3. QED
            BY <1>4, <1>8, <1>9, <1>11, <3>1, <3>2 DEF LastFrame
    <2>6. Accumulating'
        <3>1. 1 \in 1 .. Len(data')
            BY <1>3, <1>10
        <3>2. data'[1].kind # "close"
            BY <1>6, <1>9, <1>12, <3>1
        <3>3. QED
            BY <1>10, <3>2 DEF Accumulating
    <2>7. QED
        BY <2>1, <2>2, <2>3, <2>4, <2>5, <2>6 DEF MsgOrder
<1>22. TrainBound'
    <2>1. \A i \in 1 .. Len(data) : data[i].msg = sent => Len(data) - i + 1 <= frag
        BY <1>2, <1>4 DEF TrainBound
    <2>2. ASSUME NEW i \in 1 .. Len(data'), NEW j \in 1 .. Len(data'), i <= j,
                 data'[i].msg = data'[j].msg
          PROVE  j - i < MaxFrags
        <3>1. CASE j \in 1 .. Len(data) /\ data'[j] = data[j]
            <4>1. i \in 1 .. Len(data) /\ data'[i] = data[i]
                BY <1>3, <1>10, <2>2, <3>1
            <4>2. QED
                BY <1>2, <1>6, <2>2, <3>1, <4>1 DEF TrainBound
        <3>2. CASE j = Len(data) + 1 /\ data'[j] = f
            <4>1. CASE i \in 1 .. Len(data) /\ data'[i] = data[i]
                <5>1. Len(data) - i + 1 <= frag
                    BY <1>9, <2>1, <2>2, <3>2, <4>1
                <5>2. QED
                    BY <1>3, <1>7, <3>2, <5>1
            <4>2. CASE i = Len(data) + 1
                BY <1>3, <3>2, <4>2
            <4>3. QED
                BY <1>12, <4>1, <4>2
        <3>3. QED
            BY <1>12, <3>1, <3>2
    <2>3. ASSUME ~last, NEW i \in 1 .. Len(data'), data'[i].msg = sent
          PROVE  Len(data') - i + 1 <= frag'
        <3>1. CASE i \in 1 .. Len(data) /\ data'[i] = data[i]
            <4>1. Len(data) - i + 1 <= frag
                BY <2>1, <2>3, <3>1
            <4>2. QED
                BY <1>3, <1>8, <1>10, <2>3, <4>1
        <3>2. CASE i = Len(data) + 1
            BY <1>3, <1>8, <1>10, <2>3, <3>2
        <3>3. QED
            BY <1>12, <3>1, <3>2
    <2>4. sent = Received + 1 => accum + Len(data) <= frag
        BY <1>2, <1>4 DEF TrainBound
    <2>5. ASSUME NEW i \in 1 .. Len(data'), data'[i].msg = Received + 1 PROVE accum + i <= MaxFrags
        <3>1. CASE i \in 1 .. Len(data) /\ data'[i] = data[i]
            BY <1>2, <1>6, <2>5, <3>1 DEF TrainBound
        <3>2. CASE i = Len(data) + 1 /\ data'[i] = f
            BY <1>3, <1>7, <1>9, <2>4, <2>5, <3>2
        <3>3. QED
            BY <1>12, <3>1, <3>2
    <2>6. ~last /\ sent = Received + 1 => accum + Len(data') <= frag'
        BY <1>3, <1>8, <1>10, <2>4
    <2>7. QED
        BY <1>4, <1>5, <1>8, <1>11, <2>2, <2>3, <2>5, <2>6 DEF TrainBound
<1>23. ReadTypes' /\ AckTypes' /\ ArmedOnce' /\ Buffered' /\ DeliveredInOrder' /\ NoConformanceFault'
    BY <1>1, ReceiverKept DEF SendFrame, StreamPart, CreditPart
<1>24. WireTypes'
    BY <1>1, <1>3, <1>4, <1>5, <1>10 DEF WireTypes, FrameType
<1>25. CreditTaken'
    <2>1. consumed <= sent - 1 /\ consumed \in Nat
        BY <1>1, <1>7, PlanNumbers DEF CreditPart, CreditTaken, AckTypes, StreamPart
    <2>2. consumed <= Whole'
        BY <1>3, <1>11, <2>1
    <2>3. QED
        BY <1>1, <1>4, <2>2 DEF CreditPart, CreditTaken
<1>26. AckOrder'
    BY <1>1, <1>4, <1>5 DEF CreditPart, AckOrder
<1>27. QED
    BY <1>16, <1>17, <1>18, <1>21, <1>22, <1>23, <1>24, <1>25, <1>26, PartsNext
       DEF StreamPart, CreditPart, Traffic

\* The first frame was refused: credit and sequence number go back, and nothing of the message is out.
LEMMA SendRefusedKeeps ==
    ASSUME IInv, SendRefused
    PROVE  IInv'
<1> USE DEF wireVars, readVars, appVars, ackVars
<1>1. WireTypes /\ ReadTypes /\ StreamPart /\ CreditPart
    BY Parts
<1>2. SendTypes /\ SenderPlace /\ SeqDense /\ MsgOrder /\ TrainBound
    BY <1>1 DEF StreamPart, Traffic
<1>3. /\ sent \in Nat /\ acked \in Nat /\ sendSeq \in Nat /\ frag \in Nat /\ frags \in Nat
      /\ sent <= Messages /\ Messages \in Nat /\ MaxFrags \in Nat /\ Len(data) \in Nat
      /\ expectedSeq \in Nat /\ expectedSeq >= 1 /\ accum \in Nat /\ Received \in Int /\ Faults \in Nat
      /\ Credits \in Nat
    BY <1>1, <1>2, Numbers
<1>4. /\ UNCHANGED <<plan, acked, sendWake, frag, frags, data, acks, expectedSeq, accum, recvCh,
                     remoteClosed, apc, got, consumed, ackedOut, dpc, cum>>
      /\ spc = "frame" /\ spc' = "idle" /\ frag = 0 /\ sent' = sent - 1 /\ sendSeq' = sendSeq - 1
      /\ faults' = faults + 1 /\ faults < Faults
    BY DEF SendRefused
<1>5. Credits' = Credits /\ Messages' = Messages /\ MaxFrags' = MaxFrags /\ WireCap' = WireCap
      /\ Faults' = Faults
    BY <1>4 DEF Credits, Messages, MaxFrags, WireCap, Faults
<1>6. Closing = 0 /\ remoteClosed = 0 /\ \A i \in 1 .. Len(data) : data[i].kind # "close"
    BY <1>1, <1>4, StillOpen
<1>7. /\ sent >= 1 /\ Sending = 1 /\ Sending' = 0 /\ Whole = sent - 1 /\ Whole' = sent - 1
      /\ Closing' = 0 /\ Received' = Received
    BY <1>2, <1>3, <1>4, <1>6 DEF SenderPlace, Sending, Whole, Closing, Received, Trailer
<1>8. sendSeq = expectedSeq - 1 + Len(data) + 1
    BY <1>2, <1>3, <1>6, <1>7 DEF SeqDense
<1>9. SendTypes'
    <2>1. sendSeq' \in 0 .. Messages * MaxFrags /\ sent' \in 0 .. Messages
        BY <1>2, <1>3, <1>4, <1>7, <1>8 DEF SendTypes
    <2>2. faults' \in 0 .. Faults
        BY <1>2, <1>3, <1>4 DEF SendTypes
    <2>3. QED
        BY <1>2, <1>4, <1>5, <2>1, <2>2 DEF SendTypes
<1>10. SenderPlace'
    <2>1. (sent - 1) * MaxFrags \in Nat /\ sendSeq <= (sent - 1) * MaxFrags + 1
        BY <1>2, <1>3, <1>4, <1>7 DEF SenderPlace
    <2>2. QED
        BY <1>3, <1>4, <1>5, <1>7, <2>1 DEF SenderPlace
<1>11. SeqDense'
    <2>1. sendSeq' = expectedSeq - 1 + (Len(data) - Closing') + Sending'
        BY <1>3, <1>4, <1>7, <1>8
    <2>2. QED
        BY <1>2, <1>4, <1>6, <1>7, <2>1 DEF SeqDense
<1>12. MsgOrder'
    <2>1. Between'
        <3>1. ASSUME NEW i \in 1 .. Len(data) PROVE data[i].msg <= sent - 1
            <4>1. data[i].msg <= sent /\ data[i].msg \in Nat
                BY <1>1, <1>2, <1>6, FrameAt DEF MsgOrder, Between
            <4>2. data[i].msg # sent
                BY <1>2, <1>3, <1>4 DEF TrainBound
            <4>3. QED
                BY <1>3, <4>1, <4>2
        <3>2. QED
            BY <1>4, <3>1 DEF Between
    <2>2. FirstNext' /\ Ascending' /\ Adjacent'
        BY <1>2, <1>4, <1>7 DEF MsgOrder, FirstNext, Ascending, Adjacent
    <2>3. LastFrame'
        BY <1>2, <1>3, <1>4, <1>7 DEF MsgOrder, LastFrame
    <2>4. Accumulating'
        <3>1. accum > 0 => data # <<>> /\ data[1].kind # "close"
            BY <1>2, <1>4 DEF MsgOrder, Accumulating
        <3>2. QED
            BY <1>4, <3>1 DEF Accumulating
    <2>5. QED
        BY <2>1, <2>2, <2>3, <2>4 DEF MsgOrder
<1>13. TrainBound'
    BY <1>2, <1>4, <1>5, <1>7 DEF TrainBound
<1>14. MessagesCounted'
    BY <1>1, <1>4, <1>7 DEF StreamPart, MessagesCounted
<1>15. ReadTypes' /\ AckTypes' /\ ArmedOnce' /\ Buffered' /\ DeliveredInOrder' /\ NoConformanceFault'
    BY <1>1, ReceiverKept DEF SendRefused, StreamPart, CreditPart
<1>16. WireTypes' /\ CreditTaken'
    BY <1>1, <1>4, <1>5, <1>7 DEF WireTypes, CreditPart, CreditTaken
<1>17. AckOrder'
    <2>1. sent' - acked' <= Credits
        BY <1>1, <1>3, <1>4 DEF CreditPart, AckOrder
    <2>2. QED
        BY <1>1, <1>4, <1>5, <2>1 DEF CreditPart, AckOrder
<1>18. QED
    BY <1>9, <1>10, <1>11, <1>12, <1>13, <1>14, <1>15, <1>16, <1>17, PartsNext
       DEF StreamPart, CreditPart, Traffic

\* The half-close goes out behind every frame of the stream.
LEMMA CloseSendKeeps ==
    ASSUME IInv, CloseSend, MessagesCounted'
    PROVE  IInv'
<1> USE DEF wireVars, readVars, appVars, ackVars
<1>1. WireTypes /\ ReadTypes /\ StreamPart /\ CreditPart
    BY Parts
<1>2. SendTypes /\ SenderPlace /\ SeqDense /\ MsgOrder /\ TrainBound
    BY <1>1 DEF StreamPart, Traffic
<1>3. /\ sent \in Nat /\ sendSeq \in Nat /\ MaxFrags \in Nat /\ Len(data) \in Nat
      /\ expectedSeq \in Nat /\ accum \in Nat /\ Received \in Int /\ WireCap \in Nat
    BY <1>1, <1>2, Numbers
<1>4. /\ UNCHANGED <<plan, sent, acked, sendSeq, sendWake, frag, frags, acks, expectedSeq, accum,
                     recvCh, remoteClosed, apc, got, consumed, ackedOut, dpc, cum, faults>>
      /\ spc = "idle" /\ spc' \in {"closed", "closedWith"} /\ Len(data) < WireCap
    BY DEF CloseSend
<1>5. Credits' = Credits /\ Messages' = Messages /\ MaxFrags' = MaxFrags /\ WireCap' = WireCap
      /\ Faults' = Faults
    BY <1>4 DEF Credits, Messages, MaxFrags, WireCap, Faults
<1>6. Closing = 0 /\ remoteClosed = 0 /\ \A i \in 1 .. Len(data) : data[i].kind # "close"
    BY <1>1, <1>4, StillOpen
<1>7. /\ Sending = 0 /\ Sending' = 0 /\ Whole = sent /\ Whole' = sent
      /\ Closing' = 1 /\ Received' = Received
    BY <1>3, <1>4, <1>6 DEF Sending, Whole, Closing, Received, Trailer
<1>8. PICK f \in FrameType :
          /\ data' = Append(data, f) /\ f.kind = "close" /\ f.seq = sendSeq
          /\ f.msg = (IF spc' = "closedWith" THEN sent + 1 ELSE 0)
    <2>1. Frame("close", sendSeq, 0) \in FrameType /\ Frame("close", sendSeq, sent + 1) \in FrameType
        BY <1>3 DEF Frame, FrameType
    <2>2. QED
        BY <2>1 DEF CloseSend, Frame
<1>9. /\ data' \in Seq(FrameType) /\ Len(data') = Len(data) + 1 /\ data' # <<>>
      /\ data'[Len(data) + 1] = f /\ \A i \in 1 .. Len(data) : data'[i] = data[i]
    <2>1. data \in Seq(FrameType) /\ data' = Append(data, f)
        BY <1>1, <1>8 DEF WireTypes, FrameType
    <2>2. QED
        BY <2>1, Appended
<1>10. ASSUME NEW i \in 1 .. Len(data')
       PROVE  \/ i \in 1 .. Len(data) /\ data'[i] = data[i] /\ data'[i].kind # "close"
              \/ i = Len(data) + 1 /\ data'[i] = f /\ data'[i].kind = "close"
    BY <1>3, <1>6, <1>8, <1>9
<1>11. SendTypes' /\ SenderPlace'
    <2>1. SendTypes'
        BY <1>2, <1>4, <1>5 DEF SendTypes
    <2>2. QED
        BY <1>2, <1>4, <1>5, <1>7, <2>1 DEF SenderPlace
<1>12. SeqDense'
    <2>1. sendSeq' = expectedSeq' - 1 + (Len(data') - Closing') + Sending'
        BY <1>2, <1>3, <1>4, <1>6, <1>7, <1>9 DEF SeqDense
    <2>2. ASSUME NEW i \in 1 .. Len(data')
          PROVE  IF data'[i].kind = "close"
                 THEN /\ i = Len(data') /\ data'[i].seq = sendSeq
                      /\ data'[i].msg = (IF spc' = "closedWith" THEN sent + 1 ELSE 0)
                 ELSE data'[i].seq = expectedSeq + i - 1
        <3>1. CASE i \in 1 .. Len(data) /\ data'[i] = data[i] /\ data'[i].kind # "close"
            BY <1>2, <1>6, <3>1 DEF SeqDense
        <3>2. CASE i = Len(data) + 1 /\ data'[i] = f /\ data'[i].kind = "close"
            BY <1>8, <1>9, <3>2
        <3>3. QED
            BY <1>10, <3>1, <3>2
    <2>3. data'[Len(data')].kind = "close"
        BY <1>8, <1>9
    <2>4. QED
        BY <1>4, <1>6, <1>7, <1>9, <2>1, <2>2, <2>3 DEF SeqDense
<1>13. MsgOrder'
    <2>1. Between' /\ Ascending'
        BY <1>2, <1>4, <1>10 DEF MsgOrder, Between, Ascending
    <2>2. data # <<>> => 1 \in 1 .. Len(data) /\ Len(data) \in 1 .. Len(data)
        BY <1>1, NonEmpty DEF WireTypes
    <2>3. FirstNext'
        <3>1. CASE data = <<>>
            BY <1>8, <1>9, <3>1 DEF FirstNext
        <3>2. CASE data # <<>>
            BY <1>2, <1>7, <1>9, <2>2, <3>2 DEF MsgOrder, FirstNext
        <3>3. QED
            BY <3>1, <3>2
    <2>4. Adjacent'
        <3>1. SUFFICES ASSUME NEW i \in 1 .. Len(data'), i + 1 \in 1 .. Len(data')
                       PROVE  /\ data'[i].kind = "chunk" => /\ data'[i + 1].kind # "close"
                                                            /\ data'[i + 1].msg = data'[i].msg
                              /\ data'[i].kind = "msg" /\ data'[i + 1].kind # "close" =>
                                     data'[i + 1].msg = data'[i].msg + 1
            BY DEF Adjacent
        <3>2. i \in 1 .. Len(data) /\ data'[i] = data[i]
            BY <1>3, <1>9, <3>1
        <3>3. CASE i + 1 \in 1 .. Len(data) /\ data'[i + 1] = data[i + 1]
            BY <1>2, <1>6, <3>2, <3>3 DEF MsgOrder, Adjacent
        <3>4. CASE i + 1 = Len(data) + 1 /\ data'[i + 1].kind = "close"
            <4>1. i = Len(data) /\ data # <<>>
                BY <1>3, <3>2, <3>4
            <4>2. data[i].kind # "chunk"
                BY <1>2, <1>4, <4>1 DEF MsgOrder, LastFrame
            <4>3. QED
                BY <3>2, <3>4, <4>2
        <3>5. QED
            BY <1>10, <3>1, <3>3, <3>4
    <2>5. LastFrame'
        BY <1>8, <1>9 DEF LastFrame
    <2>6. Accumulating'
        <3>1. accum > 0 => data # <<>> /\ data[1].kind # "close"
            BY <1>2, <1>4 DEF MsgOrder, Accumulating
        <3>2. QED
            BY <1>4, <1>9, <2>2, <3>1 DEF Accumulating
    <2>7. QED
        BY <2>1, <2>3, <2>4, <2>5, <2>6 DEF MsgOrder
<1>14. TrainBound'
    <2>1. ASSUME NEW i \in 1 .. Len(data'), data'[i].kind # "close"
          PROVE  i \in 1 .. Len(data) /\ data'[i] = data[i]
        BY <1>10, <2>1
    <2>2. ASSUME NEW i \in 1 .. Len(data'), NEW j \in 1 .. Len(data'), i <= j,
                 data'[i].kind # "close", data'[j].kind # "close", data'[i].msg = data'[j].msg
          PROVE  j - i < MaxFrags
        BY <1>2, <1>6, <2>1, <2>2 DEF TrainBound
    <2>3. ASSUME NEW i \in 1 .. Len(data'), data'[i].kind # "close", data'[i].msg = Received + 1
          PROVE  accum + i <= MaxFrags
        BY <1>2, <1>6, <2>1, <2>3 DEF TrainBound
    <2>4. QED
        BY <1>4, <1>5, <1>7, <2>2, <2>3 DEF TrainBound
<1>15. ReadTypes' /\ AckTypes' /\ ArmedOnce' /\ Buffered' /\ DeliveredInOrder' /\ NoConformanceFault'
    BY <1>1, ReceiverKept DEF CloseSend, StreamPart, CreditPart
<1>16. WireTypes'
    BY <1>1, <1>3, <1>4, <1>5, <1>9 DEF WireTypes, FrameType
<1>17. CreditTaken' /\ AckOrder'
    BY <1>1, <1>4, <1>5, <1>7 DEF CreditPart, CreditTaken, AckOrder
<1>18. QED
    BY <1>11, <1>12, <1>13, <1>14, <1>15, <1>16, <1>17, PartsNext
       DEF StreamPart, CreditPart, Traffic
=============================================================================
