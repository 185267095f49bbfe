-------------------------- MODULE StreamFlowProofs --------------------------
(***************************************************************************)
(* One direction of a stream delivers what was sent, whole, in order and   *)
(* complete, without either end accusing the other, and conserves its      *)
(* credit window: for every window, number of messages, fragment count,    *)
(* wire capacity and number of refused sends.                              *)
(***************************************************************************)
EXTENDS StreamFlowControl, FiniteSetTheorems

-----------------------------------------------------------------------------
(* The reader's step.                                                      *)

\* As long as the direction is open the window leaves room for one item more.
LEMMA RoomLeft ==
    ASSUME IInv, remoteClosed = 0
    PROVE  Room
<1>1. SendTypes /\ AckTypes /\ AckOrder
    BY DEF IInv, TypeOK
<1>2. Credits \in Nat /\ acked \in Nat /\ ackedOut \in Nat
    BY <1>1, PlanNumbers, SendNumbers DEF AckTypes
<1>3. acked <= ackedOut /\ ackedOut <= consumed /\ sent - acked <= Credits
    BY <1>1 DEF AckOrder
<1>4. /\ Len(got) \in Nat /\ Len(recvCh) \in Nat /\ consumed \in Nat /\ sent \in Nat
      /\ MsgsIn(data) \in Nat /\ Len(got) + Len(recvCh) + MsgsIn(data) <= sent
      /\ consumed <= Len(got)
    BY UnitsWithin
<1>5. QED
    BY <1>2, <1>3, <1>4 DEF Room

\* The frame at the head of the wire is one the receiver accepts: a frame of the message it is
\* reassembling with the number it expects, or the close after the last one.
LEMMA HeadAccepted ==
    ASSUME IInv, data # <<>>
    PROVE  /\ ~Rejects(data[1]) /\ remoteClosed = 0 /\ Trailer = 0
           /\ data[1].kind # "close" => data[1].msg = Received + 1 /\ accum + 1 <= MaxFrags
           /\ data[1].kind = "close" => /\ Len(data) = 1 /\ Closing = 1 /\ Sending = 0
                                        /\ spc \in {"closed", "closedWith"}
                                        /\ data[1].msg = (IF spc = "closedWith" THEN sent + 1 ELSE 0)
<1>1. SendTypes /\ WireTypes /\ ReadTypes /\ SeqDense /\ MsgOrder /\ TrainBound
    BY DEF IInv, TypeOK
<1>2. /\ 1 \in 1 .. Len(data) /\ Len(data) \in Nat /\ expectedSeq \in Nat /\ accum \in Nat
      /\ Received \in Int
    BY <1>1, NonEmpty, Numbers DEF WireTypes
<1>3. remoteClosed = 0 /\ Trailer = 0
    BY <1>1 DEF SeqDense, ReadTypes, Trailer
<1>4. Room
    BY <1>3, RoomLeft
<1>5. CASE data[1].kind # "close"
    <2>1. data[1].seq = expectedSeq
        BY <1>1, <1>2, <1>5 DEF SeqDense
    <2>2. data[1].msg = Received + 1
        BY <1>1, <1>5 DEF MsgOrder, FirstNext
    <2>3. accum + 1 <= MaxFrags
        BY <1>1, <1>2, <1>5, <2>2 DEF TrainBound
    <2>4. QED
        BY <1>3, <1>4, <1>5, <2>1, <2>2, <2>3 DEF Rejects
<1>6. CASE data[1].kind = "close"
    <2>1. /\ Len(data) = 1 /\ Closing = 1 /\ data[1].seq = sendSeq
          /\ data[1].msg = (IF spc = "closedWith" THEN sent + 1 ELSE 0)
        BY <1>1, <1>2, <1>6 DEF SeqDense
    <2>2. spc \in {"closed", "closedWith"} /\ Sending = 0
        BY <2>1 DEF Closing, Sending
    <2>3. data[1].seq = expectedSeq - 1
        <3>1. sendSeq = expectedSeq - 1 + (Len(data) - Closing) + Sending
            BY <1>1 DEF SeqDense
        <3>2. QED
            BY <1>2, <2>1, <2>2, <3>1, Len(data) - Closing = 0
    <2>4. ~(accum > 0)
        BY <1>1, <1>2, <1>6 DEF MsgOrder, Accumulating
    <2>5. QED
        BY <1>3, <1>4, <1>6, <2>1, <2>2, <2>3, <2>4 DEF Rejects
<1>7. QED
    BY <1>5, <1>6

\* What Dispatch leaves in place.
LEMMA DispatchKept ==
    ASSUME IInv, Dispatch
    PROVE  /\ SendTypes' /\ SenderPlace' /\ AckTypes' /\ AckOrder' /\ ArmedOnce' /\ NoConformanceFault'
           /\ data # <<>> /\ data' = Tail(data) /\ drained' = 0 /\ drainOwed' = 1
           /\ UNCHANGED <<plan, sent, acked, sendSeq, sendWake, spc, frag, frags, acks, rpc, apc, got,
                          consumed, ackedOut, faults, conformance>>
           /\ Sending' = Sending /\ Whole' = Whole
           /\ Credits' = Credits /\ Messages' = Messages /\ MaxFrags' = MaxFrags
           /\ WireCap' = WireCap
           /\ expectedSeq' = IF data[1].kind = "close" THEN expectedSeq ELSE expectedSeq + 1
           /\ accum' = IF data[1].kind = "chunk" THEN accum + 1 ELSE 0
           /\ remoteClosed' = IF data[1].kind = "close" THEN 1 ELSE remoteClosed
           /\ recvCh' = IF data[1].kind = "chunk" \/ data[1].msg = 0 THEN recvCh
                        ELSE Append(recvCh, [msg |-> data[1].msg,
                                             credited |-> IF data[1].kind = "msg" THEN 1 ELSE 0])
<1> USE DEF sendVars, appVars, ackVars
<1>1. data # <<>> /\ data' = Tail(data) /\ drained' = 0 /\ drainOwed' = 1
    BY DEF Dispatch
<1>2. Head(data) = data[1]
    BY <1>1, Taken DEF IInv, TypeOK, WireTypes
<1>3. ~Rejects(Head(data))
    BY <1>1, <1>2, HeadAccepted
<1>4. /\ UNCHANGED conformance
      /\ expectedSeq' = IF data[1].kind = "close" THEN expectedSeq ELSE expectedSeq + 1
      /\ accum' = IF data[1].kind = "chunk" THEN accum + 1 ELSE 0
      /\ remoteClosed' = IF data[1].kind = "close" THEN 1 ELSE remoteClosed
      /\ recvCh' = IF data[1].kind = "chunk" \/ data[1].msg = 0 THEN recvCh
                   ELSE Append(recvCh, [msg |-> data[1].msg,
                                        credited |-> IF data[1].kind = "msg" THEN 1 ELSE 0])
    BY <1>2, <1>3 DEF Dispatch
<1>5. /\ UNCHANGED <<plan, sent, acked, sendSeq, sendWake, spc, frag, frags, acks, rpc, apc, got,
                     faults>>
      /\ UNCHANGED <<consumed, ackedOut, armed, queued, deferred, timer, tpc, dpc, cum>>
    BY DEF Dispatch
<1>6. /\ Sending' = Sending /\ Whole' = Whole /\ Credits' = Credits /\ Messages' = Messages
      /\ MaxFrags' = MaxFrags /\ WireCap' = WireCap /\ Faults' = Faults
    BY <1>5 DEF Sending, Whole, Credits, Messages, MaxFrags, WireCap, Faults
<1>7. SendTypes' /\ SenderPlace'
    BY <1>5, <1>6 DEF IInv, TypeOK, SendTypes, SenderPlace
<1>8. AckTypes' /\ AckOrder' /\ ArmedOnce'
    BY <1>5, <1>6 DEF IInv, TypeOK, AckTypes, AckOrder, ArmedOnce
<1>9. NoConformanceFault'
    BY <1>4 DEF IInv, NoConformanceFault
<1>10. QED
    BY <1>1, <1>4, <1>5, <1>6, <1>7, <1>8, <1>9

\* A frame of a message leaves the wire: the frames behind it keep their numbers, their order and
\* their place behind the messages reassembled.
LEMMA FrameTaken ==
    ASSUME IInv, Dispatch, data[1].kind # "close"
    PROVE  /\ WireTypes' /\ SeqDense' /\ Between' /\ Ascending' /\ Adjacent' /\ LastFrame'
           /\ expectedSeq' \in 1 .. Messages' * MaxFrags' + 1 /\ Closing' = Closing
           /\ remoteClosed' = 0 /\ Trailer' = 0
<1>1. SendTypes /\ WireTypes /\ ReadTypes /\ SeqDense /\ MsgOrder
    BY DEF IInv, TypeOK
<1>2. /\ sendSeq \in Nat /\ Len(data) \in Nat /\ expectedSeq \in Nat /\ Sending \in {0, 1}
      /\ Messages \in Nat /\ MaxFrags \in Nat /\ WireCap \in Nat /\ sent \in Nat
    BY <1>1, Numbers
<1>3. /\ data # <<>> /\ data' = Tail(data) /\ UNCHANGED <<plan, sent, sendSeq, spc, frag, acks>>
      /\ Sending' = Sending /\ Whole' = Whole /\ WireCap' = WireCap
      /\ Messages' = Messages /\ MaxFrags' = MaxFrags
      /\ expectedSeq' = expectedSeq + 1 /\ remoteClosed' = remoteClosed
    BY DispatchKept
<1>4. /\ data' \in Seq(FrameType) /\ Len(data) >= 1 /\ Len(data') = Len(data) - 1
      /\ data' = <<>> <=> Len(data) = 1
      /\ \A i \in 1 .. Len(data') : i + 1 \in 1 .. Len(data) /\ data'[i] = data[i + 1]
    <2>1. data \in Seq(FrameType)
        BY <1>1 DEF WireTypes, FrameType
    <2>2. QED
        BY <1>3, <2>1, Taken
<1>5. remoteClosed = 0 /\ remoteClosed' = 0 /\ Closing' = Closing /\ Trailer' = 0
    BY <1>3, HeadAccepted DEF Closing, Trailer
<1>6. WireTypes'
    <2>1. acks' \in Seq(Nat) /\ Len(acks') <= WireCap /\ Len(data) <= WireCap
        BY <1>1, <1>3 DEF WireTypes
    <2>2. Len(data') <= WireCap' /\ Len(acks') <= WireCap'
        BY <1>2, <1>3, <1>4, <2>1
    <2>3. QED
        BY <1>4, <2>1, <2>2 DEF WireTypes, FrameType
<1>7. Closing = 1 => Len(data) >= 2 /\ data[Len(data)].kind = "close"
    <2>1. Closing = 1 => data[Len(data)].kind = "close"
        BY <1>1 DEF SeqDense
    <2>2. Len(data) = 1 => data[Len(data)] = data[1]
        OBVIOUS
    <2>3. QED
        BY <1>2, <1>4, <2>1, <2>2
<1>8. sendSeq = expectedSeq - 1 + (Len(data) - Closing) + Sending /\ Closing \in {0, 1}
    BY <1>1 DEF SeqDense, Closing
<1>9. SeqDense'
    <2>1. sendSeq' = expectedSeq' - 1 + (Len(data') - Closing') + Sending'
        BY <1>2, <1>3, <1>4, <1>5, <1>8
    <2>2. ASSUME NEW i \in 1 .. Len(data')
          PROVE  IF data'[i].kind = "close"
                 THEN /\ i = Len(data') /\ Closing = 1 /\ data'[i].seq = sendSeq
                      /\ data'[i].msg = (IF spc = "closedWith" THEN sent + 1 ELSE 0)
                 ELSE data'[i].seq = expectedSeq' + i - 1
        <3>1. i + 1 \in 1 .. Len(data) /\ data'[i] = data[i + 1]
            BY <1>4
        <3>2. CASE data[i + 1].kind = "close"
            <4>1. /\ i + 1 = Len(data) /\ Closing = 1 /\ data[i + 1].seq = sendSeq
                  /\ data[i + 1].msg = (IF spc = "closedWith" THEN sent + 1 ELSE 0)
                BY <1>1, <3>1, <3>2 DEF SeqDense
            <4>2. QED
                BY <1>2, <1>4, <3>1, <3>2, <4>1
        <3>3. CASE data[i + 1].kind # "close"
            <4>1. data[i + 1].seq = expectedSeq + (i + 1) - 1
                BY <1>1, <3>1, <3>3 DEF SeqDense
            <4>2. QED
                BY <1>2, <1>3, <3>1, <3>3, <4>1
        <3>4. QED
            BY <3>2, <3>3
    <2>3. Closing = 1 => data' # <<>> /\ data'[Len(data')].kind = "close"
        <3>1. ASSUME Closing = 1 PROVE data' # <<>> /\ data'[Len(data')] = data[Len(data)]
            <4>1. Len(data') \in 1 .. Len(data') /\ Len(data') + 1 = Len(data) /\ data' # <<>>
                BY <1>2, <1>4, <1>7, <3>1
            <4>2. QED
                BY <1>4, <4>1
        <3>2. QED
            BY <1>7, <3>1
    <2>4. QED
        BY <1>3, <1>5, <2>1, <2>2, <2>3 DEF SeqDense
<1>10. Between'
    BY <1>1, <1>3, <1>4 DEF MsgOrder, Between
<1>11. Ascending'
    <2>1. SUFFICES ASSUME NEW i \in 1 .. Len(data'), NEW j \in 1 .. Len(data'), i < j,
                          data'[i].kind # "close", data'[j].kind # "close"
                   PROVE  /\ data'[i].msg <= data'[j].msg
                          /\ data'[i].kind = "msg" => data'[i].msg < data'[j].msg
        BY DEF Ascending
    <2>2. /\ i + 1 \in 1 .. Len(data) /\ j + 1 \in 1 .. Len(data) /\ i + 1 < j + 1
          /\ data'[i] = data[i + 1] /\ data'[j] = data[j + 1]
        BY <1>4, <2>1
    <2>3. QED
        BY <1>1, <2>1, <2>2 DEF MsgOrder, Ascending
<1>12. Adjacent'
    <2>1. SUFFICES ASSUME NEW i \in 1 .. Len(data'), i + 1 \in 1 .. Len(data')
                   PROVE  /\ data'[i].kind = "chunk" => /\ data'[i + 1].kind # "close"
                                                        /\ data'[i + 1].msg = data'[i].msg
                          /\ data'[i].kind = "msg" /\ data'[i + 1].kind # "close" =>
                                 data'[i + 1].msg = data'[i].msg + 1
        BY DEF Adjacent
    <2>2. /\ i + 1 \in 1 .. Len(data) /\ (i + 1) + 1 \in 1 .. Len(data)
          /\ data'[i] = data[i + 1] /\ data'[i + 1] = data[(i + 1) + 1]
        BY <1>4, <2>1
    <2>3. QED
        BY <1>1, <2>2 DEF MsgOrder, Adjacent
<1>13. LastFrame'
    <2>1. SUFFICES ASSUME data' # <<>> PROVE LastFrame'
        BY DEF LastFrame
    <2>2. Len(data') \in 1 .. Len(data') /\ Len(data') + 1 = Len(data)
        BY <1>2, <1>4, <2>1
    <2>3. data'[Len(data')] = data[Len(data)]
        BY <1>4, <2>2
    <2>4. QED
        BY <1>1, <1>3, <2>3 DEF MsgOrder, LastFrame
<1>14. expectedSeq' \in 1 .. Messages' * MaxFrags' + 1
    <2>1. expectedSeq <= sendSeq
        BY <1>2, <1>4, <1>7, <1>8
    <2>2. sendSeq <= Messages * MaxFrags /\ Messages * MaxFrags \in Nat
        BY <1>1, <1>2 DEF SendTypes
    <2>3. QED
        BY <1>2, <1>3, <2>1, <2>2
<1>15. QED
    BY <1>5, <1>6, <1>9, <1>10, <1>11, <1>12, <1>13, <1>14

\* onStreamChunk: one fragment more of the message being reassembled.
LEMMA DispatchChunkKeeps ==
    ASSUME IInv, Dispatch, data[1].kind = "chunk", MessagesCounted'
    PROVE  IInv'
<1>1. SendTypes /\ WireTypes /\ ReadTypes /\ SeqDense /\ MsgOrder /\ TrainBound
    BY DEF IInv, TypeOK
<1>2. /\ Len(data) \in Nat /\ accum \in Nat /\ MaxFrags \in Nat /\ frag \in Nat /\ Received \in Int
    BY <1>1, Numbers
<1>3. /\ data # <<>> /\ data' = Tail(data) /\ accum' = accum + 1 /\ recvCh' = recvCh
      /\ UNCHANGED <<sent, spc, frag, got, rpc, apc, conformance, consumed>> /\ MaxFrags' = MaxFrags
      /\ drained' = 0 /\ drainOwed' = 1 /\ Credits' = Credits /\ Whole' = Whole
    BY DispatchKept
<1>4. /\ WireTypes' /\ SeqDense' /\ Between' /\ Ascending' /\ Adjacent' /\ LastFrame'
      /\ expectedSeq' \in 1 .. Messages' * MaxFrags' + 1 /\ remoteClosed' = 0 /\ Trailer' = 0
    BY FrameTaken
<1>5. /\ data[1].msg = Received + 1 /\ accum + 1 <= MaxFrags /\ remoteClosed = 0 /\ Trailer = 0
    BY <1>3, HeadAccepted
<1>6. Received' = Received
    BY <1>3, <1>4, <1>5 DEF Received
<1>7. /\ Len(data) >= 1 /\ Len(data') = Len(data) - 1 /\ (data' = <<>> <=> Len(data) = 1)
      /\ \A i \in 1 .. Len(data') : i + 1 \in 1 .. Len(data) /\ data'[i] = data[i + 1]
    <2>1. data \in Seq(FrameType)
        BY <1>1 DEF WireTypes, FrameType
    <2>2. QED
        BY <1>3, <2>1, Taken
<1>8. data' # <<>> => data'[1].kind # "close" /\ data'[1].msg = Received + 1
    <2>1. SUFFICES ASSUME data' # <<>> PROVE data'[1].kind # "close" /\ data'[1].msg = Received + 1
        OBVIOUS
    <2>2. 1 \in 1 .. Len(data) /\ 1 + 1 \in 1 .. Len(data) /\ data'[1] = data[1 + 1]
        BY <1>2, <1>7, <2>1
    <2>3. QED
        BY <1>1, <1>5, <2>2 DEF MsgOrder, Adjacent
<1>9. MsgOrder'
    <2>1. FirstNext'
        BY <1>6, <1>8 DEF FirstNext
    <2>2. Accumulating'
        <3>1. CASE data' = <<>>
            <4>1. data[Len(data)].kind = "chunk"
                BY <1>7, <3>1
            <4>2. QED
                BY <1>1, <1>3, <3>1, <4>1 DEF MsgOrder, LastFrame, Accumulating
        <3>2. CASE data' # <<>>
            BY <1>8, <3>2 DEF Accumulating
        <3>3. QED
            BY <3>1, <3>2
    <2>3. QED
        BY <1>4, <2>1, <2>2 DEF MsgOrder
<1>10. TrainBound'
    <2>1. ASSUME NEW i \in 1 .. Len(data'), NEW j \in 1 .. Len(data'), i <= j,
                 data'[i].kind # "close", data'[j].kind # "close", data'[i].msg = data'[j].msg
          PROVE  j - i < MaxFrags
        <3>1. /\ i + 1 \in 1 .. Len(data) /\ j + 1 \in 1 .. Len(data) /\ i + 1 <= j + 1
              /\ data'[i] = data[i + 1] /\ data'[j] = data[j + 1]
            BY <1>7, <2>1
        <3>2. (j + 1) - (i + 1) < MaxFrags
            BY <1>1, <2>1, <3>1 DEF TrainBound
        <3>3. QED
            BY <1>2, <3>2
    <2>2. ASSUME spc = "frame", NEW i \in 1 .. Len(data'), data'[i].msg = sent
          PROVE  Len(data') - i + 1 <= frag
        <3>1. i + 1 \in 1 .. Len(data) /\ data'[i] = data[i + 1]
            BY <1>7
        <3>2. Len(data) - (i + 1) + 1 <= frag
            BY <1>1, <2>2, <3>1 DEF TrainBound
        <3>3. QED
            BY <1>2, <1>7, <3>2
    <2>3. ASSUME NEW i \in 1 .. Len(data'), data'[i].kind # "close", data'[i].msg = Received + 1
          PROVE  accum + 1 + i <= MaxFrags
        <3>1. i + 1 \in 1 .. Len(data) /\ data'[i] = data[i + 1]
            BY <1>7
        <3>2. accum + (i + 1) <= MaxFrags
            BY <1>1, <2>3, <3>1 DEF TrainBound
        <3>3. QED
            BY <1>2, <3>2
    <2>4. ASSUME spc = "frame", sent = Received + 1 PROVE accum + 1 + Len(data') <= frag
        <3>1. accum + Len(data) <= frag
            BY <1>1, <2>4 DEF TrainBound
        <3>2. QED
            BY <1>2, <1>7, <3>1
    <2>5. QED
        BY <1>3, <1>6, <2>1, <2>2, <2>3, <2>4 DEF TrainBound
<1>11. ReadTypes'
    <2>1. accum' \in 0 .. MaxFrags'
        BY <1>2, <1>3, <1>5
    <2>2. QED
        BY <1>1, <1>3, <1>4, <2>1 DEF ReadTypes
<1>12. Buffered' /\ DeliveredInOrder' /\ CreditTaken'
    <2>1. Buffered /\ DeliveredInOrder /\ CreditTaken
        BY DEF IInv
    <2>2. Buffered' /\ DeliveredInOrder'
        BY <1>3, <1>4, <1>5, <2>1 DEF Buffered, DeliveredInOrder
    <2>3. CreditTaken'
        BY <1>3, <1>4, <1>5, <2>1 DEF CreditTaken
    <2>4. QED
        BY <2>2, <2>3
<1>13. SendTypes' /\ SenderPlace' /\ AckTypes' /\ AckOrder' /\ ArmedOnce' /\ NoConformanceFault'
    BY DispatchKept
<1>14. QED
    BY <1>4, <1>9, <1>10, <1>11, <1>12, <1>13, PartsNext DEF StreamPart, CreditPart, Traffic

\* onStreamMsg: the last frame of the message; it is whole and goes to the receive channel.
LEMMA DispatchMsgKeeps ==
    ASSUME IInv, Dispatch, data[1].kind = "msg", MessagesCounted'
    PROVE  IInv'
<1>1. SendTypes /\ WireTypes /\ ReadTypes /\ SeqDense /\ MsgOrder /\ TrainBound /\ Buffered
    BY DEF IInv, TypeOK
<1>2. /\ Len(data) \in Nat /\ MaxFrags \in Nat /\ MaxFrags >= 1 /\ frag \in Nat /\ Received \in Int
      /\ Len(recvCh) \in Nat /\ Len(got) \in Nat /\ Credits \in Nat
    BY <1>1, Numbers
<1>3. /\ WireTypes' /\ SeqDense' /\ Between' /\ Ascending' /\ Adjacent' /\ LastFrame'
      /\ expectedSeq' \in 1 .. Messages' * MaxFrags' + 1 /\ remoteClosed' = 0 /\ Trailer' = 0
      /\ Closing' = Closing
    BY FrameTaken
<1>4. data # <<>> /\ data' = Tail(data) /\ accum' = 0
    BY DispatchKept
<1>5. data[1].msg = Received + 1 /\ remoteClosed = 0 /\ Trailer = 0
    BY <1>4, HeadAccepted
<1>6. Received = Len(got) + Len(recvCh)
    BY <1>2, <1>5 DEF Received
<1> DEFINE item == [msg |-> Received + 1, credited |-> 1]
<1>7. recvCh' = Append(recvCh, item)
    <2>1. data[1].msg # 0
        BY <1>2, <1>5, <1>6
    <2>2. QED
        BY <1>5, <2>1, DispatchKept
<1>8. /\ UNCHANGED <<sent, spc, frag, got, rpc, apc, conformance, consumed>> /\ MaxFrags' = MaxFrags
      /\ drained' = 0 /\ drainOwed' = 1 /\ Credits' = Credits /\ Whole' = Whole /\ Messages' = Messages
    BY DispatchKept
<1>9. item \in ItemType /\ item.msg = Received + 1 /\ item.credited = 1
    BY <1>2, <1>6 DEF ItemType
<1> HIDE DEF item
<1>10. /\ recvCh' \in Seq(ItemType) /\ Len(recvCh') = Len(recvCh) + 1 /\ recvCh' # <<>>
       /\ recvCh'[Len(recvCh) + 1] = item /\ \A i \in 1 .. Len(recvCh) : recvCh'[i] = recvCh[i]
    <2>1. recvCh \in Seq(ItemType)
        BY <1>1 DEF ReadTypes, ItemType
    <2>2. QED
        BY <1>7, <1>9, <2>1, Appended
<1>11. Received' = Received + 1
    <2>1. Len(got') = Len(got) /\ Len(recvCh') = Len(recvCh) + 1 /\ Trailer' = 0
        BY <1>3, <1>8, <1>10
    <2>2. QED
        BY <1>2, <1>6, <2>1 DEF Received
<1>12. /\ Len(data) >= 1 /\ Len(data') = Len(data) - 1 /\ (data' = <<>> <=> Len(data) = 1)
       /\ \A i \in 1 .. Len(data') : i + 1 \in 1 .. Len(data) /\ data'[i] = data[i + 1]
    <2>1. data \in Seq(FrameType)
        BY <1>1 DEF WireTypes, FrameType
    <2>2. QED
        BY <1>4, <2>1, Taken
<1>13. data' # <<>> /\ data'[1].kind # "close" => data'[1].msg = Received + 1 + 1
    <2>1. SUFFICES ASSUME data' # <<>>, data'[1].kind # "close" PROVE data'[1].msg = Received + 1 + 1
        OBVIOUS
    <2>2. 1 \in 1 .. Len(data) /\ 1 + 1 \in 1 .. Len(data) /\ data'[1] = data[1 + 1]
        BY <1>2, <1>12, <2>1
    <2>3. QED
        BY <1>1, <1>5, <2>1, <2>2 DEF MsgOrder, Adjacent
<1>14. MsgOrder'
    <2>1. FirstNext'
        BY <1>11, <1>13 DEF FirstNext
    <2>2. Accumulating'
        BY <1>4 DEF Accumulating
    <2>3. QED
        BY <1>3, <2>1, <2>2 DEF MsgOrder
<1>15. TrainBound'
    <2>1. ASSUME NEW i \in 1 .. Len(data'), NEW j \in 1 .. Len(data'), i <= j,
                 data'[i].kind # "close", data'[j].kind # "close", data'[i].msg = data'[j].msg
          PROVE  j - i < MaxFrags
        <3>1. /\ i + 1 \in 1 .. Len(data) /\ j + 1 \in 1 .. Len(data) /\ i + 1 <= j + 1
              /\ data'[i] = data[i + 1] /\ data'[j] = data[j + 1]
            BY <1>12, <2>1
        <3>2. (j + 1) - (i + 1) < MaxFrags
            BY <1>1, <2>1, <3>1 DEF TrainBound
        <3>3. QED
            BY <1>2, <3>2
    <2>2. ASSUME spc = "frame", NEW i \in 1 .. Len(data'), data'[i].msg = sent
          PROVE  Len(data') - i + 1 <= frag
        <3>1. i + 1 \in 1 .. Len(data) /\ data'[i] = data[i + 1]
            BY <1>12
        <3>2. Len(data) - (i + 1) + 1 <= frag
            BY <1>1, <2>2, <3>1 DEF TrainBound
        <3>3. Len(data') = Len(data) - 1 /\ Len(data) \in Nat /\ i \in Int /\ frag \in Nat
            BY <1>2, <1>12
        <3>4. QED
            BY <3>2, <3>3
    <2>3. ASSUME NEW i \in 1 .. Len(data'), data'[i].kind # "close", data'[i].msg = Received + 1 + 1
          PROVE  0 + i <= MaxFrags
        <3>0. Len(data') \in Nat /\ Len(data') >= 1 /\ Len(data) # 1
            BY <1>2, <1>12, <2>3
        <3>1. 1 \in 1 .. Len(data') /\ data' # <<>> /\ Len(data') \in Nat
            BY <1>12, <3>0
        <3>2. CASE data'[1].kind # "close"
            <4>1. data'[1].msg = data'[i].msg
                BY <1>13, <2>3, <3>1, <3>2
            <4>2. i - 1 < MaxFrags
                BY <2>1, <2>3, <3>1, <3>2, <4>1
            <4>3. QED
                BY <1>2, <4>2
        <3>3. CASE data'[1].kind = "close"
            <4>1. \A k \in 1 .. Len(data') : data'[k].kind = "close" => k = Len(data')
                BY <1>3 DEF SeqDense
            <4>2. Len(data') = 1
                BY <3>1, <3>3, <4>1, Zenon
            <4>3. i \in Nat /\ i <= Len(data')
                BY <3>1
            <4>4. QED
                BY <1>2, <4>2, <4>3
        <3>4. QED
            BY <3>2, <3>3
    <2>4. ASSUME spc = "frame", sent = Received + 1 + 1 PROVE 0 + Len(data') <= frag
        <3>1. CASE data' = <<>>
            <4>1. Len(data) = 1
                BY <1>12, <3>1
            <4>2. Len(data') = 0
                BY <1>12, <4>1
            <4>3. QED
                BY <1>2, <4>2
        <3>2. CASE data' # <<>>
            <4>1. 1 \in 1 .. Len(data') /\ Len(data') \in Nat
                BY <1>2, <1>12, <3>2
            <4>2. Closing' = 0
                BY <1>3, <2>4 DEF Closing
            <4>3. data'[1].kind # "close"
                BY <1>3, <4>1, <4>2 DEF SeqDense
            <4>4. data'[1].msg = sent
                BY <1>13, <2>4, <3>2, <4>3
            <4>5. Len(data') - 1 + 1 <= frag
                BY <2>2, <2>4, <4>1, <4>4
            <4>6. QED
                BY <4>1, <4>5
        <3>3. QED
            BY <3>1, <3>2
    <2>5. QED
        BY <1>4, <1>8, <1>11, <2>1, <2>2, <2>3, <2>4 DEF TrainBound
<1>16. ReadTypes'
    <2>1. Len(recvCh') <= Credits + 1
        BY <1>2, <1>5, <1>10, RoomLeft DEF Room
    <2>2. accum' \in 0 .. MaxFrags'
        BY <1>2, <1>4, <1>8
    <2>3. QED
        BY <1>1, <1>3, <1>8, <1>10, <2>1, <2>2 DEF ReadTypes, ItemType
<1>17. Buffered'
    <2>1. ASSUME NEW i \in 1 .. Len(recvCh')
          PROVE  recvCh'[i].msg = Len(got) + i /\ recvCh'[i].credited = 1
        <3>1. CASE i \in 1 .. Len(recvCh)
            BY <1>1, <1>5, <1>10, <3>1 DEF Buffered
        <3>2. CASE i = Len(recvCh) + 1
            BY <1>2, <1>6, <1>9, <1>10, <3>2
        <3>3. QED
            BY <1>2, <1>10, <3>1, <3>2
    <2>2. QED
        BY <1>8, <2>1 DEF Buffered
<1>18. DeliveredInOrder' /\ CreditTaken'
    <2>1. DeliveredInOrder /\ CreditTaken
        BY DEF IInv
    <2>2. DeliveredInOrder'
        BY <1>8, <2>1 DEF DeliveredInOrder
    <2>3. CreditTaken'
        BY <1>3, <1>5, <1>8, <2>1 DEF CreditTaken
    <2>4. QED
        BY <2>2, <2>3
<1>19. SendTypes' /\ SenderPlace' /\ AckTypes' /\ AckOrder' /\ ArmedOnce' /\ NoConformanceFault'
    BY DispatchKept
<1>20. QED
    BY <1>3, <1>14, <1>15, <1>16, <1>17, <1>18, <1>19, PartsNext
       DEF StreamPart, CreditPart, Traffic

\* onStreamClose: nothing is in flight behind it, and its payload goes last to the receive channel.
LEMMA DispatchCloseKeeps ==
    ASSUME IInv, Dispatch, data[1].kind = "close", MessagesCounted'
    PROVE  IInv'
<1>1. SendTypes /\ WireTypes /\ ReadTypes /\ SeqDense /\ Buffered
    BY DEF IInv, TypeOK
<1>2. /\ sent \in Nat /\ Received \in Int /\ Len(recvCh) \in Nat /\ Len(got) \in Nat /\ Credits \in Nat
      /\ expectedSeq \in Nat /\ MaxFrags \in Nat
    BY <1>1, Numbers
<1>3. /\ data # <<>> /\ data' = Tail(data) /\ accum' = 0 /\ expectedSeq' = expectedSeq
      /\ remoteClosed' = 1 /\ drained' = 0 /\ drainOwed' = 1
      /\ UNCHANGED <<sent, sendSeq, spc, frag, acks, got, rpc, apc, conformance, consumed>>
      /\ Credits' = Credits /\ Messages' = Messages /\ MaxFrags' = MaxFrags /\ WireCap' = WireCap
      /\ Whole' = Whole /\ Sending' = Sending
    BY DispatchKept
<1>4. /\ remoteClosed = 0 /\ Trailer = 0 /\ Len(data) = 1 /\ Closing = 1 /\ Sending = 0
      /\ spc \in {"closed", "closedWith"}
      /\ data[1].msg = (IF spc = "closedWith" THEN sent + 1 ELSE 0)
    BY <1>3, HeadAccepted
<1>5. data \in Seq(FrameType) /\ data' = <<>> /\ Len(data') = 0 /\ Head(data) = data[1]
    <2>1. data \in Seq(FrameType)
        BY <1>1 DEF WireTypes, FrameType
    <2>2. data' = <<>> /\ Head(data) = data[1]
        BY <1>3, <1>4, <2>1, Taken
    <2>3. QED
        BY <2>1, <2>2
<1>6. Closing' = 0 /\ Trailer' = (IF spc = "closedWith" THEN 1 ELSE 0)
    BY <1>3 DEF Closing, Trailer
<1>7. /\ recvCh' \in Seq(ItemType) /\ Len(recvCh') = Len(recvCh) + Trailer'
      /\ Len(recvCh') <= Credits + 1 /\ \A i \in 1 .. Len(recvCh) : recvCh'[i] = recvCh[i]
      /\ Trailer' = 1 => recvCh'[Len(recvCh) + 1].msg = sent + 1
    <2>1. recvCh \in Seq(ItemType) /\ Len(recvCh) <= Credits + 1
        BY <1>1 DEF ReadTypes, ItemType
    <2>2. CASE spc = "closed"
        <3>1. recvCh' = recvCh
            BY <1>4, <2>2, DispatchKept
        <3>2. QED
            BY <1>2, <1>6, <2>1, <2>2, <3>1
    <2>3. CASE spc = "closedWith"
        <3> DEFINE item == [msg |-> sent + 1, credited |-> 0]
        <3>1. recvCh' = Append(recvCh, item)
            <4>1. data[1].msg = sent + 1 /\ data[1].msg # 0
                BY <1>2, <1>4, <2>3
            <4>2. QED
                BY <4>1, DispatchKept
        <3>2. item \in ItemType /\ item.msg = sent + 1
            BY <1>2 DEF ItemType
        <3> HIDE DEF item
        <3>3. /\ recvCh' \in Seq(ItemType) /\ Len(recvCh') = Len(recvCh) + 1
              /\ recvCh'[Len(recvCh) + 1] = item /\ \A i \in 1 .. Len(recvCh) : recvCh'[i] = recvCh[i]
            BY <2>1, <3>1, <3>2, Appended
        <3>4. Len(recvCh') <= Credits + 1
            BY <1>2, <1>4, <3>3, RoomLeft DEF Room
        <3>5. QED
            BY <1>2, <1>6, <2>3, <3>2, <3>3, <3>4
    <2>4. QED
        BY <1>4, <2>2, <2>3
<1>8. Received' = Received /\ Received = Len(got) + Len(recvCh)
    <2>1. /\ Len(got') = Len(got) /\ Trailer = 0 /\ Trailer' \in {0, 1}
          /\ Len(recvCh') = Len(recvCh) + Trailer'
        BY <1>3, <1>4, <1>6, <1>7
    <2>2. QED
        BY <1>2, <2>1 DEF Received
<1>9. Received = sent
    <2>1. Whole' = Received' + MsgsIn(data') /\ MsgsIn(data') = 0
        BY <1>5 DEF MessagesCounted
    <2>2. Whole = sent
        BY <1>2, <1>4 DEF Whole
    <2>3. Whole' = Whole /\ Received \in Int
        BY <1>2, <1>3
    <2>4. QED
        BY <1>8, <2>1, <2>2, <2>3
<1>10. \A i \in 1 .. Len(recvCh') : recvCh'[i].msg = Len(got) + i
    <2>1. SUFFICES ASSUME NEW i \in 1 .. Len(recvCh') PROVE recvCh'[i].msg = Len(got) + i
        OBVIOUS
    <2>2. CASE i \in 1 .. Len(recvCh)
        BY <1>1, <1>7, <2>2 DEF Buffered
    <2>3. CASE i = Len(recvCh) + 1 /\ Trailer' = 1
        BY <1>2, <1>7, <1>8, <1>9, <2>3
    <2>4. QED
        <3>1. Len(recvCh') = Len(recvCh) + Trailer' /\ Trailer' \in {0, 1} /\ Len(recvCh) \in Nat
            BY <1>2, <1>6, <1>7
        <3>2. i \in 1 .. Len(recvCh) \/ (i = Len(recvCh) + 1 /\ Trailer' = 1)
            BY <3>1
        <3>3. QED
            BY <2>2, <2>3, <3>2
<1>11. \A i \in 1 .. Len(data') : FALSE
    BY <1>5
<1>12. SeqDense'
    <2>1. sendSeq = expectedSeq - 1 + (Len(data) - Closing) + Sending
        BY <1>1 DEF SeqDense
    <2>2. sendSeq' = expectedSeq' - 1 + (Len(data') - Closing') + Sending'
        <3>1. Len(data) = 1 /\ Closing = 1 /\ Len(data') = 0 /\ Closing' = 0 /\ Sending = 0
            BY <1>4, <1>5, <1>6
        <3>2. Sending' = Sending /\ sendSeq' = sendSeq /\ expectedSeq' = expectedSeq
            BY <1>3
        <3>3. sendSeq = expectedSeq - 1
            BY <1>2, <2>1, <3>1
        <3>4. QED
            BY <1>2, <3>1, <3>2, <3>3
    <2>3. spc' \in {"closed", "closedWith"} /\ Closing' # 1
        BY <1>3, <1>4, <1>6
    <2>4. QED
        BY <1>5, <1>11, <2>2, <2>3 DEF SeqDense
<1>13. MsgOrder' /\ TrainBound'
    <2>1. MsgOrder'
        <3>1. Between' /\ Ascending' /\ Adjacent'
            BY <1>11 DEF Between, Ascending, Adjacent
        <3>2. FirstNext' /\ LastFrame'
            BY <1>5 DEF FirstNext, LastFrame
        <3>3. Accumulating'
            <4>1. accum' = 0
                BY <1>3
            <4>2. ~(accum' > 0)
                BY <4>1
            <4>3. QED
                BY <4>2 DEF Accumulating
        <3>4. QED
            BY <3>1, <3>2, <3>3 DEF MsgOrder
    <2>2. TrainBound'
        BY <1>3, <1>4, <1>11 DEF TrainBound
    <2>3. QED
        BY <2>1, <2>2
<1>14. WireTypes' /\ ReadTypes'
    <2>1. WireCap \in Nat /\ acks \in Seq(Nat) /\ Len(acks) <= WireCap
        BY <1>1, Numbers DEF WireTypes
    <2>2. WireTypes'
        <3>1. data' \in Seq(FrameType) /\ Len(data') <= WireCap'
            <4>1. data' \in Seq(FrameType)
                BY <1>5
            <4>2. WireCap' = WireCap
                BY <1>3
            <4>3. Len(data') = 0
                BY <1>5
            <4>4. QED
                BY <2>1, <4>1, <4>2, <4>3
        <3>2. acks' \in Seq(Nat) /\ Len(acks') <= WireCap'
            BY <1>3, <2>1
        <3>3. QED
            BY <3>1, <3>2 DEF WireTypes, FrameType
    <2>3. accum' \in 0 .. MaxFrags'
        BY <1>2, <1>3
    <2>4. ReadTypes'
        BY <1>1, <1>3, <1>7, <2>3 DEF ReadTypes, ItemType
    <2>5. QED
        BY <2>2, <2>4
<1>15. Buffered' /\ DeliveredInOrder'
    <2>1. Buffered'
        <3>1. got' = got /\ remoteClosed' # 0
            BY <1>3
        <3>2. QED
            BY <1>10, <3>1 DEF Buffered
    <2>2. DeliveredInOrder'
        BY <1>3 DEF IInv, DeliveredInOrder
    <2>3. QED
        BY <2>1, <2>2
<1>16. CreditTaken'
    <2>1. apc \notin {"eof?", "eof"} /\ consumed <= Whole
        BY <1>4 DEF IInv, CreditTaken
    <2>2. apc' = apc /\ consumed' = consumed /\ Whole' = Whole /\ remoteClosed' = 1
        BY <1>3
    <2>3. QED
        BY <2>1, <2>2 DEF CreditTaken
<1>17. SendTypes' /\ SenderPlace' /\ AckTypes' /\ AckOrder' /\ ArmedOnce' /\ NoConformanceFault'
    BY DispatchKept
<1>18. QED
    BY <1>12, <1>13, <1>14, <1>15, <1>16, <1>17, PartsNext DEF StreamPart, CreditPart, Traffic

LEMMA DispatchKeeps ==
    ASSUME IInv, Dispatch, MessagesCounted'
    PROVE  IInv'
<1>1. WireTypes /\ data # <<>>
    BY DEF IInv, TypeOK, Dispatch
<1>2. data[1].kind \in {"chunk", "msg", "close"}
    BY <1>1, NonEmpty, FrameAt DEF WireTypes
<1>3. QED
    BY <1>2, DispatchChunkKeeps, DispatchMsgKeeps, DispatchCloseKeeps

\* A step that changes nothing.
LEMMA StutterKeeps ==
    ASSUME IInv, UNCHANGED vars
    PROVE  IInv'
<1> USE DEF vars, sendVars, wireVars, readVars, appVars, ackVars
<1>1. WireTypes /\ ReadTypes /\ StreamPart /\ CreditPart
    BY Parts
<1>2. StreamPart'
    BY <1>1, StreamPartKept DEF StreamPart, SendTypes
<1>3. WireTypes' /\ ReadTypes'
    BY <1>1 DEF WireTypes, ReadTypes, WireCap, Messages, MaxFrags, Credits
<1>4. AckTypes' /\ CreditTaken' /\ AckOrder' /\ ArmedOnce'
    BY <1>1 DEF CreditPart, AckTypes, CreditTaken, AckOrder, ArmedOnce, Messages, Credits, Whole, Sending
<1>5. QED
    BY <1>2, <1>3, <1>4, PartsNext DEF CreditPart

-----------------------------------------------------------------------------
(* Counting the messages in flight.                                        *)

\* The STREAM_MSGs in a sequence of frames: none in the empty one, one more or not after an append,
\* one less or not after a take.
LEMMA MsgsType ==
    ASSUME NEW q \in Seq(FrameType)
    PROVE  /\ IsFiniteSet({i \in 1 .. Len(q) : q[i].kind = "msg"}) /\ MsgsIn(q) \in Nat
           /\ q = <<>> => MsgsIn(q) = 0
<1> DEFINE P == {i \in 1 .. Len(q) : q[i].kind = "msg"}
<1>1. IsFiniteSet(P)
    <2>1. Len(q) \in Nat /\ P \subseteq 1 .. Len(q)
        OBVIOUS
    <2>2. IsFiniteSet(1 .. Len(q))
        BY <2>1, FS_Interval, 1 \in Int, Len(q) \in Int
    <2>3. QED
        BY <2>1, <2>2, FS_Subset
<1>2. Cardinality(P) \in Nat
    BY <1>1, FS_CardinalityType
<1>3. q = <<>> => P = {}
    OBVIOUS
<1>4. QED
    BY <1>1, <1>2, <1>3, FS_EmptySet DEF MsgsIn

LEMMA MsgsAppend ==
    ASSUME NEW q \in Seq(FrameType), NEW f \in FrameType
    PROVE  MsgsIn(Append(q, f)) = MsgsIn(q) + (IF f.kind = "msg" THEN 1 ELSE 0)
<1> DEFINE r == Append(q, f)
           P == {i \in 1 .. Len(q) : q[i].kind = "msg"}
           R == {i \in 1 .. Len(r) : r[i].kind = "msg"}
<1>1. /\ Len(q) \in Nat /\ Len(r) = Len(q) + 1 /\ r[Len(q) + 1] = f
      /\ \A i \in 1 .. Len(q) : r[i] = q[i]
    BY Appended
<1> HIDE DEF r
<1>2. R = IF f.kind = "msg" THEN P \cup {Len(q) + 1} ELSE P
    BY <1>1
<1>3. Len(q) + 1 \notin P
    BY <1>1
<1>4. IsFiniteSet(P) /\ Cardinality(P) \in Nat
    BY MsgsType DEF MsgsIn
<1>5. Cardinality(P \cup {Len(q) + 1}) = Cardinality(P) + 1
    BY <1>3, <1>4, FS_AddElement
<1>6. MsgsIn(r) = Cardinality(R) /\ MsgsIn(q) = Cardinality(P)
    BY DEF MsgsIn
<1> HIDE DEF P, R
<1>7. MsgsIn(r) = MsgsIn(q) + (IF f.kind = "msg" THEN 1 ELSE 0)
    BY <1>2, <1>4, <1>5, <1>6
<1>8. QED
    BY <1>7 DEF r

LEMMA MsgsTail ==
    ASSUME NEW q \in Seq(FrameType), q # <<>>
    PROVE  MsgsIn(q) = MsgsIn(Tail(q)) + (IF Head(q).kind = "msg" THEN 1 ELSE 0)
<1> DEFINE r == Tail(q)
           T == {i \in 1 .. Len(r) : r[i].kind = "msg"}
           R == {i \in 2 .. Len(q) : q[i].kind = "msg"}
           P == {i \in 1 .. Len(q) : q[i].kind = "msg"}
           f == [i \in T |-> i + 1]
<1>1. /\ r \in Seq(FrameType) /\ Len(q) \in Nat /\ Len(q) >= 1 /\ Len(r) = Len(q) - 1
      /\ Head(q) = q[1] /\ \A i \in 1 .. Len(r) : r[i] = q[i + 1]
    BY Taken
<1>2. IsFiniteSet(T) /\ Cardinality(T) \in Nat /\ MsgsIn(r) = Cardinality(T)
    BY <1>1, MsgsType DEF MsgsIn
<1> HIDE DEF r
<1>3. f \in Bijection(T, R)
    <2>1. \A i \in T : i \in Nat /\ i + 1 \in R
        BY <1>1
    <2>2. \A j \in R : j \in Nat /\ j - 1 \in T
        BY <1>1
    <2>3. f \in [T -> R]
        BY <2>1
    <2>4. \A i, j \in T : f[i] = f[j] => i = j
        BY <2>1
    <2>5. \A j \in R : j - 1 \in T /\ f[j - 1] = j
        BY <2>2
    <2> HIDE DEF f, T, R
    <2>6. QED
        BY <2>3, <2>4, <2>5 DEF Bijection, Injection, Surjection, IsInjective
<1>4. IsFiniteSet(R) /\ Cardinality(R) = Cardinality(T)
    BY <1>2, <1>3, FS_Bijection DEF ExistsBijection
<1>5. P = IF Head(q).kind = "msg" THEN R \cup {1} ELSE R
    BY <1>1
<1>6. Cardinality(R \cup {1}) = Cardinality(R) + 1
    BY <1>4, 1 \notin R, FS_AddElement
<1>7. MsgsIn(q) = Cardinality(P)
    BY DEF MsgsIn
<1> HIDE DEF P, R, T
<1>8. MsgsIn(q) = MsgsIn(r) + (IF Head(q).kind = "msg" THEN 1 ELSE 0)
    BY <1>2, <1>4, <1>5, <1>6, <1>7
<1>9. QED
    BY <1>8 DEF r

\* The last frame of a message makes it one of those in flight; no other frame does.
LEMMA SendFrameCounts ==
    ASSUME IInv, SendFrame
    PROVE  MessagesCounted'
<1> USE DEF wireVars, readVars, appVars, ackVars
<1> DEFINE f == Frame(IF frag + 1 < frags THEN "chunk" ELSE "msg", sendSeq, sent)
<1>1. SendTypes /\ WireTypes /\ ReadTypes /\ StreamPart /\ SenderPlace
    BY Parts DEF StreamPart
<1>2. /\ sent \in Nat /\ sendSeq \in Nat /\ frag \in Nat /\ frags \in Nat /\ Received \in Int
    BY <1>1, Numbers
<1>3. spc = "frame" /\ data' = Append(data, f) /\ sent' = sent
    BY DEF SendFrame
<1>4. data \in Seq(FrameType) /\ f \in FrameType /\ f.kind = (IF frag + 1 < frags THEN "chunk" ELSE "msg")
    BY <1>1, <1>2 DEF WireTypes, FrameType, Frame
<1>5. Received' = Received
    BY <1>1, <1>3, StillOpen DEF SendFrame, Received, Trailer
<1>6. Whole = sent - 1 /\ Whole' = (IF frag + 1 < frags THEN sent - 1 ELSE sent)
    BY <1>2, <1>3 DEF SendFrame, Whole, Sending
<1> HIDE DEF f
<1>7. MsgsIn(data') = MsgsIn(data) + (IF f.kind = "msg" THEN 1 ELSE 0)
    BY <1>3, <1>4, MsgsAppend
<1>8. Whole = Received + MsgsIn(data) /\ MsgsIn(data) \in Nat
    BY <1>1 DEF StreamPart, MessagesCounted
<1>9. data' # <<>>
    BY <1>3, <1>4
<1>10. MsgsIn(data') \in Nat /\ Whole' = Received' + MsgsIn(data')
    BY <1>2, <1>4, <1>5, <1>6, <1>7, <1>8
<1>11. QED
    BY <1>9, <1>10 DEF MessagesCounted

LEMMA CloseSendCounts ==
    ASSUME IInv, CloseSend
    PROVE  MessagesCounted'
<1> USE DEF wireVars, readVars, appVars, ackVars
<1>1. SendTypes /\ WireTypes /\ ReadTypes /\ StreamPart
    BY Parts DEF StreamPart
<1>2. sent \in Nat /\ sendSeq \in Nat /\ data \in Seq(FrameType)
    BY <1>1, Numbers DEF WireTypes, FrameType
<1>3. PICK f \in FrameType : data' = Append(data, f) /\ f.kind = "close"
    <2>1. Frame("close", sendSeq, 0) \in FrameType /\ Frame("close", sendSeq, sent + 1) \in FrameType
        BY <1>2 DEF Frame, FrameType
    <2>2. QED
        BY <2>1 DEF CloseSend, Frame
<1>4. Whole' = Whole /\ Received' = Received
    BY <1>1, StillOpen DEF CloseSend, Whole, Sending, Received, Trailer
<1>5. MsgsIn(Append(data, f)) = MsgsIn(data) + (IF f.kind = "msg" THEN 1 ELSE 0)
    BY <1>2, MsgsAppend
<1>6. Whole = Received + MsgsIn(data) /\ MsgsIn(data) \in Nat
    BY <1>1 DEF StreamPart, MessagesCounted
<1>7. data' # <<>>
    BY <1>2, <1>3
<1>8. MsgsIn(data') = MsgsIn(data)
    BY <1>3, <1>5, <1>6
<1>9. QED
    BY <1>4, <1>6, <1>7, <1>8 DEF MessagesCounted

\* A message leaves the wire when it is reassembled.
LEMMA DispatchCounts ==
    ASSUME IInv, Dispatch
    PROVE  MessagesCounted'
<1>1. SendTypes /\ WireTypes /\ ReadTypes /\ MessagesCounted
    BY DEF IInv, TypeOK
<1>2. /\ Received \in Int /\ Len(recvCh) \in Nat /\ Len(got) \in Nat /\ sent \in Nat
      /\ recvCh \in Seq(ItemType) /\ data \in Seq(FrameType)
    BY <1>1, Numbers DEF WireTypes, FrameType, ReadTypes, ItemType
<1>3. data # <<>> /\ data' = Tail(data) /\ UNCHANGED <<spc, got>> /\ Whole' = Whole
    BY DispatchKept
<1>4. /\ Tail(data) \in Seq(FrameType) /\ Head(data) = data[1] /\ data[1] \in FrameType
    BY <1>2, <1>3, Taken
<1>5. /\ MsgsIn(data') \in Nat /\ (data' = <<>> => MsgsIn(data') = 0)
    BY <1>3, <1>4, MsgsType
<1>6. MsgsIn(data) = MsgsIn(data') + (IF data[1].kind = "msg" THEN 1 ELSE 0)
    BY <1>2, <1>3, <1>4, MsgsTail
<1>7. Received' = Received + (IF data[1].kind = "msg" THEN 1 ELSE 0)
    <2>1. remoteClosed = 0 /\ Trailer = 0 /\ Received = Len(got) + Len(recvCh)
        BY <1>2, <1>3, HeadAccepted DEF Received
    <2>2. CASE data[1].kind = "chunk"
        BY <2>1, <2>2, DispatchKept DEF Received, Trailer
    <2>3. CASE data[1].kind = "msg"
        <3>1. data[1].msg # 0 /\ data[1].msg \in Nat
            BY <1>2, <1>3, <1>4, <2>1, <2>3, HeadAccepted DEF FrameType
        <3>2. Len(recvCh') = Len(recvCh) + 1
            BY <1>2, <2>3, <3>1, DispatchKept, Appended DEF ItemType
        <3>3. Trailer' = 0 /\ Len(got') = Len(got)
            BY <1>3, <2>1, <2>3, DispatchKept DEF Trailer
        <3>4. QED
            BY <1>2, <2>1, <2>3, <3>2, <3>3 DEF Received
    <2>4. CASE data[1].kind = "close"
        <3>1. /\ spc \in {"closed", "closedWith"}
              /\ data[1].msg = (IF spc = "closedWith" THEN sent + 1 ELSE 0)
            BY <1>3, <2>4, HeadAccepted
        <3>2. Trailer' = (IF spc = "closedWith" THEN 1 ELSE 0)
            BY <1>3, <2>4, DispatchKept DEF Trailer
        <3>3. Len(recvCh') = Len(recvCh) + Trailer'
            <4>1. CASE spc = "closed"
                BY <1>2, <2>4, <3>1, <3>2, <4>1, DispatchKept
            <4>2. CASE spc = "closedWith"
                <5>1. data[1].msg # 0 /\ data[1].msg \in Nat
                    BY <1>2, <3>1, <4>2
                <5>2. Len(recvCh') = Len(recvCh) + 1
                    BY <1>2, <2>4, <5>1, DispatchKept, Appended DEF ItemType
                <5>3. QED
                    BY <3>2, <4>2, <5>2
            <4>3. QED
                BY <3>1, <4>1, <4>2
        <3>4. QED
            BY <1>2, <1>3, <2>1, <2>4, <3>2, <3>3 DEF Received
    <2>5. QED
        BY <1>4, <2>2, <2>3, <2>4 DEF FrameType
<1>8. Whole = Received + MsgsIn(data)
    BY <1>1 DEF MessagesCounted
<1>9. Whole' = Received' + MsgsIn(data')
    <2>1. CASE data[1].kind = "msg"
        BY <1>2, <1>3, <1>5, <1>6, <1>7, <1>8, <2>1
    <2>2. CASE data[1].kind # "msg"
        BY <1>2, <1>3, <1>5, <1>6, <1>7, <1>8, <2>2
    <2>3. QED
        BY <2>1, <2>2
<1>10. QED
    BY <1>5, <1>9 DEF MessagesCounted

-----------------------------------------------------------------------------
(* The theorems.                                                           *)

LEMMA InitIInv == Init => IInv
<1> SUFFICES ASSUME Init PROVE IInv
    OBVIOUS
<1>1. /\ Credits \in Nat \ {0} /\ Messages \in Nat \ {0} /\ MaxFrags \in Nat \ {0}
      /\ WireCap \in Nat \ {0} /\ Faults \in Nat /\ Messages * MaxFrags \in Nat
    BY StreamFlowAssumption DEF Init, Credits, Messages, MaxFrags, WireCap, Faults
<1>2. TypeOK
    <2>1. SendTypes
        BY <1>1 DEF Init, SendTypes
    <2>2. WireTypes
        BY <1>1 DEF Init, WireTypes
    <2>3. ReadTypes
        BY <1>1 DEF Init, ReadTypes
    <2>4. AckTypes
        BY <1>1 DEF Init, AckTypes
    <2>5. QED
        BY <2>1, <2>2, <2>3, <2>4 DEF TypeOK
<1>3. Sending = 0 /\ Whole = 0 /\ Closing = 0 /\ Trailer = 0 /\ Received = 0
    BY DEF Init, Sending, Whole, Closing, Trailer, Received
<1>4. SenderPlace /\ SeqDense
    BY <1>1, <1>3 DEF Init, SenderPlace, SeqDense
<1>5. MsgOrder /\ TrainBound
    <2>1. data = <<>> /\ ~(accum > 0) /\ spc # "frame" /\ \A i \in 1 .. Len(data) : FALSE
        BY DEF Init
    <2>2. MsgOrder
        BY <2>1 DEF MsgOrder, Between, FirstNext, Ascending, Adjacent, LastFrame, Accumulating
    <2>3. TrainBound
        BY <2>1 DEF TrainBound
    <2>4. QED
        BY <2>2, <2>3
<1>6. MessagesCounted
    <2>1. MsgsIn(<<>>) = 0
        BY MsgsType, <<>> \in Seq(FrameType)
    <2>2. QED
        BY <1>3, <2>1 DEF Init, MessagesCounted
<1>7. Buffered /\ DeliveredInOrder /\ CreditTaken /\ ArmedOnce /\ NoConformanceFault
    BY <1>3 DEF Init, Buffered, DeliveredInOrder, CreditTaken, ArmedOnce, NoConformanceFault
<1>8. AckOrder
    BY <1>1 DEF Init, AckOrder
<1>9. QED
    BY <1>2, <1>4, <1>5, <1>6, <1>7, <1>8 DEF IInv

\* Every step of either end, of the ack dispatcher or of the timer keeps the stream in order.
LEMMA NextIInv == IInv /\ [Next]_vars => IInv'
<1> SUFFICES ASSUME IInv, [Next]_vars PROVE IInv'
    OBVIOUS
<1>1. CASE Sender
    BY <1>1, SendMsgKeeps, AdmitKeeps, UnparkKeeps, SendFrameCounts, SendFrameKeeps,
       CloseSendCounts, CloseSendKeeps DEF Sender
<1>2. CASE GiveUp \/ SendRefused \/ OnStreamAck
    BY <1>2, GiveUpKeeps, SendRefusedKeeps, OnStreamAckKeeps
<1>3. CASE Reader
    BY <1>3, DispatchCounts, DispatchKeeps, ReaderDrainedKeeps, SweepKeeps, SweepArmKeeps DEF Reader
<1>4. CASE App
    BY <1>4, RecvMsgKeeps, ConsumeKeeps, DeliveredDrainKeeps, DeliveredArmKeeps DEF App
<1>5. CASE AckDispatch
    BY <1>5, PopArmKeeps, BuildAckKeeps, SendAckKeeps, ReleaseAckTokenKeeps DEF AckDispatch
<1>6. CASE ReArmAfterBackoff
    BY <1>6, ReArmAfterBackoffKeeps
<1>7. CASE UNCHANGED vars
    BY <1>7, StutterKeeps
<1>8. QED
    BY <1>1, <1>2, <1>3, <1>4, <1>5, <1>6, <1>7 DEF Next

\* The stream is in order in every reachable state, whatever the interleaving of the two
\* applications, the readers, the ack dispatcher and the timer, and whichever sends are refused.
THEOREM InvariantHolds == Spec => []IInv
<1>1. QED
    BY InitIInv, NextIInv, PTL DEF Spec

\* The receiving application sees what was sent: RecvMsg returns whole messages in order, reports
\* EOF only after all of them and the close's payload, and neither end rejects a frame of the other.
THEOREM StreamsIntact == Spec => []StreamIntact
<1>1. ASSUME IInv PROVE StreamIntact
    <2>1. SendTypes /\ WireTypes /\ ReadTypes /\ SeqDense
        BY <1>1 DEF IInv, TypeOK
    <2>2. EofComplete
        <3>1. SUFFICES ASSUME apc = "eof"
                       PROVE  Len(got) = sent + (IF spc = "closedWith" THEN 1 ELSE 0)
            BY DEF EofComplete
        <3>2. remoteClosed = 1 /\ recvCh = <<>>
            BY <1>1, <3>1 DEF IInv, CreditTaken
        <3>3. data = <<>> /\ spc \in {"closed", "closedWith"}
            BY <2>1, <3>2 DEF SeqDense
        <3>4. MsgsIn(data) = 0
            BY <3>3, MsgsType, <<>> \in Seq(FrameType)
        <3>5. sent \in Nat /\ Len(got) \in Nat /\ Len(recvCh) = 0
            BY <2>1, <3>2, Numbers
        <3>6. Whole = sent /\ Received = Len(got) - (IF spc = "closedWith" THEN 1 ELSE 0)
            BY <3>2, <3>3, <3>5 DEF Whole, Sending, Received, Trailer
        <3>7. QED
            BY <1>1, <3>4, <3>5, <3>6 DEF IInv, MessagesCounted
    <2>3. QED
        BY <1>1, <2>2 DEF IInv, StreamIntact
<1>2. QED
    BY <1>1, InvariantHolds, PTL

\* Credit is neither lost nor made: what the sender has outstanding is on the wire, buffered, being
\* consumed or waiting to be acked, never more than the window, and the stream is in the arming
\* queue at most once.
THEOREM WindowsConserved == Spec => []WindowConserved
<1>1. ASSUME IInv PROVE WindowConserved
    <2>1. SendTypes /\ AckTypes /\ TypeOK
        BY <1>1 DEF IInv, TypeOK
    <2>2. CreditConserved
        <3>1. sent - acked <= Credits
            BY <1>1 DEF IInv, AckOrder
        <3>2. ASSUME remoteClosed = 0
              PROVE  sent = consumed + MsgsIn(data) + Len(recvCh) + (IF apc = "consume" THEN 1 ELSE 0)
                            + (IF spc = "frame" THEN 1 ELSE 0)
            <4>1. /\ Len(got) \in Nat /\ Len(recvCh) \in Nat /\ consumed \in Nat /\ sent \in Nat
                  /\ MsgsIn(data) \in Nat /\ Len(got) + Len(recvCh) + MsgsIn(data) = Whole
                  /\ Len(got) = consumed + (IF apc = "consume" THEN 1 ELSE 0)
                BY <1>1, <3>2, UnitsWithin
            <4>2. QED
                BY <4>1 DEF Whole, Sending
        <3>3. QED
            BY <3>1, <3>2 DEF CreditConserved
    <2>3. QueuedOnce
        BY <1>1, <2>1 DEF IInv, ArmedOnce, AckTypes, QueuedOnce
    <2>4. QED
        BY <2>1, <2>2, <2>3 DEF WindowConserved
<1>2. QED
    BY <1>1, InvariantHolds, PTL
=============================================================================
