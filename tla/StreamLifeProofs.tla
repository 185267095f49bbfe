-------------------------- MODULE StreamLifeProofs --------------------------
(***************************************************************************)
(* A stream ends once and cleanly, its obligation is closed neither early  *)
(* nor never, and no end outlives the other unnoticed at the host: for     *)
(* every number of emitter overflows and acks, with or without a failing   *)
(* connection.                                                             *)
(***************************************************************************)
EXTENDS StreamLifeControl

-----------------------------------------------------------------------------
(* What occurs in a queue.                                                 *)

\* An append adds its own element only.
LEMMA OccursAppend ==
    ASSUME NEW S, NEW q \in Seq(S), NEW g \in S, NEW f
    PROVE  Occurs(f, Append(q, g)) <=> Occurs(f, q) \/ f = g
<1>1. /\ Len(q) \in Nat /\ Len(Append(q, g)) = Len(q) + 1 /\ Append(q, g)[Len(q) + 1] = g
      /\ \A i \in 1 .. Len(q) : Append(q, g)[i] = q[i]
    OBVIOUS
<1>2. QED
    BY <1>1 DEF Occurs

\* Taking the head off removes that element only.
LEMMA OccursTail ==
    ASSUME NEW S, NEW q \in Seq(S), q # <<>>, NEW f
    PROVE  Occurs(f, q) <=> Occurs(f, Tail(q)) \/ f = Head(q)
<1>1. /\ Len(q) \in Nat /\ Len(q) >= 1 /\ Len(Tail(q)) = Len(q) - 1 /\ Head(q) = q[1]
      /\ \A i \in 1 .. Len(Tail(q)) : Tail(q)[i] = q[i + 1]
    OBVIOUS
<1>2. ASSUME Occurs(f, q), f # Head(q) PROVE Occurs(f, Tail(q))
    <2>1. PICK i \in 1 .. Len(q) : q[i] = f
        BY <1>2 DEF Occurs
    <2>2. i - 1 \in 1 .. Len(Tail(q)) /\ Tail(q)[i - 1] = f
        BY <1>1, <1>2, <2>1
    <2>3. QED
        BY <2>2 DEF Occurs
<1>3. ASSUME Occurs(f, Tail(q)) PROVE Occurs(f, q)
    <2>1. PICK i \in 1 .. Len(Tail(q)) : Tail(q)[i] = f
        BY <1>3 DEF Occurs
    <2>2. i + 1 \in 1 .. Len(q) /\ q[i + 1] = f
        BY <1>1, <2>1
    <2>3. QED
        BY <2>2 DEF Occurs
<1>4. ASSUME f = Head(q) PROVE Occurs(f, q)
    BY <1>1, <1>4, 1 \in 1 .. Len(q) DEF Occurs
<1>5. QED
    BY <1>2, <1>3, <1>4

\* Nothing occurs in an empty queue.
LEMMA OccursEmpty == ASSUME NEW f PROVE ~Occurs(f, <<>>)
BY DEF Occurs

-----------------------------------------------------------------------------
(* What a step does to the queues and to the wire.                         *)

Frames == {"open", "close", "err", "cancel"}

\* A frame that is put on the wire occurs there while the connection is up, and nothing else does.
LEMMA PutWire ==
    ASSUME TrafficTypes, NEW x \in Sides, NEW f \in Frames, Put(x, f)
    PROVE  /\ wire' \in [Sides -> Seq(Frames)]
           /\ \A y \in Sides : y # x => wire'[y] = wire[y]
           /\ \A g : Occurs(g, wire'[x]) <=> Occurs(g, wire[x]) \/ (conn = "up" /\ g = f)
           /\ conn = "failed" => wire' = wire
<1>1. wire \in [Sides -> Seq(Frames)] /\ wire[x] \in Seq(Frames)
    BY DEF TrafficTypes, Frames
<1>2. CASE conn = "up"
    <2>1. wire' = [wire EXCEPT ![x] = Append(wire[x], f)] /\ wire'[x] = Append(wire[x], f)
        BY <1>1, <1>2 DEF Put
    <2>2. \A g : Occurs(g, Append(wire[x], f)) <=> Occurs(g, wire[x]) \/ g = f
        BY <1>1, OccursAppend
    <2>3. QED
        BY <1>1, <1>2, <2>1, <2>2
<1>3. CASE conn # "up"
    BY <1>1, <1>3 DEF Put
<1>4. QED
    BY <1>2, <1>3

\* A frame that arrives was on the wire, and the others stay.
LEMMA ArrivesWire ==
    ASSUME TrafficTypes, NEW x \in Sides, NEW y \in Sides, y # x, NEW f \in Frames, Arrives(x, f)
    PROVE  /\ conn = "up" /\ wire' \in [Sides -> Seq(Frames)] /\ wire[y] # <<>>
           /\ wire'[x] = wire[x]
           /\ \A g : Occurs(g, wire[y]) <=> Occurs(g, wire'[y]) \/ g = f
<1>1. Peer(x) = y
    BY DEF Peer, Sides
<1>2. wire \in [Sides -> Seq(Frames)] /\ wire[y] \in Seq(Frames)
    BY DEF TrafficTypes, Frames
<1>3. /\ conn = "up" /\ wire[y] # <<>> /\ Head(wire[y]) = f
      /\ wire' = [wire EXCEPT ![y] = Tail(wire[y])] /\ wire'[y] = Tail(wire[y])
    BY <1>1, <1>2 DEF Arrives
<1>4. \A g : Occurs(g, wire[y]) <=> Occurs(g, Tail(wire[y])) \/ g = Head(wire[y])
    BY <1>2, <1>3, OccursTail
<1>5. QED
    BY <1>2, <1>3, <1>4

\* The detached sender has a teardown to send.
LEMMA OwedStarted == OwedStep => owed # "none"
BY DEF OwedStep

\* A step keeps the types of what is queued and in flight.
LEMMA NextTrafficTypes ==
    ASSUME StateTypes, TrafficTypes, [Next]_vars
    PROVE  TrafficTypes'
<1> USE DEF endVars, openVars, ackVars, oblVars, connVars, Sides
<1>1. CASE OpenClient
    BY <1>1 DEF OpenClient, openFrame, TrafficTypes
<1>2. CASE Publish
    BY <1>2 DEF Publish, openFrame, TrafficTypes
<1>3. CASE SendOpen
    <2>1. UNCHANGED <<emitQ, conn>> /\ (Put("c", "open") \/ UNCHANGED wire)
        BY <1>3 DEF SendOpen, openFrame
    <2>2. QED
        BY <2>1, PutWire DEF TrafficTypes, Frames
<1>4. CASE PublishLate
    <2>1. UNCHANGED <<emitQ, conn>> /\ (Put("c", "open") \/ UNCHANGED wire)
        BY <1>4 DEF PublishLate, openFrame
    <2>2. QED
        BY <2>1, PutWire DEF TrafficTypes, Frames
<1>5. CASE ConfirmOpenSent
    BY <1>5 DEF ConfirmOpenSent, openFrame, TrafficTypes
<1>6. CASE ResolveOpenSendFailure
    BY <1>6 DEF ResolveOpenSendFailure, Terminate, openFrame, TrafficTypes
<1>7. CASE EmitOwedOpenTeardown
    BY <1>7 DEF EmitOwedOpenTeardown, openFrame, TrafficTypes
<1>8. ASSUME NEW x \in Sides, TerminateLocal(x) PROVE TrafficTypes'
    BY <1>8 DEF TerminateLocal, Terminate, TrafficTypes
<1>9. CASE TerminateHandlerError
    BY <1>9 DEF TerminateHandlerError, Terminate, TrafficTypes
<1>10. ASSUME NEW x \in Sides, FinishClaim(x) PROVE TrafficTypes'
    BY <1>10 DEF FinishClaim, Claim, finFrame, TrafficTypes
<1>11. ASSUME NEW x \in Sides, FinishCancel(x) PROVE TrafficTypes'
    <2>1. UNCHANGED emitQ /\ (((Put(x, "cancel") \/ UNCHANGED wire) /\ UNCHANGED conn) \/ Fail)
        BY <1>11 DEF FinishCancel, SendCancel
    <2>2. CASE (Put(x, "cancel") \/ UNCHANGED wire) /\ UNCHANGED conn
        BY <2>1, <2>2, PutWire DEF TrafficTypes, Frames
    <2>3. CASE Fail
        BY <2>1, <2>3 DEF Fail, TrafficTypes
    <2>4. QED
        BY <2>1, <2>2, <2>3
<1>12. ASSUME NEW x \in Sides, FinishEmit(x) PROVE TrafficTypes'
    <2>1. PICK queued \in BOOLEAN : Enqueue(x, IF fin[x] = "emitKeep" THEN 1 ELSE 0, queued)
        BY <1>12 DEF FinishEmit
    <2>2. UNCHANGED <<wire, conn>>
        BY <1>12 DEF FinishEmit, finFrame
    <2>3. QED
        BY <2>1, <2>2, EnqueueJob DEF TrafficTypes
<1>13. ASSUME NEW x \in Sides, FinishOblige(x) PROVE TrafficTypes'
    BY <1>13 DEF FinishOblige, CloseObligation, finFrame, TrafficTypes
<1>14. ASSUME NEW x \in Sides, FinishClose(x) PROVE TrafficTypes'
    BY <1>14 DEF FinishClose, finFrame, TrafficTypes
<1>15. ASSUME NEW x \in Sides, Emit(x) PROVE TrafficTypes'
    <2>1. /\ emitQ[x] # <<>> /\ emitQ' = [emitQ EXCEPT ![x] = Tail(emitQ[x])]
          /\ Put(x, "err") /\ UNCHANGED conn
        BY <1>15 DEF Emit
    <2>2. emitQ[x] \in Seq({0, 1}) /\ Tail(emitQ[x]) \in Seq({0, 1})
        BY <2>1 DEF TrafficTypes
    <2>3. emitQ' \in [Sides -> Seq({0, 1})]
        BY <2>1, <2>2 DEF TrafficTypes
    <2>4. QED
        BY <2>1, <2>3, PutWire DEF TrafficTypes, Frames
<1>16. CASE OwedTeardown
    <2>1. CASE owed = "claim" /\ UNCHANGED <<emitQ, wire, conn>>
        BY <2>1 DEF TrafficTypes
    <2>2. CASE owed = "cancel" /\ SendCancel("c") /\ UNCHANGED emitQ
        <3>1. CASE Put("c", "cancel") /\ UNCHANGED conn
            BY <2>2, <3>1, PutWire DEF TrafficTypes, Frames
        <3>2. CASE Fail
            BY <2>2, <3>2 DEF Fail, TrafficTypes
        <3>3. QED
            BY <2>2, <3>1, <3>2 DEF SendCancel
    <2>3. CASE owed = "emit"
        <3>1. PICK queued \in BOOLEAN : Enqueue("c", 0, queued)
            BY <1>16, <2>3 DEF OwedTeardown, OwedStep
        <3>2. Fail \/ UNCHANGED <<conn, wire>>
            BY <1>16, <2>3 DEF OwedTeardown, OwedStep
        <3>3. emitQ' \in [Sides -> Seq({0, 1})]
            BY <3>1, EnqueueJob
        <3>4. CASE Fail
            BY <3>3, <3>4 DEF Fail, TrafficTypes
        <3>5. CASE UNCHANGED <<conn, wire>>
            BY <3>3, <3>5 DEF TrafficTypes
        <3>6. QED
            BY <3>2, <3>4, <3>5
    <2>4. QED
        BY <1>16, <2>1, <2>2, <2>3 DEF OwedTeardown, OwedStep
<1>17. ASSUME NEW x \in Sides, AckTake(x) PROVE TrafficTypes'
    BY <1>17 DEF AckTake, ackFrame, TrafficTypes
<1>18. ASSUME NEW x \in Sides, AckRelease(x) PROVE TrafficTypes'
    BY <1>18 DEF AckRelease, ackFrame, TrafficTypes
<1>19. ASSUME NEW x \in Sides, AckCancel(x) PROVE TrafficTypes'
    <2>1. UNCHANGED emitQ /\ (((Put(x, "cancel") \/ UNCHANGED wire) /\ UNCHANGED conn) \/ Fail)
        BY <1>19 DEF AckCancel, SendCancel, ackFrame
    <2>2. CASE (Put(x, "cancel") \/ UNCHANGED wire) /\ UNCHANGED conn
        BY <2>1, <2>2, PutWire DEF TrafficTypes, Frames
    <2>3. CASE Fail
        BY <2>1, <2>3 DEF Fail, TrafficTypes
    <2>4. QED
        BY <2>1, <2>2, <2>3
<1>20. ASSUME NEW x \in Sides, CloseSend(x) PROVE TrafficTypes'
    <2>1. UNCHANGED <<emitQ, conn>> /\ (Put(x, "close") \/ UNCHANGED wire)
        BY <1>20 DEF CloseSend, closeFrame
    <2>2. QED
        BY <2>1, PutWire DEF TrafficTypes, Frames
<1>21. CASE OnStreamOpen
    <2>1. UNCHANGED <<emitQ, conn>> /\ (Arrives("s", "open"))
        BY <1>21 DEF OnStreamOpen, readFrame
    <2>2. QED
        BY <2>1, ArrivesWire DEF TrafficTypes, Frames
<1>22. CASE RejectOpen
    <2>1. PICK queued \in BOOLEAN : Enqueue("s", 0, queued)
        BY <1>22 DEF RejectOpen
    <2>2. Arrives("s", "open") /\ UNCHANGED conn
        BY <1>22 DEF RejectOpen
    <2>3. emitQ' \in [Sides -> Seq({0, 1})]
        BY <2>1, EnqueueJob
    <2>4. QED
        BY <2>2, <2>3, ArrivesWire DEF TrafficTypes, Frames
<1>23. ASSUME NEW x \in Sides, OnStreamClose(x) PROVE TrafficTypes'
    <2>1. UNCHANGED <<emitQ, conn>> /\ (Arrives(x, "close"))
        BY <1>23 DEF OnStreamClose, readFrame
    <2>2. QED
        BY <2>1, ArrivesWire DEF TrafficTypes, Frames
<1>24. ASSUME NEW x \in Sides, OnStreamEnd(x) PROVE TrafficTypes'
    <2>1. UNCHANGED <<emitQ, conn>> /\ (Arrives(x, "err") \/ Arrives(x, "cancel"))
        BY <1>24 DEF OnStreamEnd, readFrame
    <2>2. QED
        BY <2>1, ArrivesWire DEF TrafficTypes, Frames
<1>25. ASSUME NEW x \in Sides, Discard(x) PROVE TrafficTypes'
    <2>1. UNCHANGED <<emitQ, conn>> /\ (Arrives(x, "close") \/ Arrives(x, "err") \/ Arrives(x, "cancel"))
        BY <1>25 DEF Discard, readFrame
    <2>2. QED
        BY <2>1, ArrivesWire DEF TrafficTypes, Frames
<1>26. CASE ConnFails
    BY <1>26 DEF ConnFails, Fail, TrafficTypes
<1>27. ASSUME NEW x \in Sides, CloseTable(x) PROVE TrafficTypes'
    BY <1>27 DEF CloseTable, Terminate, TrafficTypes
<1>28. CASE UNCHANGED vars
    BY <1>28 DEF vars, TrafficTypes
<1>29. QED
    BY <1>1, <1>2, <1>3, <1>4, <1>5, <1>6, <1>7, <1>8, <1>9, <1>10, <1>11, <1>12, <1>13, <1>14,
       <1>15, <1>16, <1>17, <1>18, <1>19, <1>20, <1>21, <1>22, <1>23, <1>24, <1>25, <1>26, <1>27,
       <1>28
       DEF Next, Opener, Finisher, AckDispatch, Reader

\* A step leaves no obligation behind without someone to close it.
LEMMA NextObligationHeld ==
    ASSUME StateTypes, TrafficTypes, FinisherPlace, TokenPlace, CloseBits, ObligationHeld,
           [Next]_vars
    PROVE  ObligationHeld'
<1> USE DEF endVars, openVars, ackVars, oblVars, connVars
<1>1. CASE OpenClient
    BY <1>1 DEF OpenClient, openFrame, ObligationHeld, CancelAcked, TokenPlace, FinisherPlace,
       StateTypes, Terminal, Live, Sides
<1>2. CASE Publish
    BY <1>2 DEF Publish, openFrame, ObligationHeld, CancelAcked, TokenPlace, FinisherPlace,
       StateTypes, Terminal, Live, Sides
<1>3. CASE SendOpen
    BY <1>3 DEF SendOpen, openFrame, ObligationHeld, CancelAcked, TokenPlace, FinisherPlace,
       StateTypes, Terminal, Live, Sides
<1>4. CASE PublishLate
    BY <1>4 DEF PublishLate, openFrame, ObligationHeld, CancelAcked, TokenPlace, FinisherPlace,
       StateTypes, Terminal, Live, Sides
<1>5. CASE ConfirmOpenSent
    BY <1>5 DEF ConfirmOpenSent, openFrame, ObligationHeld, CancelAcked, TokenPlace,
       FinisherPlace, StateTypes, Terminal, Live, Sides
<1>6. CASE ResolveOpenSendFailure
    <2>1. UNCHANGED <<phase["s"], fin["s"], obl, token["s"], dpc["s"], emitQ["s"]>>
        BY <1>6 DEF ResolveOpenSendFailure, Terminate, openFrame, StateTypes, Sides
    <2>2. QED
        BY <2>1 DEF ObligationHeld, CancelAcked, TokenPlace, FinisherPlace, StateTypes, Terminal,
           Live, Sides
<1>7. CASE EmitOwedOpenTeardown
    BY <1>7 DEF EmitOwedOpenTeardown, openFrame, ObligationHeld, CancelAcked, TokenPlace,
       FinisherPlace, StateTypes, Terminal, Live, Sides
<1>8. ASSUME NEW x \in Sides, TerminateLocal(x) PROVE ObligationHeld'
    BY <1>8 DEF TerminateLocal, Terminate, ObligationHeld, CancelAcked, TokenPlace, FinisherPlace,
       StateTypes, Terminal, Live, Sides
<1>9. CASE TerminateHandlerError
    BY <1>9 DEF TerminateHandlerError, Terminate, ObligationHeld, CancelAcked, TokenPlace,
       FinisherPlace, StateTypes, Terminal, Live, Sides
<1>10. ASSUME NEW x \in Sides, FinishClaim(x) PROVE ObligationHeld'
    BY <1>10 DEF FinishClaim, Claim, finFrame, ObligationHeld, CancelAcked, TokenPlace,
       FinisherPlace, StateTypes, Terminal, Live, Sides
<1>11. ASSUME NEW x \in Sides, FinishCancel(x) PROVE ObligationHeld'
    BY <1>11 DEF FinishCancel, SendCancel, Fail, ObligationHeld, CancelAcked, TokenPlace,
       FinisherPlace, StateTypes, Terminal, Live, Sides
<1>12. ASSUME NEW x \in Sides, FinishEmit(x) PROVE ObligationHeld'
    <2>1. CASE x = "c"
        <3>1. UNCHANGED <<phase["s"], fin["s"], obl, token["s"], dpc["s"], emitQ["s"]>>
            BY <1>12, <2>1 DEF FinishEmit, Enqueue, finFrame, TrafficTypes, StateTypes, Sides
        <3>2. QED
            BY <3>1 DEF ObligationHeld, CancelAcked, TokenPlace, FinisherPlace, StateTypes,
               Terminal, Live, Sides
    <2>2. CASE x = "s"
        <3>0. FinishEmit("s")
            BY <1>12, <2>2
        <3>1. PICK queued \in BOOLEAN :
                  /\ Enqueue("s", IF fin["s"] = "emitKeep" THEN 1 ELSE 0, queued)
                  /\ fin' = [fin EXCEPT !["s"] = IF fin["s"] = "emitKeep" \/ (owes["s"] = 0 /\ queued)
                                                 THEN "close" ELSE "oblige"]
            BY <3>0 DEF FinishEmit, Enqueue
        <3>2. UNCHANGED <<phase, obl, token, dpc>>
            BY <1>12 DEF FinishEmit, finFrame
        <3>3. CASE fin["s"] = "emitKeep"
            BY <3>1, <3>2, <3>3 DEF ObligationHeld, CancelAcked, TokenPlace, FinisherPlace,
               StateTypes, Terminal, Live, Sides
        <3>4. CASE fin["s"] = "emit" /\ queued
            <4>1. emitQ'["s"] = Append(emitQ["s"], 0)
                BY <3>1, <3>4 DEF Enqueue, TrafficTypes, StateTypes, Sides
            <4>2. Occurs(0, emitQ'["s"])
                <5>1. emitQ["s"] \in Seq({0, 1})
                    BY DEF TrafficTypes, StateTypes, Sides
                <5>2. QED
                    BY <4>1, <5>1, OccursAppend
            <4>3. QED
                BY <3>1, <3>2, <4>2 DEF ObligationHeld, CancelAcked, TokenPlace, FinisherPlace,
                   StateTypes, Terminal, Live, Sides
        <3>5. CASE fin["s"] = "emit" /\ ~queued
            BY <3>1, <3>2, <3>5 DEF ObligationHeld, CancelAcked, TokenPlace, FinisherPlace,
               StateTypes, Terminal, Live, Sides
        <3>6. QED
            BY <1>12, <2>2, <3>3, <3>4, <3>5 DEF FinishEmit
    <2>3. QED
        BY <2>1, <2>2 DEF Sides
<1>13. ASSUME NEW x \in Sides, FinishOblige(x) PROVE ObligationHeld'
    <2>1. CASE x = "c"
        BY <1>13, <2>1 DEF FinishOblige, CloseObligation, finFrame, ObligationHeld, CancelAcked,
           TokenPlace, FinisherPlace, StateTypes, Terminal, Live, Sides
    <2>2. CASE x = "s"
        BY <1>13, <2>2 DEF FinishOblige, CloseObligation, finFrame, ObligationHeld, CancelAcked,
           TokenPlace, FinisherPlace, StateTypes, Terminal, Live, Sides
    <2>3. QED
        BY <2>1, <2>2 DEF Sides
<1>14. ASSUME NEW x \in Sides, FinishClose(x) PROVE ObligationHeld'
    BY <1>14 DEF FinishClose, finFrame, ObligationHeld, CancelAcked, TokenPlace, FinisherPlace,
       StateTypes, Terminal, Live, Sides
<1>15. ASSUME NEW x \in Sides, Emit(x) PROVE ObligationHeld'
    <2>1. CASE x = "c"
        <3>1. UNCHANGED <<phase["s"], fin["s"], obl, token["s"], dpc["s"], emitQ["s"]>>
            BY <1>15, <2>1 DEF Emit, TrafficTypes, StateTypes, Sides
        <3>2. QED
            BY <3>1 DEF ObligationHeld, CancelAcked, TokenPlace, FinisherPlace, StateTypes,
               Terminal, Live, Sides
    <2>2. CASE x = "s"
        <3>1. /\ emitQ["s"] # <<>> /\ emitQ'["s"] = Tail(emitQ["s"])
              /\ obl' = (IF Head(emitQ["s"]) = 0 THEN 0 ELSE obl) /\ UNCHANGED <<phase, fin, token, dpc>>
            BY <1>15, <2>2 DEF Emit, TrafficTypes, StateTypes, Sides
        <3>2. Occurs(0, emitQ["s"]) => Occurs(0, emitQ'["s"]) \/ Head(emitQ["s"]) = 0
            <4>1. emitQ["s"] \in Seq({0, 1}) /\ Head(emitQ["s"]) \in {0, 1}
                BY <3>1 DEF TrafficTypes, StateTypes, Sides
            <4>2. Occurs(0, emitQ["s"]) <=> Occurs(0, emitQ'["s"]) \/ 0 = Head(emitQ["s"])
                BY <3>1, <4>1, OccursTail DEF StateTypes, Sides
            <4>3. QED
                BY <4>1, <4>2
        <3>3. CASE Head(emitQ["s"]) # 0
            BY <3>1, <3>2, <3>3 DEF ObligationHeld, CancelAcked, TokenPlace, FinisherPlace,
               StateTypes, Terminal, Live, Sides
        <3>4. CASE Head(emitQ["s"]) = 0
            BY <3>1, <3>4 DEF ObligationHeld, CancelAcked, TokenPlace, FinisherPlace, StateTypes,
               Terminal, Live, Sides
        <3>5. QED
            BY <3>3, <3>4 DEF Sides
    <2>3. QED
        BY <2>1, <2>2 DEF Sides
<1>16. CASE OwedTeardown
    <2>1. UNCHANGED <<phase["s"], fin["s"], obl, token["s"], dpc["s"], emitQ["s"]>>
        <3>1. CASE owed = "claim" /\ Claim("c", TRUE) /\ UNCHANGED <<emitQ, obl>>
            BY <1>16, <3>1 DEF OwedTeardown, Claim, ObligationHeld, CancelAcked, TokenPlace,
               FinisherPlace, StateTypes, Terminal, Live, Sides
        <3>2. CASE owed = "cancel" /\ SendCancel("c") /\ UNCHANGED <<token, emitQ>>
            BY <1>16, <3>2 DEF OwedTeardown, SendCancel, ObligationHeld, CancelAcked, TokenPlace,
               FinisherPlace, StateTypes, Terminal, Live, Sides
        <3>3. CASE /\ owed = "emit" /\ UNCHANGED <<token, oblVars>>
                   /\ \E queued \in BOOLEAN : Enqueue("c", 0, queued)
            BY <1>16, <3>3 DEF OwedTeardown, Enqueue, TrafficTypes, ObligationHeld, CancelAcked,
               TokenPlace, FinisherPlace, StateTypes, Terminal, Live, Sides
        <3>4. OwedStep
            BY <1>16 DEF OwedTeardown
        <3>5. QED
            BY <3>1, <3>2, <3>3, <3>4 DEF OwedStep, Enqueue
    <2>2. QED
        BY <2>1 DEF ObligationHeld, CancelAcked, TokenPlace, FinisherPlace, StateTypes, Terminal,
           Live, Sides
<1>17. ASSUME NEW x \in Sides, AckTake(x) PROVE ObligationHeld'
    BY <1>17 DEF AckTake, ackFrame, ObligationHeld, CancelAcked, TokenPlace, FinisherPlace,
       StateTypes, Terminal, Live, Sides
<1>18. ASSUME NEW x \in Sides, AckRelease(x) PROVE ObligationHeld'
    BY <1>18 DEF AckRelease, ackFrame, ObligationHeld, CancelAcked, TokenPlace, FinisherPlace,
       StateTypes, Terminal, Live, Sides
<1>19. ASSUME NEW x \in Sides, AckCancel(x) PROVE ObligationHeld'
    <2>1. UNCHANGED <<phase, fin, token, emitQ>>
        BY <1>19 DEF AckCancel, ackFrame
    <2>2. CASE dpc[x] = "cancel" /\ SendCancel(x) /\ dpc' = [dpc EXCEPT ![x] = "oblige"]
        BY <2>1, <2>2 DEF SendCancel, ObligationHeld, CancelAcked, TokenPlace, FinisherPlace,
           StateTypes, Terminal, Live, Sides
    <2>3. CASE dpc[x] = "oblige" /\ CloseObligation(x) /\ dpc' = [dpc EXCEPT ![x] = "idle"]
        <3>1. CASE x = "s"
            BY <2>1, <2>3, <3>1 DEF CloseObligation, ObligationHeld, CancelAcked, TokenPlace,
               FinisherPlace, StateTypes, Terminal, Live, Sides
        <3>2. CASE x = "c"
            <4>1. UNCHANGED <<obl, dpc["s"]>>
                BY <2>3, <3>2 DEF CloseObligation, StateTypes, Sides
            <4>2. QED
                BY <2>1, <4>1 DEF ObligationHeld, CancelAcked, TokenPlace, FinisherPlace,
                   StateTypes, Terminal, Live, Sides
        <3>3. QED
            BY <3>1, <3>2 DEF Sides
    <2>4. QED
        BY <1>19, <2>2, <2>3 DEF AckCancel
<1>20. ASSUME NEW x \in Sides, CloseSend(x) PROVE ObligationHeld'
    <2>1. UNCHANGED <<token, dpc, emitQ>>
        BY <1>20 DEF CloseSend, closeFrame
    <2>2. obl' \in {0, obl} /\ (phase["s"] = "none" => phase'["s"] = "none" /\ obl' = obl)
        BY <1>20 DEF CloseSend, CloseObligation, Terminate, CloseBits, StateTypes, Sides
    <2>3. fin'["s"] \in {"claim", fin["s"]} /\ phase'["s"] = "none" => phase["s"] = "none"
        BY <1>20 DEF CloseSend, Terminate, StateTypes, Sides
    <2>4. fin'["s"] \in {"claim", fin["s"]}
        BY <1>20 DEF CloseSend, Terminate, StateTypes, Sides
    <2>5. QED
        BY <2>1, <2>2, <2>3, <2>4 DEF ObligationHeld, CancelAcked, TokenPlace, FinisherPlace,
           StateTypes, Terminal, Live, Sides
<1>21. CASE OnStreamOpen
    BY <1>21 DEF OnStreamOpen, readFrame, ObligationHeld, CancelAcked, TokenPlace, FinisherPlace,
       StateTypes, Terminal, Live, Sides
<1>22. CASE RejectOpen
    BY <1>22 DEF RejectOpen, Enqueue, ObligationHeld, CancelAcked, TokenPlace, FinisherPlace,
       StateTypes, Terminal, Live, Sides
<1>23. ASSUME NEW x \in Sides, OnStreamClose(x) PROVE ObligationHeld'
    <2>1. UNCHANGED <<obl, token, dpc, emitQ>>
        BY <1>23 DEF OnStreamClose, Terminate, readFrame
    <2>2. fin'["s"] \in {"claim", fin["s"]} /\ (phase'["s"] = "none" => phase["s"] = "none")
        BY <1>23 DEF OnStreamClose, Terminate, readFrame, StateTypes, Sides
    <2>3. QED
        BY <2>1, <2>2 DEF ObligationHeld, CancelAcked, TokenPlace, FinisherPlace, StateTypes,
           Terminal, Live, Sides
<1>24. ASSUME NEW x \in Sides, OnStreamEnd(x) PROVE ObligationHeld'
    BY <1>24 DEF OnStreamEnd, Terminate, readFrame, ObligationHeld, CancelAcked, TokenPlace,
       FinisherPlace, StateTypes, Terminal, Live, Sides
<1>25. ASSUME NEW x \in Sides, Discard(x) PROVE ObligationHeld'
    BY <1>25 DEF Discard, readFrame, ObligationHeld, CancelAcked, TokenPlace, FinisherPlace,
       StateTypes, Terminal, Live, Sides
<1>26. CASE ConnFails
    BY <1>26 DEF ConnFails, Fail, ObligationHeld, CancelAcked, TokenPlace, FinisherPlace,
       StateTypes, Terminal, Live, Sides
<1>27. ASSUME NEW x \in Sides, CloseTable(x) PROVE ObligationHeld'
    <2>1. UNCHANGED <<obl, token, dpc, emitQ>>
        BY <1>27 DEF CloseTable, Terminate
    <2>2. fin'["s"] \in {"claim", fin["s"]} /\ (phase'["s"] = "none" => phase["s"] = "none")
        BY <1>27 DEF CloseTable, Terminate, StateTypes, Sides
    <2>3. QED
        BY <2>1, <2>2 DEF ObligationHeld, CancelAcked, TokenPlace, FinisherPlace, StateTypes,
           Terminal, Live, Sides
<1>28. CASE UNCHANGED vars
    BY <1>28 DEF vars, ObligationHeld, CancelAcked, TokenPlace, FinisherPlace, StateTypes,
       Terminal, Live, Sides
<1>29. QED
    BY <1>1, <1>2, <1>3, <1>4, <1>5, <1>6, <1>7, <1>8, <1>9, <1>10, <1>11, <1>12, <1>13, <1>14,
       <1>15, <1>16, <1>17, <1>18, <1>19, <1>20, <1>21, <1>22, <1>23, <1>24, <1>25, <1>26, <1>27,
       <1>28
       DEF Next, Opener, Finisher, AckDispatch, Reader

\* A step sends nothing of the stream before its OPEN.
LEMMA NextUnopened ==
    ASSUME StateTypes, TrafficTypes, OpenerPlace, FinisherPlace, TokenPlace, CloseBits, Unopened,
           [Next]_vars
    PROVE  Unopened'
<1> USE DEF endVars, openVars, ackVars, oblVars, connVars
<1>1. CASE OpenClient
    BY <1>1 DEF OpenClient, openFrame, Unopened, TokenPlace, FinisherPlace, OpenerPlace,
       StateTypes, Terminal, Live, Sides
<1>2. CASE Publish
    BY <1>2 DEF Publish, openFrame, Unopened, TokenPlace, FinisherPlace, OpenerPlace, StateTypes,
       Terminal, Live, Sides
<1>3. CASE SendOpen
    BY <1>3 DEF SendOpen, openFrame, Unopened, TokenPlace, FinisherPlace, OpenerPlace, StateTypes,
       Terminal, Live, Sides
<1>4. CASE PublishLate
    BY <1>4 DEF PublishLate, openFrame, Unopened, TokenPlace, FinisherPlace, OpenerPlace,
       StateTypes, Terminal, Live, Sides
<1>5. CASE ConfirmOpenSent
    BY <1>5 DEF ConfirmOpenSent, openFrame, Unopened, TokenPlace, FinisherPlace, OpenerPlace,
       StateTypes, Terminal, Live, Sides
<1>6. CASE ResolveOpenSendFailure
    BY <1>6 DEF ResolveOpenSendFailure, Terminate, openFrame, Unopened, TokenPlace, FinisherPlace,
       OpenerPlace, StateTypes, Terminal, Live, Sides
<1>7. CASE EmitOwedOpenTeardown
    BY <1>7 DEF EmitOwedOpenTeardown, openFrame, Unopened, TokenPlace, FinisherPlace, OpenerPlace,
       StateTypes, Terminal, Live, Sides
<1>8. ASSUME NEW x \in Sides, TerminateLocal(x) PROVE Unopened'
    BY <1>8 DEF TerminateLocal, Terminate, Unopened, TokenPlace, FinisherPlace, OpenerPlace,
       StateTypes, Terminal, Live, Sides
<1>9. CASE TerminateHandlerError
    BY <1>9 DEF TerminateHandlerError, Terminate, Unopened, TokenPlace, FinisherPlace,
       OpenerPlace, StateTypes, Terminal, Live, Sides
<1>10. ASSUME NEW x \in Sides, FinishClaim(x) PROVE Unopened'
    BY <1>10 DEF FinishClaim, Claim, finFrame, Unopened, TokenPlace, FinisherPlace, OpenerPlace,
       StateTypes, Terminal, Live, Sides
<1>11. ASSUME NEW x \in Sides, FinishCancel(x) PROVE Unopened'
    BY <1>11 DEF FinishCancel, SendCancel, Fail, Unopened, TokenPlace, FinisherPlace, OpenerPlace,
       StateTypes, Terminal, Live, Sides
<1>12. ASSUME NEW x \in Sides, FinishEmit(x) PROVE Unopened'
    BY <1>12 DEF FinishEmit, Enqueue, finFrame, Unopened, TokenPlace, FinisherPlace, OpenerPlace,
       StateTypes, Terminal, Live, Sides
<1>13. ASSUME NEW x \in Sides, FinishOblige(x) PROVE Unopened'
    BY <1>13 DEF FinishOblige, CloseObligation, finFrame, Unopened, TokenPlace, FinisherPlace,
       OpenerPlace, StateTypes, Terminal, Live, Sides
<1>14. ASSUME NEW x \in Sides, FinishClose(x) PROVE Unopened'
    BY <1>14 DEF FinishClose, finFrame, Unopened, TokenPlace, FinisherPlace, OpenerPlace,
       StateTypes, Terminal, Live, Sides
<1>15. ASSUME NEW x \in Sides, Emit(x) PROVE Unopened'
    <2>1. emitQ["c"] = <<>> => x = "s"
        BY <1>15 DEF Emit, StateTypes, Sides
    <2>2. QED
        BY <1>15, <2>1 DEF Emit, Put, TrafficTypes, Unopened, TokenPlace, FinisherPlace, OpenerPlace,
           StateTypes, Terminal, Live, Sides
<1>16. CASE OwedTeardown
    BY <1>16 DEF OwedTeardown, OwedStep, Claim, SendCancel, Enqueue, Fail, Unopened, TokenPlace,
       FinisherPlace, OpenerPlace, StateTypes, Terminal, Live, Sides
<1>17. ASSUME NEW x \in Sides, AckTake(x) PROVE Unopened'
    BY <1>17 DEF AckTake, ackFrame, Unopened, TokenPlace, FinisherPlace, OpenerPlace, StateTypes,
       Terminal, Live, Sides
<1>18. ASSUME NEW x \in Sides, AckRelease(x) PROVE Unopened'
    BY <1>18 DEF AckRelease, ackFrame, Unopened, TokenPlace, FinisherPlace, OpenerPlace,
       StateTypes, Terminal, Live, Sides
<1>19. ASSUME NEW x \in Sides, AckCancel(x) PROVE Unopened'
    BY <1>19 DEF AckCancel, SendCancel, CloseObligation, Fail, ackFrame, Unopened, TokenPlace,
       FinisherPlace, OpenerPlace, StateTypes, Terminal, Live, Sides
<1>20. ASSUME NEW x \in Sides, CloseSend(x) PROVE Unopened'
    BY <1>20 DEF CloseSend, CloseObligation, BothClosed, Terminate, closeFrame, Unopened,
       TokenPlace, FinisherPlace, OpenerPlace, StateTypes, Terminal, Live, Sides
<1>21. CASE OnStreamOpen
    <2>1. wire["c"] # <<>> /\ UNCHANGED opc
        BY <1>21 DEF OnStreamOpen, Arrives, Peer, readFrame, StateTypes, Sides
    <2>2. QED
        BY <2>1 DEF Unopened, TokenPlace, FinisherPlace, OpenerPlace, StateTypes, Terminal, Live,
           Sides
<1>22. CASE RejectOpen
    <2>1. wire["c"] # <<>> /\ UNCHANGED opc
        BY <1>22 DEF RejectOpen, Arrives, Peer, Enqueue, StateTypes, Sides
    <2>2. QED
        BY <2>1 DEF Unopened, TokenPlace, FinisherPlace, OpenerPlace, StateTypes, Terminal, Live,
           Sides
<1>23. ASSUME NEW x \in Sides, OnStreamClose(x) PROVE Unopened'
    <2>1. CASE x = "s"
        <3>1. wire["c"] # <<>> /\ UNCHANGED opc
            BY <1>23, <2>1 DEF OnStreamClose, Arrives, Peer, Terminate, readFrame, StateTypes, Sides
        <3>2. QED
            BY <3>1 DEF Unopened, TokenPlace, FinisherPlace, OpenerPlace, StateTypes, Terminal,
               Live, Sides
    <2>2. CASE x = "c"
        BY <1>23, <2>2 DEF OnStreamClose, Arrives, Peer, Terminate, readFrame, TrafficTypes,
           Unopened, TokenPlace, FinisherPlace, OpenerPlace, StateTypes, Terminal, Live, Sides
    <2>3. QED
        BY <2>1, <2>2 DEF Sides
<1>24. ASSUME NEW x \in Sides, OnStreamEnd(x) PROVE Unopened'
    <2>1. CASE x = "s"
        <3>1. wire["c"] # <<>> /\ UNCHANGED opc
            BY <1>24, <2>1 DEF OnStreamEnd, Arrives, Peer, Terminate, readFrame, StateTypes, Sides
        <3>2. QED
            BY <3>1 DEF Unopened, TokenPlace, FinisherPlace, OpenerPlace, StateTypes, Terminal,
               Live, Sides
    <2>2. CASE x = "c"
        BY <1>24, <2>2 DEF OnStreamEnd, Arrives, Peer, Terminate, readFrame, TrafficTypes, Unopened,
           TokenPlace, FinisherPlace, OpenerPlace, StateTypes, Terminal, Live, Sides
    <2>3. QED
        BY <2>1, <2>2 DEF Sides
<1>25. ASSUME NEW x \in Sides, Discard(x) PROVE Unopened'
    <2>1. CASE x = "s"
        <3>1. wire["c"] # <<>> /\ UNCHANGED opc
            BY <1>25, <2>1 DEF Discard, Arrives, Peer, readFrame, StateTypes, Sides
        <3>2. QED
            BY <3>1 DEF Unopened, TokenPlace, FinisherPlace, OpenerPlace, StateTypes, Terminal,
               Live, Sides
    <2>2. CASE x = "c"
        BY <1>25, <2>2 DEF Discard, Arrives, Peer, readFrame, TrafficTypes, Unopened, TokenPlace,
           FinisherPlace, OpenerPlace, StateTypes, Terminal, Live, Sides
    <2>3. QED
        BY <2>1, <2>2 DEF Sides
<1>26. CASE ConnFails
    BY <1>26 DEF ConnFails, Fail, Unopened, TokenPlace, FinisherPlace, OpenerPlace, StateTypes,
       Terminal, Live, Sides
<1>27. ASSUME NEW x \in Sides, CloseTable(x) PROVE Unopened'
    BY <1>27 DEF CloseTable, Terminate, Unopened, TokenPlace, FinisherPlace, OpenerPlace,
       StateTypes, Terminal, Live, Sides
<1>28. CASE UNCHANGED vars
    BY <1>28 DEF vars, Unopened, TokenPlace, FinisherPlace, OpenerPlace, StateTypes, Terminal,
       Live, Sides
<1>29. QED
    BY <1>1, <1>2, <1>3, <1>4, <1>5, <1>6, <1>7, <1>8, <1>9, <1>10, <1>11, <1>12, <1>13, <1>14,
       <1>15, <1>16, <1>17, <1>18, <1>19, <1>20, <1>21, <1>22, <1>23, <1>24, <1>25, <1>26, <1>27,
       <1>28
       DEF Next, Opener, Finisher, AckDispatch, Reader

\* A step of a live host sends nothing that ends the stream.
LEMMA NextHostSilent ==
    ASSUME StateTypes, TrafficTypes, OpenerPlace, FinisherPlace, TokenPlace, Unopened, HostSilent,
           [Next]_vars
    PROVE  HostSilent'
<1> USE DEF endVars, openVars, ackVars, oblVars, connVars
<1>1. CASE OpenClient
    <2>1. wire'["c"] = <<>> /\ emitQ'["c"] = <<>> /\ phase'["s"] = "none"
        BY <1>1 DEF OpenClient, openFrame, Unopened, StateTypes, Sides
    <2>2. QED
        BY <2>1, OccursEmpty DEF HostSilent, OpenerPlace, FinisherPlace, TokenPlace, StateTypes,
           Terminal, Live, Sides
<1>2. CASE Publish
    BY <1>2 DEF Publish, openFrame, HostSilent, OpenerPlace, FinisherPlace, TokenPlace,
       StateTypes, Terminal, Live, Sides
<1>3. CASE SendOpen
    <2>1. UNCHANGED <<phase, emitQ, conn>> /\ (Put("c", "open") \/ UNCHANGED wire)
        BY <1>3 DEF SendOpen, openFrame
    <2>2. CASE Put("c", "open")
        <3>1. \A g : g # "open" => (Occurs(g, wire'["c"]) <=> Occurs(g, wire["c"]))
            BY <2>2, PutWire DEF Frames, Sides, StateTypes
        <3>2. QED
            BY <2>1, <3>1 DEF HostSilent, OpenerPlace, FinisherPlace, TokenPlace, StateTypes,
               Terminal, Live, Sides
    <2>3. QED
        BY <2>1, <2>2 DEF HostSilent, OpenerPlace, FinisherPlace, TokenPlace, StateTypes,
           Terminal, Live, Sides
<1>4. CASE PublishLate
    <2>1. UNCHANGED <<phase, emitQ, conn>> /\ (Put("c", "open") \/ UNCHANGED wire)
        BY <1>4 DEF PublishLate, openFrame
    <2>2. CASE Put("c", "open")
        <3>1. \A g : g # "open" => (Occurs(g, wire'["c"]) <=> Occurs(g, wire["c"]))
            BY <2>2, PutWire DEF Frames, Sides, StateTypes
        <3>2. QED
            BY <2>1, <3>1 DEF HostSilent, OpenerPlace, FinisherPlace, TokenPlace, StateTypes,
               Terminal, Live, Sides
    <2>3. QED
        BY <2>1, <2>2 DEF HostSilent, OpenerPlace, FinisherPlace, TokenPlace, StateTypes,
           Terminal, Live, Sides
<1>5. CASE ConfirmOpenSent
    BY <1>5 DEF ConfirmOpenSent, openFrame, HostSilent, OpenerPlace, FinisherPlace, TokenPlace,
       StateTypes, Terminal, Live, Sides
<1>6. CASE ResolveOpenSendFailure
    BY <1>6 DEF ResolveOpenSendFailure, Terminate, openFrame, HostSilent, OpenerPlace,
       FinisherPlace, TokenPlace, StateTypes, Terminal, Live, Sides
<1>7. CASE EmitOwedOpenTeardown
    BY <1>7 DEF EmitOwedOpenTeardown, openFrame, HostSilent, OpenerPlace, FinisherPlace,
       TokenPlace, StateTypes, Terminal, Live, Sides
<1>8. ASSUME NEW x \in Sides, TerminateLocal(x) PROVE HostSilent'
    BY <1>8 DEF TerminateLocal, Terminate, HostSilent, OpenerPlace, FinisherPlace, TokenPlace,
       StateTypes, Terminal, Live, Sides
<1>9. CASE TerminateHandlerError
    BY <1>9 DEF TerminateHandlerError, Terminate, HostSilent, OpenerPlace, FinisherPlace,
       TokenPlace, StateTypes, Terminal, Live, Sides
<1>10. ASSUME NEW x \in Sides, FinishClaim(x) PROVE HostSilent'
    BY <1>10 DEF FinishClaim, Claim, finFrame, HostSilent, OpenerPlace, FinisherPlace, TokenPlace,
       StateTypes, Terminal, Live, Sides
<1>11. ASSUME NEW x \in Sides, FinishCancel(x) PROVE HostSilent'
    <2>1. CASE x = "c"
        <3>1. ~Live("c") /\ phase'["c"] = phase["c"]
            BY <1>11, <2>1 DEF FinishCancel, StateTypes, Sides, Live, FinisherPlace, Terminal
        <3>2. QED
            BY <3>1 DEF HostSilent, OpenerPlace, FinisherPlace, TokenPlace, StateTypes, Terminal,
               Live, Sides
    <2>2. CASE x = "s"
        <3>1. UNCHANGED <<phase, emitQ>> /\ (Put("s", "cancel") \/ Fail)
            BY <1>11, <2>2 DEF FinishCancel, SendCancel
        <3>2. wire'["c"] = wire["c"] \/ wire'["c"] = <<>>
            BY <3>1, PutWire DEF Frames, Fail, StateTypes, Sides
        <3>3. QED
            BY <3>1, <3>2, OccursEmpty DEF HostSilent, OpenerPlace, FinisherPlace, TokenPlace,
               StateTypes, Terminal, Live, Sides
    <2>3. QED
        BY <2>1, <2>2 DEF Sides
<1>12. ASSUME NEW x \in Sides, FinishEmit(x) PROVE HostSilent'
    <2>1. CASE x = "c"
        <3>1. ~Live("c") /\ phase'["c"] = phase["c"]
            BY <1>12, <2>1 DEF FinishEmit, finFrame, StateTypes, Sides, Live, FinisherPlace, Terminal
        <3>2. QED
            BY <3>1 DEF HostSilent, OpenerPlace, FinisherPlace, TokenPlace, StateTypes, Terminal,
               Live, Sides
    <2>2. CASE x = "s"
        <3>1. UNCHANGED <<phase, wire>> /\ emitQ'["c"] = emitQ["c"]
            BY <1>12, <2>2 DEF FinishEmit, Enqueue, TrafficTypes, finFrame, StateTypes, Sides
        <3>2. QED
            BY <3>1 DEF HostSilent, OpenerPlace, FinisherPlace, TokenPlace, StateTypes, Terminal,
               Live, Sides
    <2>3. QED
        BY <2>1, <2>2 DEF Sides
<1>13. ASSUME NEW x \in Sides, FinishOblige(x) PROVE HostSilent'
    BY <1>13 DEF FinishOblige, CloseObligation, finFrame, HostSilent, OpenerPlace, FinisherPlace,
       TokenPlace, StateTypes, Terminal, Live, Sides
<1>14. ASSUME NEW x \in Sides, FinishClose(x) PROVE HostSilent'
    BY <1>14 DEF FinishClose, finFrame, HostSilent, OpenerPlace, FinisherPlace, TokenPlace,
       StateTypes, Terminal, Live, Sides
<1>15. ASSUME NEW x \in Sides, Emit(x) PROVE HostSilent'
    <2>1. CASE x = "c"
        <3>1. emitQ["c"] # <<>> /\ phase' = phase
            BY <1>15, <2>1 DEF Emit, StateTypes, Sides
        <3>2. QED
            BY <3>1 DEF HostSilent, OpenerPlace, FinisherPlace, TokenPlace, StateTypes, Terminal,
               Live, Sides
    <2>2. CASE x = "s"
        <3>1. UNCHANGED phase /\ emitQ'["c"] = emitQ["c"] /\ Put("s", "err")
            BY <1>15, <2>2 DEF Emit, TrafficTypes, StateTypes, Sides
        <3>2. wire'["c"] = wire["c"]
            BY <3>1, PutWire DEF Frames, StateTypes, Sides
        <3>3. QED
            BY <3>1, <3>2 DEF HostSilent, OpenerPlace, FinisherPlace, TokenPlace, StateTypes,
               Terminal, Live, Sides
    <2>3. QED
        BY <2>1, <2>2 DEF Sides
<1>16. CASE OwedTeardown
    <2>1. OwedStep /\ UNCHANGED phase
        BY <1>16 DEF OwedTeardown
    <2>2. owed # "none"
        BY <2>1, OwedStarted
    <2>3. QED
        BY <2>1, <2>2 DEF HostSilent, OpenerPlace, FinisherPlace, TokenPlace, StateTypes,
           Terminal, Live, Sides
<1>17. ASSUME NEW x \in Sides, AckTake(x) PROVE HostSilent'
    BY <1>17 DEF AckTake, ackFrame, HostSilent, OpenerPlace, FinisherPlace, TokenPlace,
       StateTypes, Terminal, Live, Sides
<1>18. ASSUME NEW x \in Sides, AckRelease(x) PROVE HostSilent'
    BY <1>18 DEF AckRelease, ackFrame, HostSilent, OpenerPlace, FinisherPlace, TokenPlace,
       StateTypes, Terminal, Live, Sides
<1>19. ASSUME NEW x \in Sides, AckCancel(x) PROVE HostSilent'
    <2>1. UNCHANGED <<phase, emitQ>> /\ dpc[x] \in {"cancel", "oblige"}
          /\ (Put(x, "cancel") \/ Fail \/ UNCHANGED wire)
        BY <1>19 DEF AckCancel, SendCancel, ackFrame
    <2>2. CASE x = "c"
        BY <2>1, <2>2 DEF HostSilent, OpenerPlace, FinisherPlace, TokenPlace, StateTypes,
           Terminal, Live, Sides
    <2>3. CASE x = "s"
        <3>1. wire'["c"] = wire["c"] \/ wire'["c"] = <<>>
            BY <2>1, <2>3, PutWire DEF Frames, Fail, StateTypes, Sides
        <3>2. QED
            BY <2>1, <3>1, OccursEmpty DEF HostSilent, OpenerPlace, FinisherPlace, TokenPlace,
               StateTypes, Terminal, Live, Sides
    <2>4. QED
        BY <2>2, <2>3 DEF Sides
<1>20. ASSUME NEW x \in Sides, CloseSend(x) PROVE HostSilent'
    <2>1. UNCHANGED emitQ /\ (Put(x, "close") \/ UNCHANGED wire)
          /\ (Live("c")' => Live("c")) /\ (phase'["s"] = "observed" => phase["s"] = "observed")
        BY <1>20 DEF CloseSend, Terminate, closeFrame, StateTypes, Sides, Live
    <2>2. CASE Put(x, "close")
        <3>1. \A g : g # "close" => (Occurs(g, wire'["c"]) <=> Occurs(g, wire["c"]))
            BY <2>2, PutWire DEF Frames, StateTypes, Sides
        <3>2. QED
            BY <2>1, <3>1 DEF HostSilent, OpenerPlace, FinisherPlace, TokenPlace, StateTypes,
               Terminal, Live, Sides
    <2>3. QED
        BY <2>1, <2>2 DEF HostSilent, OpenerPlace, FinisherPlace, TokenPlace, StateTypes,
           Terminal, Live, Sides
<1>21. CASE OnStreamOpen
    <2>1. /\ Arrives("s", "open") /\ emitQ'["c"] = emitQ["c"] /\ phase'["c"] = phase["c"]
          /\ (phase'["s"] = "observed" => phase["s"] = "observed")
        BY <1>21 DEF OnStreamOpen, readFrame, StateTypes, Sides
    <2>2. \A g : Occurs(g, wire'["c"]) => Occurs(g, wire["c"])
        BY <2>1, ArrivesWire DEF Frames, StateTypes, Sides
    <2>3. QED
        BY <2>1, <2>2 DEF HostSilent, OpenerPlace, FinisherPlace, TokenPlace, StateTypes,
           Terminal, Live, Sides
<1>22. CASE RejectOpen
    <2>1. /\ Arrives("s", "open") /\ emitQ'["c"] = emitQ["c"] /\ phase'["c"] = phase["c"]
          /\ (phase'["s"] = "observed" => phase["s"] = "observed")
        BY <1>22 DEF RejectOpen, Enqueue, TrafficTypes, StateTypes, Sides
    <2>2. \A g : Occurs(g, wire'["c"]) => Occurs(g, wire["c"])
        BY <2>1, ArrivesWire DEF Frames, StateTypes, Sides
    <2>3. QED
        BY <2>1, <2>2 DEF HostSilent, OpenerPlace, FinisherPlace, TokenPlace, StateTypes,
           Terminal, Live, Sides
<1>23. ASSUME NEW x \in Sides, OnStreamClose(x) PROVE HostSilent'
    <2>1. /\ Arrives(x, "close") /\ UNCHANGED emitQ /\ (Live("c")' => Live("c"))
          /\ (phase'["s"] = "observed" => phase["s"] = "observed")
        BY <1>23 DEF OnStreamClose, Terminate, readFrame, StateTypes, Sides, Live
    <2>2. \A g : Occurs(g, wire'["c"]) => Occurs(g, wire["c"])
        BY <2>1, ArrivesWire DEF Frames, StateTypes, Sides
    <2>3. QED
        BY <2>1, <2>2 DEF HostSilent, OpenerPlace, FinisherPlace, TokenPlace, StateTypes,
           Terminal, Live, Sides
<1>24. ASSUME NEW x \in Sides, OnStreamEnd(x) PROVE HostSilent'
    <2>1. /\ UNCHANGED emitQ /\ phase' = [phase EXCEPT ![x] = "observed"]
          /\ Arrives(x, "err") \/ Arrives(x, "cancel")
        BY <1>24 DEF OnStreamEnd, Terminate, readFrame, StateTypes, Sides
    <2>2. CASE x = "c"
        BY <2>1, <2>2 DEF HostSilent, OpenerPlace, FinisherPlace, TokenPlace, StateTypes,
           Terminal, Live, Sides
    <2>3. CASE x = "s"
        <3>1. Occurs("err", wire["c"]) \/ Occurs("cancel", wire["c"])
            BY <2>1, <2>3, ArrivesWire DEF Frames, StateTypes, Sides
        <3>2. QED
            BY <2>1, <2>3, <3>1 DEF HostSilent, OpenerPlace, FinisherPlace, TokenPlace,
               StateTypes, Terminal, Live, Sides
    <2>4. QED
        BY <2>2, <2>3 DEF Sides
<1>25. ASSUME NEW x \in Sides, Discard(x) PROVE HostSilent'
    <2>1. /\ UNCHANGED <<emitQ, phase>>
          /\ Arrives(x, "close") \/ Arrives(x, "err") \/ Arrives(x, "cancel")
        BY <1>25 DEF Discard, readFrame
    <2>2. \A g : Occurs(g, wire'["c"]) => Occurs(g, wire["c"])
        BY <2>1, ArrivesWire DEF Frames, StateTypes, Sides
    <2>3. QED
        BY <2>1, <2>2 DEF HostSilent, OpenerPlace, FinisherPlace, TokenPlace, StateTypes,
           Terminal, Live, Sides
<1>26. CASE ConnFails
    <2>1. UNCHANGED <<emitQ, phase>> /\ wire'["c"] = <<>>
        BY <1>26 DEF ConnFails, Fail, StateTypes, Sides
    <2>2. QED
        BY <2>1, OccursEmpty DEF HostSilent, OpenerPlace, FinisherPlace, TokenPlace, StateTypes,
           Terminal, Live, Sides
<1>27. ASSUME NEW x \in Sides, CloseTable(x) PROVE HostSilent'
    BY <1>27 DEF CloseTable, Terminate, HostSilent, OpenerPlace, FinisherPlace, TokenPlace,
       StateTypes, Terminal, Live, Sides
<1>28. CASE UNCHANGED vars
    BY <1>28 DEF vars, HostSilent, OpenerPlace, FinisherPlace, TokenPlace, StateTypes, Terminal,
       Live, Sides
<1>29. QED
    BY <1>1, <1>2, <1>3, <1>4, <1>5, <1>6, <1>7, <1>8, <1>9, <1>10, <1>11, <1>12, <1>13, <1>14,
       <1>15, <1>16, <1>17, <1>18, <1>19, <1>20, <1>21, <1>22, <1>23, <1>24, <1>25, <1>26, <1>27,
       <1>28
       DEF Next, Opener, Finisher, AckDispatch, Reader

\* A step leaves no live host behind without the news of the end on its way.
LEMMA NextHostTold ==
    ASSUME StateTypes, TrafficTypes, OpenerPlace, FinisherPlace, TokenPlace, CloseBits,
           TableClosed, Unopened, HostSilent, HostTold, [Next]_vars
    PROVE  HostTold'
<1> USE DEF endVars, openVars, ackVars, oblVars, connVars
<1>1. CASE OpenClient
    BY <1>1 DEF OpenClient, openFrame, HostTold, OpenerPlace, FinisherPlace, TokenPlace,
       TableClosed, StateTypes, Terminal, Live, Sides
<1>2. CASE Publish
    BY <1>2 DEF Publish, openFrame, HostTold, OpenerPlace, FinisherPlace, TokenPlace, TableClosed,
       StateTypes, Terminal, Live, Sides
<1>3. CASE SendOpen
    <2>1. CASE conn = "up" /\ Put("c", "open")
        <3>1. UNCHANGED <<endVars, apc, emitQ, fin>> /\ opc = "send"
            BY <1>3 DEF SendOpen, openFrame
        <3>2. Occurs("open", wire'["c"]) /\ ~Occurs("close", wire'["c"])
            <4>1. wire["c"] = <<>>
                BY <3>1 DEF Unopened, StateTypes, Sides
            <4>2. QED
                BY <2>1, <4>1, PutWire, OccursEmpty DEF Frames, Sides
        <3>3. phase["s"] = "none" /\ bits["s"] = {} /\ apc["s"] = "open"
            BY <3>1 DEF Unopened, CloseBits, StateTypes, Sides
        <3>4. QED
            BY <3>1, <3>2, <3>3 DEF HostTold, OpenerPlace, FinisherPlace, TokenPlace, TableClosed,
               StateTypes, Terminal, Live, Sides
    <2>2. CASE opc' \notin {"confirm", "returned"}
        BY <2>2 DEF HostTold, OpenerPlace, FinisherPlace, TokenPlace, TableClosed, StateTypes,
           Terminal, Live, Sides
    <2>3. QED
        BY <1>3, <2>1, <2>2 DEF SendOpen
<1>4. CASE PublishLate
    <2>1. UNCHANGED <<endVars, apc, emitQ, fin, conn, drops, opc>> /\ Put("c", "open")
        BY <1>4 DEF PublishLate, openFrame
    <2>2. /\ wire'["s"] = wire["s"] /\ (Occurs("open", wire["c"]) => Occurs("open", wire'["c"]))
          /\ (Occurs("close", wire'["c"]) => Occurs("close", wire["c"]))
        BY <2>1, PutWire DEF Frames, StateTypes, Sides
    <2>3. QED
        BY <2>1, <2>2 DEF HostTold, OpenerPlace, FinisherPlace, TokenPlace, TableClosed,
           StateTypes, Terminal, Live, Sides
<1>5. CASE ConfirmOpenSent
    BY <1>5 DEF ConfirmOpenSent, openFrame, HostTold, OpenerPlace, FinisherPlace, TokenPlace,
       TableClosed, StateTypes, Terminal, Live, Sides
<1>6. CASE ResolveOpenSendFailure
    <2>1. opc' \in {"wait", "owed"}
        BY <1>6 DEF ResolveOpenSendFailure
    <2>2. QED
        BY <2>1 DEF HostTold, OpenerPlace, FinisherPlace, TokenPlace, TableClosed, StateTypes,
           Terminal, Live, Sides
<1>7. CASE EmitOwedOpenTeardown
    BY <1>7 DEF EmitOwedOpenTeardown, openFrame, HostTold, OpenerPlace, FinisherPlace, TokenPlace,
       TableClosed, StateTypes, Terminal, Live, Sides
<1>8. ASSUME NEW x \in Sides, TerminateLocal(x) PROVE HostTold'
    BY <1>8 DEF TerminateLocal, Terminate, HostTold, OpenerPlace, FinisherPlace, TokenPlace,
       TableClosed, StateTypes, Terminal, Live, Sides
<1>9. CASE TerminateHandlerError
    BY <1>9 DEF TerminateHandlerError, Terminate, HostTold, OpenerPlace, FinisherPlace,
       TokenPlace, TableClosed, StateTypes, Terminal, Live, Sides
<1>10. ASSUME NEW x \in Sides, FinishClaim(x) PROVE HostTold'
    BY <1>10 DEF FinishClaim, Claim, finFrame, HostTold, OpenerPlace, FinisherPlace, TokenPlace,
       TableClosed, StateTypes, Terminal, Live, Sides
<1>11. ASSUME NEW x \in Sides, FinishCancel(x) PROVE HostTold'
    <2>1. CASE x = "c"
        <3>1. ~Live("c") /\ phase'["c"] = phase["c"]
            BY <1>11, <2>1 DEF FinishCancel, StateTypes, Sides, Live, FinisherPlace, Terminal
        <3>2. QED
            BY <3>1 DEF HostTold, OpenerPlace, FinisherPlace, TokenPlace, TableClosed, StateTypes,
               Terminal, Live, Sides
    <2>2. CASE x = "s"
        <3>1. UNCHANGED <<endVars, apc, emitQ, drops, opc>> /\ fin'["s"] = "emit" /\ fin["s"] = "cancel"
            BY <1>11, <2>2 DEF FinishCancel, StateTypes, Sides
        <3>2. CASE Put("s", "cancel") /\ UNCHANGED conn
            <4>1. wire'["c"] = wire["c"] /\ \A g : Occurs(g, wire["s"]) => Occurs(g, wire'["s"])
                BY <3>2, PutWire DEF Frames, StateTypes, Sides
            <4>2. QED
                BY <3>1, <3>2, <4>1 DEF HostTold, OpenerPlace, FinisherPlace, TokenPlace,
                   TableClosed, StateTypes, Terminal, Live, Sides
        <3>3. CASE Fail
            BY <3>3 DEF Fail, HostTold, OpenerPlace, FinisherPlace, TokenPlace, TableClosed,
               StateTypes, Terminal, Live, Sides
        <3>4. QED
            BY <1>11, <2>2, <3>2, <3>3 DEF FinishCancel, SendCancel
    <2>3. QED
        BY <2>1, <2>2 DEF Sides
<1>12. ASSUME NEW x \in Sides, FinishEmit(x) PROVE HostTold'
    <2>1. CASE x = "c"
        <3>1. ~Live("c") /\ phase'["c"] = phase["c"]
            BY <1>12, <2>1 DEF FinishEmit, finFrame, StateTypes, Sides, Live, FinisherPlace, Terminal
        <3>2. QED
            BY <3>1 DEF HostTold, OpenerPlace, FinisherPlace, TokenPlace, TableClosed, StateTypes,
               Terminal, Live, Sides
    <2>2. CASE x = "s"
        <3>1. UNCHANGED <<endVars, apc, conn, opc, wire>>
            BY <1>12 DEF FinishEmit, finFrame
        <3>2. PICK queued \in BOOLEAN : Enqueue("s", IF fin["s"] = "emitKeep" THEN 1 ELSE 0, queued)
            BY <1>12, <2>2 DEF FinishEmit
        <3>3. /\ drops \in Nat /\ emitQ' \in [Sides -> Seq({0, 1})]
              /\ queued => emitQ'["s"] # <<>> /\ drops' = drops
              /\ ~queued => drops' = drops + 1
            BY <3>2, EnqueueJob DEF StateTypes, Sides
        <3>4. CASE queued
            BY <3>1, <3>3, <3>4 DEF HostTold, OpenerPlace, FinisherPlace, TokenPlace, TableClosed,
               StateTypes, Terminal, Live, Sides
        <3>5. CASE ~queued
            <4>1. drops' # 0
                BY <3>3, <3>5
            <4>2. QED
                BY <4>1 DEF HostTold, OpenerPlace, FinisherPlace, TokenPlace, TableClosed,
                   StateTypes, Terminal, Live, Sides
        <3>6. QED
            BY <3>4, <3>5 DEF Sides
    <2>3. QED
        BY <2>1, <2>2 DEF Sides
<1>13. ASSUME NEW x \in Sides, FinishOblige(x) PROVE HostTold'
    BY <1>13 DEF FinishOblige, CloseObligation, finFrame, HostTold, OpenerPlace, FinisherPlace,
       TokenPlace, TableClosed, StateTypes, Terminal, Live, Sides
<1>14. ASSUME NEW x \in Sides, FinishClose(x) PROVE HostTold'
    BY <1>14 DEF FinishClose, finFrame, HostTold, OpenerPlace, FinisherPlace, TokenPlace,
       TableClosed, StateTypes, Terminal, Live, Sides
<1>15. ASSUME NEW x \in Sides, Emit(x) PROVE HostTold'
    <2>1. CASE x = "c"
        <3>1. emitQ["c"] # <<>> /\ phase' = phase
            BY <1>15, <2>1 DEF Emit, StateTypes, Sides
        <3>2. QED
            BY <3>1 DEF HostSilent, HostTold, OpenerPlace, FinisherPlace, TokenPlace, TableClosed,
               StateTypes, Terminal, Live, Sides
    <2>2. CASE x = "s"
        <3>1. UNCHANGED <<endVars, fin, apc, conn, opc, drops>> /\ Put("s", "err")
            BY <1>15, <2>2 DEF Emit
        <3>2. /\ wire'["c"] = wire["c"] /\ \A g : Occurs(g, wire["s"]) => Occurs(g, wire'["s"])
              /\ (conn = "up" => Occurs("err", wire'["s"]))
            BY <3>1, PutWire DEF Frames, StateTypes, Sides
        <3>3. QED
            BY <3>1, <3>2 DEF HostTold, OpenerPlace, FinisherPlace, TokenPlace, TableClosed,
               StateTypes, Terminal, Live, Sides
    <2>3. QED
        BY <2>1, <2>2 DEF Sides
<1>16. CASE OwedTeardown
    <2>1. OwedStep /\ UNCHANGED phase
        BY <1>16 DEF OwedTeardown
    <2>2. owed # "none"
        BY <2>1, OwedStarted
    <2>3. QED
        BY <2>1, <2>2 DEF HostTold, OpenerPlace, FinisherPlace, TokenPlace, TableClosed,
           StateTypes, Terminal, Live, Sides
<1>17. ASSUME NEW x \in Sides, AckTake(x) PROVE HostTold'
    BY <1>17 DEF AckTake, ackFrame, HostTold, OpenerPlace, FinisherPlace, TokenPlace, TableClosed,
       StateTypes, Terminal, Live, Sides
<1>18. ASSUME NEW x \in Sides, AckRelease(x) PROVE HostTold'
    BY <1>18 DEF AckRelease, ackFrame, HostTold, OpenerPlace, FinisherPlace, TokenPlace,
       TableClosed, StateTypes, Terminal, Live, Sides
<1>19. ASSUME NEW x \in Sides, AckCancel(x) PROVE HostTold'
    <2>1. UNCHANGED <<endVars, apc, emitQ, drops, opc, fin>> /\ dpc[x] \in {"cancel", "oblige"}
        BY <1>19 DEF AckCancel, ackFrame
    <2>2. CASE x = "c"
        BY <2>1, <2>2 DEF HostTold, OpenerPlace, FinisherPlace, TokenPlace, TableClosed,
           StateTypes, Terminal, Live, Sides
    <2>3. CASE x = "s"
        <3>1. CASE (Put("s", "cancel") \/ UNCHANGED wire) /\ UNCHANGED conn
            <4>1. wire'["c"] = wire["c"] /\ \A g : Occurs(g, wire["s"]) => Occurs(g, wire'["s"])
                BY <3>1, PutWire DEF Frames, StateTypes, Sides
            <4>2. QED
                BY <2>1, <3>1, <4>1 DEF HostTold, OpenerPlace, FinisherPlace, TokenPlace,
                   TableClosed, StateTypes, Terminal, Live, Sides
        <3>2. CASE Fail
            BY <3>2 DEF Fail, HostTold, OpenerPlace, FinisherPlace, TokenPlace, TableClosed,
               StateTypes, Terminal, Live, Sides
        <3>3. QED
            BY <1>19, <2>3, <3>1, <3>2 DEF AckCancel, SendCancel
    <2>4. QED
        BY <2>2, <2>3 DEF Sides
<1>20. ASSUME NEW x \in Sides, CloseSend(x) PROVE HostTold'
    <2>1. UNCHANGED <<emitQ, conn, drops, opc>>
        BY <1>20 DEF CloseSend, closeFrame
    <2>2. CASE apc[x] = "open"
        <3>1. /\ UNCHANGED <<phase, fin, bits>> /\ apc' = [apc EXCEPT ![x] = "bit"]
              /\ conn = "up" /\ Put(x, "close")
            BY <1>20, <2>2 DEF CloseSend, StateTypes, Sides
        <3>2. /\ \A g : Occurs(g, wire[x]) => Occurs(g, wire'[x])
              /\ \A y \in Sides : y # x => wire'[y] = wire[y]
              /\ Occurs("close", wire'[x])
            BY <3>1, PutWire DEF Frames, StateTypes, Sides
        <3>3. CASE x = "c"
            <4>1. apc'["c"] = "bit" /\ apc'["s"] = apc["s"] /\ wire'["s"] = wire["s"]
                BY <3>1, <3>2, <3>3 DEF StateTypes, Sides
            <4>2. QED
                BY <2>1, <3>1, <3>2, <3>3, <4>1 DEF HostTold, OpenerPlace, FinisherPlace,
                   TokenPlace, TableClosed, StateTypes, Terminal, Live, Sides
        <3>4. CASE x = "s"
            <4>1. apc'["s"] = "bit" /\ apc'["c"] = apc["c"] /\ wire'["c"] = wire["c"]
                BY <3>1, <3>2, <3>4 DEF StateTypes, Sides
            <4>2. QED
                BY <2>1, <3>1, <3>2, <3>4, <4>1 DEF HostTold, OpenerPlace, FinisherPlace,
                   TokenPlace, TableClosed, StateTypes, Terminal, Live, Sides
        <3>5. QED
            BY <3>3, <3>4 DEF Sides
    <2>3. CASE apc[x] = "bit"
        <3>1. /\ UNCHANGED <<phase, fin, wire>> /\ apc' = [apc EXCEPT ![x] = "check"]
              /\ bits' = [bits EXCEPT ![x] = @ \cup {"local"}]
            BY <1>20, <2>3 DEF CloseSend, StateTypes, Sides
        <3>2. CASE x = "c"
            <4>1. /\ apc'["c"] = "check" /\ apc'["s"] = apc["s"] /\ bits'["s"] = bits["s"]
                  /\ bits["c"] \subseteq bits'["c"]
                BY <3>1, <3>2 DEF StateTypes, Sides
            <4>2. QED
                BY <2>1, <3>1, <4>1 DEF HostTold, OpenerPlace, FinisherPlace, TokenPlace,
                   TableClosed, StateTypes, Terminal, Live, Sides
        <3>3. CASE x = "s"
            <4>1. /\ apc'["s"] = "check" /\ apc'["c"] = apc["c"] /\ bits'["c"] = bits["c"]
                  /\ bits'["s"] = bits["s"] \cup {"local"}
                BY <3>1, <3>3 DEF StateTypes, Sides
            <4>2. QED
                BY <2>1, <2>3, <3>1, <3>3, <4>1 DEF HostTold, OpenerPlace, FinisherPlace,
                   TokenPlace, TableClosed, StateTypes, Terminal, Live, Sides
        <3>4. QED
            BY <3>2, <3>3 DEF Sides
    <2>4. CASE apc[x] = "check"
        <3>1. UNCHANGED <<bits, wire>> /\ apc' = [apc EXCEPT ![x] = "closed"]
            BY <1>20, <2>4 DEF CloseSend, StateTypes, Sides
        <3>2. CASE BothClosed(x) /\ Live(x) /\ Terminate(x, "completed", 0)
            BY <2>1, <2>4, <3>1, <3>2 DEF Terminate, BothClosed, HostTold, OpenerPlace,
               FinisherPlace, TokenPlace, TableClosed, StateTypes, Terminal, Live, Sides
        <3>3. CASE UNCHANGED <<phase, owes, fin>>
            BY <2>1, <2>4, <3>1, <3>3 DEF HostTold, OpenerPlace, FinisherPlace, TokenPlace,
               TableClosed, StateTypes, Terminal, Live, Sides
        <3>4. QED
            BY <1>20, <2>4, <3>2, <3>3 DEF CloseSend
    <2>5. QED
        BY <1>20, <2>2, <2>3, <2>4 DEF CloseSend
<1>21. CASE OnStreamOpen
    <2>1. /\ Arrives("s", "open") /\ UNCHANGED <<emitQ, fin, bits, apc, conn, drops, opc>>
          /\ phase'["c"] = phase["c"] /\ phase'["s"] = "published"
        BY <1>21 DEF OnStreamOpen, readFrame, StateTypes, Sides
    <2>2. wire'["s"] = wire["s"] /\ (Occurs("close", wire'["c"]) => Occurs("close", wire["c"]))
        BY <2>1, ArrivesWire DEF Frames, StateTypes, Sides
    <2>3. QED
        BY <2>1, <2>2 DEF HostTold, OpenerPlace, FinisherPlace, TokenPlace, TableClosed,
           StateTypes, Terminal, Live, Sides
<1>22. CASE RejectOpen
    <2>1. Arrives("s", "open") /\ phase["s"] = "none" /\ UNCHANGED <<endVars, fin, apc, conn, opc>>
        BY <1>22 DEF RejectOpen, StateTypes, Sides
    <2>2. wire'["s"] = wire["s"] /\ (Occurs("close", wire'["c"]) => Occurs("close", wire["c"]))
        BY <2>1, ArrivesWire DEF Frames, StateTypes, Sides
    <2>3. PICK queued \in BOOLEAN : Enqueue("s", 0, queued)
        BY <1>22 DEF RejectOpen
    <2>4. /\ drops \in Nat /\ emitQ'["c"] = emitQ["c"]
          /\ queued => emitQ'["s"] # <<>> /\ drops' = drops
          /\ ~queued => drops' = drops + 1
        BY <2>3, EnqueueJob DEF StateTypes, Sides
    <2>5. CASE queued
        BY <2>1, <2>2, <2>4, <2>5 DEF HostTold, OpenerPlace, FinisherPlace, TokenPlace,
           TableClosed, StateTypes, Terminal, Live, Sides
    <2>6. CASE ~queued
        <3>1. drops' # 0
            BY <2>4, <2>6
        <3>2. QED
            BY <3>1 DEF HostTold, OpenerPlace, FinisherPlace, TokenPlace, TableClosed, StateTypes,
               Terminal, Live, Sides
    <2>7. QED
        BY <2>5, <2>6 DEF Sides
<1>23. ASSUME NEW x \in Sides, OnStreamClose(x) PROVE HostTold'
    <2>1. /\ UNCHANGED <<emitQ, apc, conn, drops, opc>> /\ Arrives(x, "close") /\ Live(x)
          /\ bits' = [bits EXCEPT ![x] = @ \cup {"remote"}]
        BY <1>23 DEF OnStreamClose, readFrame, StateTypes, Sides, Live
    <2>2. CASE x = "c"
        <3>1. /\ wire'["c"] = wire["c"]
              /\ \A g : g # "close" => (Occurs(g, wire["s"]) => Occurs(g, wire'["s"]))
            BY <2>1, <2>2, ArrivesWire DEF Frames, StateTypes, Sides
        <3>2. fin'["s"] = fin["s"] /\ phase'["s"] = phase["s"] /\ (Live("c")' => Live("c"))
            BY <1>23, <2>2 DEF OnStreamClose, Terminate, StateTypes, Sides, Live
        <3>3. "remote" \in bits'["c"] /\ bits'["s"] = bits["s"]
            BY <2>1, <2>2 DEF StateTypes, Sides
        <3>4. QED
            BY <2>1, <3>1, <3>2, <3>3 DEF HostTold, OpenerPlace, FinisherPlace, TokenPlace,
               TableClosed, StateTypes, Terminal, Live, Sides
    <2>3. CASE x = "s"
        <3>1. /\ wire'["s"] = wire["s"] /\ Occurs("close", wire["c"])
              /\ \A g : Occurs(g, wire'["c"]) => Occurs(g, wire["c"])
            BY <2>1, <2>3, ArrivesWire DEF Frames, StateTypes, Sides
        <3>2. bits'["c"] = bits["c"] /\ bits'["s"] = bits["s"] \cup {"remote"}
            BY <2>1, <2>3 DEF StateTypes, Sides
        <3>3. phase'["c"] = phase["c"]
            BY <1>23, <2>3 DEF OnStreamClose, Terminate, StateTypes, Sides
        <3>4. CASE "local" \in bits["s"] /\ phase'["s"] = "completed"
            <4>1. bits'["s"] = {"local", "remote"}
                BY <3>2, <3>4 DEF StateTypes, Sides
            <4>2. "local" \in bits["s"]
                BY <3>4 DEF StateTypes, Sides
            <4>3. QED
                BY <2>1, <3>1, <3>2, <3>3, <3>4, <4>1 DEF HostTold, OpenerPlace, FinisherPlace,
                   TokenPlace, TableClosed, StateTypes, Terminal, Live, Sides
        <3>5. CASE "local" \notin bits["s"] /\ phase'["s"] = phase["s"]
            BY <2>1, <2>3, <3>1, <3>2, <3>3, <3>5 DEF HostTold, OpenerPlace, FinisherPlace,
               TokenPlace, TableClosed, StateTypes, Terminal, Live, Sides
        <3>6. QED
            BY <1>23, <2>3, <3>4, <3>5 DEF OnStreamClose, Terminate, StateTypes, Sides
    <2>4. QED
        BY <2>2, <2>3 DEF Sides
<1>24. ASSUME NEW x \in Sides, OnStreamEnd(x) PROVE HostTold'
    <2>1. /\ phase' = [phase EXCEPT ![x] = "observed"] /\ UNCHANGED <<conn, drops, opc>>
          /\ Arrives(x, "err") \/ Arrives(x, "cancel")
        BY <1>24 DEF OnStreamEnd, Terminate, readFrame, StateTypes, Sides
    <2>2. CASE x = "c"
        BY <2>1, <2>2 DEF HostTold, OpenerPlace, FinisherPlace, TokenPlace, TableClosed,
           StateTypes, Terminal, Live, Sides
    <2>3. CASE x = "s"
        <3>1. Occurs("err", wire["c"]) \/ Occurs("cancel", wire["c"])
            BY <2>1, <2>3, ArrivesWire DEF Frames, StateTypes, Sides
        <3>2. QED
            BY <2>1, <2>3, <3>1 DEF HostSilent, HostTold, OpenerPlace, FinisherPlace, TokenPlace,
               TableClosed, StateTypes, Terminal, Live, Sides
    <2>4. QED
        BY <2>2, <2>3 DEF Sides
<1>25. ASSUME NEW x \in Sides, Discard(x) PROVE HostTold'
    <2>1. /\ UNCHANGED <<endVars, fin, emitQ, apc, conn, drops, opc>> /\ ~Live(x)
          /\ Arrives(x, "close") \/ Arrives(x, "err") \/ Arrives(x, "cancel")
        BY <1>25 DEF Discard, readFrame, Live, StateTypes, Sides
    <2>2. CASE x = "c"
        BY <2>1, <2>2 DEF HostTold, OpenerPlace, FinisherPlace, TokenPlace, TableClosed,
           StateTypes, Terminal, Live, Sides
    <2>3. CASE x = "s"
        <3>1. /\ wire'["s"] = wire["s"] /\ (Occurs("open", wire["c"]) => Occurs("open", wire'["c"]))
              /\ (Occurs("close", wire'["c"]) => Occurs("close", wire["c"]))
            BY <2>1, <2>3, ArrivesWire DEF Frames, StateTypes, Sides
        <3>2. QED
            BY <2>1, <3>1 DEF HostTold, OpenerPlace, FinisherPlace, TokenPlace, TableClosed,
               StateTypes, Terminal, Live, Sides
    <2>4. QED
        BY <2>2, <2>3 DEF Sides
<1>26. CASE ConnFails
    BY <1>26 DEF ConnFails, Fail, HostTold, OpenerPlace, FinisherPlace, TokenPlace, TableClosed,
       StateTypes, Terminal, Live, Sides
<1>27. ASSUME NEW x \in Sides, CloseTable(x) PROVE HostTold'
    BY <1>27 DEF CloseTable, Terminate, HostTold, OpenerPlace, FinisherPlace, TokenPlace,
       TableClosed, StateTypes, Terminal, Live, Sides
<1>28. CASE UNCHANGED vars
    BY <1>28 DEF vars, HostTold, OpenerPlace, FinisherPlace, TokenPlace, TableClosed, StateTypes,
       Terminal, Live, Sides
<1>29. QED
    BY <1>1, <1>2, <1>3, <1>4, <1>5, <1>6, <1>7, <1>8, <1>9, <1>10, <1>11, <1>12, <1>13, <1>14,
       <1>15, <1>16, <1>17, <1>18, <1>19, <1>20, <1>21, <1>22, <1>23, <1>24, <1>25, <1>26, <1>27,
       <1>28
       DEF Next, Opener, Finisher, AckDispatch, Reader

-----------------------------------------------------------------------------
(* The theorems.                                                           *)

\* The invariant holds before the stream is opened.
LEMMA InitIInv == Init => IInv
<1> SUFFICES ASSUME Init PROVE IInv
    OBVIOUS
<1> USE DEF Init, Sides
<1>1. StateTypes
    <2>1. Acks \in Nat /\ Drops \in Nat
        BY StreamLifeAssumption DEF Acks, Drops
    <2>2. QED
        BY <2>1 DEF StateTypes
<1>2. TrafficTypes
    BY DEF TrafficTypes
<1>3. OpenerPlace /\ FinisherPlace /\ TokenPlace /\ CloseBits /\ TableClosed
    BY DEF OpenerPlace, FinisherPlace, TokenPlace, CloseBits, TableClosed, Terminal, Live
<1>4. ToldFirst /\ ObligationHeld /\ Unopened /\ HostSilent /\ HostTold
    BY DEF ToldFirst, ObligationHeld, Unopened, HostSilent, HostTold, Live
<1>5. JoinComplete /\ ClosedCompletes
    BY DEF JoinComplete, ClosedCompletes, BothClosed
<1>6. QED
    BY <1>1, <1>2, <1>3, <1>4, <1>5 DEF IInv, TypeOK

\* And every step keeps it.
LEMMA NextIInv == IInv /\ [Next]_vars => IInv'
<1> SUFFICES ASSUME IInv, [Next]_vars PROVE IInv'
    OBVIOUS
<1>1. StateTypes /\ TrafficTypes
    BY DEF IInv, TypeOK
<1>2. TypeOK'
    BY <1>1, NextStateTypes, NextTrafficTypes DEF TypeOK
<1>3. OpenerPlace' /\ FinisherPlace' /\ TokenPlace' /\ CloseBits' /\ TableClosed'
    BY <1>1, NextOpenerPlace, NextFinisherPlace, NextTokenPlace, NextCloseBits, NextTableClosed
       DEF IInv
<1>4. ToldFirst' /\ ObligationHeld' /\ Unopened'
    BY <1>1, NextToldFirst, NextObligationHeld, NextUnopened DEF IInv
<1>5. HostSilent' /\ HostTold'
    BY <1>1, NextHostSilent, NextHostTold DEF IInv
<1>6. JoinComplete' /\ ClosedCompletes'
    BY <1>1, NextJoinComplete, NextClosedCompletes DEF IInv
<1>7. QED
    BY <1>2, <1>3, <1>4, <1>5, <1>6 DEF IInv

\* The invariant holds in every reachable state of a stream's two ends.
THEOREM InvariantHolds == Spec => []IInv
BY InitIInv, NextIInv, PTL DEF Spec

\* A stream ends once: claimTerminalToken finds the token free or lent to an ack, whoever claims
\* it; the second half-close completes the stream whichever bit was set last; and StreamTable.Close
\* has joined every finisher and the detached sender when it returns.
THEOREM StreamsEndCleanly == Spec => []EndsCleanly
<1>1. IInv => ClaimFindsToken
    <2> SUFFICES ASSUME IInv PROVE ClaimFindsToken
        OBVIOUS
    <2> USE DEF IInv, TypeOK, StateTypes, OpenerPlace, FinisherPlace, TokenPlace, Sides
    <2>1. ASSUME NEW x \in Sides, fin[x] = "claim" PROVE token[x] \in {"idle", "ack"}
        BY <2>1
    <2>2. ASSUME owed = "claim" PROVE token["c"] \in {"idle", "ack"}
        BY <2>2
    <2>3. QED
        BY <2>1, <2>2 DEF ClaimFindsToken
<1>2. IInv => EndsCleanly
    BY <1>1 DEF IInv, EndsCleanly
<1>3. QED
    BY <1>2, InvariantHolds, PTL

\* The plugin's obligation (addStreamWork) is closed only once the frame that ends its side was
\* submitted, or could not be; and no obligation outlives the goroutines that would close it.
THEOREM ObligationsExact == Spec => []ObligationExact
<1>1. IInv => ObligationHonest
    BY DEF IInv, TypeOK, StateTypes, ToldFirst, ObligationHonest
<1>2. IInv => ObligationSettled
    <2> SUFFICES ASSUME IInv, Quiet, Terminal("s"), obl # 0 PROVE FALSE
        BY DEF ObligationSettled
    <2>1. fin["s"] = "done" /\ emitQ["s"] = <<>> /\ dpc["s"] = "idle"
        BY DEF IInv, FinisherPlace, Quiet, Sides
    <2>2. obl = 1
        BY DEF IInv, TypeOK, StateTypes
    <2>3. QED
        BY <2>1, <2>2, OccursEmpty DEF IInv, ObligationHeld, CancelAcked
<1>3. IInv => ObligationExact
    BY <1>1, <1>2 DEF ObligationExact
<1>4. QED
    BY <1>3, InvariantHolds, PTL

\* Once nothing is under way on a connection that is up, and no STREAM_ERR met a full emitter queue,
\* a stream that is not live at the plugin is not live at the host either.
THEOREM HostNotOrphaned == Spec => []NoOrphanAtHost
<1>1. IInv => NoOrphanAtHost
    <2> SUFFICES ASSUME IInv, Quiet, ~Live("s"), drops = 0, Live("c") PROVE FALSE
        BY DEF NoOrphanAtHost
    <2>1. /\ conn = "up" /\ opc = "returned" /\ wire["c"] = <<>> /\ wire["s"] = <<>>
          /\ emitQ["s"] = <<>> /\ fin["s"] \in {"none", "done"} /\ apc["c"] \in {"open", "closed"}
        BY DEF Quiet, Sides
    <2>2. \A f : ~Occurs(f, wire["c"]) /\ ~Occurs(f, wire["s"])
        BY <2>1, OccursEmpty
    <2>3. phase["s"] = "completed"
        <3>1. phase["s"] \notin {"none", "canceled", "failed", "crashed"}
            BY <2>1, <2>2 DEF IInv, HostTold
        <3>2. phase["s"] # "observed"
            BY DEF IInv, HostSilent
        <3>3. phase["s"] \notin {"submitted", "published"}
            BY DEF Live
        <3>4. QED
            BY <3>1, <3>2, <3>3 DEF IInv, TypeOK, StateTypes, Sides
    <2>4. bits["s"] = {"local", "remote"}
        BY <2>1, <2>3 DEF IInv, HostTold
    <2>5. "remote" \in bits["c"] /\ apc["c"] = "closed"
        BY <2>1, <2>2, <2>4 DEF IInv, HostTold
    <2>6. bits["c"] = {"local", "remote"}
        BY <2>5 DEF IInv, CloseBits, TypeOK, StateTypes, Sides
    <2>7. QED
        BY <2>5, <2>6 DEF IInv, ClosedCompletes, BothClosed, Terminal, Live, Sides
<1>2. QED
    BY <1>1, InvariantHolds, PTL
=============================================================================
