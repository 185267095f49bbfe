------------------------- MODULE StreamLifeControl --------------------------
(***************************************************************************)
(* The inductive invariant of a stream's life, and what of it concerns the *)
(* control state alone: the opener, the finisher, the submission token,    *)
(* the close bits, the obligation's honesty and the table's close.         *)
(* StreamLifeProofs has what concerns frames and queues, and the theorems. *)
(***************************************************************************)
EXTENDS StreamLife, TLAPS

-----------------------------------------------------------------------------
(* The inductive invariant.                                                *)

Occurs(f, q) == \E i \in 1 .. Len(q) : q[i] = f

\* The opener: the stream is in the table once it was admitted, its OPEN counts as unconfirmed
\* until ConfirmOpenSent, and the opener returns at once only with a stream that is or was live.
OpenerPlace ==
    /\ opc = "admit" => phase["c"] = "none"
    /\ opc # "admit" => phase["c"] # "none"
    /\ phase["c"] = "submitted" => opc = "publish"
    /\ opc = "publish" => phase["c"] # "published"
    /\ opc \in {"publish", "send", "confirm", "ambiguous", "discard", "wait", "owed"} => presend = 1
    /\ opc = "admit" => presend = 0
    /\ opc \in {"wait", "owed"} => Terminal("c")
    /\ opc = "returned" /\ presend = 1 => Terminal("c")
    /\ openQ = 1 => opc \in {"ambiguous", "owed", "returned"}
    /\ owed # "none" => presend = 1 /\ opc = "returned" /\ owes["c"] = 1

\* The finisher of a stream starts with its terminal; with the OPEN unconfirmed it skips the wire.
FinisherPlace ==
    /\ \A x \in Sides : fin[x] = "none" <=> ~Terminal(x)
    /\ \A x \in Sides : fin[x] \in {"cancel", "emitKeep"} => owes[x] = 1
    /\ presend = 1 => fin["c"] \in {"none", "oblige", "close", "done"}
    /\ \A x \in Sides : owes[x] = 1 <=> phase[x] = "canceled"
    /\ phase["s"] # "submitted"

\* The token is claimed once, by the finisher or by the detached sender, and lent to an ack that
\* will give it back.
TokenPlace ==
    /\ \A x \in Sides : token[x] \in {"ack", "cancelOwed"} => dpc[x] = "release"
    /\ \A x \in Sides : dpc[x] \in {"cancel", "oblige"} => token[x] = "terminal"
    /\ token["s"] \in {"cancelOwed", "terminal"} => fin["s"] \notin {"none", "claim"}
    /\ token["c"] \in {"cancelOwed", "terminal"} =>
         IF presend = 1 THEN owed \notin {"none", "claim"} ELSE fin["c"] \notin {"none", "claim"}

\* Close bits: the local one follows CloseSend, and neither is set before the stream is live.
CloseBits ==
    \A x \in Sides :
        /\ "local" \in bits[x] <=> apc[x] \in {"check", "closed"}
        /\ apc[x] # "open" => phase[x] \notin {"none", "submitted"}
        /\ bits[x] # {} => phase[x] # "none"

\* A table closes once the connection failed, and past its failing pass it has no live stream.
TableClosed ==
    \A x \in Sides : /\ tpc[x] # "open" => conn = "failed"
                     /\ tpc[x] \in {"join", "joined"} => ~Live(x)

\* Whoever may close the plugin's obligation has submitted the frame that ends the stream, or
\* found the emitter's queue full.
ToldFirst ==
    /\ apc["s"] # "open" => told = 1
    /\ dpc["s"] = "oblige" => told = 1
    /\ fin["s"] = "emit" /\ owes["s"] = 1 => told = 1
    /\ fin["s"] = "oblige" /\ phase["s"] \in {"canceled", "failed"} => told = 1 \/ drops > 0
    /\ phase["s"] \in {"published", "canceled", "failed"} /\ obl = 0 => told = 1 \/ drops > 0
    /\ phase["s"] = "published" /\ obl = 0 => told = 1

\* An open obligation of an ended stream has someone left to close it.
CancelAcked == (token["s"] = "cancelOwed" /\ dpc["s"] = "release") \/ dpc["s"] \in {"cancel", "oblige"}
ObligationHeld ==
    /\ phase["s"] = "none" => obl = 0
    /\ fin["s"] = "emitKeep" /\ obl = 1 => CancelAcked
    /\ fin["s"] \in {"close", "done"} /\ obl = 1 => CancelAcked \/ Occurs(0, emitQ["s"])

\* Before the OPEN is sent there is nothing of the stream beyond the host.
Unopened ==
    opc \in {"admit", "publish", "send"} =>
        wire["c"] = <<>> /\ emitQ["c"] = <<>> /\ phase["s"] = "none" /\ owed = "none"

\* As long as the host's stream is live, nothing that ends it has left the host.
HostSilent ==
    Live("c") => /\ emitQ["c"] = <<>> /\ ~Occurs("err", wire["c"]) /\ ~Occurs("cancel", wire["c"])
                 /\ phase["s"] # "observed"

\* A live stream at the host whose OPEN went out is live at the plugin, or the news is on its way.
HostTold ==
    conn = "up" /\ drops = 0 /\ Live("c") /\ opc \in {"confirm", "returned"} =>
        /\ phase["s"] = "none" =>
             Occurs("open", wire["c"]) \/ emitQ["s"] # <<>> \/ Occurs("err", wire["s"])
        /\ phase["s"] \in {"canceled", "failed"} =>
             \/ fin["s"] \in {"claim", "cancel", "emit", "emitKeep"}
             \/ emitQ["s"] # <<>> \/ Occurs("err", wire["s"])
        /\ phase["s"] # "crashed"
        /\ "local" \in bits["s"] \/ apc["s"] = "bit" =>
             Occurs("close", wire["s"]) \/ "remote" \in bits["c"]
        /\ "remote" \in bits["s"] => apc["c"] # "open"
        /\ Occurs("close", wire["c"]) => apc["c"] # "open"
        /\ phase["s"] = "completed" => bits["s"] = {"local", "remote"}

IInv ==
    /\ TypeOK /\ OpenerPlace /\ FinisherPlace /\ TokenPlace /\ CloseBits /\ TableClosed
    /\ ToldFirst /\ ObligationHeld /\ Unopened /\ HostSilent /\ HostTold
    /\ JoinComplete /\ ClosedCompletes

-----------------------------------------------------------------------------
(* Every step keeps the control state in order.                           *)

\* A job goes into its own side's queue, or counts as dropped.
LEMMA EnqueueJob ==
    ASSUME StateTypes, TrafficTypes, NEW x \in Sides, NEW keep \in {0, 1},
           NEW queued \in BOOLEAN, Enqueue(x, keep, queued)
    PROVE  /\ emitQ' \in [Sides -> Seq({0, 1})]
           /\ \A y \in Sides : y # x => emitQ'[y] = emitQ[y]
           /\ queued => emitQ'[x] # <<>> /\ drops' = drops
           /\ ~queued => emitQ' = emitQ /\ drops' = drops + 1 /\ drops < Drops
           /\ drops \in Nat /\ drops' \in 0 .. Drops
<1>1. emitQ \in [Sides -> Seq({0, 1})] /\ emitQ[x] \in Seq({0, 1})
    BY DEF TrafficTypes
<1>2. Append(emitQ[x], keep) \in Seq({0, 1}) /\ Append(emitQ[x], keep) # <<>>
    BY <1>1
<1>3. Drops \in Nat /\ drops \in 0 .. Drops
    BY StreamLifeAssumption DEF StateTypes, Drops
<1>4. drops' \in 0 .. Drops
    BY <1>3 DEF Enqueue
<1>5. CASE queued
    <2>1. emitQ' = [emitQ EXCEPT ![x] = Append(emitQ[x], keep)] /\ drops' = drops
        BY <1>5 DEF Enqueue
    <2>2. QED
        BY <1>1, <1>2, <1>3, <1>4, <1>5, <2>1
<1>6. CASE ~queued
    <2>1. emitQ' = emitQ /\ drops' = drops + 1 /\ drops < Drops
        BY <1>6 DEF Enqueue
    <2>2. QED
        BY <1>1, <1>3, <1>4, <1>6, <2>1
<1>7. QED
    BY <1>5, <1>6

\* A step keeps the types of the control state.
LEMMA NextStateTypes ==
    ASSUME StateTypes, TrafficTypes, [Next]_vars
    PROVE  StateTypes'
<1> USE DEF endVars, openVars, ackVars, oblVars, connVars, StateTypes, Terminal, Live, Sides,
        Acks, Drops, Tell
<1>0. UNCHANGED plan
    BY DEF Next, vars
<1>1. CASE OpenClient
    BY <1>0, <1>1 DEF OpenClient, openFrame
<1>2. CASE Publish
    BY <1>0, <1>2 DEF Publish, openFrame
<1>3. CASE SendOpen
    BY <1>0, <1>3 DEF SendOpen, openFrame
<1>4. CASE PublishLate
    BY <1>0, <1>4 DEF PublishLate, openFrame
<1>5. CASE ConfirmOpenSent
    BY <1>0, <1>5 DEF ConfirmOpenSent, openFrame
<1>6. CASE ResolveOpenSendFailure
    BY <1>0, <1>6 DEF ResolveOpenSendFailure, Terminate, openFrame
<1>7. CASE EmitOwedOpenTeardown
    BY <1>0, <1>7 DEF EmitOwedOpenTeardown, openFrame
<1>8. ASSUME NEW x \in Sides, TerminateLocal(x) PROVE StateTypes'
    BY <1>0, <1>8 DEF TerminateLocal, Terminate
<1>9. CASE TerminateHandlerError
    BY <1>0, <1>9 DEF TerminateHandlerError, Terminate
<1>10. ASSUME NEW x \in Sides, FinishClaim(x) PROVE StateTypes'
    BY <1>0, <1>10 DEF FinishClaim, Claim, finFrame
<1>11. ASSUME NEW x \in Sides, FinishCancel(x) PROVE StateTypes'
    BY <1>0, <1>11 DEF FinishCancel, SendCancel, Fail
<1>12. ASSUME NEW x \in Sides, FinishEmit(x) PROVE StateTypes'
    <2>1. PICK queued \in BOOLEAN : Enqueue(x, IF fin[x] = "emitKeep" THEN 1 ELSE 0, queued)
        BY <1>12 DEF FinishEmit
    <2>2. drops' \in 0 .. Drops
        BY <2>1, EnqueueJob
    <2>3. QED
        BY <1>0, <1>12, <2>2 DEF FinishEmit, finFrame
<1>13. ASSUME NEW x \in Sides, FinishOblige(x) PROVE StateTypes'
    BY <1>0, <1>13 DEF FinishOblige, CloseObligation, finFrame
<1>14. ASSUME NEW x \in Sides, FinishClose(x) PROVE StateTypes'
    BY <1>0, <1>14 DEF FinishClose, finFrame
<1>15. ASSUME NEW x \in Sides, Emit(x) PROVE StateTypes'
    BY <1>0, <1>15 DEF Emit
<1>16. CASE OwedTeardown
    <2>1. UNCHANGED <<endVars, fin, opc, openQ, apc, ackVars, tpc>>
        BY <1>16 DEF OwedTeardown
    <2>2. CASE owed = "claim"
        BY <1>0, <1>16, <2>1, <2>2 DEF OwedTeardown, OwedStep, Claim
    <2>3. CASE owed = "cancel"
        BY <1>0, <1>16, <2>1, <2>3 DEF OwedTeardown, OwedStep, SendCancel, Fail
    <2>4. CASE owed = "emit"
        <3>1. PICK queued \in BOOLEAN : Enqueue("c", 0, queued)
            BY <1>16, <2>4 DEF OwedTeardown, OwedStep
        <3>2. drops' \in 0 .. Drops
            BY <3>1, EnqueueJob
        <3>3. conn' \in {"up", "failed"} /\ owed' = "done" /\ UNCHANGED <<token, oblVars>>
            BY <1>16, <2>4 DEF OwedTeardown, OwedStep, Fail
        <3>4. QED
            BY <1>0, <2>1, <3>2, <3>3
    <2>5. QED
        BY <1>16, <2>2, <2>3, <2>4 DEF OwedTeardown, OwedStep
<1>17. ASSUME NEW x \in Sides, AckTake(x) PROVE StateTypes'
    <2>1. acks' \in [Sides -> 0 .. Acks]
        <3>1. Acks \in Nat /\ acks \in [Sides -> 0 .. Acks]
            BY StreamLifeAssumption
        <3>2. UNCHANGED acks \/ (acks[x] < Acks /\ acks' = [acks EXCEPT ![x] = acks[x] + 1])
            BY <1>17 DEF AckTake
        <3>3. QED
            BY <3>1, <3>2
    <2>2. QED
        BY <1>0, <1>17, <2>1 DEF AckTake, ackFrame
<1>18. ASSUME NEW x \in Sides, AckRelease(x) PROVE StateTypes'
    BY <1>0, <1>18 DEF AckRelease, ackFrame
<1>19. ASSUME NEW x \in Sides, AckCancel(x) PROVE StateTypes'
    BY <1>0, <1>19 DEF AckCancel, SendCancel, CloseObligation, Fail, ackFrame
<1>20. ASSUME NEW x \in Sides, CloseSend(x) PROVE StateTypes'
    BY <1>0, <1>20 DEF CloseSend, CloseObligation, BothClosed, Terminate, closeFrame
<1>21. CASE OnStreamOpen
    BY <1>0, <1>21 DEF OnStreamOpen, readFrame
<1>22. CASE RejectOpen
    <2>1. PICK queued \in BOOLEAN : Enqueue("s", 0, queued)
        BY <1>22 DEF RejectOpen
    <2>2. drops' \in 0 .. Drops
        BY <2>1, EnqueueJob
    <2>3. QED
        BY <1>0, <1>22, <2>2 DEF RejectOpen
<1>23. ASSUME NEW x \in Sides, OnStreamClose(x) PROVE StateTypes'
    BY <1>0, <1>23 DEF OnStreamClose, Terminate, readFrame
<1>24. ASSUME NEW x \in Sides, OnStreamEnd(x) PROVE StateTypes'
    BY <1>0, <1>24 DEF OnStreamEnd, Terminate, readFrame
<1>25. ASSUME NEW x \in Sides, Discard(x) PROVE StateTypes'
    BY <1>0, <1>25 DEF Discard, readFrame
<1>26. CASE ConnFails
    BY <1>0, <1>26 DEF ConnFails, Fail
<1>27. ASSUME NEW x \in Sides, CloseTable(x) PROVE StateTypes'
    BY <1>0, <1>27 DEF CloseTable, Terminate
<1>28. CASE UNCHANGED vars
    BY <1>28 DEF vars
<1>29. QED
    BY <1>1, <1>2, <1>3, <1>4, <1>5, <1>6, <1>7, <1>8, <1>9, <1>10, <1>11, <1>12, <1>13, <1>14,
       <1>15, <1>16, <1>17, <1>18, <1>19, <1>20, <1>21, <1>22, <1>23, <1>24, <1>25, <1>26, <1>27,
       <1>28
       DEF Next, Opener, Finisher, AckDispatch, Reader

\* A step keeps the opener in step with its stream.
LEMMA NextOpenerPlace ==
    ASSUME StateTypes, OpenerPlace, [Next]_vars
    PROVE  OpenerPlace'
<1> USE DEF endVars, openVars, ackVars, oblVars, connVars, OpenerPlace, StateTypes, Terminal,
        Live, Sides
<1>1. CASE OpenClient
    BY <1>1 DEF OpenClient, openFrame
<1>2. CASE Publish
    BY <1>2 DEF Publish, openFrame
<1>3. CASE SendOpen
    BY <1>3 DEF SendOpen, openFrame
<1>4. CASE PublishLate
    BY <1>4 DEF PublishLate, openFrame
<1>5. CASE ConfirmOpenSent
    BY <1>5 DEF ConfirmOpenSent, openFrame
<1>6. CASE ResolveOpenSendFailure
    BY <1>6 DEF ResolveOpenSendFailure, Terminate, openFrame
<1>7. CASE EmitOwedOpenTeardown
    BY <1>7 DEF EmitOwedOpenTeardown, openFrame
<1>8. ASSUME NEW x \in Sides, TerminateLocal(x) PROVE OpenerPlace'
    BY <1>8 DEF TerminateLocal, Terminate
<1>9. CASE TerminateHandlerError
    BY <1>9 DEF TerminateHandlerError, Terminate
<1>10. ASSUME NEW x \in Sides, FinishClaim(x) PROVE OpenerPlace'
    BY <1>10 DEF FinishClaim, Claim, finFrame
<1>11. ASSUME NEW x \in Sides, FinishCancel(x) PROVE OpenerPlace'
    BY <1>11 DEF FinishCancel, SendCancel, Fail
<1>12. ASSUME NEW x \in Sides, FinishEmit(x) PROVE OpenerPlace'
    BY <1>12 DEF FinishEmit, Enqueue, finFrame
<1>13. ASSUME NEW x \in Sides, FinishOblige(x) PROVE OpenerPlace'
    BY <1>13 DEF FinishOblige, CloseObligation, finFrame
<1>14. ASSUME NEW x \in Sides, FinishClose(x) PROVE OpenerPlace'
    BY <1>14 DEF FinishClose, finFrame
<1>15. ASSUME NEW x \in Sides, Emit(x) PROVE OpenerPlace'
    BY <1>15 DEF Emit
<1>16. CASE OwedTeardown
    BY <1>16 DEF OwedTeardown, OwedStep, Claim, SendCancel, Enqueue, Fail
<1>17. ASSUME NEW x \in Sides, AckTake(x) PROVE OpenerPlace'
    BY <1>17 DEF AckTake, ackFrame
<1>18. ASSUME NEW x \in Sides, AckRelease(x) PROVE OpenerPlace'
    BY <1>18 DEF AckRelease, ackFrame
<1>19. ASSUME NEW x \in Sides, AckCancel(x) PROVE OpenerPlace'
    BY <1>19 DEF AckCancel, SendCancel, CloseObligation, Fail, ackFrame
<1>20. ASSUME NEW x \in Sides, CloseSend(x) PROVE OpenerPlace'
    BY <1>20 DEF CloseSend, CloseObligation, BothClosed, Terminate, closeFrame
<1>21. CASE OnStreamOpen
    BY <1>21 DEF OnStreamOpen, readFrame
<1>22. CASE RejectOpen
    BY <1>22 DEF RejectOpen, Enqueue
<1>23. ASSUME NEW x \in Sides, OnStreamClose(x) PROVE OpenerPlace'
    BY <1>23 DEF OnStreamClose, Terminate, readFrame
<1>24. ASSUME NEW x \in Sides, OnStreamEnd(x) PROVE OpenerPlace'
    BY <1>24 DEF OnStreamEnd, Terminate, readFrame
<1>25. ASSUME NEW x \in Sides, Discard(x) PROVE OpenerPlace'
    BY <1>25 DEF Discard, readFrame
<1>26. CASE ConnFails
    BY <1>26 DEF ConnFails, Fail
<1>27. ASSUME NEW x \in Sides, CloseTable(x) PROVE OpenerPlace'
    BY <1>27 DEF CloseTable, Terminate
<1>28. CASE UNCHANGED vars
    BY <1>28 DEF vars
<1>29. QED
    BY <1>1, <1>2, <1>3, <1>4, <1>5, <1>6, <1>7, <1>8, <1>9, <1>10, <1>11, <1>12, <1>13, <1>14,
       <1>15, <1>16, <1>17, <1>18, <1>19, <1>20, <1>21, <1>22, <1>23, <1>24, <1>25, <1>26, <1>27,
       <1>28
       DEF Next, Opener, Finisher, AckDispatch, Reader

\* A step keeps the finisher in step with the terminal transition.
LEMMA NextFinisherPlace ==
    ASSUME StateTypes, OpenerPlace, FinisherPlace, [Next]_vars
    PROVE  FinisherPlace'
<1> USE DEF endVars, openVars, ackVars, oblVars, connVars, FinisherPlace, OpenerPlace, StateTypes,
        Terminal, Live, Sides
<1>1. CASE OpenClient
    BY <1>1 DEF OpenClient, openFrame
<1>2. CASE Publish
    BY <1>2 DEF Publish, openFrame
<1>3. CASE SendOpen
    BY <1>3 DEF SendOpen, openFrame
<1>4. CASE PublishLate
    BY <1>4 DEF PublishLate, openFrame
<1>5. CASE ConfirmOpenSent
    BY <1>5 DEF ConfirmOpenSent, openFrame
<1>6. CASE ResolveOpenSendFailure
    BY <1>6 DEF ResolveOpenSendFailure, Terminate, openFrame
<1>7. CASE EmitOwedOpenTeardown
    BY <1>7 DEF EmitOwedOpenTeardown, openFrame
<1>8. ASSUME NEW x \in Sides, TerminateLocal(x) PROVE FinisherPlace'
    BY <1>8 DEF TerminateLocal, Terminate
<1>9. CASE TerminateHandlerError
    BY <1>9 DEF TerminateHandlerError, Terminate
<1>10. ASSUME NEW x \in Sides, FinishClaim(x) PROVE FinisherPlace'
    BY <1>10 DEF FinishClaim, Claim, finFrame
<1>11. ASSUME NEW x \in Sides, FinishCancel(x) PROVE FinisherPlace'
    BY <1>11 DEF FinishCancel, SendCancel, Fail
<1>12. ASSUME NEW x \in Sides, FinishEmit(x) PROVE FinisherPlace'
    BY <1>12 DEF FinishEmit, Enqueue, finFrame
<1>13. ASSUME NEW x \in Sides, FinishOblige(x) PROVE FinisherPlace'
    BY <1>13 DEF FinishOblige, CloseObligation, finFrame
<1>14. ASSUME NEW x \in Sides, FinishClose(x) PROVE FinisherPlace'
    BY <1>14 DEF FinishClose, finFrame
<1>15. ASSUME NEW x \in Sides, Emit(x) PROVE FinisherPlace'
    BY <1>15 DEF Emit
<1>16. CASE OwedTeardown
    BY <1>16 DEF OwedTeardown, OwedStep, Claim, SendCancel, Enqueue, Fail
<1>17. ASSUME NEW x \in Sides, AckTake(x) PROVE FinisherPlace'
    BY <1>17 DEF AckTake, ackFrame
<1>18. ASSUME NEW x \in Sides, AckRelease(x) PROVE FinisherPlace'
    BY <1>18 DEF AckRelease, ackFrame
<1>19. ASSUME NEW x \in Sides, AckCancel(x) PROVE FinisherPlace'
    BY <1>19 DEF AckCancel, SendCancel, CloseObligation, Fail, ackFrame
<1>20. ASSUME NEW x \in Sides, CloseSend(x) PROVE FinisherPlace'
    BY <1>20 DEF CloseSend, CloseObligation, BothClosed, Terminate, closeFrame
<1>21. CASE OnStreamOpen
    BY <1>21 DEF OnStreamOpen, readFrame
<1>22. CASE RejectOpen
    BY <1>22 DEF RejectOpen, Enqueue
<1>23. ASSUME NEW x \in Sides, OnStreamClose(x) PROVE FinisherPlace'
    BY <1>23 DEF OnStreamClose, Terminate, readFrame
<1>24. ASSUME NEW x \in Sides, OnStreamEnd(x) PROVE FinisherPlace'
    BY <1>24 DEF OnStreamEnd, Terminate, readFrame
<1>25. ASSUME NEW x \in Sides, Discard(x) PROVE FinisherPlace'
    BY <1>25 DEF Discard, readFrame
<1>26. CASE ConnFails
    BY <1>26 DEF ConnFails, Fail
<1>27. ASSUME NEW x \in Sides, CloseTable(x) PROVE FinisherPlace'
    BY <1>27 DEF CloseTable, Terminate
<1>28. CASE UNCHANGED vars
    BY <1>28 DEF vars
<1>29. QED
    BY <1>1, <1>2, <1>3, <1>4, <1>5, <1>6, <1>7, <1>8, <1>9, <1>10, <1>11, <1>12, <1>13, <1>14,
       <1>15, <1>16, <1>17, <1>18, <1>19, <1>20, <1>21, <1>22, <1>23, <1>24, <1>25, <1>26, <1>27,
       <1>28
       DEF Next, Opener, Finisher, AckDispatch, Reader

\* A step keeps the token with its one claimant.
LEMMA NextTokenPlace ==
    ASSUME StateTypes, OpenerPlace, FinisherPlace, TokenPlace, [Next]_vars
    PROVE  TokenPlace'
<1> USE DEF endVars, openVars, ackVars, oblVars, connVars, FinisherPlace, OpenerPlace, TokenPlace,
        StateTypes, Terminal, Live, Sides
<1>1. CASE OpenClient
    BY <1>1 DEF OpenClient, openFrame
<1>2. CASE Publish
    BY <1>2 DEF Publish, openFrame
<1>3. CASE SendOpen
    BY <1>3 DEF SendOpen, openFrame
<1>4. CASE PublishLate
    BY <1>4 DEF PublishLate, openFrame
<1>5. CASE ConfirmOpenSent
    BY <1>5 DEF ConfirmOpenSent, openFrame
<1>6. CASE ResolveOpenSendFailure
    BY <1>6 DEF ResolveOpenSendFailure, Terminate, openFrame
<1>7. CASE EmitOwedOpenTeardown
    BY <1>7 DEF EmitOwedOpenTeardown, openFrame
<1>8. ASSUME NEW x \in Sides, TerminateLocal(x) PROVE TokenPlace'
    BY <1>8 DEF TerminateLocal, Terminate
<1>9. CASE TerminateHandlerError
    BY <1>9 DEF TerminateHandlerError, Terminate
<1>10. ASSUME NEW x \in Sides, FinishClaim(x) PROVE TokenPlace'
    BY <1>10 DEF FinishClaim, Claim, finFrame
<1>11. ASSUME NEW x \in Sides, FinishCancel(x) PROVE TokenPlace'
    BY <1>11 DEF FinishCancel, SendCancel, Fail
<1>12. ASSUME NEW x \in Sides, FinishEmit(x) PROVE TokenPlace'
    BY <1>12 DEF FinishEmit, Enqueue, finFrame
<1>13. ASSUME NEW x \in Sides, FinishOblige(x) PROVE TokenPlace'
    BY <1>13 DEF FinishOblige, CloseObligation, finFrame
<1>14. ASSUME NEW x \in Sides, FinishClose(x) PROVE TokenPlace'
    BY <1>14 DEF FinishClose, finFrame
<1>15. ASSUME NEW x \in Sides, Emit(x) PROVE TokenPlace'
    BY <1>15 DEF Emit
<1>16. CASE OwedTeardown
    <2>1. CASE owed = "claim" /\ Claim("c", TRUE) /\ owed' \in {"cancel", "emit"}
        BY <1>16, <2>1 DEF OwedTeardown, OwedStep, Claim
    <2>2. CASE owed = "cancel" /\ SendCancel("c") /\ owed' = "emit" /\ UNCHANGED <<token, drops>>
        BY <1>16, <2>2 DEF OwedTeardown, SendCancel, Fail
    <2>3. CASE owed = "emit" /\ owed' = "done" /\ UNCHANGED <<token, oblVars>>
        BY <1>16, <2>3 DEF OwedTeardown, OwedStep, Enqueue, Fail
    <2>4. QED
        BY <1>16, <2>1, <2>2, <2>3 DEF OwedTeardown, OwedStep
<1>17. ASSUME NEW x \in Sides, AckTake(x) PROVE TokenPlace'
    BY <1>17 DEF AckTake, ackFrame
<1>18. ASSUME NEW x \in Sides, AckRelease(x) PROVE TokenPlace'
    BY <1>18 DEF AckRelease, ackFrame
<1>19. ASSUME NEW x \in Sides, AckCancel(x) PROVE TokenPlace'
    BY <1>19 DEF AckCancel, SendCancel, CloseObligation, Fail, ackFrame
<1>20. ASSUME NEW x \in Sides, CloseSend(x) PROVE TokenPlace'
    BY <1>20 DEF CloseSend, CloseObligation, BothClosed, Terminate, closeFrame
<1>21. CASE OnStreamOpen
    BY <1>21 DEF OnStreamOpen, readFrame
<1>22. CASE RejectOpen
    BY <1>22 DEF RejectOpen, Enqueue
<1>23. ASSUME NEW x \in Sides, OnStreamClose(x) PROVE TokenPlace'
    BY <1>23 DEF OnStreamClose, Terminate, readFrame
<1>24. ASSUME NEW x \in Sides, OnStreamEnd(x) PROVE TokenPlace'
    BY <1>24 DEF OnStreamEnd, Terminate, readFrame
<1>25. ASSUME NEW x \in Sides, Discard(x) PROVE TokenPlace'
    BY <1>25 DEF Discard, readFrame
<1>26. CASE ConnFails
    BY <1>26 DEF ConnFails, Fail
<1>27. ASSUME NEW x \in Sides, CloseTable(x) PROVE TokenPlace'
    BY <1>27 DEF CloseTable, Terminate
<1>28. CASE UNCHANGED vars
    BY <1>28 DEF vars
<1>29. QED
    BY <1>1, <1>2, <1>3, <1>4, <1>5, <1>6, <1>7, <1>8, <1>9, <1>10, <1>11, <1>12, <1>13, <1>14,
       <1>15, <1>16, <1>17, <1>18, <1>19, <1>20, <1>21, <1>22, <1>23, <1>24, <1>25, <1>26, <1>27,
       <1>28
       DEF Next, Opener, Finisher, AckDispatch, Reader

\* A step keeps the close bits.
LEMMA NextCloseBits ==
    ASSUME StateTypes, OpenerPlace, FinisherPlace, CloseBits, [Next]_vars
    PROVE  CloseBits'
<1> USE DEF endVars, openVars, ackVars, oblVars, connVars, CloseBits, OpenerPlace, StateTypes,
        Terminal, Live, Sides
<1>1. CASE OpenClient
    BY <1>1 DEF OpenClient, openFrame
<1>2. CASE Publish
    BY <1>2 DEF Publish, openFrame
<1>3. CASE SendOpen
    BY <1>3 DEF SendOpen, openFrame
<1>4. CASE PublishLate
    BY <1>4 DEF PublishLate, openFrame
<1>5. CASE ConfirmOpenSent
    BY <1>5 DEF ConfirmOpenSent, openFrame
<1>6. CASE ResolveOpenSendFailure
    BY <1>6 DEF ResolveOpenSendFailure, Terminate, openFrame
<1>7. CASE EmitOwedOpenTeardown
    BY <1>7 DEF EmitOwedOpenTeardown, openFrame
<1>8. ASSUME NEW x \in Sides, TerminateLocal(x) PROVE CloseBits'
    BY <1>8 DEF TerminateLocal, Terminate
<1>9. CASE TerminateHandlerError
    BY <1>9 DEF TerminateHandlerError, Terminate
<1>10. ASSUME NEW x \in Sides, FinishClaim(x) PROVE CloseBits'
    BY <1>10 DEF FinishClaim, Claim, finFrame
<1>11. ASSUME NEW x \in Sides, FinishCancel(x) PROVE CloseBits'
    BY <1>11 DEF FinishCancel, SendCancel, Fail
<1>12. ASSUME NEW x \in Sides, FinishEmit(x) PROVE CloseBits'
    BY <1>12 DEF FinishEmit, Enqueue, finFrame
<1>13. ASSUME NEW x \in Sides, FinishOblige(x) PROVE CloseBits'
    BY <1>13 DEF FinishOblige, CloseObligation, finFrame
<1>14. ASSUME NEW x \in Sides, FinishClose(x) PROVE CloseBits'
    BY <1>14 DEF FinishClose, finFrame
<1>15. ASSUME NEW x \in Sides, Emit(x) PROVE CloseBits'
    BY <1>15 DEF Emit
<1>16. CASE OwedTeardown
    BY <1>16 DEF OwedTeardown, OwedStep, Claim, SendCancel, Enqueue, Fail
<1>17. ASSUME NEW x \in Sides, AckTake(x) PROVE CloseBits'
    BY <1>17 DEF AckTake, ackFrame
<1>18. ASSUME NEW x \in Sides, AckRelease(x) PROVE CloseBits'
    BY <1>18 DEF AckRelease, ackFrame
<1>19. ASSUME NEW x \in Sides, AckCancel(x) PROVE CloseBits'
    BY <1>19 DEF AckCancel, SendCancel, CloseObligation, Fail, ackFrame
<1>20. ASSUME NEW x \in Sides, CloseSend(x) PROVE CloseBits'
    BY <1>20 DEF CloseSend, CloseObligation, BothClosed, Terminate, closeFrame
<1>21. CASE OnStreamOpen
    BY <1>21 DEF OnStreamOpen, readFrame
<1>22. CASE RejectOpen
    BY <1>22 DEF RejectOpen, Enqueue
<1>23. ASSUME NEW x \in Sides, OnStreamClose(x) PROVE CloseBits'
    <2>1. /\ bits' = [bits EXCEPT ![x] = @ \cup {"remote"}] /\ UNCHANGED apc /\ Live(x)
          /\ \A y \in Sides : y # x => phase'[y] = phase[y]
          /\ phase'[x] \in {phase[x], "completed"}
        BY <1>23 DEF OnStreamClose, Terminate, readFrame
    <2>2. bits'[x] = bits[x] \cup {"remote"} /\ \A y \in Sides : y # x => bits'[y] = bits[y]
        BY <2>1
    <2>3. QED
        BY <2>1, <2>2
<1>24. ASSUME NEW x \in Sides, OnStreamEnd(x) PROVE CloseBits'
    BY <1>24 DEF OnStreamEnd, Terminate, readFrame
<1>25. ASSUME NEW x \in Sides, Discard(x) PROVE CloseBits'
    BY <1>25 DEF Discard, readFrame
<1>26. CASE ConnFails
    BY <1>26 DEF ConnFails, Fail
<1>27. ASSUME NEW x \in Sides, CloseTable(x) PROVE CloseBits'
    BY <1>27 DEF CloseTable, Terminate
<1>28. CASE UNCHANGED vars
    BY <1>28 DEF vars
<1>29. QED
    BY <1>1, <1>2, <1>3, <1>4, <1>5, <1>6, <1>7, <1>8, <1>9, <1>10, <1>11, <1>12, <1>13, <1>14,
       <1>15, <1>16, <1>17, <1>18, <1>19, <1>20, <1>21, <1>22, <1>23, <1>24, <1>25, <1>26, <1>27,
       <1>28
       DEF Next, Opener, Finisher, AckDispatch, Reader

\* A step brings no stream to life in a closed table.
LEMMA NextTableClosed ==
    ASSUME StateTypes, TableClosed, [Next]_vars
    PROVE  TableClosed'
<1> USE DEF endVars, openVars, ackVars, oblVars, connVars, TableClosed, StateTypes, Terminal,
        Live, Sides
<1>1. CASE OpenClient
    BY <1>1 DEF OpenClient, openFrame
<1>2. CASE Publish
    BY <1>2 DEF Publish, openFrame
<1>3. CASE SendOpen
    BY <1>3 DEF SendOpen, openFrame
<1>4. CASE PublishLate
    BY <1>4 DEF PublishLate, openFrame
<1>5. CASE ConfirmOpenSent
    BY <1>5 DEF ConfirmOpenSent, openFrame
<1>6. CASE ResolveOpenSendFailure
    BY <1>6 DEF ResolveOpenSendFailure, Terminate, openFrame
<1>7. CASE EmitOwedOpenTeardown
    BY <1>7 DEF EmitOwedOpenTeardown, openFrame
<1>8. ASSUME NEW x \in Sides, TerminateLocal(x) PROVE TableClosed'
    BY <1>8 DEF TerminateLocal, Terminate
<1>9. CASE TerminateHandlerError
    BY <1>9 DEF TerminateHandlerError, Terminate
<1>10. ASSUME NEW x \in Sides, FinishClaim(x) PROVE TableClosed'
    BY <1>10 DEF FinishClaim, Claim, finFrame
<1>11. ASSUME NEW x \in Sides, FinishCancel(x) PROVE TableClosed'
    BY <1>11 DEF FinishCancel, SendCancel, Fail
<1>12. ASSUME NEW x \in Sides, FinishEmit(x) PROVE TableClosed'
    BY <1>12 DEF FinishEmit, Enqueue, finFrame
<1>13. ASSUME NEW x \in Sides, FinishOblige(x) PROVE TableClosed'
    BY <1>13 DEF FinishOblige, CloseObligation, finFrame
<1>14. ASSUME NEW x \in Sides, FinishClose(x) PROVE TableClosed'
    BY <1>14 DEF FinishClose, finFrame
<1>15. ASSUME NEW x \in Sides, Emit(x) PROVE TableClosed'
    BY <1>15 DEF Emit
<1>16. CASE OwedTeardown
    <2>1. CASE owed = "claim" /\ Claim("c", TRUE) /\ owed' \in {"cancel", "emit"}
        BY <1>16, <2>1 DEF OwedTeardown, OwedStep, Claim
    <2>2. CASE owed = "cancel" /\ SendCancel("c") /\ owed' = "emit" /\ UNCHANGED <<token, drops>>
        BY <1>16, <2>2 DEF OwedTeardown, SendCancel, Fail
    <2>3. CASE owed = "emit" /\ owed' = "done" /\ UNCHANGED <<token, oblVars>>
        BY <1>16, <2>3 DEF OwedTeardown, OwedStep, Enqueue, Fail
    <2>4. QED
        BY <1>16, <2>1, <2>2, <2>3 DEF OwedTeardown, OwedStep
<1>17. ASSUME NEW x \in Sides, AckTake(x) PROVE TableClosed'
    BY <1>17 DEF AckTake, ackFrame
<1>18. ASSUME NEW x \in Sides, AckRelease(x) PROVE TableClosed'
    BY <1>18 DEF AckRelease, ackFrame
<1>19. ASSUME NEW x \in Sides, AckCancel(x) PROVE TableClosed'
    BY <1>19 DEF AckCancel, SendCancel, CloseObligation, Fail, ackFrame
<1>20. ASSUME NEW x \in Sides, CloseSend(x) PROVE TableClosed'
    BY <1>20 DEF CloseSend, CloseObligation, BothClosed, Terminate, closeFrame
<1>21. CASE OnStreamOpen
    BY <1>21 DEF OnStreamOpen, readFrame
<1>22. CASE RejectOpen
    BY <1>22 DEF RejectOpen, Enqueue
<1>23. ASSUME NEW x \in Sides, OnStreamClose(x) PROVE TableClosed'
    BY <1>23 DEF OnStreamClose, Terminate, readFrame
<1>24. ASSUME NEW x \in Sides, OnStreamEnd(x) PROVE TableClosed'
    BY <1>24 DEF OnStreamEnd, Terminate, readFrame
<1>25. ASSUME NEW x \in Sides, Discard(x) PROVE TableClosed'
    BY <1>25 DEF Discard, readFrame
<1>26. CASE ConnFails
    BY <1>26 DEF ConnFails, Fail
<1>27. ASSUME NEW x \in Sides, CloseTable(x) PROVE TableClosed'
    BY <1>27 DEF CloseTable, Terminate
<1>28. CASE UNCHANGED vars
    BY <1>28 DEF vars
<1>29. QED
    BY <1>1, <1>2, <1>3, <1>4, <1>5, <1>6, <1>7, <1>8, <1>9, <1>10, <1>11, <1>12, <1>13, <1>14,
       <1>15, <1>16, <1>17, <1>18, <1>19, <1>20, <1>21, <1>22, <1>23, <1>24, <1>25, <1>26, <1>27,
       <1>28
       DEF Next, Opener, Finisher, AckDispatch, Reader

\* A step tells the peer before it closes the obligation.
LEMMA NextToldFirst ==
    ASSUME StateTypes, FinisherPlace, CloseBits, ToldFirst, [Next]_vars
    PROVE  ToldFirst'
<1> USE DEF endVars, openVars, ackVars, oblVars, connVars, FinisherPlace, ToldFirst, StateTypes,
        Terminal, Live, Sides, Tell
<1>1. CASE OpenClient
    BY <1>1 DEF OpenClient, openFrame
<1>2. CASE Publish
    BY <1>2 DEF Publish, openFrame
<1>3. CASE SendOpen
    BY <1>3 DEF SendOpen, openFrame
<1>4. CASE PublishLate
    BY <1>4 DEF PublishLate, openFrame
<1>5. CASE ConfirmOpenSent
    BY <1>5 DEF ConfirmOpenSent, openFrame
<1>6. CASE ResolveOpenSendFailure
    BY <1>6 DEF ResolveOpenSendFailure, Terminate, openFrame
<1>7. CASE EmitOwedOpenTeardown
    BY <1>7 DEF EmitOwedOpenTeardown, openFrame
<1>8. ASSUME NEW x \in Sides, TerminateLocal(x) PROVE ToldFirst'
    BY <1>8 DEF TerminateLocal, Terminate
<1>9. CASE TerminateHandlerError
    BY <1>9 DEF TerminateHandlerError, Terminate
<1>10. ASSUME NEW x \in Sides, FinishClaim(x) PROVE ToldFirst'
    BY <1>10 DEF FinishClaim, Claim, finFrame
<1>11. ASSUME NEW x \in Sides, FinishCancel(x) PROVE ToldFirst'
    BY <1>11 DEF FinishCancel, SendCancel, Fail
<1>12. ASSUME NEW x \in Sides, FinishEmit(x) PROVE ToldFirst'
    BY <1>12 DEF FinishEmit, Enqueue, finFrame
<1>13. ASSUME NEW x \in Sides, FinishOblige(x) PROVE ToldFirst'
    BY <1>13 DEF FinishOblige, CloseObligation, finFrame
<1>14. ASSUME NEW x \in Sides, FinishClose(x) PROVE ToldFirst'
    BY <1>14 DEF FinishClose, finFrame
<1>15. ASSUME NEW x \in Sides, Emit(x) PROVE ToldFirst'
    BY <1>15 DEF Emit
<1>16. CASE OwedTeardown
    <2>1. CASE owed = "claim" /\ Claim("c", TRUE) /\ owed' \in {"cancel", "emit"}
        BY <1>16, <2>1 DEF OwedTeardown, OwedStep, Claim
    <2>2. CASE owed = "cancel" /\ SendCancel("c") /\ owed' = "emit" /\ UNCHANGED <<token, drops>>
        BY <1>16, <2>2 DEF OwedTeardown, SendCancel, Fail
    <2>3. CASE owed = "emit" /\ owed' = "done" /\ UNCHANGED <<token, oblVars>>
        <3>1. PICK queued \in BOOLEAN : Enqueue("c", 0, queued)
            BY <1>16, <2>3 DEF OwedTeardown, OwedStep
        <3>2. drops > 0 => drops' > 0
            <4>1. drops' \in {drops, drops + 1}
                BY <3>1 DEF Enqueue
            <4>2. drops \in 0 .. Drops
                BY DEF StateTypes
            <4>3. QED
                BY <4>1, <4>2
        <3>3. QED
            BY <1>16, <2>3, <3>2 DEF OwedTeardown
    <2>4. QED
        BY <1>16, <2>1, <2>2, <2>3 DEF OwedTeardown, OwedStep
<1>17. ASSUME NEW x \in Sides, AckTake(x) PROVE ToldFirst'
    BY <1>17 DEF AckTake, ackFrame
<1>18. ASSUME NEW x \in Sides, AckRelease(x) PROVE ToldFirst'
    BY <1>18 DEF AckRelease, ackFrame
<1>19. ASSUME NEW x \in Sides, AckCancel(x) PROVE ToldFirst'
    BY <1>19 DEF AckCancel, SendCancel, CloseObligation, Fail, ackFrame
<1>20. ASSUME NEW x \in Sides, CloseSend(x) PROVE ToldFirst'
    BY <1>20 DEF CloseSend, CloseObligation, BothClosed, Terminate, closeFrame
<1>21. CASE OnStreamOpen
    BY <1>21 DEF OnStreamOpen, readFrame
<1>22. CASE RejectOpen
    BY <1>22 DEF RejectOpen, Enqueue
<1>23. ASSUME NEW x \in Sides, OnStreamClose(x) PROVE ToldFirst'
    BY <1>23 DEF OnStreamClose, Terminate, readFrame
<1>24. ASSUME NEW x \in Sides, OnStreamEnd(x) PROVE ToldFirst'
    BY <1>24 DEF OnStreamEnd, Terminate, readFrame
<1>25. ASSUME NEW x \in Sides, Discard(x) PROVE ToldFirst'
    BY <1>25 DEF Discard, readFrame
<1>26. CASE ConnFails
    BY <1>26 DEF ConnFails, Fail
<1>27. ASSUME NEW x \in Sides, CloseTable(x) PROVE ToldFirst'
    BY <1>27 DEF CloseTable, Terminate
<1>28. CASE UNCHANGED vars
    BY <1>28 DEF vars
<1>29. QED
    BY <1>1, <1>2, <1>3, <1>4, <1>5, <1>6, <1>7, <1>8, <1>9, <1>10, <1>11, <1>12, <1>13, <1>14,
       <1>15, <1>16, <1>17, <1>18, <1>19, <1>20, <1>21, <1>22, <1>23, <1>24, <1>25, <1>26, <1>27,
       <1>28
       DEF Next, Opener, Finisher, AckDispatch, Reader

\* A step starts no finisher and no detached sender behind the join.
LEMMA NextJoinComplete ==
    ASSUME StateTypes, OpenerPlace, FinisherPlace, TableClosed, JoinComplete, [Next]_vars
    PROVE  JoinComplete'
<1> USE DEF endVars, openVars, ackVars, oblVars, connVars, JoinComplete, TableClosed,
        FinisherPlace, StateTypes, Terminal, Live, Sides
<1>1. CASE OpenClient
    BY <1>1 DEF OpenClient, openFrame
<1>2. CASE Publish
    BY <1>2 DEF Publish, openFrame
<1>3. CASE SendOpen
    BY <1>3 DEF SendOpen, openFrame
<1>4. CASE PublishLate
    BY <1>4 DEF PublishLate, openFrame
<1>5. CASE ConfirmOpenSent
    BY <1>5 DEF ConfirmOpenSent, openFrame
<1>6. CASE ResolveOpenSendFailure
    BY <1>6 DEF ResolveOpenSendFailure, Terminate, openFrame
<1>7. CASE EmitOwedOpenTeardown
    BY <1>7 DEF EmitOwedOpenTeardown, openFrame
<1>8. ASSUME NEW x \in Sides, TerminateLocal(x) PROVE JoinComplete'
    BY <1>8 DEF TerminateLocal, Terminate
<1>9. CASE TerminateHandlerError
    BY <1>9 DEF TerminateHandlerError, Terminate
<1>10. ASSUME NEW x \in Sides, FinishClaim(x) PROVE JoinComplete'
    BY <1>10 DEF FinishClaim, Claim, finFrame
<1>11. ASSUME NEW x \in Sides, FinishCancel(x) PROVE JoinComplete'
    BY <1>11 DEF FinishCancel, SendCancel, Fail
<1>12. ASSUME NEW x \in Sides, FinishEmit(x) PROVE JoinComplete'
    BY <1>12 DEF FinishEmit, Enqueue, finFrame
<1>13. ASSUME NEW x \in Sides, FinishOblige(x) PROVE JoinComplete'
    BY <1>13 DEF FinishOblige, CloseObligation, finFrame
<1>14. ASSUME NEW x \in Sides, FinishClose(x) PROVE JoinComplete'
    BY <1>14 DEF FinishClose, finFrame
<1>15. ASSUME NEW x \in Sides, Emit(x) PROVE JoinComplete'
    BY <1>15 DEF Emit
<1>16. CASE OwedTeardown
    BY <1>16 DEF OwedTeardown, OwedStep, Claim, SendCancel, Enqueue, Fail
<1>17. ASSUME NEW x \in Sides, AckTake(x) PROVE JoinComplete'
    BY <1>17 DEF AckTake, ackFrame
<1>18. ASSUME NEW x \in Sides, AckRelease(x) PROVE JoinComplete'
    BY <1>18 DEF AckRelease, ackFrame
<1>19. ASSUME NEW x \in Sides, AckCancel(x) PROVE JoinComplete'
    BY <1>19 DEF AckCancel, SendCancel, CloseObligation, Fail, ackFrame
<1>20. ASSUME NEW x \in Sides, CloseSend(x) PROVE JoinComplete'
    BY <1>20 DEF CloseSend, CloseObligation, BothClosed, Terminate, closeFrame
<1>21. CASE OnStreamOpen
    BY <1>21 DEF OnStreamOpen, readFrame
<1>22. CASE RejectOpen
    BY <1>22 DEF RejectOpen, Enqueue
<1>23. ASSUME NEW x \in Sides, OnStreamClose(x) PROVE JoinComplete'
    BY <1>23 DEF OnStreamClose, Terminate, readFrame
<1>24. ASSUME NEW x \in Sides, OnStreamEnd(x) PROVE JoinComplete'
    BY <1>24 DEF OnStreamEnd, Terminate, readFrame
<1>25. ASSUME NEW x \in Sides, Discard(x) PROVE JoinComplete'
    BY <1>25 DEF Discard, readFrame
<1>26. CASE ConnFails
    BY <1>26 DEF ConnFails, Fail
<1>27. ASSUME NEW x \in Sides, CloseTable(x) PROVE JoinComplete'
    BY <1>27 DEF CloseTable, Terminate
<1>28. CASE UNCHANGED vars
    BY <1>28 DEF vars
<1>29. QED
    BY <1>1, <1>2, <1>3, <1>4, <1>5, <1>6, <1>7, <1>8, <1>9, <1>10, <1>11, <1>12, <1>13, <1>14,
       <1>15, <1>16, <1>17, <1>18, <1>19, <1>20, <1>21, <1>22, <1>23, <1>24, <1>25, <1>26, <1>27,
       <1>28
       DEF Next, Opener, Finisher, AckDispatch, Reader

\* A step that sets the second close bit ends the stream.
LEMMA NextClosedCompletes ==
    ASSUME StateTypes, OpenerPlace, FinisherPlace, CloseBits, ClosedCompletes, [Next]_vars
    PROVE  ClosedCompletes'
<1> USE DEF endVars, openVars, ackVars, oblVars, connVars, ClosedCompletes, BothClosed, CloseBits,
        FinisherPlace, StateTypes, Terminal, Live, Sides
<1>1. CASE OpenClient
    BY <1>1 DEF OpenClient, OpenerPlace, openFrame
<1>2. CASE Publish
    BY <1>2 DEF Publish, openFrame
<1>3. CASE SendOpen
    BY <1>3 DEF SendOpen, openFrame
<1>4. CASE PublishLate
    BY <1>4 DEF PublishLate, openFrame
<1>5. CASE ConfirmOpenSent
    BY <1>5 DEF ConfirmOpenSent, openFrame
<1>6. CASE ResolveOpenSendFailure
    BY <1>6 DEF ResolveOpenSendFailure, Terminate, openFrame
<1>7. CASE EmitOwedOpenTeardown
    BY <1>7 DEF EmitOwedOpenTeardown, openFrame
<1>8. ASSUME NEW x \in Sides, TerminateLocal(x) PROVE ClosedCompletes'
    BY <1>8 DEF TerminateLocal, Terminate
<1>9. CASE TerminateHandlerError
    BY <1>9 DEF TerminateHandlerError, Terminate
<1>10. ASSUME NEW x \in Sides, FinishClaim(x) PROVE ClosedCompletes'
    BY <1>10 DEF FinishClaim, Claim, finFrame
<1>11. ASSUME NEW x \in Sides, FinishCancel(x) PROVE ClosedCompletes'
    BY <1>11 DEF FinishCancel, SendCancel, Fail
<1>12. ASSUME NEW x \in Sides, FinishEmit(x) PROVE ClosedCompletes'
    BY <1>12 DEF FinishEmit, Enqueue, finFrame
<1>13. ASSUME NEW x \in Sides, FinishOblige(x) PROVE ClosedCompletes'
    BY <1>13 DEF FinishOblige, CloseObligation, finFrame
<1>14. ASSUME NEW x \in Sides, FinishClose(x) PROVE ClosedCompletes'
    BY <1>14 DEF FinishClose, finFrame
<1>15. ASSUME NEW x \in Sides, Emit(x) PROVE ClosedCompletes'
    BY <1>15 DEF Emit
<1>16. CASE OwedTeardown
    BY <1>16 DEF OwedTeardown, OwedStep, Claim, SendCancel, Enqueue, Fail
<1>17. ASSUME NEW x \in Sides, AckTake(x) PROVE ClosedCompletes'
    BY <1>17 DEF AckTake, ackFrame
<1>18. ASSUME NEW x \in Sides, AckRelease(x) PROVE ClosedCompletes'
    BY <1>18 DEF AckRelease, ackFrame
<1>19. ASSUME NEW x \in Sides, AckCancel(x) PROVE ClosedCompletes'
    BY <1>19 DEF AckCancel, SendCancel, CloseObligation, Fail, ackFrame
<1>20. ASSUME NEW x \in Sides, CloseSend(x) PROVE ClosedCompletes'
    BY <1>20 DEF CloseSend, CloseObligation, BothClosed, Terminate, closeFrame
<1>21. CASE OnStreamOpen
    BY <1>21 DEF OnStreamOpen, readFrame
<1>22. CASE RejectOpen
    BY <1>22 DEF RejectOpen, Enqueue
<1>23. ASSUME NEW x \in Sides, OnStreamClose(x) PROVE ClosedCompletes'
    BY <1>23 DEF OnStreamClose, Terminate, readFrame
<1>24. ASSUME NEW x \in Sides, OnStreamEnd(x) PROVE ClosedCompletes'
    BY <1>24 DEF OnStreamEnd, Terminate, readFrame
<1>25. ASSUME NEW x \in Sides, Discard(x) PROVE ClosedCompletes'
    BY <1>25 DEF Discard, readFrame
<1>26. CASE ConnFails
    BY <1>26 DEF ConnFails, Fail
<1>27. ASSUME NEW x \in Sides, CloseTable(x) PROVE ClosedCompletes'
    BY <1>27 DEF CloseTable, Terminate
<1>28. CASE UNCHANGED vars
    BY <1>28 DEF vars
<1>29. QED
    BY <1>1, <1>2, <1>3, <1>4, <1>5, <1>6, <1>7, <1>8, <1>9, <1>10, <1>11, <1>12, <1>13, <1>14,
       <1>15, <1>16, <1>17, <1>18, <1>19, <1>20, <1>21, <1>22, <1>23, <1>24, <1>25, <1>26, <1>27,
       <1>28
       DEF Next, Opener, Finisher, AckDispatch, Reader
=============================================================================
