------------------------------- MODULE Burst -------------------------------
(***************************************************************************)
(* The burst transport: one connection over shared memory and a socket.    *)
(* Its receiver, which takes turns between the two, the readiness pump     *)
(* that peeks at the socket and interrupts the shared-memory wait, the     *)
(* senders behind the send gate, the owner that stops and closes, and the  *)
(* single terminal transition that answers all of them.  Every step that   *)
(* touches the shared fields is one critical section of b.mu.              *)
(***************************************************************************)
EXTENDS Naturals, FiniteSets

CONSTANTS
    Senders,
    Nobody,
    Plans           \* what one connection may be put through

ASSUME BurstAssumption ==
    /\ Nobody \notin Senders
    /\ Plans \subseteq [senders : SUBSET Senders, shm : Nat, sock : Nat, endless : {0, 1}, cancels : Nat,
                       faults : SUBSET {"eof", "reset", "torn", "nonconforming", "shm", "malformed"}]

VARIABLES
    plan,                           \* the plan at hand
    term, class, poison,            \* terminal, failureClass, latchedPoison # nil
    wake,                           \* recvCtx's cause, "none" while it is live
    recv, pump, last,               \* recvState, pumpState, lastServed
    contested, forfeit,             \* shmContestedTurn, shmForfeitsTurn
    tok, fired,                     \* interrupt # nil; 1 once this attempt's context was interrupted
    pp, timed, sig,                 \* the pump: its place; timed wait; a broadcast it has not seen
    rp, ch, err, rctx,              \* the receiver: its place, channel in hand, raw error, context done
    sp, serr, sctx, sends, gate,    \* the senders, and sendGate's holder
    op,                             \* the owner
    shmq, sq, sock, peer, shmStopped, mapped,   \* the undersides
    arrived, taken,                 \* frames sent to us and frames handed to the application
    withheld,                       \* frames read and not handed over
    said,                           \* history: every answer an operation was given
    passed                          \* history: turns in a row that passed over a ready channel

MaxShm == plan.shm          \* frames queued on each channel, and in all unless Endless
MaxSock == plan.sock
Endless == plan.endless     \* 1: the peer never runs out of frames
Faults == plan.faults       \* what may go wrong
Cancels == plan.cancels     \* contexts that end

outcomeVars == <<term, class, poison, wake>>
pumpVars == <<pp, timed, sig>>
turnVars == <<last, contested, forfeit>>
recvVars == <<rp, ch, err>>
sendVars == <<sp, serr, sends, gate>>
ctxVars == <<rctx, sctx>>
countVars == <<arrived, taken, withheld>>
underVars == <<shmq, sq, sock, peer, shmStopped, mapped>>
vars == <<outcomeVars, pumpVars, turnVars, recvVars, sendVars, ctxVars, countVars, underVars, recv, pump, tok, fired, op, said, passed, plan>>

Init ==
    /\ plan \in Plans /\ passed = [shm |-> 0, sock |-> 0]
    /\ term = "open" /\ class = "none" /\ poison = 0 /\ wake = "none"
    /\ recv = "idle" /\ pump = "waiting" /\ last = "shm" /\ contested = 0 /\ forfeit = 0 /\ tok = 0 /\ fired = 0
    /\ pp = "wait" /\ timed = 0 /\ sig = 0 /\ rp = "idle" /\ ch = "none" /\ err = "none" /\ rctx = 0
    /\ sp = [s \in Senders |-> "idle"] /\ serr = [s \in Senders |-> "none"] /\ sctx = [s \in Senders |-> 0]
    /\ sends = [s \in Senders |-> 0] /\ gate = Nobody /\ op = "idle"
    /\ shmq = 0 /\ sq = 0 /\ sock = "open" /\ peer = "up" /\ shmStopped = 0 /\ mapped = 1
    /\ arrived = 0 /\ taken = 0 /\ withheld = 0 /\ said = {}

-----------------------------------------------------------------------------
(* The settled outcome and the answers read from it.                       *)

\* settledOutcomeLocked: a poison refines the class of a connection that failed
Cause == IF poison = 1 THEN "poisoned" ELSE class

operationErrPoisonFirst(e) == IF poison = 1 THEN "poisoned" ELSE IF term = "closing" THEN "closed" ELSE e

operationErr(e) == IF term = "closing" THEN "closed" ELSE IF poison = 1 THEN "poisoned" ELSE e

failFast == CASE term = "closing" -> "closed" [] term = "failed" -> Cause [] OTHER -> "none"

withheldErr == IF term = "failed" THEN Cause ELSE "none"

wakeCause == IF term = "failed" THEN Cause ELSE "closed"

receiveResult(e) == IF rctx = 1 \/ e = "local" THEN e ELSE operationErr(e)

isTeardown(e) == e \in {"ctx", "closed"}

\* recvCancel: a context's cause is one-shot
Wake(c) == wake' = IF wake = "none" THEN c ELSE wake

Broadcast == sig' = IF pp = "cond" THEN 1 ELSE sig

PublishSilently(state, c) ==
    IF term # "open" THEN UNCHANGED <<term, class, wake, tok, fired, pump, sig>>
    ELSE /\ term' = state /\ class' = c /\ pump' = "stopped" /\ UNCHANGED sig
         /\ tok' = 0 /\ fired' = (IF tok = 1 THEN 1 ELSE fired)
         /\ IF state = "failed" THEN Wake(c) ELSE UNCHANGED wake

\* publishTerminal: the first transition wins; the detached token is cancelled
Publish(state, c) ==
    IF term # "open" THEN UNCHANGED <<term, class, wake, tok, fired, pump, sig>>
    ELSE /\ term' = state /\ class' = c /\ pump' = "stopped" /\ Broadcast
         /\ tok' = 0 /\ fired' = (IF tok = 1 THEN 1 ELSE fired)
         /\ IF state = "failed" THEN Wake(c) ELSE UNCHANGED wake

publishVars == <<term, class, wake, tok, fired, pump, sig>>

\* onFatal: file the poison and take the transition in one critical section
OnFatal ==
    /\ poison' = 1
    /\ IF term = "open" THEN Publish("failed", "poisoned")
       ELSE Wake(wakeCause) /\ UNCHANGED <<term, class, tok, fired, pump, sig>>

\* failConnection
Fail(e) == Publish("failed", IF e = "poisoned" THEN "poisoned" ELSE e) /\ UNCHANGED poison

-----------------------------------------------------------------------------
(* The readiness pump.                                                     *)

PumpReadable ==
    /\ pp = "wait" /\ wake = "none" /\ sock = "open" /\ (sq > 0 \/ peer = "eof") /\ pp' = "ready"
    /\ UNCHANGED <<outcomeVars, timed, sig, turnVars, recvVars, sendVars, ctxVars, countVars, underVars, recv, pump, tok, fired, op, said, passed>>

\* WaitReadable failed: a reset fails the connection, a teardown does not
PumpWaitFails ==
    /\ pp = "wait" /\ pp' = "end"
    /\ \/ (wake # "none" \/ sock = "closed") /\ UNCHANGED <<publishVars, poison>>
       \/ wake = "none" /\ sock = "open" /\ sq = 0 /\ peer = "reset" /\ Fail("io")
    /\ UNCHANGED <<timed, turnVars, recvVars, sendVars, ctxVars, countVars, underVars, recv, op, said, passed>>

PumpEnds ==
    /\ pp = "end" /\ pp' = "done" /\ pump' = "stopped"
    /\ UNCHANGED <<outcomeVars, timed, sig, turnVars, recvVars, sendVars, ctxVars, countVars, underVars, recv, tok, fired, op, said, passed>>

fireInterrupt == fired' = IF tok = 1 THEN 1 ELSE fired

PublishReadiness ==
    /\ pp = "ready"
    /\ \/ term # "open" /\ pump' = "stopped" /\ pp' = "done" /\ UNCHANGED <<fired, timed, sig>>
       \/ term = "open" /\ pump' = "pending" /\ fireInterrupt /\ pp' = "cond" /\ timed' = 1 /\ sig' = 0
    /\ UNCHANGED <<outcomeVars, turnVars, recvVars, sendVars, ctxVars, countVars, underVars, recv, tok, op, said, passed>>

\* pumpWake's wait returned: the re-fire interval only bounds a wait begun while pending
PumpWake ==
    /\ pp = "cond" /\ (sig = 1 \/ timed = 1)
    /\ \/ pump = "pending" /\ fireInterrupt /\ timed' = 1 /\ sig' = 0 /\ UNCHANGED pp
       \/ pump = "parked" /\ timed' = 0 /\ sig' = 0 /\ UNCHANGED <<fired, pp>>
       \/ pump = "waiting" /\ pp' = "wait" /\ UNCHANGED <<fired, timed, sig>>
       \/ pump = "stopped" /\ pp' = "done" /\ UNCHANGED <<fired, timed, sig>>
    /\ UNCHANGED <<outcomeVars, turnVars, recvVars, sendVars, ctxVars, countVars, underVars, recv, pump, tok, op, said, passed>>

PumpStep == PumpReadable \/ PumpWaitFails \/ PumpEnds \/ PublishReadiness \/ PumpWake

-----------------------------------------------------------------------------
(* The receiver: one attempt, its channel, its delivery.                   *)

\* the reader loop ends on any answer that is not a frame or a frame-local error; an answer to a
\* caller whose own context has ended is that caller's own
Leave(a) ==
    /\ rp' = (IF a \in {"frame", "local"} THEN "idle" ELSE "gone")
    /\ said' = said \cup {IF rctx = 1 /\ a # "frame" THEN "ctx" ELSE a}

\* chooseChannelLocked; the shared-memory probe may claim work that is not there
choosesSocket(probe) == pump = "pending" /\ (forfeit = 1 \/ ~probe \/ last = "shm")

Probes == IF shmq > 0 THEN {TRUE} ELSE {TRUE, FALSE}

\* the turns in a row that a channel with work was passed over
Turn(socket) ==
    [shm |-> IF socket /\ shmq > 0 THEN passed.shm + 1 ELSE 0,
     sock |-> IF ~socket /\ pump = "pending" THEN passed.sock + 1 ELSE 0]

ReceiveOnce ==
    /\ rp = "idle"
    /\ \/ failFast # "none" /\ Leave(receiveResult(failFast)) /\ UNCHANGED <<recv, pump, turnVars, tok, fired, ch, err, passed>>
       \/ /\ failFast = "none" /\ err' = "none" /\ UNCHANGED said
          /\ \E probe \in Probes : passed' = Turn(choosesSocket(probe)) /\
             \/ /\ choosesSocket(probe) /\ pump' = "parked" /\ recv' = "burstReading" /\ rp' = "sock" /\ ch' = "sock"
                /\ forfeit' = 0 /\ UNCHANGED <<last, contested, tok, fired>>
             \/ /\ ~choosesSocket(probe) /\ tok' = 1 /\ fired' = 0 /\ recv' = "shmWaiting" /\ rp' = "shm" /\ ch' = "shm"
                /\ contested' = (IF pump = "pending" THEN 1 ELSE 0)
                /\ forfeit' = (IF pump = "pending" THEN 0 ELSE forfeit) /\ UNCHANGED <<last, pump>>
    /\ UNCHANGED <<outcomeVars, pumpVars, sendVars, ctxVars, countVars, underVars, op>>

recordService(c) ==
    /\ last' = c
    /\ IF c = "shm" THEN contested' = 0 /\ forfeit' = 0 ELSE UNCHANGED <<contested, forfeit>>

\* shm.Recv found a frame: whole, or skipped as frame-local and counted as service
ShmTakes ==
    /\ rp = "shm" /\ shmq > 0 /\ shmStopped = 0 /\ shmq' = shmq - 1
    /\ \/ rp' = "got" /\ UNCHANGED <<turnVars, err, taken>>
       \/ recordService("shm") /\ err' = "local" /\ rp' = "disarm" /\ taken' = (IF Endless = 1 THEN taken ELSE taken + 1)
    /\ UNCHANGED <<outcomeVars, pumpVars, ch, sendVars, ctxVars, arrived, withheld, sq, sock, peer, shmStopped, mapped, recv, pump, tok, fired, op, said, passed>>

\* forfeitWastedTurn
forfeitWasted ==
    /\ forfeit' = (IF contested = 1 /\ pump = "pending" THEN 1 ELSE forfeit)
    /\ contested' = 0

ShmInterrupted ==
    /\ rp = "shm" /\ fired = 1 /\ forfeitWasted /\ rp' = "disarm" /\ err' = "retry"
    /\ UNCHANGED <<outcomeVars, pumpVars, last, ch, sendVars, ctxVars, countVars, underVars, recv, pump, tok, fired, op, said, passed>>

\* resolveShmErr: the caller's context, this side's stop, or a conformance fault
ShmFails ==
    /\ rp = "shm"
    /\ \/ rctx = 1 /\ err' = "ctx" /\ UNCHANGED <<publishVars, poison>>
       \/ shmStopped = 1 /\ err' = receiveResult("closed") /\ UNCHANGED <<publishVars, poison>>
       \/ "shm" \in Faults /\ shmStopped = 0 /\ shmq > 0 /\ Fail("poisoned") /\ err' = (IF term = "closing" THEN "closed" ELSE "poisoned")
    /\ rp' = "disarm"
    /\ UNCHANGED <<pp, timed, turnVars, ch, sendVars, ctxVars, countVars, underVars, recv, op, said, passed>>

Disarm ==
    /\ rp = "disarm" /\ tok' = 0 /\ recv' = (IF tok = 1 /\ recv = "shmWaiting" THEN "idle" ELSE recv)
    /\ IF err = "retry" THEN rp' = "idle" /\ UNCHANGED said ELSE Leave(err)
    /\ UNCHANGED <<outcomeVars, pumpVars, turnVars, ch, err, sendVars, ctxVars, countVars, underVars, pump, fired, op, passed>>

-----------------------------------------------------------------------------
(* The destructive socket read.                                            *)

SockReads ==
    /\ rp = "sock"
    /\ \/ sock = "open" /\ sq > 0 /\ sq' = sq - 1 /\ rp' = "sockEnd" /\ UNCHANGED <<err, publishVars, poison, withheld>>
       \/ /\ "nonconforming" \in Faults /\ sock = "open" /\ sq > 0 /\ sq' = sq - 1 /\ rp' = "sockEnd"
          /\ OnFatal /\ err' = (IF term = "closing" THEN "closed" ELSE "poisoned")
          /\ withheld' = (IF Endless = 1 THEN withheld ELSE withheld + 1)
       \/ "torn" \in Faults /\ sock = "open" /\ sq > 0 /\ rp' = "tear" /\ OnFatal /\ err' = "poisoned" /\ UNCHANGED <<sq, withheld>>
       \/ /\ UNCHANGED <<sq, publishVars, poison, withheld>> /\ rp' = "sockEnd"
          /\ \/ sock = "open" /\ sq = 0 /\ peer = "eof" /\ err' = "eof"
             \/ sock = "open" /\ sq = 0 /\ peer = "reset" /\ err' = "io"
             \/ sock = "closed" /\ err' = "closed"
             \/ rctx = 1 /\ err' = "ctx"
    /\ UNCHANGED <<pp, timed, turnVars, ch, sendVars, ctxVars, arrived, taken, shmq, sock, peer, shmStopped, mapped, recv, op, said, passed>>

\* the socket closes itself after publishing its poison
TearCloses ==
    /\ rp = "tear" /\ sock' = "closed" /\ rp' = "sockEnd"
    /\ UNCHANGED <<outcomeVars, pumpVars, turnVars, ch, err, sendVars, ctxVars, countVars, shmq, sq, peer, shmStopped, mapped, recv, pump, tok, fired, op, said, passed>>

\* endBurstService
EndService ==
    /\ rp = "sockEnd" /\ rp' = (IF err = "none" THEN "got" ELSE "resolve")
    /\ recv' = (IF recv = "burstReading" THEN "idle" ELSE recv)
    /\ IF pump = "parked" THEN pump' = "waiting" /\ Broadcast ELSE UNCHANGED <<pump, sig>>
    /\ UNCHANGED <<outcomeVars, pp, timed, turnVars, ch, err, sendVars, ctxVars, countVars, underVars, tok, fired, op, said, passed>>

\* resolveFailure: publish, then answer from the settled outcome
Resolve ==
    /\ rp = "resolve" /\ rp' = "answer" /\ UNCHANGED poison
    /\ IF isTeardown(err) THEN UNCHANGED publishVars ELSE Publish("failed", err)
    /\ UNCHANGED <<pp, timed, turnVars, ch, err, sendVars, ctxVars, countVars, underVars, recv, op, said, passed>>

AnswerReceive ==
    /\ rp = "answer" /\ Leave(receiveResult(err))
    /\ UNCHANGED <<outcomeVars, pumpVars, turnVars, ch, err, sendVars, ctxVars, countVars, underVars, recv, pump, tok, fired, op, passed>>

-----------------------------------------------------------------------------
(* Delivery.                                                               *)

\* once the reading side has a frame in hand, where it goes when it is done
After(a) == IF ch = "shm" THEN rp' = "disarm" /\ err' = a /\ UNCHANGED said ELSE Leave(a) /\ UNCHANGED err

CommitOnlyOpen ==
    /\ rp = "got"
    /\ \/ /\ term # "open" /\ After(receiveResult(failFast)) /\ UNCHANGED recv
          /\ withheld' = (IF Endless = 1 THEN withheld ELSE withheld + 1)
       \/ term = "open" /\ recv' = "delivering" /\ rp' = "consume" /\ UNCHANGED <<withheld, err, said>>
    /\ UNCHANGED <<outcomeVars, pumpVars, turnVars, ch, sendVars, ctxVars, arrived, taken, underVars, pump, tok, fired, op, passed>>

\* commitDelivery: a failed connection withholds the frame, a closing one does not
CommitDelivery ==
    /\ rp = "got"
    /\ \/ /\ withheldErr # "none" /\ After(receiveResult(withheldErr)) /\ UNCHANGED recv
          /\ withheld' = (IF Endless = 1 THEN withheld ELSE withheld + 1)
       \/ withheldErr = "none" /\ recv' = "delivering" /\ rp' = "consume" /\ UNCHANGED <<withheld, err, said>>
    /\ UNCHANGED <<outcomeVars, pumpVars, turnVars, ch, sendVars, ctxVars, arrived, taken, underVars, pump, tok, fired, op, passed>>

\* the application's callback: accepted, faulted, or a malformed frame that poisons the socket
Consume ==
    /\ rp = "consume" /\ rp' = "delivered"
    /\ \/ err' = "frame" /\ UNCHANGED <<publishVars, poison>>
       \/ ch = "sock" /\ "malformed" \in Faults /\ OnFatal /\ err' = (IF term = "closing" THEN "closed" ELSE "poisoned")
    /\ UNCHANGED <<pp, timed, turnVars, ch, sendVars, ctxVars, countVars, underVars, recv, op, said, passed>>

\* endDelivery
EndDelivery ==
    /\ rp = "delivered" /\ recv' = "idle" /\ recordService(ch)
    /\ taken' = (IF Endless = 1 THEN taken ELSE taken + 1)
    /\ IF ch = "shm" THEN rp' = "disarm" /\ UNCHANGED said ELSE Leave(err)
    /\ UNCHANGED <<outcomeVars, pumpVars, ch, err, sendVars, ctxVars, arrived, withheld, underVars, pump, tok, fired, op, passed>>

ReceiverStep ==
    ReceiveOnce \/ ShmTakes \/ ShmInterrupted \/ ShmFails \/ Disarm \/ SockReads \/ TearCloses \/ EndService
    \/ Resolve \/ AnswerReceive \/ CommitDelivery \/ Consume \/ EndDelivery

-----------------------------------------------------------------------------
(* Burst-routed sends.                                                     *)

SayTo(s, a) == sp' = [sp EXCEPT ![s] = "idle"] /\ said' = said \cup {a}

Send(s) ==
    /\ sp[s] = "idle" /\ s \in plan.senders /\ sends[s] = 0 /\ sends' = [sends EXCEPT ![s] = @ + 1]
    /\ \/ failFast # "none" /\ SayTo(s, failFast)
       \/ failFast = "none" /\ sp' = [sp EXCEPT ![s] = "gate"] /\ UNCHANGED said
    /\ UNCHANGED <<outcomeVars, pumpVars, turnVars, recvVars, serr, gate, ctxVars, countVars, underVars, recv, pump, tok, fired, op, passed>>

\* enterSendGate, its context checked again once the gate is held
EnterGate(s) ==
    /\ sp[s] = "gate"
    /\ \/ sctx[s] = 1 /\ SayTo(s, "ctx") /\ UNCHANGED gate
       \/ sctx[s] = 0 /\ gate = Nobody /\ gate' = s /\ sp' = [sp EXCEPT ![s] = "held"] /\ UNCHANGED said
    /\ UNCHANGED <<outcomeVars, pumpVars, turnVars, recvVars, serr, sends, ctxVars, countVars, underVars, recv, pump, tok, fired, op, passed>>

\* the outcome is checked again under the gate; then the fill, which costs only its own frame
Fill(s) ==
    /\ sp[s] = "held"
    /\ \/ failFast # "none" /\ SayTo(s, failFast) /\ gate' = Nobody
       \/ failFast = "none" /\ sp' = [sp EXCEPT ![s] = "write"] /\ UNCHANGED <<gate, said>>
       \/ failFast = "none" /\ SayTo(s, "fill") /\ gate' = Nobody
    /\ UNCHANGED <<outcomeVars, pumpVars, turnVars, recvVars, serr, sends, ctxVars, countVars, underVars, recv, pump, tok, fired, op, passed>>

SockSends(s) ==
    /\ sp[s] = "write"
    /\ \/ sock = "open" /\ peer = "up" /\ SayTo(s, "sent") /\ gate' = Nobody /\ UNCHANGED <<serr, publishVars, poison>>
       \/ /\ sock = "open" /\ "torn" \in Faults /\ OnFatal /\ sp' = [sp EXCEPT ![s] = "tear"]
          /\ serr' = [serr EXCEPT ![s] = "poisoned"] /\ UNCHANGED <<gate, said>>
       \/ /\ sock = "closed" \/ peer # "up"
          /\ serr' = [serr EXCEPT ![s] = IF sock = "closed" THEN "closed" ELSE "io"]
          /\ sp' = [sp EXCEPT ![s] = "result"] /\ UNCHANGED <<gate, said, publishVars, poison>>
    /\ UNCHANGED <<pp, timed, turnVars, recvVars, sends, ctxVars, countVars, underVars, recv, op, passed>>

SendTearCloses(s) ==
    /\ sp[s] = "tear" /\ sock' = "closed" /\ sp' = [sp EXCEPT ![s] = "result"]
    /\ UNCHANGED <<outcomeVars, pumpVars, turnVars, recvVars, serr, sends, gate, ctxVars, countVars, shmq, sq, peer, shmStopped, mapped, recv, pump, tok, fired, op, said, passed>>

\* burstSendResult
SendResult(s) ==
    /\ sp[s] = "result" /\ SayTo(s, operationErr(serr[s])) /\ gate' = Nobody
    /\ UNCHANGED <<outcomeVars, pumpVars, turnVars, recvVars, serr, sends, ctxVars, countVars, underVars, recv, pump, tok, fired, op, passed>>

SenderStep(s) == EnterGate(s) \/ Fill(s) \/ SockSends(s) \/ SendTearCloses(s) \/ SendResult(s)

-----------------------------------------------------------------------------
(* StopWriter and Close.                                                   *)

StopWriter ==
    /\ op = "idle" /\ Publish("closing", "none") /\ op' = "sock"
    /\ UNCHANGED <<poison, pp, timed, turnVars, recvVars, sendVars, ctxVars, countVars, underVars, recv, said, passed>>

StopSocket ==
    /\ op = "sock" /\ sock' = "closed" /\ op' = "shm"
    /\ UNCHANGED <<outcomeVars, pumpVars, turnVars, recvVars, sendVars, ctxVars, countVars, shmq, sq, peer, shmStopped, mapped, recv, pump, tok, fired, said, passed>>

StopShm ==
    /\ op = "shm" /\ shmStopped' = 1 /\ op' = "stopped"
    /\ UNCHANGED <<outcomeVars, pumpVars, turnVars, recvVars, sendVars, ctxVars, countVars, shmq, sq, sock, peer, mapped, recv, pump, tok, fired, said, passed>>

\* Close: endReceiveSide, join the pump, then unmap once no Recv is inside shared memory
EndReceiveSide ==
    /\ op = "stopped" /\ Wake(wakeCause) /\ op' = "join"
    /\ UNCHANGED <<term, class, poison, pumpVars, turnVars, recvVars, sendVars, ctxVars, countVars, underVars, recv, pump, tok, fired, said, passed>>

JoinPump ==
    /\ op = "join" /\ pp = "done" /\ op' = "unmap"
    /\ UNCHANGED <<outcomeVars, pumpVars, turnVars, recvVars, sendVars, ctxVars, countVars, underVars, recv, pump, tok, fired, said, passed>>

Unmap ==
    /\ op = "unmap" /\ rp # "shm" /\ mapped' = 0 /\ op' = "done"
    /\ UNCHANGED <<outcomeVars, pumpVars, turnVars, recvVars, sendVars, ctxVars, countVars, shmq, sq, sock, peer, shmStopped, recv, pump, tok, fired, said, passed>>

OwnerStep == StopSocket \/ StopShm \/ EndReceiveSide \/ JoinPump \/ Unmap

-----------------------------------------------------------------------------
(* The environment.                                                        *)

Arrive ==
    /\ peer = "up" /\ (Endless = 1 \/ arrived < MaxShm + MaxSock) /\ arrived' = (IF Endless = 1 THEN arrived ELSE arrived + 1)
    /\ \/ shmq < MaxShm /\ shmq' = shmq + 1 /\ UNCHANGED sq
       \/ sq < MaxSock /\ sq' = sq + 1 /\ UNCHANGED shmq
    /\ UNCHANGED <<outcomeVars, pumpVars, turnVars, recvVars, sendVars, ctxVars, taken, withheld, sock, peer, shmStopped, mapped, recv, pump, tok, fired, op, said, passed>>

PeerEnds ==
    /\ peer = "up" /\ peer' \in Faults \cap {"eof", "reset"}
    /\ UNCHANGED <<outcomeVars, pumpVars, turnVars, recvVars, sendVars, ctxVars, countVars, shmq, sq, sock, shmStopped, mapped, recv, pump, tok, fired, op, said, passed>>

Cancel ==
    /\ rctx + Cardinality({s \in Senders : sctx[s] = 1}) < Cancels
    /\ \/ rctx = 0 /\ rctx' = 1 /\ UNCHANGED sctx
       \/ \E s \in plan.senders : sctx[s] = 0 /\ sctx' = [sctx EXCEPT ![s] = 1] /\ UNCHANGED rctx
    /\ UNCHANGED <<outcomeVars, pumpVars, turnVars, recvVars, sendVars, countVars, underVars, recv, pump, tok, fired, op, said, passed>>

Next ==
    /\ \/ PumpStep \/ ReceiverStep \/ \E s \in Senders : Send(s) \/ SenderStep(s)
       \/ StopWriter \/ OwnerStep \/ Arrive \/ PeerEnds \/ Cancel
    /\ UNCHANGED plan

Spec == Init /\ [][Next]_vars

\* what the goroutines do by themselves
Progress == PumpStep \/ ReceiverStep \/ OwnerStep \/ \E s \in Senders : SenderStep(s)

-----------------------------------------------------------------------------
(* Properties.                                                             *)

\* Every variable stays in its range.
TypeOK ==
    /\ term \in {"open", "closing", "failed"} /\ class \in {"none", "poisoned", "eof", "io"} /\ {poison, contested, forfeit, tok, fired} \subseteq {0, 1}
    /\ wake \in {"none", "closed", "poisoned", "eof", "io"} /\ recv \in {"idle", "shmWaiting", "burstReading", "delivering"}
    /\ pump \in {"waiting", "pending", "parked", "stopped"} /\ last \in {"shm", "sock"}
    /\ pp \in {"wait", "ready", "cond", "end", "done"} /\ (term = "failed" <=> class # "none")
    /\ gate \in Senders \cup {Nobody} /\ shmq \in 0 .. MaxShm /\ sq \in 0 .. MaxSock
    /\ plan \in Plans /\ said \subseteq {"frame", "local", "ctx", "closed", "poisoned", "eof", "io", "fill", "sent"}

\* WaitReadable and the destructive read share the socket's unsynchronised receive state: the
\* pump is never inside its peek while the receiver reads the socket.
OneSocketReader == ~(pp = "wait" /\ rp \in {"sock", "tear"})

\* This side's own close is never reported as a desync, not even by the operation whose abort
\* published a poison behind it: no operation answers a poison of a connection that closed.
CloseNeverPoisoned == "poisoned" \in said => term # "closing"

\* Where the socket's desync is what ends connections, all operations tell the same story: none
\* answers ErrClosed when another answered the poison.
AnswersAgree ==
    Faults \cap {"eof", "reset", "shm"} = {} => ~({"poisoned", "closed"} \subseteq said)

\* The receive context's one-shot cause is the transition that won: it reads as a close exactly
\* when this side's close ended the connection.
WakeMatchesOutcome == wake # "none" => (term # "open" /\ (wake = "closed" <=> term = "closing"))

\* Every frame that arrived is still queued, in the receiver's hands, or was handed over; one is
\* withheld only from a connection that failed.
FramesAccounted ==
    /\ Endless = 0 =>
        arrived = shmq + sq + taken + withheld + (IF rp \in {"got", "consume", "delivered"} \/ (rp = "sockEnd" /\ err = "none") THEN 1 ELSE 0)
    /\ withheld > 0 => (term = "failed" \/ poison = 1)

\* Close unmaps the region only when the pump has gone and no receive is inside it.
UnmapsLast == mapped = 0 => (pp = "done" /\ rp # "shm" /\ sock = "closed")

\* Neither channel starves: a ready socket is passed over for at most one turn, whatever the
\* shared-memory probe claims, and a ready ring for at most one turn of an always readable socket.
NeitherStarves == passed.shm <= 1 /\ passed.sock <= 1

\* Nothing parks on a connection that is over: once the transition is taken the reader is on its way
\* out and Close on its way to the unmap.  (Past the transition no step leads back, so a goroutine
\* that can always move arrives.)
EndsOnceOver ==
    term # "open" /\ (rp # "gone" \/ op \in {"sock", "shm", "stopped", "join", "unmap"}) => ENABLED Progress
=============================================================================
