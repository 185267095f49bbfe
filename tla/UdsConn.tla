------------------------------ MODULE UdsConn ------------------------------
(***************************************************************************)
(* One end of a UDSTransport: concurrent Sends under writeMu, the single   *)
(* reader, the owner's Close, and the mid-frame abort that poisons the     *)
(* connection, down to the syscalls on the descriptor.  A frame is a       *)
(* header unit and a body unit; a syscall moves one unit or none.          *)
(***************************************************************************)
EXTENDS Naturals, Sequences, SequencesExt

CONSTANTS
    Senders,
    Nobody,
    MaxSends,   \* bound: Sends per sender
    MaxFeed,    \* bound: units the peer sends
    Cancels     \* bound: contexts that end

Actors == Senders \cup {"reader", "owner"}
Units == 2

VARIABLES
    pc,         \* where each actor is
    started,    \* per actor: 1 once a unit of its frame has moved
    moved,      \* per actor: units of its frame moved
    res,        \* per actor: the answer of its last call
    ctx,        \* per actor: 1 when its context is done
    lock,       \* writeMu's holder
    closed,     \* t.closed
    closer,     \* the actor inside closeOnce, or Nobody
    once,       \* fatalOnce: "no", "running", "done"
    fd,         \* the descriptor number: "open", "shut", "free", or "other" when reused
    wire,       \* units written, by sender
    feed, peer, \* units the peer has queued for us; 1 while its end is open
    fed, sends, cancels,    \* bounded counts
    kind,       \* the inbound frame's kind, once its header is decoded
    owned       \* history: 1 once the owner has called Close

callVars == <<pc, started, moved, res>>
sockVars == <<lock, closed, closer, once, fd, wire>>
peerVars == <<feed, peer, fed>>
boundVars == <<ctx, sends, cancels>>
vars == <<callVars, sockVars, peerVars, boundVars, kind, owned>>

Init ==
    /\ pc = [a \in Actors |-> "idle"] /\ started = [a \in Actors |-> 0] /\ moved = [a \in Actors |-> 0]
    /\ res = [a \in Actors |-> "none"] /\ ctx = [a \in Actors |-> 0] /\ lock = Nobody /\ closed = 0 /\ closer = Nobody
    /\ once = "no" /\ fd = "open" /\ wire = <<>> /\ feed = 0 /\ peer = 1 /\ fed = 0
    /\ sends = [s \in Senders |-> 0] /\ cancels = 0 /\ kind = "none" /\ owned = 0

Go(a, to) == pc' = [pc EXCEPT ![a] = to]

Answer(a, with) == Go(a, "idle") /\ res' = [res EXCEPT ![a] = with]

\* the failure an actor carries into abortFrame
Fail(a, with) == Go(a, "abort") /\ res' = [res EXCEPT ![a] = with]

-----------------------------------------------------------------------------
(* Send.                                                                   *)

Send(s) ==
    /\ pc[s] = "idle" /\ sends[s] < MaxSends /\ lock = Nobody /\ lock' = s /\ Go(s, "check")
    /\ sends' = [sends EXCEPT ![s] = @ + 1]
    /\ started' = [started EXCEPT ![s] = 0] /\ moved' = [moved EXCEPT ![s] = 0] /\ res' = [res EXCEPT ![s] = "none"]
    /\ UNCHANGED <<closed, closer, once, fd, wire, peerVars, ctx, cancels, kind, owned>>

CheckWriteLate(s) ==
    /\ pc[s] = "check" /\ s \in Senders
    /\ \/ moved[s] = Units /\ ctx[s] = 0 /\ Answer(s, "ok") /\ lock' = Nobody
       \/ ctx[s] = 1 /\ Fail(s, "ctx") /\ UNCHANGED lock
       \/ moved[s] < Units /\ ctx[s] = 0 /\ closed = 1 /\ Fail(s, "closed") /\ UNCHANGED lock
       \/ moved[s] < Units /\ ctx[s] = 0 /\ closed = 0 /\ Go(s, "syscall") /\ UNCHANGED <<res, lock>>
    /\ UNCHANGED <<started, moved, closed, closer, once, fd, wire, peerVars, boundVars, kind, owned>>

\* writeFull, the top of its loop
CheckWrite(s) ==
    /\ pc[s] = "check" /\ s \in Senders
    /\ \/ moved[s] = Units /\ Answer(s, "ok") /\ lock' = Nobody
       \/ moved[s] < Units /\ ctx[s] = 1 /\ Fail(s, "ctx") /\ UNCHANGED lock
       \/ moved[s] < Units /\ ctx[s] = 0 /\ closed = 1 /\ Fail(s, "closed") /\ UNCHANGED lock
       \/ moved[s] < Units /\ ctx[s] = 0 /\ closed = 0 /\ Go(s, "syscall") /\ UNCHANGED <<res, lock>>
    /\ UNCHANGED <<started, moved, closed, closer, once, fd, wire, peerVars, boundVars, kind, owned>>

\* the write: a unit, a timeout, or an errno, answered after a look at closed
WriteSyscall(s) ==
    /\ pc[s] = "syscall" /\ s \in Senders
    /\ \/ /\ fd = "open" /\ peer = 1 /\ wire' = Append(wire, s) /\ moved' = [moved EXCEPT ![s] = @ + 1]
          /\ started' = [started EXCEPT ![s] = 1] /\ Go(s, "check") /\ UNCHANGED res
       \/ fd = "open" /\ peer = 1 /\ Go(s, "check") /\ UNCHANGED <<wire, moved, started, res>>
       \/ /\ fd = "other" /\ moved' = [moved EXCEPT ![s] = @ + 1] /\ started' = [started EXCEPT ![s] = 1]
          /\ Go(s, "check") /\ UNCHANGED <<wire, res>>
       \/ /\ fd # "open" \/ peer = 0
          /\ Fail(s, IF closed = 1 THEN "closed" ELSE "io") /\ UNCHANGED <<wire, moved, started>>
    /\ UNCHANGED <<lock, closed, closer, once, fd, peerVars, boundVars, kind, owned>>

-----------------------------------------------------------------------------
(* Recv and RecvReserving.                                                 *)

\* RecvReserving waits for readiness first, Recv goes straight to the header
Recv ==
    /\ pc["reader"] = "idle" /\ (Go("reader", "wait") \/ Go("reader", "check")) /\ kind' = "none"
    /\ started' = [started EXCEPT !["reader"] = 0] /\ moved' = [moved EXCEPT !["reader"] = 0]
    /\ res' = [res EXCEPT !["reader"] = "none"]
    /\ UNCHANGED <<sockVars, peerVars, boundVars, owned>>

\* WaitReadable: checks, then peeks, then looks at closed again
WaitReadable ==
    /\ pc["reader"] = "wait"
    /\ \/ ctx["reader"] = 1 /\ Answer("reader", "ctx")
       \/ ctx["reader"] = 0 /\ closed = 1 /\ Answer("reader", "closed")
       \/ ctx["reader"] = 0 /\ closed = 0 /\ Go("reader", "peek") /\ UNCHANGED <<res>>
    /\ UNCHANGED <<started, moved, sockVars, peerVars, boundVars, kind, owned>>

Peek ==
    /\ pc["reader"] = "peek"
    /\ \/ closed = 1 /\ Answer("reader", "closed")
       \/ closed = 0 /\ (feed > 0 \/ peer = 0) /\ Go("reader", "check") /\ UNCHANGED res
       \/ closed = 0 /\ feed = 0 /\ peer = 1 /\ Go("reader", "wait") /\ UNCHANGED res
    /\ UNCHANGED <<started, moved, sockVars, peerVars, boundVars, kind, owned>>

\* what the frame's remaining units decide
Whole(k) == CASE k = "message" -> "ok" [] k = "unknown" -> "skipped" [] OTHER -> "none"

\* fdReader.Read, the top of its loop; a budget that ran out ends the read like a deadline
CheckRead ==
    /\ pc["reader"] = "check"
    /\ \/ moved["reader"] = Units /\ Answer("reader", Whole(kind))
       \/ moved["reader"] < Units /\ kind = "refused" /\ Fail("reader", "protocol")
       \/ moved["reader"] < Units /\ kind # "refused" /\ closed = 1 /\ ctx["reader"] = 0 /\ Fail("reader", "closed")
       \/ moved["reader"] < Units /\ kind # "refused" /\ ctx["reader"] = 1 /\ Fail("reader", "ctx")
       \/ moved["reader"] < Units /\ kind # "refused" /\ closed = 0 /\ ctx["reader"] = 0 /\ Go("reader", "syscall") /\ UNCHANGED res
    /\ UNCHANGED <<started, moved, sockVars, peerVars, boundVars, kind, owned>>

\* the stage's budget is checked after ctx and closed
BudgetExpires ==
    /\ pc["reader"] = "check" /\ moved["reader"] < Units /\ kind # "refused" /\ ctx["reader"] = 0 /\ closed = 0
    /\ Fail("reader", "ctx")
    /\ UNCHANGED <<started, moved, sockVars, peerVars, boundVars, kind, owned>>

\* the read: a unit, a timeout, EOF, or an errno
ReadSyscall ==
    /\ pc["reader"] = "syscall"
    /\ \/ /\ fd = "open" /\ feed > 0 /\ feed' = feed - 1 /\ moved' = [moved EXCEPT !["reader"] = @ + 1]
          /\ started' = [started EXCEPT !["reader"] = 1] /\ Go("reader", "check") /\ UNCHANGED res
          /\ kind' \in (IF moved["reader"] = 0 THEN {"message", "unknown", "refused"} ELSE {kind})
       \/ fd = "open" /\ feed = 0 /\ peer = 1 /\ Go("reader", "check") /\ UNCHANGED <<feed, moved, started, res, kind>>
       \/ /\ (fd = "open" /\ feed = 0 /\ peer = 0) \/ fd = "shut"
          /\ Fail("reader", "eof") /\ UNCHANGED <<feed, moved, started, kind>>
       \/ /\ fd \in {"free", "other"}
          /\ Fail("reader", IF closed = 1 THEN "closed" ELSE "io") /\ UNCHANGED <<feed, moved, started, kind>>
    /\ UNCHANGED <<sockVars, peer, fed, boundVars, owned>>

-----------------------------------------------------------------------------
(* abortFrame and Close.                                                   *)

Leave(a) == lock' = IF lock = a THEN Nobody ELSE lock

\* nothing moved: the error stands; something did: publish the poison, then close
Abort(a) ==
    /\ pc[a] = "abort"
    /\ \/ closed = 1 /\ Answer(a, "closed") /\ Leave(a)
       \/ closed = 0 /\ started[a] = 0 /\ Answer(a, res[a]) /\ Leave(a)
       \/ closed = 0 /\ started[a] = 1 /\ Go(a, "observe") /\ res' = [res EXCEPT ![a] = "poisoned"] /\ UNCHANGED lock
    /\ UNCHANGED <<started, moved, closed, closer, once, fd, wire, peerVars, boundVars, kind, owned>>

\* fatalOnce.Do: one actor runs the observer, the others wait for it
Observe(a) ==
    /\ pc[a] = "observe"
    /\ \/ once = "no" /\ once' = "running" /\ Go(a, "observing")
       \/ once = "done" /\ Go(a, "close") /\ UNCHANGED once
    /\ UNCHANGED <<res, started, moved, lock, closed, closer, fd, wire, peerVars, boundVars, kind, owned>>

Observed(a) ==
    /\ pc[a] = "observing" /\ once' = "done" /\ Go(a, "close")
    /\ UNCHANGED <<res, started, moved, lock, closed, closer, fd, wire, peerVars, boundVars, kind, owned>>

OwnerCloses ==
    /\ pc["owner"] = "idle" /\ owned = 0 /\ owned' = 1 /\ Go("owner", "close")
    /\ UNCHANGED <<started, moved, res, sockVars, peerVars, boundVars, kind>>

\* closeOnce.Do, step by step
Close(a) ==
    /\ \/ pc[a] = "close" /\ closed = 0 /\ closer = Nobody /\ closer' = a /\ closed' = 1 /\ Go(a, "shutdown") /\ UNCHANGED <<fd, res, lock>>
       \/ pc[a] = "close" /\ closed = 1 /\ closer = Nobody /\ Answer(a, res[a]) /\ Leave(a) /\ UNCHANGED <<closed, closer, fd>>
       \/ pc[a] = "shutdown" /\ fd' = "shut" /\ Go(a, "release") /\ UNCHANGED <<closed, closer, res, lock>>
       \/ pc[a] = "release" /\ fd' = "free" /\ closer' = Nobody /\ Answer(a, res[a]) /\ Leave(a) /\ UNCHANGED closed
    /\ UNCHANGED <<started, moved, once, wire, peerVars, boundVars, kind, owned>>

-----------------------------------------------------------------------------
(* The environment.                                                        *)

Feed ==
    /\ peer = 1 /\ fed < MaxFeed /\ fed' = fed + 1 /\ feed' = feed + 1
    /\ UNCHANGED <<callVars, sockVars, peer, boundVars, kind, owned>>

PeerCloses ==
    /\ peer = 1 /\ peer' = 0
    /\ UNCHANGED <<callVars, sockVars, feed, fed, boundVars, kind, owned>>

Cancel(a) ==
    /\ a # "owner" /\ ctx[a] = 0 /\ cancels < Cancels /\ cancels' = cancels + 1 /\ ctx' = [ctx EXCEPT ![a] = 1]
    /\ UNCHANGED <<callVars, sockVars, peerVars, sends, kind, owned>>

\* the process opens another file, which gets the lowest free number
Reuse ==
    /\ fd = "free" /\ fd' = "other"
    /\ UNCHANGED <<callVars, lock, closed, closer, once, wire, peerVars, boundVars, kind, owned>>

ReaderStep == Recv \/ WaitReadable \/ Peek \/ CheckRead \/ ReadSyscall
AbortStep(a) == Abort(a) \/ Observe(a) \/ Observed(a) \/ Close(a)

Next ==
    \/ \E s \in Senders : Send(s) \/ CheckWrite(s) \/ WriteSyscall(s)
    \/ ReaderStep \/ BudgetExpires \/ \E a \in Actors : AbortStep(a) \/ Cancel(a)
    \/ OwnerCloses \/ Feed \/ PeerCloses \/ Reuse

Spec == Init /\ [][Next]_vars

-----------------------------------------------------------------------------
(* Properties.                                                             *)

\* Every variable stays in its range, and a frame moves at most its own units.
TypeOK ==
    /\ \A a \in Actors :
        /\ pc[a] \in {"idle", "wait", "peek", "check", "syscall", "abort", "observe", "observing", "close", "shutdown", "release"}
        /\ moved[a] \in 0 .. Units /\ started[a] = (IF moved[a] > 0 THEN 1 ELSE 0)
        /\ res[a] \in {"none", "ok", "skipped", "ctx", "closed", "io", "eof", "protocol", "poisoned"}
    /\ lock \in Senders \cup {Nobody} /\ closer \in Actors \cup {Nobody} /\ once \in {"no", "running", "done"}
    /\ fd \in {"open", "shut", "free", "other"} /\ feed \in 0 .. MaxFeed /\ {closed, peer, owned} \subseteq {0, 1}

\* Frames never interleave on the wire, and a torn frame is the last thing ever written:
\* the bytes are whole frames followed by at most one prefix.
WireFramed ==
    \A i \in 1 .. Len(wire) : i % Units = 0 => \A j \in i - Units + 1 .. i : wire[j] = wire[i]

\* A Send that failed has not put its whole frame on the wire, so a failure that is not a
\* poison is definitively negative (AcceptanceUnknown).
FailedNeverWhole ==
    \A s \in Senders : pc[s] = "idle" /\ res[s] \notin {"none", "ok"} => moved[s] < Units

\* A close nobody asked for is never seen before its cause: when an operation is answered
\* ErrClosed and the owner has not closed, the poison has been published.
PoisonBeforeClose == (closed = 1 /\ owned = 0) => once = "done"

\* This side's own close is never reported as the peer's: EOF means the peer has closed.
EofMeansPeer == \A a \in Actors : pc[a] = "idle" /\ res[a] = "eof" => peer = 0

=============================================================================
