------------------------------ MODULE MCReload ------------------------------
(* Instances of the reload protocol, of the drain predicate behind the       *)
(* plugin's DrainAck, and of the wedge verdict the same heartbeat loop       *)
(* reaches.  A behaviour exercises one of the three, so they share one set   *)
(* of variables: each instance says which of ReloadProtocol's stand for its  *)
(* own, and those it has no use for never change.                            *)
EXTENDS ReloadProtocol

VARIABLE active     \* the component this behaviour exercises

AllFaults == {"cancel", "timeout", "missDrain", "crash", "refuse"}

\* Two reloads in a row with every fault; one reload in which rollback must succeed; and, for
\* ReloadCancel, one whose caller cancels.
MCPlans ==
    {[reloads |-> 2, ticks |-> 3, work |-> 3, faults |-> AllFaults],
     [reloads |-> 1, ticks |-> 1, work |-> 2, faults |-> {"missDrain", "crash", "refuse"}]}
CancelPlan == {[reloads |-> 1, ticks |-> 1, work |-> 1, faults |-> {"cancel"}]}

\* Two streams and two unary calls under the default panic policy; fewer when panics are survived.
Sessions ==
    {[kinds |-> <<"open", "unary", "open", "other", "unary", "other">>, continue |-> FALSE],
     [kinds |-> <<"open", "unary", "other", "open">>, continue |-> TRUE]}

Steady ==
    [cadence |-> 1, slack |-> 0, window |-> 1, beats |-> 3, in |-> 1, out |-> 0, calls |-> 0, reads |-> 0,
     lost |-> 0, reloads |-> 0]

\* The transport wedge, with an oversize frame and a lost beat; the dispatch wedge, with a call
\* and a stream frame; and a reload.
Courses ==
    {[Steady EXCEPT !.cadence = 3, !.slack = 1, !.window = 3, !.beats = 4, !.reads = 1, !.lost = 1],
     [Steady EXCEPT !.out = 1, !.calls = 1],
     [Steady EXCEPT !.reloads = 1]}

D == INSTANCE DrainQuiesce WITH
        session <- plan, sent <- cause, read <- req, rpc <- cancelled, pending <- cur, obliged <- succ,
        replied <- next, handler <- route, gate <- open, taint <- span, signal <- queued, wake <- pc, qpc <- frozen
W == INSTANCE WedgeWatch WITH
        course <- plan, inbound <- cause, reading <- req, call <- cancelled, hung <- cur, consumed <- succ,
        produced <- next, phase <- route, tick <- open, age <- span, loading <- queued, seq <- pc, msg <- frozen,
        run <- ticking, chan <- ticks, prev <- state, tracker <- saved, verdict <- snap, seen <- applied,
        lost <- toP, reloads <- toH

\* The variables that only ReloadProtocol uses, and those that DrainQuiesce does not use either.
past21 == <<hpc, dl>>
past13 == <<ticking, ticks, state, saved, snap, applied, toP, toH>>
Unused21 == hpc = "loop" /\ dl = "live"
Unused13 ==
    /\ ticking = 0 /\ ticks = 0 /\ state = 0 /\ saved = 0 /\ snap = 0 /\ applied = 0 /\ toP = 0 /\ toH = 0

MCInit ==
    \/ active = "reload" /\ Init
    \/ active = "drain" /\ D!Init /\ Unused13 /\ Unused21
    \/ active = "wedge" /\ W!Init /\ Unused21
MCNext ==
    /\ \/ active = "reload" /\ Next
       \/ active = "drain" /\ D!Next /\ UNCHANGED <<past13, past21>>
       \/ active = "wedge" /\ W!Next /\ UNCHANGED past21
    /\ UNCHANGED active
MCSpec == MCInit /\ [][MCNext]_<<vars, active>>

\* The state survives the reload: what the gate admits reaches an unfrozen instance that holds
\* every update, and the retired one changes nothing more (closeAdmission, drain, freeze, promote).
UpdatesSurvive == active = "reload" => TypeOK /\ AdmitsOnlyUnfrozen /\ NoUpdateLost /\ RetiredStaysQuiet

\* Whatever is cancelled, refused, late or dead, the transaction ends and no instance is left
\* frozen; a rollback nobody disturbed resumes the old one (Transaction.Run, rollback).
ReloadSettles == active = "reload" => RollbackResumes /\ ReloadEnds /\ NoneStaysFrozen

\* A reported quiescence is real: every call the host sent is finished and no handler of the
\* session has panicked (quiescedOnce's loads and their order); none begins after a panic; and a
\* started drain of an untainted session is never left unwoken (the cap-1 wake channel).
QuiescenceHonest ==
    active = "drain" =>
        /\ D!TypeOK /\ D!QuiescedMeansAnswered /\ D!NoDrainAfterPanic /\ D!NoHandlerAfterTaint
        /\ D!DrainCompletes

\* A wedge verdict rests on a whole window of sender time in which the accused counter stood
\* still and every beat built showed it, and a hung consumer gets one (wedgeTracker.observe).
VerdictExact ==
    active = "wedge" => W!TypeOK /\ W!VerdictProven /\ W!VerdictContinuous /\ W!HangCaught
=============================================================================
