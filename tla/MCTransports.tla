----------------------------- MODULE MCTransports ---------------------------
(* Instances of the socket transport, of the burst transport that pairs a    *)
(* socket with shared memory, of two parts of the shared-memory transport,   *)
(* the life of a region and its condemnation, and of the exchanges that run  *)
(* over all three.  A behaviour exercises one of the five, so they share one *)
(* set of variables: each instance says which of Burst's stand for its own,  *)
(* and those it has no use for stay 0.                                       *)
EXTENDS Burst, Integers

CONSTANTS s1, s2

VARIABLE active     \* the component this behaviour exercises

Quiet == [senders |-> {s1}, shm |-> 1, sock |-> 1, endless |-> 0, cancels |-> 0, faults |-> {}]

\* One frame on each channel and a send with a fault of each underside; a canceled context over
\* either channel alone; two senders over a socket that desynchronises; a peer that never runs dry.
MCPlans ==
    {[Quiet EXCEPT !.faults = {"eof"}], [Quiet EXCEPT !.faults = {"torn"}],
     [Quiet EXCEPT !.cancels = 1, !.shm = 0, !.faults = {"torn"}],
     [Quiet EXCEPT !.cancels = 1, !.sock = 0, !.faults = {"shm"}],
     [Quiet EXCEPT !.faults = {"reset", "nonconforming", "malformed", "shm"}],
     [Quiet EXCEPT !.senders = {s1, s2}, !.shm = 0, !.faults = {"torn", "nonconforming", "malformed"}],
     [Quiet EXCEPT !.senders = {}, !.endless = 1, !.faults = {"reset"}]}

U == INSTANCE UdsConn WITH MaxSends <- 1, MaxFeed <- 2, Cancels <- 1,
        pc <- plan, started <- term, moved <- class, res <- poison, ctx <- wake, lock <- recv, closed <- pump,
        closer <- last, once <- contested, fd <- forfeit, wire <- tok, feed <- fired, peer <- pp, fed <- timed,
        sends <- sig, cancels <- rp, kind <- ch, owned <- err
-----------------------------------------------------------------------------
(* Regions, with a page of 32 bytes, a header of 28 and entries of 1.        *)

slabs(size, count) == [SlabSize |-> size, SlabCount |-> count]
input(c, r, hp, ph) ==
    [Generation |-> 1, RingCapacity |-> c, LifecycleReserve |-> r, classes |-> [hp |-> hp, ph |-> ph]]
Plain ==
    [in |-> input(4, 1, <<slabs(2, 3), slabs(8, 2)>>, <<slabs(8, 5)>>),
     cfg |-> [MaxInflight |-> 2, MaxPayload |-> 0, QueueDepth |-> 1, Checksum |-> FALSE],
     strict |-> TRUE, from |-> "host", fails |-> 1, writes |-> 1]

\* Class tables that are fine and ones that break each rule: empty, misaligned, not ascending, no
\* slabs, no large class, an arena above the ceiling, more entries than the page holds.
Tables ==
    {<<>>, <<slabs(8, 2)>>, <<slabs(2, 3), slabs(8, 2)>>, <<slabs(4, 1), slabs(10, 3)>>,
     <<slabs(8, 2), slabs(4, 1)>>, <<slabs(3, 2), slabs(8, 1)>>, <<slabs(2, 1), slabs(4, 1)>>,
     <<slabs(8, 13)>>, <<slabs(2, 0), slabs(8, 1)>>, <<slabs(2, 2), slabs(4, 2), slabs(8, 9)>>}
RegionPlans ==
    {Plain, [Plain EXCEPT !.cfg.Checksum = TRUE, !.cfg.MaxPayload = 7, !.fails = 0, !.writes = 2],
     [Plain EXCEPT !.cfg.QueueDepth = 0]}
    \union {[Plain EXCEPT !.from = f, !.writes = 0] : f \in {"version", "size", "unsealed"}}
    \union {[Plain EXCEPT !.in = input(c, r, hp, ph), !.strict = strict, !.fails = 0, !.writes = 0] :
               c \in {1, 3, 4, 8, 16}, r \in {0, 1, 4}, hp \in Tables, ph \in Tables, strict \in BOOLEAN}

G == INSTANCE Region WITH Plans <- RegionPlans, MaxFD <- 3, PageSize <- 32, CacheLine <- 2,
        DescriptorSize <- 2, HeaderSize <- 28, EntrySize <- 1, MinRing <- 2, MaxRing <- 8,
        MinLargestSlab <- 8, MaxArenaBytes <- 96, MaxRegionSize <- 224, TrailerLen <- 1,
        obj <- term, table <- class, mem <- poison, fails <- wake, writes <- recv, counted <- pump, other <- last

-----------------------------------------------------------------------------
(* Condemnation, with stamps of two bits and thresholds of two.              *)

Default == [grace |-> 0, window |-> 0, rate |-> 0, run |-> 0]
RecoveryCases ==
    \* one end through three receptions across the grace window and two rate windows
    {[gen |-> 4, cfg |-> [host |-> Default, plugin |-> Default], fed |-> [host |-> 3, plugin |-> 0],
      stops |-> 0, ticks |-> 3],
     \* both ends receiving, one with its own-fault escalation disabled
     [gen |-> 4, cfg |-> [host |-> [Default EXCEPT !.run = -1], plugin |-> Default],
      fed |-> [host |-> 2, plugin |-> 1], stops |-> 0, ticks |-> 1],
     \* both ends receiving while the host shuts the region down
     [gen |-> 5, cfg |-> [host |-> Default, plugin |-> Default], fed |-> [host |-> 1, plugin |-> 1],
      stops |-> 1, ticks |-> 1]}

R == INSTANCE Recovery WITH Cases <- RecoveryCases,
        Stamps <- 4, DefaultGrace <- 1, DefaultWindow <- 1, DefaultRate <- 2, DefaultRun <- 2,
        case <- plan, now <- term, rx <- class, shutdown <- wake, efd <- recv, stop <- pump, hist <- last

-----------------------------------------------------------------------------
(* Exchanges.                                                                *)

Call == [kind |-> "unary", tr |-> "uds", fill |-> FALSE, factory |-> FALSE, deadline |-> FALSE, continues |-> TRUE,
         world |-> {"poison", "failure", "stop", "cancel"}]
InPlace == [Call EXCEPT !.tr = "shm", !.fill = TRUE, !.factory = TRUE]
Stream == [Call EXCEPT !.kind = "stream"]

\* Calls and streams over each transport, with what may go wrong around them; calls encoded in place
\* and not, with and without a deadline, and both panic policies.
Exchanges ==
    {Call, InPlace, [InPlace EXCEPT !.tr = "burst", !.continues = FALSE, !.world = @ \ {"cancel"}],
     [Call EXCEPT !.tr = "shm", !.continues = FALSE],
     [Call EXCEPT !.deadline = TRUE, !.world = {"poison"}], [InPlace EXCEPT !.deadline = TRUE, !.world = {}],
     Stream, [Stream EXCEPT !.tr = "shm", !.continues = FALSE], [Stream EXCEPT !.tr = "burst"]}

E == INSTANCE ErrorFlow WITH Setups <- Exchanges,
        setup <- plan, call <- term, ctx <- class, entry <- poison, outcome <- wake, said <- recv, request <- pump,
        plug <- last, reply <- contested, conn <- forfeit, reader <- tok, lost <- fired

-----------------------------------------------------------------------------
\* The variables past the first 8 (Region, Recovery), 12 (ErrorFlow) and 18 (UdsConn).
past8 == <<contested, forfeit, tok, fired>>
past12 == <<pp, timed, sig, rp, ch, err>>
past18 == <<rctx, sp, serr, sctx, sends, gate, op, shmq, sq, sock, peer, shmStopped, mapped, arrived, taken,
            withheld, said, passed>>
Unused8 == contested = 0 /\ forfeit = 0 /\ tok = 0 /\ fired = 0
Unused12 == pp = 0 /\ timed = 0 /\ sig = 0 /\ rp = 0 /\ ch = 0 /\ err = 0
Unused18 ==
    /\ rctx = 0 /\ sp = 0 /\ serr = 0 /\ sctx = 0 /\ sends = 0 /\ gate = 0 /\ op = 0 /\ shmq = 0 /\ sq = 0
    /\ sock = 0 /\ peer = 0 /\ shmStopped = 0 /\ mapped = 0 /\ arrived = 0 /\ taken = 0 /\ withheld = 0
    /\ said = 0 /\ passed = 0

MCInit ==
    \/ active = "burst" /\ Init
    \/ active = "uds" /\ U!Init /\ Unused18
    \/ active = "region" /\ G!Init /\ Unused8 /\ Unused12 /\ Unused18
    \/ active = "recovery" /\ R!Init /\ Unused8 /\ Unused12 /\ Unused18
    \/ active = "errors" /\ E!Init /\ Unused12 /\ Unused18
MCNext ==
    /\ \/ active = "burst" /\ Next
       \/ active = "uds" /\ U!Next /\ UNCHANGED past18
       \/ active = "region" /\ G!Next /\ UNCHANGED <<past8, past12, past18>>
       \/ active = "recovery" /\ R!Next /\ UNCHANGED <<past8, past12, past18>>
       \/ active = "errors" /\ E!Next /\ UNCHANGED <<past12, past18>>
    /\ UNCHANGED active
MCSpec == MCInit /\ [][MCNext]_<<vars, active>>

\* One story is told of how the connection ended: the wake, the outcome and every operation's
\* answer agree, and this side's own close is never called a poison (operationErr, onFatal).
EndingAgreed == active = "burst" => CloseNeverPoisoned /\ AnswersAgree /\ WakeMatchesOutcome
\* No frame is lost, read by two, or read from an unmapped region (CommitDelivery, the pump, Close).
FramesSafe == active = "burst" => TypeOK /\ FramesAccounted /\ OneSocketReader /\ UnmapsLast
\* Neither channel starves the other, and nothing stays parked on a connection that is over
\* (chooseChannelLocked, publishTerminal).
ReceiverMoves == active = "burst" => NeitherStarves /\ EndsOnceOver

\* Frames never interleave on the wire, a torn or failed one is never whole, and the story of an
\* ending is true: a tear's poison is seen before its close, and EOF is the peer's (writeFull,
\* abortFrame, fatalOnce).
WireSafe ==
    active = "uds" =>
        U!TypeOK /\ U!WireFramed /\ U!FailedNeverWhole /\ U!PoisonBeforeClose /\ U!EofMeansPeer

\* A region is what both ends take it to be, from its derivation to its last unmapping (Region).
RegionSound == active = "region" => G!RegionSound
\* A region is condemned exactly when a history of receptions justifies it, and both ends learn of it
\* (Recovery).
RecoverySound == active = "recovery" => R!RecoverySound
\* The error an exchange ends with is safe to retry on when it says so, is true and comes (ErrorFlow).
ErrorsHonest == active = "errors" => E!ErrorsHonest
=============================================================================
