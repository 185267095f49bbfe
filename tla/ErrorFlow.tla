----------------------------- MODULE ErrorFlow -----------------------------
(***************************************************************************)
(* What an exchange ends with.  One unary call or one stream is taken from *)
(* the caller's send through the plugin's serve loop and handler and back  *)
(* to the error the caller holds, with a failure possible at every step:   *)
(* the transport's own refusals, a frame the receiving side cannot take,   *)
(* a request that does not resolve or decode, a handler that fails or      *)
(* panics, a reply that does not encode or fit, and a data plane that dies.*)
(*                                                                         *)
(* An error is the set of sentinels errors.Is finds in it: {} is nil, and  *)
(* wrapping is union.  Names that begin with a lower-case letter are       *)
(* internal to the runtime and its transports, the others are public.      *)
(* The interleavings of the call table itself are UnaryCall's, those of    *)
(* the stream tables StreamLife's.                                         *)
(***************************************************************************)
EXTENDS Naturals, FiniteSets

CONSTANT Setups     \* the exchanges: see Setup
VARIABLES
    setup,      \* the exchange this behaviour makes
    call,       \* the caller: idle, publish, send, wait, done
    ctx,        \* its context: live, canceled, expired
    entry,      \* its call table or stream table entry: none, submitted, published, done
    outcome,    \* the error the entry's terminal transition recorded
    said,       \* the error the caller was given; {"pending"} until then
    request,    \* the frame towards the plugin: none, sent
    plug,       \* the plugin: its serve loop, what it did, what it owes
    reply,      \* the frame towards the host
    conn,       \* the data plane: up, poisoned, failed, eof, closed
    reader,     \* the host's read loop: reading, exited
    lost        \* notifyConnLost was called
vars == <<setup, call, ctx, entry, outcome, said, request, plug, reply, conn, reader, lost>>

Unary == setup.kind = "unary"
\* kind; transport (uds, shm or burst); whether requests and replies are encoded in place; whether the
\* caller passed a response factory or a context deadline; whether serving goes on after a panic; which
\* failures the world may add.
Setup ==
    [kind : {"unary", "stream"}, tr : {"uds", "shm", "burst"}, fill : BOOLEAN, factory : BOOLEAN,
     deadline : BOOLEAN, continues : BOOLEAN, world : SUBSET {"poison", "failure", "stop", "cancel"}]

-----------------------------------------------------------------------------
(* The wire's status codes.                                                *)

AppCodes == {"NotFound", "Internal"}            \* styx.Code: applications choose these
Reserved ==                                     \* StatusCodeReservedMin and up: the framework's
    {"rServiceNotFound", "rMethodNotFound", "rInternal", "rHandlerPanic", "rRequestDeclined",
     "rStreamCanceled", "rStreamDeadline", "rStreamIncompatible", "rStreamBackpressure"}

NoReply == [kind |-> "none"]
Response == [kind |-> "resp"]
statusFrame(code) == [kind |-> "err", code |-> code]
Frames == {NoReply, Response} \cup {statusFrame(c) : c \in AppCodes \cup Reserved}

\* An error a handler returned, as it goes on the wire.  A Status whose code is the framework's is
\* clamped; an error that is no Status, or one whose details do not marshal, is CodeInternal.
statusFromHandlerErrUnclamped(err) == IF "Status" \in err THEN err \ {"Status"} ELSE {"Internal"}
statusFromHandlerErr(err) ==
    IF "Status" \in err /\ "badDetail" \notin err
    THEN {IF c \in Reserved THEN "rInternal" ELSE c : c \in err \ {"Status"}}
    ELSE {"Internal"}

\* The public error of a status the plugin sent.
statusFromRPC(code) ==
    CASE code = "rServiceNotFound" -> {"ServiceNotFound"}
      [] code = "rMethodNotFound"  -> {"MethodNotFound"}
      [] code = "rInternal"        -> {"Status", "Internal"}
      [] code = "rRequestDeclined" -> {"RequestDeclined"}
      [] code = "rHandlerPanic"    -> {"PluginPanic"}
      [] OTHER                     -> {"Status", code}
-----------------------------------------------------------------------------
(* The public taxonomy.                                                    *)

IsRetryable(err) ==
    /\ "OutcomeUnknown" \notin err
    /\ err \cap {"PluginUnavailable", "Drained", "Backpressure", "RequestDeclined"} # {}

isContextErr(err) == err \cap {"ctxCanceled", "ctxDeadline"} # {}
translateCtxErr(err) == IF "ctxDeadline" \in err THEN {"DeadlineExceeded"} ELSE {"Canceled"}
ctxErr == IF ctx = "expired" THEN {"ctxDeadline"} ELSE {"ctxCanceled"}

\* The Send errors that prove the frame never reached the peer, and the Recv errors confined to a frame.
NeverPublished(err) == err \cap {"tUnimplementedKind", "tPayloadTooLarge", "tBackpressure"} # {}
IsFrameLocalRecvErr(err) == err \cap {"tMalformedStatus", "tUnimplementedKind", "tConsumeFault"} # {}
\* AcceptanceUnknown of the two transports; burst reports either's.
acceptanceUnknown(err) ==
    \/ setup.tr # "shm" /\ "tPoisoned" \in err
    \/ setup.tr # "uds" /\ isContextErr(err)

\* The error of a unary call's Result.
terminalError(err) ==
    CASE "rCanceledLocally" \in err   -> {"Canceled"}
      [] "rDeadlineExceeded" \in err  -> {"DeadlineExceeded"}
      [] "rStatus" \in err            -> UNION {statusFromRPC(c) : c \in err \ {"rStatus"}}
      [] OTHER                        -> err
terminalConnErr(err) == err \cup {"OutcomeUnknown"}

\* A send failure whose request was provably not published.
translateSendFailure(err) ==
    CASE isContextErr(err)            -> translateCtxErr(err)
      [] "tPayloadFillFailed" \in err -> err
      [] "tBackpressure" \in err      -> err \cup {"Backpressure"}
      [] "tPayloadTooLarge" \in err   -> err \cup {"PayloadTooLarge"}
      [] OTHER                        -> err
translateStreamSendErr(err) ==
    CASE "tBackpressure" \in err      -> {"Backpressure"}
      [] "tPayloadTooLarge" \in err   -> err \cup {"PayloadTooLarge"}
      [] isContextErr(err)            -> translateCtxErr(err)
      [] OTHER                        -> err \cup {"PluginUnavailable"}

\* A stream's error, whichever operation surfaces it.
StreamError(err) ==
    CASE err = {}                          -> {}
      [] "rCanceledLocally" \in err        -> IF err = {"rCanceledLocally"} THEN {"Canceled"} ELSE err \cup {"Canceled"}
      [] "rDeadlineExceeded" \in err       -> {"DeadlineExceeded"}
      [] "rStreamTableClosed" \in err      -> {"PluginUnavailable"}
      [] "rSendClosed" \in err             -> {"StreamAlreadyClosed"}
      [] "tPayloadTooLarge" \in err        -> {"PayloadTooLarge"}
      [] "tClosed" \in err                 -> err \cup {"OutcomeUnknown"}
      [] isContextErr(err)                 -> IF "ctxCanceled" \in err THEN {"Canceled"} ELSE {"DeadlineExceeded"}
      [] err = {"rStatus", "rStreamIncompatible"} -> {"Incompatible"}
      [] err = {"rStatus", "rStreamBackpressure"} -> {"Backpressure"}
      [] err = {"rStatus", "rStreamCanceled"}     -> {"Canceled"}
      [] err = {"rStatus", "rStreamDeadline"}     -> {"DeadlineExceeded"}
      [] "rStatus" \in err                 -> UNION {statusFromRPC(c) : c \in err \ {"rStatus"}}
      [] OTHER                             -> err
\* A stream whose end came before OpenStream returned.
translateStreamOutcomeErr(err) ==
    CASE err = {"rDeadlineExceeded"} -> {"DeadlineExceeded"}
      [] err = {"rCanceledLocally"}  -> {"Canceled"}
      [] OTHER                       -> StreamError(err)
translateStreamOpenErr(err) == IF err = "atCapacity" THEN {"Backpressure"} ELSE {"PluginUnavailable"}
streamOpenRejectCode(err) == IF err = "atCapacity" THEN "rStreamBackpressure" ELSE "rStreamIncompatible"
-----------------------------------------------------------------------------
(* The caller.                                                             *)

Init ==
    /\ setup \in Setups /\ call = "idle" /\ ctx = "live" /\ entry = "none" /\ outcome = {} /\ said = {"pending"}
    /\ request = "none" /\ reply = NoReply /\ conn = "up" /\ reader = "reading" /\ lost = FALSE
    /\ plug = [loop |-> "recv", did |-> "nothing", code |-> "none", out |-> NoReply, stream |-> "none",
               owes |-> FALSE, tainted |-> FALSE, oversize |-> FALSE, exited |-> FALSE]

callVars == <<setup, ctx, request, plug, reply, conn, reader, lost>>
tableVars == <<entry, outcome>>

\* The table's terminal transition: the first one from a live state wins.
Terminate(err) ==
    IF entry \in {"submitted", "published"} THEN entry' = "done" /\ outcome' = err ELSE UNCHANGED tableVars
\* FailAll: one error for an entry whose request may have been sent, another for one that was not.
FailAll(dispatched, notDispatched) == Terminate(IF entry = "published" THEN dispatched ELSE notDispatched)
Return(err) == said' = err /\ call' = "done"

\* invokeCore and openStreamByID up to a fresh entry: the routing cleared, admission closed by a reload, a
\* context that has ended, and for a call marshaled beforehand a failed marshal; for a stream its limit
\* reached, or a table closed by the end of the read loop.
refused ==
    (IF conn = "closed" THEN {{"PluginUnavailable"}} ELSE {}) \cup {{"Drained"}}
    \cup (IF ctx # "live" THEN {translateCtxErr(ctxErr)} ELSE {})
    \cup (IF Unary /\ ~setup.fill THEN {{"marshal"}} ELSE {})
    \cup (IF Unary THEN {} ELSE {translateStreamOpenErr(e) : e \in {"atCapacity"} \cup (IF reader = "exited" THEN {"closed"} ELSE {})})
Submit ==
    /\ call = "idle"
    /\ \/ conn # "closed" /\ ctx = "live" /\ entry' = "submitted" /\ call' = "publish" /\ UNCHANGED <<outcome, said>>
       \/ \E err \in refused : Return(err) /\ UNCHANGED tableVars
    /\ UNCHANGED callVars
Publish ==
    /\ call = "publish"
    /\ \/ entry = "submitted" /\ entry' = "published" /\ call' = "send"
       \/ entry = "done" /\ call' = "wait" /\ UNCHANGED entry
    /\ UNCHANGED <<callVars, outcome, said>>

\* The transports' answers: nil and an accepted frame, or an error and, but for a context that ended
\* over SendReporting's wait, the certainty that the peer never sees the frame (WriterQueue, UdsConn).
\* No production writer runs in reject mode, so none reports back-pressure.
connErr == CASE conn = "poisoned" -> {"tPoisoned"} [] conn = "closed" -> {"tClosed"} [] OTHER -> {"tIO"}
refusals ==
    {{"tPayloadTooLarge"}}
    \cup (IF setup.fill /\ Unary THEN {{"tPayloadFillFailed"}} ELSE {})
    \cup (IF ctx # "live" /\ (setup.fill \/ ~Unary) THEN {ctxErr} ELSE {})
Sends ==
    IF conn # "up" THEN {[err |-> connErr, lands |-> FALSE]}
    ELSE {[err |-> {}, lands |-> TRUE]} \cup {[err |-> e, lands |-> FALSE] : e \in refusals}
         \cup (IF ctx # "live" /\ ~Unary /\ setup.tr # "uds" THEN {[err |-> ctxErr, lands |-> TRUE]} ELSE {})
lands(o) == request' = IF o.lands THEN "sent" ELSE request

\* sendRequest: what proves the request unpublished ends the call here; every other failure leaves the
\* outcome unknown and the caller takes it from the table.
SendRequest ==
    /\ call = "send" /\ Unary
    /\ \E o \in Sends :
          /\ lands(o)
          /\ \/ o.err = {} /\ call' = "wait" /\ UNCHANGED <<tableVars, said>>
             \/ /\ NeverPublished(o.err) \/ (setup.fill /\ (isContextErr(o.err) \/ "tPayloadFillFailed" \in o.err))
                /\ Terminate(o.err) /\ Return(translateSendFailure(o.err))
             \/ /\ o.err # {} /\ ~NeverPublished(o.err) /\ ~isContextErr(o.err) /\ "tPayloadFillFailed" \notin o.err
                /\ Terminate(o.err \cup {"OutcomeUnknown"}) /\ call' = "wait" /\ UNCHANGED said
    /\ UNCHANGED <<setup, ctx, plug, reply, conn, reader, lost>>

\* sendStreamOpen and resolveOpenSendFailure: a poison fails the connection, an unknown acceptance ends the
\* stream as its context did, anything else proves the OPEN unsent and discards the stream.
SendOpen ==
    /\ call = "send" /\ ~Unary
    /\ \E o \in Sends :
          /\ lands(o)
          /\ \/ o.err = {} /\ call' = "wait" /\ UNCHANGED <<tableVars, said, lost>>
             \/ "tPoisoned" \in o.err /\ lost' = TRUE /\ Terminate({"Poisoned"}) /\ Return({"Poisoned"})
             \/ /\ o.err # {} /\ "tPoisoned" \notin o.err /\ acceptanceUnknown(o.err)
                /\ Terminate(IF "ctxDeadline" \in o.err THEN {"rDeadlineExceeded"} ELSE {"rCanceledLocally"})
                /\ call' = "wait" /\ UNCHANGED <<said, lost>>
             \/ /\ o.err # {} /\ "tPoisoned" \notin o.err /\ ~acceptanceUnknown(o.err)
                /\ Terminate({"PluginUnavailable"})
                /\ IF entry = "published" THEN Return(translateStreamSendErr(o.err)) ELSE call' = "wait" /\ UNCHANGED said
                /\ UNCHANGED lost
    /\ UNCHANGED <<setup, ctx, plug, reply, conn, reader>>

\* A call's result; without a factory the caller decodes the payload itself.
translateResult == {terminalError(outcome)} \cup (IF ~setup.factory /\ outcome = {} THEN {{"decode"}} ELSE {})
Receive ==
    /\ call = "wait" /\ entry = "done"
    /\ IF Unary THEN \E err \in translateResult : Return(err) ELSE Return(translateStreamOutcomeErr(outcome))
    /\ UNCHANGED <<callVars, tableVars>>
\* wait returns the context's error and abandon cancels the call; a stream's opener terminates it.
Abandon ==
    /\ call = "wait" /\ ctx # "live" /\ Terminate(IF ctx = "expired" THEN {"rDeadlineExceeded"} ELSE {"rCanceledLocally"})
    /\ IF Unary THEN Return(translateCtxErr(ctxErr)) ELSE UNCHANGED <<call, said>>
    /\ UNCHANGED callVars
\* A context is canceled, or the budget every stream and some calls have elapses.
ContextEnds ==
    /\ ctx = "live"
    /\ \/ "cancel" \in setup.world /\ ctx' = "canceled"
       \/ (~Unary \/ setup.deadline) /\ ctx' = "expired"
    /\ UNCHANGED <<setup, call, tableVars, said, request, plug, reply, conn, reader, lost>>
-----------------------------------------------------------------------------
(* The plugin.                                                             *)

Did == {"nothing", "declined", "expired", "noService", "noMethod", "undecoded", "refused",
        "entered", "returned", "status", "error", "panicked"}
Ran == {"entered", "returned", "status", "error", "panicked"}
Plug ==
    [loop : {"recv", "decline", "dispatch", "answer", "quiet", "poisoned", "panicked", "failed"}, did : Did,
     code : {"none", "badDetail"} \cup AppCodes \cup Reserved, out : Frames, stream : {"none", "running", "ended"},
     owes : BOOLEAN, tainted : BOOLEAN, oversize : BOOLEAN, exited : BOOLEAN]
plugVars == <<setup, call, ctx, tableVars, said, conn, reader, lost>>

\* Only the burst transport can fail as a whole; how an end classifies that depends on which side broke.
dataPlaneFailure ==
    IF setup.tr # "burst" THEN {"none"}
    ELSE CASE conn = "poisoned" -> {"poisoned"} [] conn = "failed" -> {"io", "peerClosed"}
           [] conn = "eof" -> {"peerClosed"} [] OTHER -> {"none"}
terminalLoopExit(err) ==
    IF "tPoisoned" \in err THEN {"poisoned"}
    ELSE {CASE class = "poisoned" -> "poisoned" [] class = "io" -> "failed" [] OTHER -> "quiet" : class \in dataPlaneFailure}

\* serveOneFrame on a frame: a request opens an obligation and is dispatched.
ServeRequest ==
    /\ plug.loop = "recv" /\ request = "sent" /\ conn = "up" /\ request' = "none" /\ Unary
    /\ plug' = [plug EXCEPT !.loop = "dispatch", !.owes = TRUE]
    /\ UNCHANGED <<plugVars, reply>>
\* Recv's errors, and what the loop does about one.  A frame the receiving side could not take, which a
\* transport that copies into its own buffer never meets, is discarded, and declined if it was a
\* request; anything else ends the loop.
recvErrs ==
    IF conn # "up" THEN {connErr} ELSE IF setup.tr # "uds" /\ request = "sent" THEN {{"tConsumeFault"}} ELSE {}
disposeRecvErr ==
    /\ plug.loop = "recv"
    /\ \E err \in recvErrs :
          IF IsFrameLocalRecvErr(err)
          THEN /\ request' = "none"
               /\ plug' = IF Unary THEN [plug EXCEPT !.loop = "decline", !.did = "declined", !.owes = TRUE] ELSE plug
          ELSE \E exit \in terminalLoopExit(err) : plug' = [plug EXCEPT !.loop = exit] /\ UNCHANGED request
    /\ UNCHANGED <<plugVars, reply>>
\* answerDeclinedRequest: its obligation closes whether or not the answer was sent.
AnswerDeclined ==
    /\ plug.loop = "decline"
    /\ IF conn = "up"
       THEN reply' = statusFrame("rRequestDeclined") /\ plug' = [plug EXCEPT !.loop = "recv", !.owes = FALSE]
       ELSE \E exit \in terminalLoopExit(connErr) : plug' = [plug EXCEPT !.loop = exit, !.owes = FALSE] /\ UNCHANGED reply
    /\ UNCHANGED <<plugVars, request>>

\* A request that resolves to no service or method, or whose decode fails or panics.
decodeUnaryRequest ==
    {<<"noService", "rServiceNotFound">>, <<"undecoded", "rInternal">>, <<"noMethod", "rMethodNotFound">>}
\* dispatchUnary up to the handler: a request that cannot be run is answered with
\* the framework's status, one whose budget has elapsed with nothing.
Dispatch ==
    /\ plug.loop = "dispatch" /\ plug.did = "nothing"
    /\ \/ /\ setup.deadline
          /\ plug' = [plug EXCEPT !.did = "expired", !.loop = "recv", !.owes = FALSE]
       \/ \E x \in decodeUnaryRequest :
             plug' = [plug EXCEPT !.did = x[1], !.out = statusFrame(x[2]), !.loop = "answer"]
       \/ plug' = [plug EXCEPT !.did = "entered"]
    /\ UNCHANGED <<plugVars, request, reply>>

\* What a handler may do, and the status of a failed one: any Status, any other error, a panic.
Returns == {[did |-> "returned", code |-> "none", status |-> {}], [did |-> "error", code |-> "none", status |-> {"Internal"}],
            [did |-> "panicked", code |-> "none", status |-> {"rHandlerPanic"}]}
           \cup {[did |-> "status", code |-> c, status |-> statusFromHandlerErr({"Status", c})] :
                    c \in {"badDetail"} \cup AppCodes \cup Reserved}
frameOf(r) == IF r.status = {} THEN Response ELSE statusFrame(CHOOSE c \in r.status : TRUE)
taints(r) == r.did = "panicked" /\ ~setup.continues

\* Handle, inline on the serve loop; a result whose budget has elapsed is dropped.
Handle ==
    /\ plug.loop = "dispatch" /\ plug.did = "entered"
    /\ \E r \in Returns :
          \/ plug' = [plug EXCEPT !.did = r.did, !.code = r.code, !.out = frameOf(r), !.loop = "answer", !.tainted = taints(r)]
          \/ /\ setup.deadline
             /\ plug' = [plug EXCEPT !.did = r.did, !.code = r.code, !.tainted = taints(r), !.owes = FALSE,
                                     !.loop = IF taints(r) THEN "panicked" ELSE "recv"]
    /\ UNCHANGED <<plugVars, request, reply>>

\* sendUnaryResponse: a message that does not encode is answered with a status.  Every other send
\* failure ends the loop with the obligation open, a reply above the limit included.
Answer ==
    /\ plug.loop = "answer"
    /\ \/ /\ conn = "up"
          /\ \E f \in {plug.out} \cup (IF plug.out.kind = "resp" THEN {statusFrame("rInternal")} ELSE {}) : reply' = f
          /\ plug' = [plug EXCEPT !.out = NoReply, !.owes = FALSE, !.loop = IF plug.tainted THEN "panicked" ELSE "recv"]
       \/ conn = "up" /\ plug.out.kind = "resp" /\ UNCHANGED reply
          /\ plug' = [plug EXCEPT !.out = NoReply, !.loop = "quiet", !.oversize = TRUE]
       \/ conn # "up" /\ UNCHANGED reply
          /\ plug' = [plug EXCEPT !.out = NoReply, !.loop = IF "tPoisoned" \in connErr THEN "poisoned" ELSE "quiet"]
    /\ UNCHANGED <<plugVars, request>>
\* onStreamOpen: an OPEN is refused with a code, or its handler runs on its own goroutine.  A refusal
\* may find the emitter's queue full and be dropped, as may a handler's error.
emits(f) == reply' = f \/ UNCHANGED reply
ServeOpen ==
    /\ plug.loop = "recv" /\ request = "sent" /\ conn = "up" /\ request' = "none" /\ ~Unary
    /\ \/ plug' = [plug EXCEPT !.did = "noMethod"] /\ emits(statusFrame("rMethodNotFound"))
       \/ \E err \in {"atCapacity", "credits", "deadline", "closed"} :
             plug' = [plug EXCEPT !.did = "refused"] /\ emits(statusFrame(streamOpenRejectCode(err)))
       \/ plug' = [plug EXCEPT !.did = "entered", !.stream = "running"] /\ UNCHANGED reply
    /\ UNCHANGED plugVars
\* runHandler: a panic taints the session, then ends the stream, then ends the instance.  A handler that
\* returns without the response its method's shape owes ends its stream with CodeInternal.
RunHandler ==
    /\ plug.stream = "running"
    /\ \E r \in Returns :
          /\ \/ conn = "up" /\ r.status = {} /\ (reply' = Response \/ emits(statusFrame("Internal")))
             \/ conn = "up" /\ r.status # {} /\ emits(frameOf(r))
             \/ conn # "up" /\ UNCHANGED reply
          /\ plug' = [plug EXCEPT !.did = r.did, !.code = r.code, !.stream = "ended", !.tainted = taints(r),
                                  !.loop = IF taints(r) /\ @ = "recv" THEN "panicked" ELSE @]
    /\ UNCHANGED <<plugVars, request>>
\* runServing ends on any exit of the loop but a quiet one, and the process with it.
ProcessExits ==
    /\ plug.loop \in {"poisoned", "panicked", "failed"} /\ ~plug.exited /\ plug.stream # "running"
    /\ plug' = [plug EXCEPT !.exited = TRUE] /\ conn' = IF conn = "up" THEN "eof" ELSE conn
    /\ UNCHANGED <<setup, call, ctx, tableVars, said, request, reply, reader, lost>>

-----------------------------------------------------------------------------
(* The host's read loop and supervisor, and the world.                     *)

hostVars == <<setup, call, ctx, said, request, plug>>

\* A response completes its call, with bytes or with the message its factory's decode makes of them.
completeUnaryResponse == Terminate({}) \/ (setup.factory /\ Terminate({"decode", "OutcomeUnknown"}))
\* A STREAM_ERR's status, or the local terminal its code stands for.
onStreamErr(code) ==
    Terminate(CASE code = "rStreamCanceled" -> {"rCanceledLocally"}
                [] code = "rStreamDeadline" -> {"rDeadlineExceeded"}
                [] OTHER                    -> {"rStatus", code})
\* A fault of this side's while it took a frame costs the call that the frame named; a stream's deadline
\* reaps what it names.
failCallOnDiscardedFrame == IF Unary THEN Terminate({"tConsumeFault", "OutcomeUnknown"}) ELSE UNCHANGED tableVars
ReadFrame ==
    /\ reader = "reading" /\ conn = "up" /\ reply # NoReply /\ reply' = NoReply
    /\ \/ reply.kind = "resp" /\ (IF Unary THEN completeUnaryResponse ELSE Terminate({}))
       \/ reply.kind = "err" /\ (IF Unary THEN Terminate({"rStatus", reply.code}) ELSE onStreamErr(reply.code))
       \/ failCallOnDiscardedFrame
    /\ UNCHANGED <<hostVars, conn, reader, lost>>

\* connFaultDetected: what a read loop's end says about the connection.
translateReadLoopExit(err) ==
    IF "tPoisoned" \in err THEN {"Poisoned"} ELSE IF "tClosed" \in err THEN {"PluginUnavailable"} ELSE terminalConnErr(err)
connFaultDetected(cause) ==
    IF "Poisoned" \in cause THEN {{"OutcomeUnknown"}}
    ELSE {IF class = "poisoned" THEN {"OutcomeUnknown"} ELSE terminalConnErr({"tIO"}) : class \in dataPlaneFailure \ {"none"}}
\* The loop ends: streams always fail with it, calls and the instance only on a fault of the connection.
ReaderExits ==
    /\ reader = "reading" /\ conn # "up" /\ reader' = "exited"
    /\ LET faults == connFaultDetected(translateReadLoopExit(connErr)) IN
          /\ IF ~Unary THEN FailAll({"OutcomeUnknown"}, {"PluginUnavailable"})
             ELSE IF faults = {} THEN UNCHANGED tableVars
             ELSE \E dispatched \in faults : FailAll(dispatched, {"PluginUnavailable"})
          /\ lost' = (lost \/ faults # {})
    /\ UNCHANGED <<hostVars, reply, conn>>

\* The teardown hooks: in-flight calls fail, then the transport stops.  The supervisor runs them when it
\* is told the connection is lost, sees the process gone, finds it dispatch-wedged, or is stopped.
dispatchWedged == plug.owes /\ plug.loop = "quiet"
TearDown ==
    /\ conn # "closed" /\ (lost \/ plug.exited \/ dispatchWedged \/ "stop" \in setup.world)
    /\ (IF Unary THEN FailAll({"OutcomeUnknown"}, {"PluginUnavailable"}) ELSE UNCHANGED tableVars)
    /\ conn' = "closed" /\ UNCHANGED <<hostVars, reply, reader, lost>>
\* The data plane desynchronises, or one underside of a burst connection breaks.
Breaks ==
    /\ conn = "up"
    /\ \/ "poison" \in setup.world /\ conn' = "poisoned"
       \/ "failure" \in setup.world /\ setup.tr = "burst" /\ conn' = "failed"
    /\ UNCHANGED <<hostVars, tableVars, reply, reader, lost>>

Next ==
    \/ Submit \/ Publish \/ SendRequest \/ SendOpen \/ Receive \/ Abandon \/ ContextEnds
    \/ ServeRequest \/ disposeRecvErr \/ AnswerDeclined \/ Dispatch \/ Handle \/ Answer \/ ServeOpen \/ RunHandler
    \/ ProcessExits \/ ReadFrame \/ ReaderExits \/ TearDown \/ Breaks
Spec == Init /\ [][Next]_vars
-----------------------------------------------------------------------------
(* Properties.                                                             *)

TypeOK ==
    /\ setup \in Setup /\ call \in {"idle", "publish", "send", "wait", "done"} /\ ctx \in {"live", "canceled", "expired"}
    /\ entry \in {"none", "submitted", "published", "done"} /\ request \in {"none", "sent"}
    /\ plug \in Plug /\ reply \in Frames /\ conn \in {"up", "poisoned", "failed", "eof", "closed"}
    /\ reader \in {"reading", "exited"} /\ lost \in BOOLEAN /\ (call = "done") = ("pending" \notin said)

\* An error IsRetryable accepts belongs to an exchange whose handler has not run and, this being so in
\* every later state, never runs: repeating it repeats no effect.
RetrySafe == IsRetryable(said) => plug.did \notin Ran

\* The caller is told what happened.  A framework error is one the framework decided on: no status a
\* handler returns can pass for it (statusFromHandlerErr clamps the reserved range).  An application's
\* code arrives as it was returned, and success means that the handler returned.
ToldTheTruth ==
    /\ "RequestDeclined" \in said => plug.did = "declined"
    /\ "ServiceNotFound" \in said => plug.did = "noService"
    /\ "MethodNotFound" \in said => plug.did = "noMethod"
    /\ "PluginPanic" \in said => plug.did = "panicked"
    /\ "Status" \in said => \/ plug.did = "status" /\ plug.code \in AppCodes /\ plug.code \in said
                            \/ plug.did \in {"status", "error", "undecoded", "returned"} /\ "Internal" \in said
    /\ said = {} => plug.did = "returned"

\* A failure of one frame or one handler costs that exchange alone: a loop ends, and the instance is
\* given up, only over the connection, an unrecovered session policy on a panic, or a reply too large.
SessionKept ==
    /\ plug.loop = "panicked" => plug.did = "panicked" /\ ~setup.continues
    /\ plug.loop \in {"poisoned", "failed"} => conn # "up"
    /\ plug.loop = "quiet" => conn # "up" \/ (plug.oversize /\ plug.owes)
    /\ reader = "exited" \/ lost => conn # "up"

\* A caller that waits without a deadline waits for someone: a frame with its reader still there, the
\* plugin at work, a read loop that is about to notice, or a supervisor with a reason to tear down.
SomebodyOwes ==
    Unary /\ call = "wait" /\ entry = "published" /\ ~setup.deadline =>
        \/ conn = "up" /\ ((request = "sent" /\ plug.loop = "recv") \/ (reply # NoReply /\ reader = "reading"))
        \/ plug.loop \in {"decline", "dispatch", "answer", "poisoned", "panicked", "failed"}
        \/ conn \in {"poisoned", "failed"} /\ reader = "reading"
        \/ lost \/ plug.exited \/ dispatchWedged

\* Translating a stream's error again, as generated code does with what a Stream's methods return,
\* changes nothing: neither what it is nor whether it may be retried.
Idempotent == ~Unary => StreamError(StreamError(outcome)) = StreamError(outcome)

\* The error an exchange ends with is safe to retry on exactly when it says so, names what happened,
\* is not paid for by the session, comes in the end and is stable (clientconn.go, pluginserver.go,
\* stream.go and errors.go together).
ErrorsHonest == TypeOK /\ RetrySafe /\ ToldTheTruth /\ SessionKept /\ SomebodyOwes /\ Idempotent
=============================================================================
