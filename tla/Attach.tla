------------------------------- MODULE Attach -------------------------------
(* One spawn of a plugin from Start to its end: the host's Spawn, handshake,  *)
(* attach, service and teardown, and the plugin's Serve on the other side of  *)
(* the control socket.  Every system call may fail, every wait may time out,  *)
(* and either process may die between two steps.  held and pheld are the      *)
(* descriptors, mappings and processes each side must still release.          *)
EXTENDS Negotiation

CONSTANT Deals      \* specifications and plugin builds: [spec, server]

VARIABLES
    deal,       \* the specification and the plugin build of this spawn; never changes
    hpc,        \* where the host is
    held,       \* what the host has open
    htuple,     \* the tuple the host attaches on
    verdict,    \* why the host gave the spawn up
    dangling,   \* the teardown's join was abandoned and still runs
    ppc,        \* where the plugin is
    pheld,      \* what the plugin has open
    ptuple,     \* the tuple the plugin acknowledged
    pview,      \* what the AttachRegion told it, and whether it acknowledged that
    armed,      \* the plugin dies with its host
    h2p, p2h,   \* the message on the control socket, each way
    twice       \* resources some path closed a second time
vars == <<deal, hpc, held, htuple, verdict, dangling, ppc, pheld, ptuple, pview, armed, h2p, p2h, twice>>

hostOnly == <<deal, hpc, held, htuple, verdict, dangling>>
pluginOnly == <<ppc, pheld, ptuple, pview, armed>>

NoMsg == [kind |-> Nothing]
cfg == applyMaxPayloadDerivation(deal.spec)
nonce == 1

Init ==
    /\ deal \in Deals
    /\ hpc = "start" /\ held = {} /\ htuple = Refused /\ verdict = Nothing /\ dangling = FALSE
    /\ ppc = Nothing /\ pheld = {} /\ ptuple = Refused /\ armed = FALSE
    /\ pview = [burst |-> 0, chunk |-> 0, inflight |-> 0, acked |-> FALSE]
    /\ h2p = NoMsg /\ p2h = NoMsg /\ twice = {}

pluginAlive == ppc \notin {Nothing, "dead"}
hostListens == "ctl" \in held

\* Closing what is not open is the bug twice records; a transport's Close is idempotent and goes through Free.
Close(s) == held' = held \ s /\ twice' = twice \cup (s \ held)
Free(s) == held' = held \ s /\ UNCHANGED twice
PClose(s) == pheld' = pheld \ s /\ twice' = twice \cup (s \ pheld)

(* ---- the control socket ---- *)

legalByState ==
    [Handshaking |-> {"Hello", "HelloAck"}, Attaching |-> {"AttachRegion", "AttachRegionAck"}]
Legal(state, kind) == kind \in legalByState[state]
recvControl(state, want, msg) == Legal(state, msg.kind) /\ msg.kind = want

\* A send needs its peer; the datagram replaces nothing, the exchange being strictly alternating.
Send(msg) == pluginAlive /\ h2p = NoMsg /\ h2p' = msg
SendFDs(msg, fds) == msg.fdCount = fds /\ Send(msg)
PSend(msg) == hostListens /\ p2h = NoMsg /\ p2h' = msg

\* More descriptors than asked for truncate the control data; otherwise the declared count must have arrived.
recvDeclaredFDCount(msg) == IF msg.kind = "AttachRegion" THEN msg.fdCount ELSE -1
RecvFDs(msg, maxFDs) == msg.fds <= maxFDs /\ recvDeclaredFDCount(msg) = msg.fds

(* ---- Start and Spawn ---- *)

Start ==
    /\ hpc = "start"
    /\ hpc' = IF /\ validateLivenessTuning(deal.spec) /\ validateMaxPayload(deal.spec)
                 /\ validateBurstCeiling(cfg) /\ deal.pinned
              THEN "sock" ELSE "refused"
    /\ UNCHANGED <<deal, held, htuple, verdict, dangling, pluginOnly, h2p, p2h, twice>>

SpawnStep(at, opens, closesOnFail, next) ==
    /\ hpc = at
    /\ \/ held' = held \cup opens /\ hpc' = next /\ UNCHANGED <<verdict, twice>>
       \/ Close(closesOnFail) /\ hpc' = "failed" /\ verdict' = "crash"
    /\ UNCHANGED <<deal, htuple, dangling, pluginOnly, h2p, p2h>>
SpawnSockets == SpawnStep("sock", {"ctl", "childCtl"}, {}, "outPipe")
SpawnStdout == SpawnStep("outPipe", {"outR", "outW"}, {"childCtl", "ctl"}, "errPipe")
SpawnStderr == SpawnStep("errPipe", {"errR", "errW"}, {"outR", "outW", "childCtl", "ctl"}, "start1")

\* The child has its own copies once it runs: the host drops its ends of them.
SpawnStart ==
    /\ hpc = "start1"
    /\ \/ /\ held' = (held \ {"childCtl", "outW", "errW"}) \cup {"proc"} /\ hpc' = "hello" /\ ppc' = "born"
          /\ \E b \in BOOLEAN : armed' = b
          /\ UNCHANGED <<verdict, pheld, ptuple, pview, twice>>
       \/ /\ Close({"childCtl", "ctl", "outR", "outW", "errR", "errW"}) /\ hpc' = "failed" /\ verdict' = "crash"
          /\ UNCHANGED pluginOnly
    /\ UNCHANGED <<deal, htuple, dangling, h2p, p2h>>

(* ---- the host's handshake ---- *)

\* The attach has released what it owns and returns its error.
GiveUp(why) == hpc' = "abort" /\ verdict' = why

SendHello ==
    /\ hpc = "hello"
    /\ \/ Send(OfferToHello(hostOffer(cfg), nonce)) /\ hpc' = "helloAck" /\ UNCHANGED verdict
       \/ GiveUp("crash") /\ UNCHANGED h2p
    /\ UNCHANGED <<deal, held, htuple, dangling, pluginOnly, p2h, twice>>

RecvHelloAck ==
    /\ hpc = "helloAck" /\ p2h # NoMsg /\ p2h' = NoMsg
    /\ LET tuple == ValidateAcknowledgedTuple(hostOffer(cfg), p2h)
       IN IF ~recvControl("Handshaking", "HelloAck", p2h) \/ ~VerifyNonce(nonce, p2h.nonce)
          THEN GiveUp("crash") /\ UNCHANGED htuple
          ELSE IF HelloAckIncompatible(p2h) THEN GiveUp("incompatible") /\ UNCHANGED htuple
          ELSE IF ~tuple.ok THEN GiveUp("incompatible") /\ UNCHANGED htuple
          ELSE IF tuple.codec # "proto" THEN GiveUp("crash") /\ UNCHANGED htuple
          ELSE IF ~validateMaxPayloadInterlock(cfg, tuple) THEN GiveUp("incompatible") /\ UNCHANGED htuple
          ELSE /\ htuple' = tuple /\ UNCHANGED verdict
               /\ hpc' = IF tuple.transport = "shm" THEN "capacity" ELSE "udsPair"
    /\ UNCHANGED <<deal, held, dangling, pluginOnly, h2p, twice>>

\* The reply deadline passes, or the plugin is gone with nothing left to read.
NoReply(at, defers) ==
    /\ hpc = at /\ Close(defers) /\ GiveUp("crash")
    /\ UNCHANGED <<deal, htuple, dangling, pluginOnly, h2p, p2h>>
HelloUnanswered == NoReply("helloAck", {})

(* ---- the host's attach ---- *)

\* One construction step: it opens something, or fails and runs the defers registered so far.
Build(at, opens, defers, next) ==
    /\ hpc = at
    /\ \/ held' = held \cup opens /\ hpc' = next /\ UNCHANGED <<verdict, twice>>
       \/ Close(defers) /\ GiveUp("crash")
    /\ UNCHANGED <<deal, htuple, dangling, pluginOnly, h2p, p2h>>

\* The plugin's end is closed once the send returned, whatever it returned.
Transfer(at, msg, fds, ends, defers, next) ==
    /\ hpc = at
    /\ \/ SendFDs(msg, fds) /\ Close(ends) /\ hpc' = next /\ UNCHANGED verdict
       \/ Close(ends \cup defers) /\ GiveUp("crash") /\ UNCHANGED h2p
    /\ UNCHANGED <<deal, htuple, dangling, pluginOnly, p2h>>

\* The acknowledgement ends the attach; a wrapper built after it may still fail.
Acknowledged(at, defers, mayFail) ==
    /\ hpc = at /\ p2h # NoMsg /\ p2h' = NoMsg
    /\ \/ recvControl("Attaching", "AttachRegionAck", p2h) /\ hpc' = "ready" /\ UNCHANGED <<held, verdict, twice>>
       \/ (mayFail \/ ~recvControl("Attaching", "AttachRegionAck", p2h)) /\ Close(defers) /\ GiveUp("crash")
    /\ UNCHANGED <<deal, htuple, dangling, pluginOnly, h2p>>

AttachMsg(fds, inflight, burst, chunk) ==
    [kind |-> "AttachRegion", fdCount |-> fds, fds |-> fds, maxDataInflight |-> inflight, burst |-> burst, chunk |-> chunk]

UdsPair == Build("udsPair", {"data", "dataP"}, {}, "udsSend")
UdsSend == Transfer("udsSend", AttachMsg(1, 0, 0, 0), 1, {"dataP"}, {"data"}, "udsAck")
UdsAck == Acknowledged("udsAck", {"data"}, TRUE) \/ NoReply("udsAck", {"data"})

\* The two capacity checks and the optional strict one refuse a geometry before a region exists.
Capacity ==
    /\ hpc = "capacity"
    /\ IF deal.spec.capacityOK THEN hpc' = "region" /\ UNCHANGED verdict ELSE GiveUp("crash")
    /\ UNCHANGED <<deal, held, htuple, dangling, pluginOnly, h2p, p2h, twice>>

bursting == BurstActive(htuple, cfg.burst)
shmMaxDataInflight == IF cfg.inflight > 0 THEN cfg.inflight ELSE toLayout(cfg.geometry).ring - toLayout(cfg.geometry).reserve

CreateRegion == Build("region", {"region"}, {}, "hpEFD")
HpEventFD == Build("hpEFD", {"hp"}, {"region"}, "phEFD")
\* Mutant: a failing second eventfd forgets the first.
PhEventFDForgets == Build("phEFD", {"ph"}, {"region"}, IF bursting THEN "burstPair" ELSE "send")
PhEventFD == Build("phEFD", {"ph"}, {"region", "hp"}, IF bursting THEN "burstPair" ELSE "send")
BurstPair == Build("burstPair", {"burst", "burstP"}, {"region", "hp", "ph"}, "send")
SendAttachRegion ==
    LET ends == IF bursting THEN {"burstP"} ELSE {}
        own == IF bursting THEN {"burst"} ELSE {}
        fds == IF bursting THEN 4 ELSE 3
    IN Transfer("send", AttachMsg(fds, shmMaxDataInflight, IF bursting THEN cfg.burst ELSE 0, cfg.chunk),
                fds, ends, own \cup {"region", "hp", "ph"}, IF bursting THEN "burstWrap" ELSE "attach")
BurstWrap == Build("burstWrap", {}, {"burst", "region", "hp", "ph"}, "attach")
AttachShm == Build("attach", {"shmTr"}, (IF bursting THEN {"burst"} ELSE {}) \cup {"region", "hp", "ph"}, "shmAck")
ShmAck ==
    LET defers == (IF bursting THEN {"burst"} ELSE {}) \cup {"shmTr", "region", "hp", "ph"}
    IN Acknowledged("shmAck", defers, FALSE) \/ NoReply("shmAck", defers)

\* The abort of a spawn that never served: kill and reap, then the control socket, then the drained pipes.
Abort ==
    /\ hpc = "abort" /\ hpc' = "failed"
    /\ Close({"proc", "ctl", "outR", "errR"})
    /\ ppc' = "dead" /\ pheld' = {} /\ h2p' = NoMsg /\ p2h' = NoMsg
    /\ UNCHANGED <<deal, htuple, verdict, dangling, ptuple, pview, armed>>

(* ---- the host's teardown ---- *)

transportParts == IF htuple.transport = "shm" THEN {"shmTr"} \cup (IF bursting THEN {"burst"} ELSE {}) ELSE {"data"}

\* Steps 1 to 3: the routing is detached and the goroutines joined, or the join is abandoned at its bound.
Join ==
    /\ hpc = "ready" /\ hpc' = "unmap"
    /\ \/ Free(transportParts) /\ UNCHANGED dangling
       \/ dangling' = TRUE /\ UNCHANGED <<held, twice>>
    /\ UNCHANGED <<deal, htuple, verdict, pluginOnly, h2p, p2h>>

\* The abandoned join ends on its own.
LateJoin ==
    /\ dangling /\ dangling' = FALSE /\ hpc # "gone" /\ Free(transportParts)
    /\ UNCHANGED <<deal, hpc, htuple, verdict, pluginOnly, h2p, p2h>>

\* Step 4: the original region; the transport had its own mapping of it.
Unmap ==
    /\ hpc = "unmap" /\ hpc' = "reap"
    /\ IF htuple.transport = "shm" THEN Close({"region"}) ELSE UNCHANGED <<held, twice>>
    /\ UNCHANGED <<deal, htuple, verdict, dangling, pluginOnly, h2p, p2h>>

\* Step 5: Shutdown and a graceful exit, or SIGKILL at the deadline; always ends in the reap.
TerminateAndReap ==
    /\ hpc = "reap" /\ hpc' = "closeFDs"
    /\ Close({"proc"})
    /\ ppc' = "dead" /\ pheld' = {} /\ h2p' = NoMsg /\ p2h' = NoMsg
    /\ UNCHANGED <<deal, htuple, verdict, dangling, ptuple, pview, armed>>

\* Step 6: the control socket, the drained pipes and the eventfds.
CloseFDs ==
    /\ hpc = "closeFDs" /\ hpc' = "down"
    /\ Close({"ctl", "outR", "errR"} \cup (IF htuple.transport = "shm" THEN {"hp", "ph"} ELSE {}))
    /\ UNCHANGED <<deal, htuple, verdict, dangling, pluginOnly, h2p, p2h>>

HostStep ==
    \/ Start \/ SpawnSockets \/ SpawnStdout \/ SpawnStderr \/ SpawnStart
    \/ SendHello \/ RecvHelloAck \/ HelloUnanswered
    \/ UdsPair \/ UdsSend \/ UdsAck
    \/ Capacity \/ CreateRegion \/ HpEventFD \/ PhEventFD \/ BurstPair \/ SendAttachRegion \/ BurstWrap
    \/ AttachShm \/ ShmAck \/ Abort
    \/ Join \/ LateJoin \/ Unmap \/ TerminateAndReap \/ CloseFDs

(* ---- the plugin ---- *)

\* Serve's first statement: arm the death signal, best effort, then leave if the parent is already another.
InstallDeathSignal ==
    /\ ppc = "born"
    /\ IF hpc = "gone" THEN ppc' = "dead" /\ pheld' = {} /\ UNCHANGED armed
       ELSE /\ ppc' = "hello" /\ pheld' = {"ctl"}
            /\ \E b \in BOOLEAN : armed' = (armed \/ b)
    /\ UNCHANGED <<hostOnly, ptuple, pview, h2p, p2h, twice>>

\* Serve returns its error after releasing what it owns; the control socket goes last.
PExit(s) == PClose(s \cup {"ctl"}) /\ ppc' = "exited"

services == deal.server.services
pluginOffer == pluginBaseOffer(deal.server)

PluginHandshake ==
    /\ ppc = "hello" /\ h2p # NoMsg /\ h2p' = NoMsg
    /\ LET tuple == Negotiate(HelloToOffer(h2p), pluginOffer, services)
       IN IF ~recvControl("Handshaking", "Hello", h2p) THEN PExit({}) /\ UNCHANGED <<ptuple, p2h>>
          ELSE IF ~tuple.ok
          THEN /\ PExit({}) /\ UNCHANGED ptuple
               /\ PSend(IncompatibleToHelloAck(pluginOffer, services, h2p.nonce)) \/ UNCHANGED p2h
          ELSE \/ /\ PSend(TupleToHelloAck(tuple, h2p.nonce, services, pluginOffer))
                  /\ ptuple' = tuple /\ ppc' = "attach" /\ UNCHANGED <<pheld, twice>>
               \/ PExit({}) /\ UNCHANGED <<ptuple, p2h>>
    /\ UNCHANGED <<hostOnly, pview, armed>>

\* No Hello or AttachRegion in time, or the host's end is closed.
PluginGivesUp ==
    /\ ppc \in {"hello", "attach"} /\ h2p = NoMsg /\ PExit({})
    /\ UNCHANGED <<hostOnly, ptuple, pview, armed, h2p, p2h>>

overShm == ptuple.transport = "shm"
maxFDs == IF ~overShm THEN 1 ELSE IF "burst" \in DOMAIN ptuple.features /\ ptuple.features["burst"] THEN 4 ELSE 3
wantFDs(msg) == IF ~overShm THEN 1 ELSE IF BurstActive(ptuple, msg.burst) THEN 4 ELSE 3
Slots == <<"rawRegion", "rawHp", "rawPh", "rawBurst">>

\* The count that arrived is checked against the one the tuple requires before a descriptor is used by position.
RecvAttachFDs ==
    /\ ppc = "attach" /\ h2p # NoMsg /\ h2p' = NoMsg
    /\ IF recvControl("Attaching", "AttachRegion", h2p) /\ RecvFDs(h2p, maxFDs) /\ h2p.fds = wantFDs(h2p)
       THEN /\ pheld' = pheld \cup (IF overShm THEN {Slots[i] : i \in 1 .. h2p.fds} ELSE {"dataFD"})
            /\ ppc' = IF overShm THEN "hpWrap" ELSE "udsWrap"
            /\ pview' = [burst |-> h2p.burst, chunk |-> h2p.chunk, inflight |-> h2p.maxDataInflight, acked |-> FALSE]
            /\ UNCHANGED twice
       ELSE PExit({}) /\ UNCHANGED pview
    /\ UNCHANGED <<hostOnly, ptuple, armed, p2h>>

pbursting == overShm /\ BurstActive(ptuple, pview.burst)
rawOpen == {Slots[i] : i \in 1 .. 4} \cap pheld

\* A wrapper takes its descriptor over, or fails: the raw descriptors and the wrappers built so far are closed.
PBuild(at, raw, wrapped, defers, next) ==
    /\ ppc = at
    /\ \/ pheld' = (pheld \ raw) \cup wrapped /\ ppc' = next /\ UNCHANGED twice
       \/ PExit(rawOpen \cup defers)
    /\ UNCHANGED <<hostOnly, ptuple, pview, armed, h2p, p2h>>
UdsWrap == PBuild("udsWrap", {"dataFD"}, {"pData"}, {"dataFD"}, "ackSend")
HpWrap == PBuild("hpWrap", {"rawHp"}, {"pHp"}, {}, "phWrap")
PhWrap == PBuild("phWrap", {"rawPh"}, {"pPh"}, {"pHp"}, IF pbursting THEN "pBurstWrap" ELSE "pAttach")
PBurstWrap == PBuild("pBurstWrap", {"rawBurst"}, {"pBurst"}, {"pHp", "pPh"}, "pAttach")

\* What the deferred closes and the end of a session release: the transport with its socket, then the eventfds.
attached == IF overShm THEN {"pShmTr", "pHp", "pPh"} \cup (IF pbursting THEN {"pBurst"} ELSE {}) ELSE {"pData"}

\* The transport maps the region through its own duplicate: the raw copy is closed either way.
PAttach == PBuild("pAttach", {"rawRegion"}, {"pShmTr"}, attached \ {"pShmTr"}, "ackSend")

\* The acknowledgement is sent last, when everything it promises exists.
AckSend ==
    /\ ppc = "ackSend"
    /\ \/ /\ PSend([kind |-> "AttachRegionAck"]) /\ ppc' = "serving" /\ pview' = [pview EXCEPT !.acked = TRUE]
          /\ UNCHANGED <<pheld, twice>>
       \/ PExit(attached) /\ UNCHANGED <<pview, p2h>>
    /\ UNCHANGED <<hostOnly, ptuple, armed, h2p>>

\* Serving ends with the host or a fault; the control socket is closed last.
ServeEnds ==
    /\ ppc = "serving" /\ PExit(attached)
    /\ UNCHANGED <<hostOnly, ptuple, pview, armed, h2p, p2h>>

ProcessEnds ==
    /\ ppc = "exited" /\ ppc' = "dead" /\ pheld' = {} /\ h2p' = NoMsg
    /\ UNCHANGED <<hostOnly, ptuple, pview, armed, p2h, twice>>

PluginStep ==
    \/ InstallDeathSignal \/ PluginHandshake \/ PluginGivesUp \/ RecvAttachFDs
    \/ UdsWrap \/ HpWrap \/ PhWrap \/ PBurstWrap \/ PAttach \/ AckSend \/ ServeEnds \/ ProcessEnds

(* ---- crashes ---- *)

PluginDies ==
    /\ pluginAlive /\ ppc' = "dead" /\ pheld' = {} /\ h2p' = NoMsg
    /\ UNCHANGED <<hostOnly, ptuple, pview, armed, p2h, twice>>

\* The kernel closes what the host held and kills a plugin that armed its death signal.
HostDies ==
    /\ hpc \notin {"start", "refused", "failed", "down", "gone"} /\ pluginAlive
    /\ hpc' = "gone" /\ held' = {} /\ dangling' = FALSE /\ p2h' = NoMsg
    /\ IF armed THEN ppc' = "dead" /\ pheld' = {} /\ h2p' = NoMsg ELSE UNCHANGED <<ppc, pheld, h2p>>
    /\ UNCHANGED <<deal, htuple, verdict, ptuple, pview, armed, twice>>

Next == HostStep \/ PluginStep \/ PluginDies \/ HostDies
Spec == Init /\ [][Next]_vars

(* ---- properties ---- *)

TypeOK ==
    /\ [f \in DOMAIN deal.spec \ {"services"} |-> deal.spec[f]] \in PluginSpec /\ htuple.ok \in BOOLEAN /\ ptuple.ok \in BOOLEAN
    /\ verdict \in {Nothing, "crash", "incompatible"} /\ dangling \in BOOLEAN /\ armed \in BOOLEAN

\* What a pair of ends must share, said without Negotiate: a protocol version, a codec, the preferred
\* transport (with a layout when it is shared memory), every flag either end insists on, and one
\* acceptable version of every service asked for.
Compatible ==
    LET h == hostOffer(cfg)
        p == pluginOffer
        shared == h.transports \cap p.transports
    IN /\ (h.protocolMin .. h.protocolMax) \cap (p.protocolMin .. p.protocolMax) # {}
       /\ h.codecs \cap p.codecs # {} /\ shared # {}
       /\ "shm" \in shared => h.layoutVersions \cap p.layoutVersions # {}
       /\ \A f \in DOMAIN h.features \cup DOMAIN p.features :
              \/ f \in DOMAIN h.features /\ f \in DOMAIN p.features
              \/ f \in DOMAIN h.features /\ ~h.features[f]
              \/ f \in DOMAIN p.features /\ ~p.features[f]
       /\ \A s \in DOMAIN h.services :
              {i \in DOMAIN services : services[i].service = s /\ services[i].version \in h.services[s]} # {}
       /\ Cardinality({services[i].service : i \in DOMAIN services}) = Len(services)

\* A message of the promised size can be sent as one call and as one stream message over tuple t.
PayloadCarried(t) ==
    deal.spec.maxPayload # 0 =>
        IF t.transport # "shm" THEN deal.spec.maxPayload <= MaxFrameSize
        ELSE \/ deal.spec.maxPayload <= inlineLimit(cfg, t)
             \/ /\ BurstActive(t, cfg.burst) /\ deal.spec.maxPayload <= cfg.burst
                /\ ChunkingActive(t, cfg.chunk) /\ deal.spec.maxPayload <= cfg.chunk

\* The ends agree: a host is ready only on a plugin that has built its whole end and acknowledged
\* it, on the tuple, ceilings and admission bound the host itself uses; the pair was compatible, a
\* caller's MaxPayload can be carried, and only a pair that is not compatible, or cannot carry it,
\* is reported as incompatible (handshakeAndAttach, attachSHM, pluginAttachSHM,
\* ValidateAcknowledgedTuple, validateMaxPayloadInterlock).
EndsAgree ==
    /\ hpc = "ready" =>
          /\ pview.acked /\ ptuple = htuple /\ Compatible /\ PayloadCarried(htuple)
          /\ htuple.transport = "shm" =>
                /\ BurstActive(ptuple, pview.burst) = bursting /\ (bursting => pview.burst = cfg.burst)
                /\ pview.chunk = cfg.chunk /\ pview.inflight = shmMaxDataInflight
    /\ verdict = "incompatible" => ~Compatible \/ ~PayloadCarried(Negotiate(hostOffer(cfg), pluginOffer, services))

\* Nothing leaks: no path closes a resource twice, a spawn that failed or ended holds nothing and
\* has reaped its child, a live child always has an owner, and a plugin whose Serve returned has
\* released what it received (Spawn, attachSHM, sendAttachRegion, newLiveInstance, Teardown.Run,
\* pluginAttachSHM).
NothingLeaks ==
    /\ TypeOK /\ twice = {}
    /\ hpc \in {"refused", "failed"} \/ (hpc = "down" /\ ~dangling) => held = {}
    /\ hpc \in {"failed", "down"} => ~pluginAlive
    /\ pluginAlive => "proc" \in held \/ hpc = "gone"
    /\ ppc = "exited" => pheld = {}
=============================================================================
