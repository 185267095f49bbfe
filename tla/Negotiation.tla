---------------------------- MODULE Negotiation ----------------------------
(* What the two ends compute before a region exists: the specification a      *)
(* caller may start a plugin with, the offers the ends derive from it, and    *)
(* the tuple they settle on.  An offer is a record of sets; features maps a   *)
(* flag to whether the side requires it, services maps a service to the       *)
(* versions the host accepts.                                                 *)
EXTENDS Integers, Sequences, FiniteSets, FiniteSetsExt, Functions

oneMiB == 1048576                 \* bytes
slabHeadroom == 64                \* bytes a class carries over its power of two
crcTrailerWorstCase == 4          \* bytes of the CRC32C trailer
MaxFrameSize == 1048576           \* the frame cap of the uds transport
m1ProtocolVersion == 1
ShmLayoutVersion == 1

Nothing == "none"

(* ---- the specification a caller starts a plugin with ---- *)

\* A geometry is the reserve it sets and its class sizes per direction; no class on either side and no ring is "zero".
GeometryZero == [ring |-> 0, reserve |-> 0, h2p |-> {}, p2h |-> {}]
GeometryDefault ==
    LET classes == {256} \cup {x + slabHeadroom : x \in {1024, 4096, 16384, 65536, 131072, oneMiB}}
    IN [ring |-> 4096, reserve |-> 256, h2p |-> classes, p2h |-> classes]
GeometryLean ==
    LET classes == {512, 4096 + slabHeadroom} IN [ring |-> 512, reserve |-> 32, h2p |-> classes, p2h |-> classes]

\* What a caller may set; a negative tuning value is representable and refused at Start.
Geometry == [ring : Nat, reserve : Nat, h2p : SUBSET Nat, p2h : SUBSET Nat]
PluginSpec ==
    [transport : {"", "auto", "shm", "uds"}, geometry : Geometry, maxPayload : Nat, burst : Nat, chunk : Nat,
     inflight : Nat, capacityOK : BOOLEAN, requireStreaming : BOOLEAN, timeout : Int, missed : Int, window : Int]

isZero(g) == g.ring = 0 /\ g.h2p = {} /\ g.p2h = {}
isFullyZero(g) == isZero(g) /\ g.reserve = 0

\* The default profile for a zero geometry, its classes where none was given, one side copied to an empty other.
toLayout(g) ==
    LET src == IF isZero(g) THEN GeometryDefault ELSE g
        given == IF src.h2p = {} /\ src.p2h = {} THEN GeometryDefault ELSE src
    IN [src EXCEPT !.h2p = IF given.h2p = {} THEN given.p2h ELSE given.h2p,
                   !.p2h = IF given.p2h = {} THEN given.h2p ELSE given.p2h]

largestSlabSize(classes) == Max(classes \cup {0})
largestClasses(g) == <<largestSlabSize(toLayout(g).h2p), largestSlabSize(toLayout(g).p2h)>>

validateMaxPayload(spec) ==
    \/ spec.maxPayload = 0
    \/ /\ isFullyZero(spec.geometry)
       /\ spec.burst = 0
       /\ ~(spec.transport = "uds" /\ spec.maxPayload > MaxFrameSize)

\* Burst and chunking go on together, exactly when the stock ladder may not carry the payload.
deriveFromMaxPayload(m) ==
    LET top == largestClasses(GeometryDefault)[1]
    IN IF m <= top - crcTrailerWorstCase
       THEN [geometry |-> GeometryDefault, burst |-> 0, chunk |-> 0]
       ELSE [geometry |-> GeometryDefault, burst |-> Max({m, top + slabHeadroom}), chunk |-> m]

applyMaxPayloadDerivation(spec) ==
    IF spec.maxPayload = 0 THEN spec
    ELSE LET d == deriveFromMaxPayload(spec.maxPayload)
         IN [spec EXCEPT !.geometry = d.geometry, !.burst = d.burst, !.chunk = d.chunk]

validateBurstCeiling(spec) == spec.burst = 0 \/ \A top \in Range(largestClasses(spec.geometry)) : spec.burst > top

\* A negative count or wait, or a wait below the plugin's own cadence of 1, is refused; zero asks for the default.
validateLivenessTuning(spec) == (spec.timeout = 0 \/ spec.timeout >= 1) /\ spec.missed >= 0 /\ spec.window >= 0

(* ---- the offers ---- *)

resolveTransport(t) == IF t = "" THEN "auto" ELSE t
offeredTransports(t) ==
    CASE t = "shm" -> [transports |-> {"shm"}, layouts |-> {ShmLayoutVersion}]
      [] t = "auto" -> [transports |-> {"shm", "uds"}, layouts |-> {ShmLayoutVersion}]
      [] OTHER -> [transports |-> {"uds"}, layouts |-> {}]

hostOffer(spec) ==
    LET o == offeredTransports(resolveTransport(spec.transport))
        flags == {"streaming"} \cup (IF spec.burst > 0 THEN {"burst"} ELSE {})
                               \cup (IF spec.chunk > 0 THEN {"chunking"} ELSE {})
    IN [protocolMin |-> m1ProtocolVersion, protocolMax |-> m1ProtocolVersion, transports |-> o.transports,
        codecs |-> {"proto"}, features |-> [f \in flags |-> f = "streaming" /\ spec.requireStreaming],
        services |-> spec.services, layoutVersions |-> o.layouts]

resolvePluginTransports(ts) == IF ts = {} THEN {"shm", "uds"} ELSE ts

\* An older build lists fewer flags, a later one other versions: server.flags, server.protocol, server.layouts.
pluginBaseOffer(server) ==
    LET ts == resolvePluginTransports(server.transports)
    IN [protocolMin |-> server.protocol, protocolMax |-> server.protocol, transports |-> ts,
        codecs |-> {"proto"}, features |-> [f \in server.flags |-> f = "streaming" /\ server.streams],
        services |-> <<>>, layoutVersions |-> IF "shm" \in ts THEN server.layouts ELSE {}]

(* ---- the negotiation ---- *)

\* The names in the order a sort puts them: of the transports and codecs only these are ever offered.
Sorted == <<"proto", "shm", "uds">>
firstCommon(a, b) ==
    LET common == {i \in 1 .. Len(Sorted) : Sorted[i] \in a \cap b}
    IN IF common = {} THEN Nothing ELSE Sorted[Min(common)]

highestCommonLayout(a, b) == IF a \cap b = {} THEN 0 ELSE Max(a \cap b)

requiredMissing(a, b) == \E f \in DOMAIN a.features : a.features[f] /\ f \notin DOMAIN b.features
negotiateFeatures(host, plugin) ==
    [f \in DOMAIN host.features \cup DOMAIN plugin.features |-> f \in DOMAIN host.features \cap DOMAIN plugin.features]

\* The advertised versions are indexed by name, so the last entry of a repeated service wins.
advertised(services, s) == services[Max({i \in 1 .. Len(services) : services[i].service = s})].version
checkServices(required, services) ==
    \A s \in DOMAIN required :
        /\ \E i \in 1 .. Len(services) : services[i].service = s
        /\ advertised(services, s) \in required[s]

Refused == [ok |-> FALSE]
Negotiate(host, plugin, services) ==
    LET hi == Min({host.protocolMax, plugin.protocolMax})
        transport == firstCommon(host.transports, plugin.transports)
        layout == IF transport = "shm" THEN highestCommonLayout(host.layoutVersions, plugin.layoutVersions) ELSE 0
        codec == firstCommon(host.codecs, plugin.codecs)
    IN IF \/ Max({host.protocolMin, plugin.protocolMin}) > hi
          \/ transport = Nothing
          \/ transport = "shm" /\ layout = 0
          \/ codec = Nothing
          \/ requiredMissing(host, plugin) \/ requiredMissing(plugin, host)
          \/ ~checkServices(host.services, services)
       THEN Refused
       ELSE [ok |-> TRUE, protocolVersion |-> hi, transport |-> transport, layoutVersion |-> layout,
             features |-> negotiateFeatures(host, plugin), codec |-> codec]

BurstActive(tuple, ceiling) ==
    tuple.transport = "shm" /\ "burst" \in DOMAIN tuple.features /\ tuple.features["burst"] /\ ceiling # 0
ChunkingActive(tuple, ceiling) ==
    tuple.transport = "shm" /\ "chunking" \in DOMAIN tuple.features /\ tuple.features["chunking"] /\ ceiling # 0

(* ---- the messages that carry them ---- *)

\* The wire lists features with their required bit; a reader takes a listed flag as supported.
OfferToHello(o, nonce) ==
    [kind |-> "Hello", nonce |-> nonce,
     body |-> [o EXCEPT !.features = {[name |-> f, required |-> o.features[f]] : f \in DOMAIN o.features}]]
HelloToOffer(h) ==
    [h.body EXCEPT !.features =
        [f \in {e.name : e \in h.body.features} |-> \E e \in h.body.features : e.name = f /\ e.required]]

TupleToHelloAck(t, nonce, services, offer) ==
    [kind |-> "HelloAck", nonce |-> nonce, rejected |-> FALSE, pluginOffer |-> OfferToHello(offer, 0),
     services |-> services,
     tuple |-> [t EXCEPT !.features = {[name |-> f, supported |-> t.features[f]] : f \in DOMAIN t.features}]]
HelloAckToTuple(ack) ==
    [ack.tuple EXCEPT !.features =
        [f \in {e.name : e \in ack.tuple.features} |->
            \E e \in ack.tuple.features : e.name = f /\ e.supported]]
IncompatibleToHelloAck(offer, services, nonce) ==
    [kind |-> "HelloAck", nonce |-> nonce, rejected |-> TRUE, pluginOffer |-> OfferToHello(offer, 0),
     services |-> services]
HelloAckIncompatible(ack) == ack.rejected

VerifyNonce(sent, got) == sent = got
firstDuplicateService(services) == \E i, j \in 1 .. Len(services) : i < j /\ services[i].service = services[j].service
tupleEqual(a, b) == a = b

\* The host attaches on its own recomputation, never on the acknowledged tuple alone.
ValidateAcknowledgedTuple(offer, ack) ==
    LET recomputed == Negotiate(offer, HelloToOffer(ack.pluginOffer), ack.services)
    IN IF \/ firstDuplicateService(ack.services)
          \/ ~recomputed.ok
          \/ ~tupleEqual(recomputed, HelloAckToTuple(ack))
       THEN Refused ELSE recomputed

(* ---- what the attach must still carry ---- *)

\* The limit of the smaller direction, less the trailer when the tuple checks sums.
inlineLimit(spec, tuple) ==
    LET limit == Min(Range(largestClasses(spec.geometry)))
        overhead == IF "checksum" \in DOMAIN tuple.features /\ tuple.features["checksum"] THEN crcTrailerWorstCase ELSE 0
    IN IF limit < overhead THEN 0 ELSE limit - overhead

\* Mutant: a burst socket is taken for enough, though a stream message also needs chunking.
InterlockNoChunking(spec, tuple) ==
    \/ spec.maxPayload = 0
    \/ tuple.transport # "shm" /\ spec.maxPayload <= MaxFrameSize
    \/ tuple.transport = "shm" /\ (spec.maxPayload <= inlineLimit(spec, tuple) \/ BurstActive(tuple, spec.burst))

validateMaxPayloadInterlock(spec, tuple) ==
    \/ spec.maxPayload = 0
    \/ tuple.transport # "shm" /\ spec.maxPayload <= MaxFrameSize
    \/ /\ tuple.transport = "shm"
       /\ \/ spec.maxPayload <= inlineLimit(spec, tuple)
          \/ BurstActive(tuple, spec.burst) /\ ChunkingActive(tuple, spec.chunk)
=============================================================================
