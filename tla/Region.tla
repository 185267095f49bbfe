------------------------------- MODULE Region -------------------------------
(***************************************************************************)
(* One region from its creation to its last unmapping.  The supervisor     *)
(* validates the geometry and creates a sealed memfd; the host's and the   *)
(* plugin's transports each duplicate the descriptor they are given, check *)
(* it, map it and parse the layout page, while the other end may already   *)
(* be writing descriptors and payloads.  Any system call may fail          *)
(* (internal/shm/region.go, internal/transport/shm/transport.go).          *)
(***************************************************************************)
EXTENDS RegionGeometry, FiniteSets, FiniteSetsExt

CONSTANTS Plans,     \* [in, cfg, strict, from, fails, writes]: the geometry and configuration of a run,
                     \* who made the region, how many system calls fail and how many writes each end makes
          MaxFD      \* descriptor numbers of a process

VARIABLES plan, obj, table, mem, fails, writes, counted,
          other      \* another part of the host holds a descriptor

vars == <<plan, obj, table, mem, fails, writes, counted, other>>

Ends == {"host", "plugin"}
Objects == Ends \union {"creator"}
process(o) == IF o = "plugin" THEN "plugin" ELSE "host"
None == [none |-> TRUE]
Blank == [RegionSize |-> 0]

\* A Region handle, and the configuration its transport attaches with.
RegionHandle == [pc : STRING, fd : 0 .. MaxFD, mapped : BOOLEAN, closes : 0 .. 2]
Config == [MaxInflight : Nat, MaxPayload : Nat, QueueDepth : Nat, Checksum : BOOLEAN]

lowestFree(p) == CHOOSE n \in 1 .. MaxFD : table[p][n] = "free" /\ \A k \in 1 .. n - 1 : table[p][k] # "free"
opens(o) == [table EXCEPT ![process(o)][lowestFree(process(o))] = o]
shuts(o) == [table EXCEPT ![process(o)][obj[o].fd] = "free"]
goes(o, pc) == [obj EXCEPT ![o].pc = pc]

Init ==
    /\ plan \in Plans
    /\ obj = [o \in Objects |-> [pc |-> "start", fd |-> 0, mapped |-> FALSE, closes |-> 0, layout |-> None]]
    /\ table = [p \in {"host", "plugin"} |-> [n \in 1 .. MaxFD |-> "free"]]
    /\ mem = [size |-> 0, sealed |-> FALSE, page |-> Blank, written |-> {}, poison |-> 0, shutdown |-> 0, wakes |-> {}]
    /\ fails = plan.fails
    /\ writes = [e \in Ends |-> plan.writes]
    /\ counted = [created |-> 0, closed |-> 0]
    /\ other = FALSE

\* A system call that the plan lets fail.
fault == fails > 0 /\ fails' = fails - 1
works == UNCHANGED fails

-----------------------------------------------------------------------------
(* Creation. *)

\* attachSHM: nothing is created for a geometry that admits too much or that does not derive
Admit ==
    /\ obj["creator"].pc = "start"
    /\ LET admitted ==
               /\ plan.in.Generation > 0 /\ derives(plan.in)
               /\ ValidateStartupCapacity(DeriveLayout(plan.in), plan.cfg.MaxInflight, plan.cfg.Checksum, plan.strict)
       IN  obj' = IF admitted
                  THEN [obj EXCEPT !["creator"].pc = "memfd", !["creator"].layout = DeriveLayout(plan.in)]
                  ELSE goes("creator", "refused")
    /\ UNCHANGED <<plan, other, table, mem, fails, writes, counted>>
MemfdCreate ==
    /\ obj["creator"].pc = "memfd"
    /\ \/ works /\ table' = opens("creator")
          /\ obj' = [obj EXCEPT !["creator"].pc = "truncate", !["creator"].fd = lowestFree("host")]
       \/ fault /\ obj' = goes("creator", "failed") /\ UNCHANGED table
    /\ UNCHANGED <<plan, other, mem, writes, counted>>
\* ftruncate and mmap: a failure of either closes the memfd
Ftruncate ==
    /\ obj["creator"].pc = "truncate"
    /\ \/ works /\ mem' = [mem EXCEPT !.size = obj["creator"].layout.RegionSize]
          /\ obj' = goes("creator", "map") /\ UNCHANGED table
       \/ fault /\ obj' = goes("creator", "failed") /\ table' = shuts("creator") /\ UNCHANGED mem
    /\ UNCHANGED <<plan, other, writes, counted>>
MmapNew ==
    /\ obj["creator"].pc = "map"
    /\ \/ works /\ obj' = [obj EXCEPT !["creator"].pc = "seal", !["creator"].mapped = TRUE] /\ UNCHANGED table
       \/ fault /\ obj' = goes("creator", "failed") /\ table' = shuts("creator")
    /\ UNCHANGED <<plan, other, mem, writes, counted>>
\* A host of another build may write another layout version, or leave a seal out.
writtenPage ==
    LET p == writeLayoutPage(obj["creator"].layout)
    IN  IF plan.from = "version" THEN [p EXCEPT !.LayoutVersion = 2] ELSE p
Seal ==
    /\ obj["creator"].pc = "seal"
    /\ \/ /\ works
          /\ obj' = goes("creator", "open") /\ UNCHANGED table
          /\ mem' = [mem EXCEPT !.page = writtenPage, !.sealed = plan.from # "unsealed"]
          /\ counted' = [counted EXCEPT !.created = @ + 1]
       \/ /\ fault
          /\ obj' = [obj EXCEPT !["creator"].pc = "failed", !["creator"].mapped = FALSE]
          /\ table' = shuts("creator")
          /\ mem' = [mem EXCEPT !.page = writtenPage] /\ UNCHANGED counted
    /\ UNCHANGED <<plan, other, writes>>

-----------------------------------------------------------------------------
(* OpenRegion and Attach, at either end. *)

declared == IF plan.from = "size" THEN mem.size + PageSize ELSE mem.size

\* The host attaches its own region; a region of another build reaches only the plugin of this one.
Dup(e) ==
    /\ obj[e].pc = "start" /\ obj["creator"].pc = "open"
    /\ e = "host" => plan.from = "host"
    /\ \/ works /\ table' = opens(e)
          /\ obj' = [obj EXCEPT ![e].pc = "stat", ![e].fd = lowestFree(process(e))]
       \/ fault /\ obj' = goes(e, "failed") /\ UNCHANGED table
    /\ UNCHANGED <<plan, other, mem, writes, counted>>
\* phase 1: what the kernel says of the descriptor, before anything is mapped
phase1 ==
    /\ declared <= MaxRegionSize
    /\ declared >= 2 * PageSize /\ mem.size >= 2 * PageSize
    /\ mem.size = declared
    /\ mem.sealed
Stat(e) ==
    /\ obj[e].pc = "stat"
    /\ \/ works /\ phase1 /\ obj' = goes(e, "map") /\ UNCHANGED table
       \/ works /\ ~ phase1 /\ obj' = goes(e, "rejected") /\ table' = shuts(e)
       \/ fault /\ obj' = goes(e, "failed") /\ table' = shuts(e)
    /\ UNCHANGED <<plan, other, mem, writes, counted>>
Mmap(e) ==
    /\ obj[e].pc = "map"
    /\ \/ works /\ obj' = [obj EXCEPT ![e].pc = "parse", ![e].mapped = TRUE] /\ UNCHANGED table
       \/ fault /\ obj' = goes(e, "failed") /\ table' = shuts(e)
    /\ UNCHANGED <<plan, other, mem, writes, counted>>
\* phase 2: the handle is counted as mapped whether or not the page parses
Parse(e) ==
    /\ obj[e].pc = "parse"
    /\ counted' = [counted EXCEPT !.created = @ + 1]
    /\ obj' = IF parses(mem.page, mem.written, declared, mem.size)
              THEN [obj EXCEPT ![e].pc = "check", ![e].layout = parseLayoutPhase2(mem.page)]
              ELSE goes(e, "badgeom")
    /\ UNCHANGED <<plan, other, table, mem, fails, writes>>
\* poisonBadGeometry: the words are at their fixed place whatever the page says
poisonWord == PageSize + 6 * CacheLine
shutdownWord == PageSize + 7 * CacheLine
PoisonBadGeometry(e) ==
    /\ obj[e].pc = "badgeom"
    /\ mem' = [mem EXCEPT !.poison = IF @ = 0 THEN 1 ELSE @, !.shutdown = 1, !.wakes = {"hp", "ph"},
                          !.written = @ \union {<<poisonWord, poisonWord + 1, "both">>,
                                                <<shutdownWord, shutdownWord + 1, "both">>}]
    /\ obj' = goes(e, "unwind")
    /\ UNCHANGED <<plan, other, table, fails, writes, counted>>
Check(e) ==
    /\ obj[e].pc = "check"
    /\ obj' = goes(e, IF validateCapacityInvariant(plan.cfg, obj[e].layout) THEN "attached" ELSE "unwind")
    /\ UNCHANGED <<plan, other, table, mem, fails, writes, counted>>

\* Region.Close: the first caller unmaps and closes, every other returns; a mapping that would not
\* go is not counted as closed.
mayClose(o) == obj[o].pc \in {"open", "attached", "unwind", "closed"} /\ obj[o].closes < 2
CloseTwice(o) ==
    /\ mayClose(o)
    /\ \/ works /\ counted' = [counted EXCEPT !.closed = @ + 1]
          /\ obj' = [obj EXCEPT ![o].pc = "closed", ![o].closes = @ + 1, ![o].mapped = FALSE]
       \/ fault /\ obj' = [obj EXCEPT ![o].pc = "closed", ![o].closes = @ + 1] /\ UNCHANGED counted
    /\ table' = shuts(o)
    /\ UNCHANGED <<plan, other, mem, writes>>
Close(o) ==
    /\ mayClose(o)
    /\ \/ /\ obj[o].closes = 0
          /\ \/ works /\ counted' = [counted EXCEPT !.closed = @ + 1]
                /\ obj' = [obj EXCEPT ![o].pc = "closed", ![o].closes = 1, ![o].mapped = FALSE]
             \/ fault /\ obj' = [obj EXCEPT ![o].pc = "closed", ![o].closes = 1] /\ UNCHANGED counted
          /\ table' = shuts(o)
       \/ /\ obj[o].closes > 0
          /\ obj' = [obj EXCEPT ![o].closes = @ + 1]
          /\ UNCHANGED <<table, fails, counted>>
    /\ UNCHANGED <<plan, other, mem, writes>>

-----------------------------------------------------------------------------
(* Traffic: an attached end writes its own sync words, ring and slabs. *)

outbound(e) == IF e = "host" THEN "hp" ELSE "ph"
inbound(e) == IF e = "host" THEN "ph" ELSE "hp"

\* Sync words, one to a cache line: tail, head and park word of each direction.
syncTailOffset == [hp |-> 0, ph |-> 2 * CacheLine]
syncHeadOffset == [hp |-> CacheLine, ph |-> 3 * CacheLine]
syncParkOffset == [hp |-> 4 * CacheLine, ph |-> 5 * CacheLine]
wordSpans(e) ==
    {<<obj[e].layout.SyncPageOffset + w, obj[e].layout.SyncPageOffset + w + 1>> :
        w \in {syncTailOffset[outbound(e)], syncHeadOffset[inbound(e)], syncParkOffset[inbound(e)]}}
carveRing(e, d) ==
    {<<obj[e].layout.Rings[d] + k * DescriptorSize, obj[e].layout.Rings[d] + (k + 1) * DescriptorSize>> :
        k \in 0 .. obj[e].layout.RingCapacity - 1}
arenaSpan(e, d) == obj[e].layout.Arenas[d].Offset
classesOf(e, d) == obj[e].layout.Arenas[d].Classes
\* newTransport: what an end sends at most, and what it takes at most
maxPayload(e) ==
    LET most == slabSizeLast(classesOf(e, outbound(e))) - overhead(plan.cfg.Checksum)
    IN  IF plan.cfg.MaxPayload = 0 THEN most ELSE Min({most, plan.cfg.MaxPayload})
maxRecvPayload(e) == slabSizeLast(classesOf(e, inbound(e))) - overhead(plan.cfg.Checksum)
slabSpans(e) ==
    UNION {{<<arenaSpan(e, outbound(e)) + o, arenaSpan(e, outbound(e)) + o + n + overhead(plan.cfg.Checksum)>> :
               o \in allocOffsets(classesOf(e, outbound(e)), n + overhead(plan.cfg.Checksum))} :
           n \in {1, maxPayload(e)}}
edges(S) == {s \in S : \/ \A t \in S : s[2] <= t[2]
                       \/ \A t \in S : t[2] <= s[2]}
Write(e) ==
    /\ obj[e].pc = "attached" /\ writes[e] > 0 /\ mem.shutdown = 0
    /\ \E s \in edges(wordSpans(e)) \union edges(carveRing(e, outbound(e))) \union edges(slabSpans(e)) :
           mem' = [mem EXCEPT !.written = @ \union {<<s[1], s[2], e>>}]
    /\ writes' = [writes EXCEPT ![e] = @ - 1]
    /\ UNCHANGED <<plan, other, obj, table, fails, counted>>

\* Another part of the host opens a descriptor of its own and gets the lowest free number.
OtherOpens ==
    /\ obj["creator"].closes > 0 /\ ~ other /\ other' = TRUE
    /\ table' = [table EXCEPT !["host"][lowestFree("host")] = "other"]
    /\ UNCHANGED <<plan, obj, mem, fails, writes, counted>>

Next ==
    \/ Admit \/ MemfdCreate \/ Ftruncate \/ MmapNew \/ Seal \/ OtherOpens
    \/ \E e \in Ends : Dup(e) \/ Stat(e) \/ Mmap(e) \/ Parse(e) \/ PoisonBadGeometry(e) \/ Check(e) \/ Write(e)
    \/ \E o \in Objects : Close(o)
Spec == Init /\ [][Next]_vars

-----------------------------------------------------------------------------
TypeOK ==
    /\ plan.cfg \in Config
    /\ \A o \in Objects : [f \in {"pc", "fd", "mapped", "closes"} |-> obj[o][f]] \in RegionHandle
    /\ \A o \in Objects : obj[o].layout = None \/ obj[o].layout \in Layout

laidOut == {o \in Objects : obj[o].layout # None}
peer(e) == CHOOSE f \in Ends : f # e
attached == {e \in Ends : obj[e].pc = "attached"}

\* The spans of a derived layout follow one another on page boundaries and end where the region does;
\* each holds what it is for, and the class tables lie apart in the layout page (deriveSpans).
SpansTile ==
    \A o \in laidOut :
        LET l == obj[o].layout
            ringBytes == l.RingCapacity * DescriptorSize
            starts == <<0, l.SyncPageOffset, l.Rings["hp"], l.Rings["ph"], l.Arenas["hp"].Offset,
                        l.Arenas["ph"].Offset, l.RegionSize>>
            needs == <<HeaderSize, 8 * CacheLine, ringBytes, ringBytes, classTotal(l.Arenas["hp"].Classes),
                       maxSlabExtent(l.Arenas["ph"].Classes)>>
        IN  /\ \A i \in 1 .. 6 : starts[i] % PageSize = 0 /\ starts[i] + needs[i] <= starts[i + 1]
            /\ tablePlaces(l, "hp") \intersect tablePlaces(l, "ph") = {}
            /\ \A d \in Direction : \A p \in tablePlaces(l, d) : HeaderSize <= p /\ p + EntrySize <= PageSize

\* Two attached ends read the same layout from the page the creator wrote, and neither sends a payload
\* the other would refuse as too large (newTransport's limits).
EndsReadOneLayout ==
    /\ plan.from = "host" => \A e \in Ends : obj[e].layout # None => obj[e].layout = obj["creator"].layout
    /\ attached = Ends => \A e \in Ends :
           /\ maxPayload(e) <= maxRecvPayload(peer(e))
           /\ plan.cfg.MaxPayload = 0 => maxPayload(e) = maxRecvPayload(peer(e))

\* Whatever the two ends have already written, an attach never refuses the region this host made:
\* traffic stays clear of every byte phase 2 wants to be zero, and a geometry that passed the startup
\* check passes the attach's own (validateCapacityInvariant).
OwnRegionAccepted ==
    plan.from = "host" =>
        \A e \in Ends :
            /\ obj[e].pc \notin {"rejected", "badgeom"}
            /\ obj[e].pc = "unwind" => plan.cfg.QueueDepth = 0 \/ plan.cfg.MaxPayload # 0

\* No byte is written by both ends.
WritersApart ==
    \A v \in mem.written, w \in mem.written :
        v[3] \in Ends /\ w[3] \in Ends /\ v[3] # w[3] => ~ overlaps(v[1], v[2], w[1], w[2])

\* Producer and consumer agree about slabs: for every length an end may send, every slab its allocator
\* may hand out lies in that direction's arena, is at no offset that means "no slab", and is one the
\* consumer takes as a slab of the class that serves the length (allocOffsets, slabInClass).
SlabsAgreed ==
    attached = Ends => \A e \in Ends : \A n \in 1 .. maxPayload(e) :
            LET stored == n + overhead(plan.cfg.Checksum)
                f == peer(e)
            IN  \A o \in allocOffsets(classesOf(e, outbound(e)), stored) :
                    /\ o # 0 /\ slabInClass(classesOf(f, inbound(f)), o, stored)
                    /\ o + stored <= obj[f].layout.Arenas[inbound(f)].Bytes

\* A geometry certified as strict has, for every length and every admitted call, a slab: the offsets the
\* allocator can hand out are at least as many as the calls in flight.
StrictCovers ==
    plan.strict => \A o \in laidOut :
        obj["creator"].pc # "refused" => \A d \in Direction :
            \A n \in 1 .. slabSizeLast(obj[o].layout.Arenas[d].Classes) :
                Cardinality(allocOffsets(obj[o].layout.Arenas[d].Classes, n)) >= plan.cfg.MaxInflight

\* Descriptors and mappings: an open handle owns its descriptor number, a finished one owns none, nobody
\* loses a number to another's close, and the two counters differ by the handles still mapped.
HandlesBalanced ==
    LET owned(o) == {n \in 1 .. MaxFD : table[process(o)][n] = o}
        done == {"start", "memfd", "refused", "failed", "rejected", "closed"}
        mapping == {o \in Objects : obj[o].mapped}
    IN  /\ \A o \in Objects :
               owned(o) = IF obj[o].pc \in done THEN {} ELSE {obj[o].fd}
        /\ other => \E n \in 1 .. MaxFD : table["host"][n] = "other"
        /\ counted.created - counted.closed
               = Cardinality({o \in mapping : obj[o].pc \notin {"seal", "parse"}})
        /\ \A o \in mapping : obj[o].pc \notin done \/ (obj[o].pc = "closed" /\ fails < plan.fails)

\* Phase 1 refuses without mapping; a page that does not parse is poisoned, shut down and both ends are
\* woken before the handle is closed; nothing else here poisons (Attach, poisonBadGeometry).
RefusalsTold ==
    /\ \A e \in Ends : obj[e].pc = "rejected" => ~ obj[e].mapped /\ mem.poison = 0
    /\ mem.poison # 0 <=> \E e \in Ends : obj[e].layout = None /\ obj[e].pc \in {"unwind", "closed"}
    /\ mem.poison # 0 => mem.shutdown = 1 /\ mem.wakes = Direction

\* The region is what both ends take it to be, from its derivation to its last unmapping.
RegionSound ==
    /\ TypeOK /\ SpansTile /\ EndsReadOneLayout /\ OwnRegionAccepted /\ WritersApart /\ SlabsAgreed
    /\ StrictCovers /\ HandlesBalanced /\ RefusalsTold
=============================================================================
