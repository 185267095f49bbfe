# Styx: a TLA+ verification project

Styx is a Go framework that runs plugins as supervised child processes and calls
them over shared memory, over a Unix socket, or over both ("burst"). The modules
in this directory model its concurrent parts from the source in `src/`, TLC checks
them on small instances, and TLAPS proves the safety of six of them for every
instance.

## The system and its modules

A **host** starts a **supervisor** per plugin. A supervisor spawns the process,
attaches a **transport**, watches heartbeats on a **control socket**, restarts a
plugin that crashes or wedges, and replaces it in place by a **hot reload**. Calls
and streams travel as frames through the transport; a **client connection** on the
host and a **plugin server** in the child give them their meaning.

| Module | What it models | Source |
| --- | --- | --- |
| `ParkWake` | the reader's spin, park word and eventfd read against the writer's publish-then-signal; one access to a shared word per action | `internal/event`, `internal/transport/shm/transport.go` |
| `ParkWakeProofs` | theorems about `ParkWake` | |
| `SlabRing` | descriptor ring, slab arena, head-gated reclaim of one direction; wrapping cursors | `internal/ring`, `internal/arena`, `internal/transport/shm/writer.go` |
| `FrameFifo` | what `SlabRing` promises: a bounded FIFO of payloads | |
| `SlabRingProofs` | theorems about `SlabRing`, and that it implements `FrameFifo` | |
| `WriterQueue` | the writer loop: two intent lanes, caller fills, a set-aside intent, poison, stop | `internal/transport/shm/writer.go`, `intent.go` |
| `WriterQueueProofs` | theorems about `WriterQueue` | |
| `UdsConn` | the socket transport, one system call per step | `internal/transport/uds.go` |
| `Burst` | the transport that pairs a socket with shared memory: receiver, readiness pump, send gate, outcome, Close | `internal/rpcruntime/burst*.go` |
| `UnaryCall` | unary calls through the call table, the routing state, the reload switch, restarts, teardown | `clientconn.go`, `internal/rpcruntime/table.go`, `host.go`, `reload.go` |
| `StreamFlow` | one direction of a stream: credit, acks, the ack dispatcher, fragments, half-close | `internal/rpcruntime/stream.go`, `credit.go`, `chunk_*.go` |
| `StreamLife` | both ends of one stream: open, terminal transitions, teardown frames, obligations, the table's close | `stream.go`, `internal/rpcruntime/stream*.go` |
| `StreamFlowControl`, `StreamFlowProofs` | theorems about `StreamFlow` | |
| `StreamLifeControl`, `StreamLifeProofs` | theorems about `StreamLife` | |
| `ReloadProtocol` | the reload transaction over the control socket, host and plugin side | `internal/lifecycle/*.go`, `pluginserver.go` |
| `DrainQuiesce` | the drain predicate load by load, the serve loop and panicking handlers | `drain_quiescence.go`, `panic_policy.go`, `pluginserver.go` |
| `WedgeWatch` | heartbeats sampled load by load, `Classify` and the wedge tracker | `internal/supervisor/health.go`, `internal/rpcruntime/lease.go` |
| `Supervisor` | `Run`: restart policy, heartbeat loop, reload service, Stop | `internal/supervisor/supervisor.go`, `reload.go` |
| `SupervisorProofs` | theorems about `Supervisor`, and that it implements `EventStream` | |
| `EventKinds`, `EventStream` | the event kinds, and the stream of them a supervisor may publish (refined by `Supervisor`) | `internal/supervisor/events.go` |
| `EventBus` | one subscription: two bounded rings, forwarder, hand-off, quiescence | `internal/supervisor/events.go` |
| `HealthRelay`, `EventFanIn` | the relay into the health record; all relays into `Events()` | `host.go` |
| `HostLifecycle` | Start, Stop, abandoned attempts, retained joins, release of the workers | `host.go` |
| `Negotiation` | what each end of a handshake derives: transport, flags, layout, services, ceilings | `internal/control/handshake.go`, `supervisor.go`, `pluginserver.go` |
| `Attach` | one spawn: process, descriptors, handshake, attach over each transport, teardown, with a failure at every step | `internal/lifecycle/spawn.go`, `teardown.go`, `internal/control/fds.go`, `supervisor.go`, `pluginserver.go` |
| `StdioCapture` | the pumps, queue and sink of a plugin's output, and the reports around its exit | `internal/supervisor/capture.go`, `supervisor.go` |
| `Observe` | the metrics reporters and the bounded dispatcher, across restarts and reloads | `observability.go`, `internal/observeq/dispatch.go` |
| `RegionGeometry` | the layout arithmetic and capacity rules, as operators | `internal/shm/layout.go`, `internal/transport/shm/admission.go` |
| `Region` | a region's life: derive, create, seal, attach, read and write, close | `internal/shm/region.go`, `layout.go`, `internal/transport/shm/mapping.go` |
| `Recovery` | what an end does with stale and unusable frames: grace, rate, run, poison word, shutdown | `internal/transport/shm/recovery.go`, `poison.go`, `transport.go` |
| `ErrorFlow` | one call or stream with a failure possible at every step, up to the error its caller holds | `clientconn.go`, `pluginserver.go`, `stream.go`, `errors.go`, `internal/rpcruntime/dispatch.go` |

The `MC*` modules give the constants their values and, where several components
share a run, put them side by side: a variable `active`, chosen in the initial state
and never changed, says which of them a behaviour exercises. They take turns with one
set of variables, and the substitutions of each INSTANCE say which stands for which (in
a counterexample of `host`, `transports` or `reload`, read the names through them). Bounds that belong
together are a record (`Plans`, `Mixes`, `Sessions`, `Courses`, `Setups`, `Deals`, `Cases`) chosen in
the initial state, so that one run covers several small configurations instead of
one large one.

How the modules meet: `WriterQueue` and `UdsConn` justify the answers a Send may give
that `UnaryCall`, `StreamLife` and `ErrorFlow` choose from; `SlabRing` implements
`FrameFifo`, which is how the wire looks to everyone above; `ParkWake` is the wait
inside the reader of `SlabRing`; `Burst` treats both undersides as the first two
describe them; `Attach` is the step that `Supervisor` calls a spawn; `DrainQuiesce`
and `WedgeWatch` are the DrainAck and the verdict that `ReloadProtocol` and
`Supervisor` receive; `Supervisor` implements `EventStream`, which `HealthRelay` and
`EventFanIn` consume.

State and actions keep the code's names. An action is one critical section, one
access to a shared word, one system call, or one handler with everything it calls
under a lock, whichever is the unit at which another goroutine or process can
interfere. Data are abstract: a payload is a model value, an error is the set of
sentinels `errors.Is` finds in it, a duration is a budget that may run out.

## What the runs check

| Run | Components | What it shows |
| --- | --- | --- |
| `park_wake` | `ParkWake` | no wakeup is lost; every wait ends with a frame, the teardown or the caller's context |
| `slab_ring` | `SlabRing`, `FrameFifo` | slabs have one owner, payloads survive until released, the direction refines a bounded FIFO, a stuck intent is resolved |
| `writer_queue` | `WriterQueue` | every accepted intent is reported once and truly, in order; no fill after its caller left; submissions return |
| `unary_call` | `UnaryCall` | one honest result per call, a reload loses no answer, nothing is routed to a retired generation, every Invoke returns |
| `stream_flow` | `StreamFlow` | messages whole and in order, credit conserved and returned, no false accusation |
| `stream_life` | `StreamLife` | no orphaned end, exact obligations, a close that joins its users |
| `reload` | `ReloadProtocol`, `DrainQuiesce`, `WedgeWatch` | no update lost, no instance left frozen, the drain's answer is true, the verdict is neither early nor missed |
| `supervisor` | `Supervisor`, `EventStream` | one instance, a restart budget that holds, every reload request answered, Stop ends Run, the event stream is refined |
| `transports` | `UdsConn`, `Burst`, `Region`, `Recovery`, `ErrorFlow` | frames whole on the socket, two channels that take turns, one layout for both ends, a condemnation exactly when justified, errors that are true and safe to retry on |
| `host` | `HostLifecycle`, `HealthRelay`, `EventFanIn`, `Attach`, `Negotiation`, `StdioCapture`, `Observe` | a nil Stop leaves nothing behind, health and events end up true, the two ends agree, nothing leaks, output and metrics are accounted for |
| `unary_stranded`, `reload_cancel` | | the two findings below |

Most properties of a run are conjunctions: the parts are definitions of the
component's module, each with its own comment. Where a run has no fairness, "it ends"
is an invariant of quiescence: whoever waits, somebody still able to act owes the
step that ends the wait (`SomebodyOwes` in `ErrorFlow`, `NothingStrands`,
`ReceiverMoves`, `DrainCompletes`).

### Bounds

Bounds are chosen so that each race has its participants and each limit is reached.

- `ParkWake`: cursors of width 3 and a ring of 2, so that they wrap and the ring
  fills; one cancellation. The theorems remove these bounds.
- `SlabRing`: cursors of width 4, ring of 2, two slabs, two payloads: full ring,
  empty arena, wrap. Two payloads suffice to tell any two frames apart.
- `WriterQueue`: every queue, the ring and the arena hold one, the burst bound is
  one; each mix makes two or three submissions contend for one of them.
- `UnaryCall`: two calls, two generations, one frame on a wire; plans with a reload, a
  crash, restarts, ended contexts. The table treats calls independently, so two are
  enough for one to be caught in each window while another moves the connection.
- `StreamFlow`: windows of two and three with as many messages or one more, trains of
  two fragments, one fault; the ack threshold is then one, and above one.
- `StreamLife`: one stream, one dropped emission, one connection failure, one ack.
- `ReloadProtocol`: two reloads in a row with every fault, three heartbeats, three
  units of work; one reload without cancel or timeout in which rollback must succeed.
- `DrainQuiesce`: six frames of three kinds (stream opens, unary calls, others), four
  when panics are survived. `WedgeWatch`: three or four beats and windows of one and
  three, so that a verdict needs several beats and one can be lost between.
- `Supervisor`: one restart, one reset of its window, two reload callers, two misses.
- `Burst`: at most one frame on each channel, up to two senders, every fault in some
  plan; one plan with a peer that never runs dry.
  `UdsConn`: a frame is two units, so a tear can fall inside one.
- `Region`: sizes scaled to a page of 32 bytes; all pairs of ten class tables with five
  ring capacities and three reserves. `Recovery`: stamps of two bits, thresholds of two,
  up to three receptions over up to three ticks.
- `ErrorFlow`: one exchange; nine setups of transport, encoding, deadline and panic
  policy. Races between several calls are `UnaryCall`'s.
- `HostLifecycle`: two plugins with one Start, one plugin with two, two Stops.
  `EventFanIn`: two plugins and three incidents in all, which compete for the six places
  of the shared ring. `HealthRelay`: two attempts, up to six events.
- `Attach`: twelve specifications against seven plugin builds, and one plugin that is
  not pinned. `StdioCapture`: three lines through a queue of one. `Observe`: up to two
  generations and three movements, a queue of one.

Only `host` uses symmetry, over callers and over event feeds: its properties are
invariants and treat both alike.

### Fairness

Fairness is stated only for what the code schedules: a goroutine that can take a step
takes it. Contexts, faults, crashes, cancellations and the arrival of new work are
never fair.

- `ParkWake`, `SlabRing`, `WriterQueue`: weak fairness of the reader, writer, stop and
  submitting goroutines. Strong fairness of a `select` that keeps seeing a ready
  case next to others that come and go (`ObserveShutdown`, `Retry`, a parked `Build`):
  Go's `select` chooses among ready cases at random, and a retry is attempted after every
  wake. The producer's death or poison is followed by a teardown since the
  supervisor reaps it.
- `StreamFlow`: weak fairness of sender, reader, application, ack dispatcher, back-off
  timer and the peer's ack handling; each is a goroutine of its own or a timer that
  fires.
- `UnaryCall`: weak fairness of callers, read loops, serve loops, handlers and the
  supervisor. `Prompt = 1` states the assumption that an admitted caller stalls
  nowhere but inside Send; `unary_stranded` drops it.
- `Supervisor`: weak fairness of Run and of its callers, strong fairness of `Heard`:
  each receive is bounded by HeartbeatInterval, and a plugin is assumed not to send
  messages other than heartbeats for ever. Run's context is
  `context.Background()` (`host.go:818`), so it ends by Stop alone.

## What is proved

Each component below has an inductive invariant `IInv`, proved to hold initially and to
be kept by every action, for every value of the constants that satisfies the module's
named assumption. The properties of the run follow from it. The assumptions ask that
counts, capacities and limits are natural numbers (positive where the code rejects or
replaces zero) and that the sets of lanes and callers are what their names say; they bound
nothing. TLC checked each `IInv` on the run's instance before it was proved.

| Component | Theorem | States | For every |
| --- | --- | --- | --- |
| `ParkWake` | `WakeupsNotLost` | `[]NoLostWakeup` | cursor width, ring capacity, number of cancellations |
| | `TypeCorrect`, `ParkWordNeverDangles`, `DrainStaysBounded` | parts of `IInv` | |
| `SlabRing` | `SlabsOwnedExactly` | `[]SlabsExact` | ring capacity that divides the cursor width, set of slabs, set of payloads |
| | `FramesInOrder` | `ImplementsFifo` (refinement of `FrameFifo`) | |
| `Supervisor` | `OneInstanceAtATime` | `[]OneInstance` | restart budget, limit of missed beats, set of Reload callers, number of reset windows |
| | `EventsAsPromised` | `PublishesTheStream` (refinement of `EventStream`) | |
| `WriterQueue` | `IntentsAndSlabsAccounted` | `[]EveryIntentAccounted` | set of submissions of each kind, queue depths, ring, arena, burst bound |
| | `SubmissionsToldTheTruth` | `[]SubmissionsHonest` | |
| `StreamFlow` | `StreamsIntact` | `[]StreamIntact` | window, number of messages, fragments per message, wire capacity, refused sends |
| | `WindowsConserved` | `[]WindowConserved` | |
| `StreamLife` | `StreamsEndCleanly` | `[]EndsCleanly` | number of dropped emissions, connection failures (at most one) and acks |
| | `ObligationsExact` | `[]ObligationExact` | |
| | `HostNotOrphaned` | `[]NoOrphanAtHost`, one half of `NoOrphan` | |

The proofs about streams are in two modules each. The first (`...Control`) states `IInv`
and has the lemmas about control state; the second has the lemmas about the reader's
step, about counting or about frames in flight, and the theorems.

**ParkWake.** `NoLostWakeup` alone is not inductive. Whether the consumer may block
depends on what it saw of the tail after it armed the park word, so the invariant adds
that the word is armed only there (`ParkedOnlyInWait`); and a consumer that misses the
shutdown word relies on the wake that follows it (`TeardownOrder`). `DrainBounded` is the
separate fact that wrapped cursors never drift apart by more than the capacity, so that
the batch the consumer was handed is one it may drain; it rests on `CursorStep`, about
successors modulo the width. One lemma per conjunct shows that each action preserves it.

**SlabRing.** Cursors wrap, so "between head and tail" is a distance modulo the width, and
the capacity must divide the width for a slot to be the cursor's remainder. The invariant
says that `lastReclaimed`, `head` and `tail` follow one another round the ring at most a
capacity apart, with one place more while a pushed frame is not yet recorded
(`CursorsInOrder`); from it no two cursors in flight share a slot. The handle table has
the slab of every recorded frame and nothing else (`HandlesHeld`, `HandlesMatch`), which is
what lets reclaim stop short of the reader's head and free a slab once (`OwnedOnce`).
`NoFalsePoison` is inductive with these: a reader that only advances the head gives the
writer no reason to call the ring corrupt. For the refinement the abstract queue is the
payloads of the slots from head to tail; only the tail store and the head store change it
(`NextFifo`), so a frame in a slot before its tail store, and a slab not yet reclaimed, do
not show. The laws of wrapping distances (`DivMod`, `SameResidue` and what follows) are
lemmas of their own.

**Supervisor.** The restart budget is spent one step after the instance it pays for
(`RestartsPaid`), and a reload request is in the slot, in the loop's hand or answered
(`RequestsHeld`); the rest of the invariant says which generation is in hand and that
a running heartbeat loop is below its limit. For the refinement `EventsFollowRun` gives the
last published event at each point of Run, from which every step of Run is an event that
`EventStream` allows next or a stutter, and nobody else publishes.

**WriterQueue.** The account of an intent (queued, in hand, or reported) is kept only
because the writer's turn is: a carry exists exactly inside place or while it is set aside, a
staged lifecycle intent only at the start of a burst (`WriterTurn`). That nothing is left
after stop needs the order of the barrier and the drain (`StopOrder`). Order of data
frames is not inductive over `published` alone: the data queue is a suffix of what was
accepted, the carry comes just before it, and what is published came earlier
(`QueueIsSuffix`, `PublishedEarlier`, `AcceptedOnce`). Slabs are counted as cardinalities.
A caller that gave up on its fill has abandoned the claim word, and a built or
published fill was claimed (`FillWord`): this is what excludes a fill that runs for a
caller that left.

**StreamFlow.** The receiver's checks never fire because sequence numbers are dense
between what it expects and what the sender has given out, a close being the last frame
with the final number (`SeqDense`); because the frames in flight belong, in order, to the
messages after the last one reassembled (`MsgOrder`); and because no train, in flight or
half received, is longer than a message may be (`TrainBound`). That a buffer has room for
each message, and that EOF comes after all of them, follows from counting: every whole
message was reassembled or is in flight (`MessagesCounted`), and what is buffered carries
the credits not yet taken (`Buffered`, `CreditTaken`). Credit returned is never more than
was consumed because acks in flight rise strictly (`AckOrder`). A refused first frame
gives credit and sequence number back, which is why these counts are equalities and not
bounds.

**StreamLife.** The token of a stream is claimed by the finisher or, with the OPEN
unconfirmed, by the detached sender, and may be lent to an ack (`OpenerPlace`,
`FinisherPlace`, `TokenPlace`). Whoever may close the plugin's obligation has submitted
the last frame or found the queue full (`ToldFirst`), and an obligation that outlives its
finisher is held by an ack or by a job in the emitter's queue (`ObligationHeld`). For the
host's end: while its stream is live nothing that ends it has left the host
(`HostSilent`), and a stream that is over at the plugin has its news in the finisher, the
emitter's queue or the wire (`HostTold`).

### Model-checked only

- Liveness (`RecvReturns`, `StuckIntentResolves`, `EveryInvokeReturns`, `SubmissionsReturn`,
  `CreditFlows`, `RunAnswers`) and fairness, which the prover does not handle.
- `NoOrphanAtPlugin`, the other half of `NoOrphan`: the plugin's silent stream is excused
  while some step of it is enabled, and ENABLED is outside the prover's reach.
- `UnaryCall`, and the components of the runs `reload`, `transports` and
  `host`: their invariants and the action property `NoStaleRouting` have no proof yet. What `RegionGeometry` says of offsets that are
  running sums over the classes would also need induction over data.

## Findings

- **A call can be stranded by a teardown** (`unary_stranded`, `host.go:2193`). The join of
  admitted callers is bounded; one that is past `Enter` and not yet registered when it
  expires registers after `FailAll` and sends before the writer stops. Without a
  deadline it waits forever.
- **Cancelling a reload during the drain costs a healthy instance** (`reload_cancel`,
  `internal/lifecycle/reload.go:435`). Rollback expects `ResumeAck` and reads the
  `SaveState` that the plugin had already sent.

Met while modelling, and left as notes because they have no run of their own. In each
the model follows the code.

- `internal/rpcruntime/burst.go:803`: on a connection that failed without a poison,
  `operationErr` answers an operation with its own error, so two operations may name
  different endings. The comment at `1058-1060` says they "can never disagree about what
  ended the connection", and `124-127` that the transition fixes whether they answer
  `ErrClosed` or a failure.
- `host.go:1968`: when the heartbeat hooks are ahead of the relay, `coherentMissed`
  reports the newer instance's count beside the older one's state. The invariant at
  `1948` says a snapshot "never pairs" the two.
- `host.go:770`: `startOne` refuses by `stopRequested`, which Stop sets under the lock
  that Start holds. A Stop that has begun and waits for the lock is not yet seen, and a
  serving name is answered `ErrPluginAlreadyStarted` first. Start's doc (`642-643`) says
  that once a Stop has begun Start rejects with `ErrHostStopped` and spawns nothing.
- `internal/supervisor/supervisor.go:1259-1260`: withholding an ack "keeps a well-behaved
  plugin from sending its next heartbeat". The plugin's sender ticks whether acked or not
  (`pluginserver.go:2307-2328`) and pauses only on Drain (`563`).
- `internal/supervisor/reload.go:67`: when Run returns right after a commit, both cases of
  the second `select` are ready and it may answer `ErrReloadUnavailable`. The comment at
  `65-66` gives `doneCh` to requests that were never serviced.
- `internal/transport/uds.go:732`: Close shuts the socket down and closes the descriptor
  without waiting for an operation that is between two system calls on its number. The
  doc (`723-724`) excludes a race with the number's reuse.
- `internal/observeq/dispatch.go:174-176`: "Nothing can submit past that report". A caller
  in `clientconn.go:1195-1240` is not joined before it records its metric and may submit
  later. `Observe` counts such events as `unseen`.
- `internal/transport/shm/poison.go:228`: `TeardownError` makes two loads. A poison that
  sets both words between them is reported as `ErrClosed`, where the doc (`217-221`) says
  that the poison must win.
- `pluginserver.go:1919-1928`: a dispatched reply's send failure takes the quiet exit for
  everything but a poison, where the doc of `answerDeclinedRequest` (`1519-1521`) calls
  the two classifications the same. A unary response above the transport's limit thus
  ends the serve loop while the control loop lives on, until the dispatch-wedge verdict
  restarts the instance.

## What the models abstract

- Sums of components (`active`) explore each one alone; how they meet is described above
  and is not itself model-checked.
- `WriterQueue`: freeing the slab of an abandoned, built carry is dead code in the
  source and absent here. `StreamFlow`: the signal that arms the ack dispatcher is a flag.
- `ReloadProtocol`: a drain that is not missed ends inside its budget; `RollbackResumes`
  is claimed only without cancellation and timeout, for one heartbeat.
- `WedgeWatch`: that the counter stood still is shown over the full window; the age of
  the queued work is only what the samples show.
- `UdsConn`: a frame is two units and a budget's expiry is an action. `Burst`: cancelling
  the token is part of the publication, and the bypass of a waiting sender is bounded.
- `Attach`: whether a geometry has the capacity is an oracle; the rule is
  `RegionGeometry`'s. The checksum flag is offered by neither end, as in the code.
- `Region`: a region of another build reaches only the plugin. `Recovery`: the
  generation bump and the late-write detector have no production caller and are absent.
- `Observe`: one counter per transport; gauges and the log dispatcher are left out; a
  panicking sink has consumed its event. `StdioCapture`: one stream.
- `ErrorFlow`: a Send's outcome is chosen among those `WriterQueue` and `UdsConn` allow;
  conformance faults, malformed status frames and reject-mode backpressure are
  left out.

## Not modelled

- The identifier registry and the dedup and retry helpers (sequential maps and
  policies, no state shared beyond a map under a lock), CPU budget detection (reads of cgroup files), code generation,
  generated code, benchmarks, examples and harnesses.
- Parts of modelled components: the byte layout of descriptors, headers, status and
  control messages, the encoding of a snapshot, the arena's choice of a size class, the
  size checks of reassembly, and the classification of malformed descriptors. They
  are byte-level conversions whose outcome is an input of the models.
