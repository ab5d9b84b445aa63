# A verification project for Synnax

Synnax stores and streams telemetry in a cluster of servers, and shows and
controls it in a desktop application of several windows.  This directory models
the parts of it whose correctness depends on the order in which several actors
act.  On the server: who may write a channel, how a node gets its key, how
metadata is replicated.  In the application: how windows share a store, how
components on two threads stay the same tree, how telemetry is cached, streamed
and read, and where tabs are.  The modules are checked with TLC on small
instances, and some are proved with TLAPS for every instance.

Contents: [inventory](#inventory), [modules and code](#modules-and-the-code-they-model),
[runs](#runs), [fairness](#fairness), [proofs](#proofs),
[disagreements](#where-the-code-and-its-documentation-disagree),
[what is not modelled](#what-is-not-modelled), [plan](#plan).

## Inventory

A Synnax node is one Go process.  From the bottom up:

**Cesium** (`cesium/`) is the time-series engine of a node.  A channel is a
directory of data files and an index of *pointers* (time range, file, offset,
length).

| part | state | operations |
| --- | --- | --- |
| controller (`internal/controller`) | a sorted list of regions; per region its gates, the gate in control, a counter | open a gate, open an absolute gate, register, set authority, release, authorize |
| unary and virtual writers (`internal/unary`, `internal/virtual`) | a gate and, through it, the region's domain writer | open, write, commit, close; delete and existence checks take an absolute gate |
| domain index (`internal/domain/index*.go`) | sorted pointers in memory, the index file, `persistHead` | insert, update, search, persist, load |
| domain writer, delete, GC (`internal/domain`) | file and offset of the open domain | write, commit with file switch, delete, garbage collection |
| file controller (`internal/domain/file_controller.go`) | open readers and writers per file, `unopened` | acquire, release, collect |
| stream writer, relay, digests (`cesium/*.go`) | writers of several channels, connected streamers | write, commit, set authority, publish control updates |

What makes it correct: two writers never control one stretch of a channel;
control follows authority; transfers tell the truth about it; domains never
overlap; the index on disk describes what was committed; descriptors stay
within their limit and nobody waits for one for ever.

**Aspen** (`aspen/`) is the cluster: membership and a replicated key-value store.

| part | state | operations |
| --- | --- | --- |
| pledge (`internal/cluster/pledge`) | a responsible's proposal, a juror's approvals (in memory) | pledge, propose, verdict |
| cluster and store (`internal/cluster`, `.../store`) | member list with heartbeats, host key, flushed copy | open, gossip sync/ack/ack2, merge, flush |
| kv (`internal/kv`) | values and digests in the engine, version counter, gossip store, repetition counts | set, delete, commit, forward, assign, filter, persist, gossip, feedback, recover |

What makes it correct: no two nodes own one key; members learn of each other;
a key has one leaseholder; every write reaches every node and nothing replaces
it but a newer one; a node that comes back catches up; what was acknowledged is
stored.

**Distribution** (`synnax/pkg/distribution`) spreads channels over nodes: each
channel is leased to one node, requests are forwarded to it, frames are fanned
out and in, the ontology keeps a graph in Aspen.  **Services**
(`synnax/pkg/service`), the **API** and **server** sit on top; the **driver**
(`driver/`, C++) acquires from devices and writes through the **clients**
(`client/`); **freighter** is the transport, **x** the shared library, **alamos**
the instrumentation.

The user interface is TypeScript.  Each window of the **console** is a web view
with its own threads.

| part | state | operations |
| --- | --- | --- |
| Drift (`drift/`) | a Redux store per window, a slice saying what windows there should be, the windows of the runtime | dispatch, reduce, sync with the runtime, emit to the other windows, first state of a joining window, reload, restart |
| Aether (`pluto/src/aether`) | React components and their states, the worker's tree with states and contexts, two message ports | mount, unmount, effects and cleanups, set state from either thread, update, delete, propagate contexts |
| telemetry cache (`pluto/src/telem/client/cache`) | per channel a buffer for live samples and an ordered list of series | write live frames, flush, write fetched series, read with gaps, collect, close |
| telemetry streamer (`.../streamer.ts`, `client/ts/src/framer`, `freighter/ts`) | listeners, one shared stream, its run loop, the web socket's queues | add and remove handlers, open, update and close the stream, deliver frames |
| telemetry reader (`.../reader.ts`, `client/ts/src/channel/retriever.ts`) | requests of a debounced batch, entries of the cache | read, retrieve channels, batch, fetch, reread, collect, close |
| mosaic (`pluto/src/mosaic`) | a binary tree of leaves with tabs | insert, remove, move, split, select, gc |
| layout and workspaces (`console/src/layout`, `.../workspace`) | layouts, a mosaic per window, the saved workspace | place, move, remove, open in a new window, save, set and clear a workspace |

What makes it correct: stores apply one another's actions in order, and no
window is out of reach; the worker's tree is the
mounted one; cached series are in order and complete where they claim to be;
handlers get every buffer, the server is asked for what somebody wants and for
nothing after the client is closed; a read that resolves is complete and every
read ends; a tab is in one place, which is shown.

How they meet: a stream writer opens one unary writer per channel; each asks
its channel's controller for a gate, and the gate that controls the region
writes through the region's domain writer, which takes its file from the file
controller and commits pointers to the index.  The transfers that controllers
return become frames of the control channel.  Aspen's kv takes its members from
the cluster store, which gossip and pledges fill; distribution and services
keep their records in Aspen's kv.

What is hard: calls of several goroutines between which a lock is dropped
(controller, unary, index, file controller); three gossip protocols over a
lossy network, each with its own pipeline of goroutines and channels; state
that survives a crash next to state that does not (approvals, counters,
digests, the index file).  In the user interface: everything between two
awaits of JavaScript, messages between windows and threads that pass each other,
timers, and effects that dispatch again.  `PROJECT.json` lists these hazards line by line with
the properties that bear on them.

## Modules and the code they model

### CesiumController

`cesium/internal/controller/controller.go`, with `TimeRange.OverlapsWith` and
`Transfer.Occurred` from `x/go`.  Gate structs are `status`, `subject`,
`authority`, `position`, `regionOf`; region structs are `timeRange`, `counter`,
`curr`, `gates`; `listed` is `Controller.regions`.  `reported` is a history
variable: what a reader of the returned transfers believes.

A call that holds its locks throughout is one action:
`OpenGateAndMaybeRegister` (on a new region or the first overlapping one),
`OpenAbsoluteGateIfUncontrolled`, `Register`, `SetAuthority`, `Release`.  Two
calls are split where the code gives others a chance:

- `release` drops the region's lock and then calls `Controller.remove`:
  `ReleaseLast` leaves the gate `"removing"`, `Remove` finishes.
- `unprotectedRelease` sets `curr` to nil before it looks for the next
  controller, and `LeadingState` does not take the region's lock:
  `ReleaseController` leaves the gate `"electing"`, `Elect` finishes.

The loop of `unprotectedUpdate` ranges over a Go map, so `UpdateController`
picks any better gate.  An open that meets two regions fails but leaves its gate
in the first: status `"leaked"`, never released.

### AspenPledge

`aspen/internal/cluster/pledge/pledge.go` and what `cluster.go` does around it.
Per node: its `key`, how often it was restarted (`epoch`), the members it knows
(`view`), the flushed copy (`disk`), its juror's `approvals`.  Per pledge: the
responsible it is `at`, the `round`, the `proposed` key, the `candidates`
snapshot, the jurors it is `waiting` for, what they `granted` and whether one
`failed`.  `stray` holds proposals that were cancelled after they were sent;
`admitted` is the history of keys given and the approvals they rest on.

`Propose` is one iteration of the loop of `responsible.propose`; `Verdict` is
`juror.verdict` and the answer's way back; `JurorUnreachable`, `GiveUp` and
`StrayVerdict` are the lost, late and cancelled messages; `Admit` is the answer
reaching the pledge, which makes itself host and binds its own arbiter;
`Gossip`, `Flush` and `Restart` are the parts of the cluster that decide what
members a responsible and its jurors know.  `Gossip` merges any part of what a
peer knows, which includes every outcome of the exchange with heartbeats.

A behaviour starts from one of `Clusters`: the bootstrapped node alone, or a
cluster that was opened from storage and whose members know each other
(`InitCluster`).  Each has the `Config.Peers` of the nodes that join, and may be
`calm`: nobody gossips or restarts in it, which bounds the larger ones.

### AspenKV

`aspen/internal/kv`.  An operation is key, version and leaseholder and stands
for its value too; a delete is an operation like any other, because its digest
stays.  Per node: `digest` and `data` in the engine, the version `counter` in
memory and as `stored`, the batches between filter and persist (`persistQ`),
the `infected` operations of the gossip store, the `repetitions` of
`gossipRecoveryTransform`.  Messages are `requests` to leaseholders, `syncs`,
`feedback` and `recovery`.  `acked` and `written` are histories.

A stage of the pipeline is an action: `Commit` and `Allocate` (tx, lease
allocator), `Assign` (version assigner), `Persist` (persist and store sink),
`Gossip` (emitter, operation client and server), `Filter` (version filter and
feedback sender), `ReceiveFeedback` (feedback receiver, recovery transform,
store sink), `Open`, `RecoverPeer`, `CommitRecovery`, `Crash`.  Failures are
`SendFails`, `AssignFails` (the counter has moved in memory, nobody calls
`done`), and `PersistFails` (the error of an apply is swallowed, that of a
commit is not).

Abstractions: a transaction has one operation; persist and store sink are one
step (a crash between them equals one after both, since the gossip store is in
memory); a sender has one message of each kind on its way to a peer; a failed
request's answer is not told apart from a request that never arrived.

### Drift

`drift/src`: the slice and its reducers (`state.ts`), the middleware that gives
an action its label, reduces it, syncs the windows of the runtime and emits it
(`middleware.ts`, `sync.ts`), `configureStore.ts` and the Tauri runtime.  Each
window has a `phase` of its `configureStore`, its `store`, the `effects` queued
on its mutex and an `inbox` of events; `boot` is the part of `syncInitial` that
is between two awaits; `replies` are states the main window is about to send;
`persisted` is what it is given when it restarts.  A reducer runs at once
(`Dispatch`, `Commit`) and queues a record of the calls it leads to: windows to
close, windows to create, changes of the window's own properties, and the action
to emit, in this order.  Every call is a step (`RunCall`) and may throw
(`FailCall`); the windows that go with the main one are closed in any order, as
by `Promise.all`, the main one last; windows of one dispatch are created in
any order, where the code follows the order of the slice.  Broadcasts reach each
window on their own.  Windows
subscribe, request, receive their first state, list labels, close or create what
differs, and come up: an action each.  Users dispatch from any window
(`UserDispatch`), windows are closed by their button or by the runtime, and
reload.  A user's `setWindowProps` names any key: `assignLabel` gives a key that
no window has no label, and the reducer then writes the window that JavaScript
calls `windows['undefined']`, which the main window creates like any other.  `clock` and `heard` are histories for `ActionsInOrder`.  Destroying and
making a window is taken to succeed: where it does not, the runtime logs the
error and goes on.

### Aether

`pluto/src/aether`.  The main thread has the React state of each component
(`local`), the effects that have yet to run and the cleanups they left, and the
`registry` of handlers; the worker has the `tree` by path.  `Mount` creates on
the first render as `useLifecycle` does, `RunEffects` (the effects of one
component) and `Unmount` send updates and deletes; where React runs the
cleanups of several components in one commit the model takes any order that
deletes a parent before what it encloses,
`HandleUpdate` and `HandleDelete` are the worker's `Root`, with the propagation
of contexts in them, `HandleUpdateThrows` is an `afterUpdate` that throws half
way.  `Report` is a state set by the worker, `ReportLate` one set by a component
that is deleted already.  `Provides` has the values a component sets on its
context in `afterUpdate`, `Announces` those it sets with `trigger`: only if there
are some are its children told, then of all values.  The render controller, for
one, sets its value without.  `Handled` are the components used with an
`onReceive`; a message of the worker to another one makes the Provider throw,
and is lost.

### TelemCache

`pluto/src/telem/client/cache` for one channel, with `bounds.ts`,
`Series.slice` and `TimeRange.overlapsWith` of `x/ts`.  A sample is its true
position in the channel, so a sample under a wrong alignment shows.
`writeDynamic` is a live frame with any number of samples lost before it,
through `Dynamic.write`, its buffers and the flush into `Static`; `read` adds
the gaps it finds to `pending`, and `writeStatic` is their late answer, cut by
`buildInsertionPlan` to what the cache holds then; `gc`, `close`, `acquire` and
`release` are the calls of the same names.  The loops of the code (the series of
a write, the samples of a frame, the entries of a collection) are the recursive
functions `Writes`, `Fills` and `Kept`, indexed by how far the loop has come.

### TelemStreamer

`streamer.ts`, the framer's `Streamer` and `StreamProxy` of the client, and the
web socket of freighter.  A task in the `queue` holds the mutex up to the point
`step` says; `updateStreamer` is split at its awaits (the run loop ending, the
socket opening, the first acknowledgement); `HandleFrame`, `FrameThrows` and
`StreamEnds` are the run loop, which does not take the mutex, and `close` and
`CloseResumes` are `Core.close`, which does not either.  `ws` has the messages
in both directions and what the server has been told.

### TelemReader

`reader.ts`, `populateMissing` of the cache, the `DebouncedBatchRetriever` of
the client and `debounce`.  Two batchers of the same shape (`ret`, `batch`):
requests, a timer, a run that is due, a run that holds the mutex.  A time range
is a set of instants.  A read goes through `read`, `retrieve`, `CheckCache`,
which finds the gaps of each channel as stretches of time (`GapsIn`), `Request`
(one per range, with the channels that lack it) and `Reread`.  `RetrieveEnds`
brings back any of the channels asked for, since a key that is zero or unknown is
left out of the answer.  A batch makes one request of those for the same range
(`Grouped`); ranges that nest or overlap are fetched one after the other as they
are, and end, fail or are refused by the cache.  `writeStatic` is what the cache
does with an answer, as TelemCache has it in detail: a range that lies inside a
series (`nested`) may leave series that overlap, after which `checkIntegrity`
throws (`BatchWriteThrows`), reads may see gaps that are none, and writes may put
out data.  `writeDynamic` is a buffer that a stream flushes, `gc` and `close` may
come between any two steps.  Every instant of a range is taken to have data, and
ranges that differ by less than the 5 ms of `batchRead` to be equal.

### Mosaic, Layout and TabPlacement

Mosaic has the operators of `pluto/src/mosaic/tree.ts`.  A tree is a function
from positions to nodes; the code's keys are data of the nodes, because gc lets
them drift from the positions.  Layout is `console/src/layout`: the reducers of
the slice on a pair of slice and windows, the effects that dispatch again as
recursive operators, and the hooks that dispatch twice.  In the main window two
dispatches in a row are one step (`OpenInNewWindow`); from another window they
come one at a time (`PlaceNewWindow`, `MoveToNewWindow`), and anything may come
between.  TabPlacement is the abstract specification: where each tab is, what
one step may do to that, and what a workspace brings back.  Layout implements
it by `Placement`.

`CloseRequested` is the operating system closing a window: Drift dispatches
`closeWindow({})`, whose payload has no key, so that
`deleteLayoutsOnMosaicCloseEffect` returns and the mosaic stays.  Two histories
serve the properties: `cut` has the windows that closed and left their mosaic
behind, until they are opened again, and `astray` says that a tab was once put in
a node with children, as `layout_drop` shows it can be.

Assumptions: a tab already in a mosaic is not placed anew outside of one
(slice.ts:215-217 has no caller: the layouts placed as windows and modals have
keys of their own); a window that waits for its first tab is not used, and a
workspace is saved only when no pair of dispatches is under way (the save waits 250 ms
after the last change).

## Runs

| run | instance | what it shows |
| --- | --- | --- |
| `controller` | 3 gates, 2 regions, 3 subjects, authorities 1, 2 and absolute, ranges [1,2) [2,3) [1,end) | regions stay disjoint; a region is removed when, and only when, a release took its last gate; a region that is not being torn down is controlled by one of its gates; transfers tell which; control is never usurped; only a controller that lowers itself leaves a lower gate in control |
| `controller_join` | 3 gates, 1 open-ended range | violation: see below |
| `pledge` | 5 nodes, keys up to 5, 2 proposals; two join the bootstrapped one, with 1 restart, or two join a calm cluster of three through different members | a juror approves a key once; juries are majorities of what the responsible knew; the same members never give the same key twice |
| `kv` | 2 nodes, 1 key, 2 writes, 2 batches between filter and persist, a failing write of the counter, a crash with recovery | no version is given twice; while writes succeed no replica is ahead of the leaseholder and nothing takes the leaseholder back |
| `kv_spread` | 2 nodes, 1 write, threshold 1, a failing engine write, fair | the only write of a key reaches both nodes |
| `drift` | the main window, one more label and "undefined", one key, every action type, 2 dispatches, 1 window event or failing call, no prerendering, fair | no window of the runtime is unknown to the main store; actions are applied in the order they were dispatched; a window that waits for its first state gets it |
| `aether` | a composite in a composite, which hides one of its values without trigger, with a leaf in that, 6 renders, 1 report, 1 throw | the worker's tree, contexts and states follow React's, except where both threads set a state at once or a throw cut an update short |
| `telem_cache` | 5 samples, buffers of 2 and 4, up to 2 samples lost, a second stored domain, 1 pending fetch | the static cache stays in order; samples are one off at most; nothing in the buffer goes, nor anything held or fresh; fetches fill their gap; reads report all that is missing |
| `telem_streamer` | 2 handlers sharing a channel, 2 faults, fair | handlers have the buffer that is written to; the server was asked for what listeners want; no stream outlives a close; every call ends |
| `telem_reader` | 2 reads sharing a channel, the range of one inside the other's, 1 failing request, 1 flushed buffer, 1 collection, fair | resolved reads are complete; reads fail for a cause only; every read ends |
| `layout` | 3 tabs, 2 windows besides the main one, leaves divided down to key 3 | until a drop goes astray mosaics and layouts agree and trees can be rendered; drops land where keys are in order; mosaics have windows; the slice implements TabPlacement; a tab opened in a new window is kept |
| `layout_drop` | 5 tabs in the main window, keys up to 9 | violation: see below |

Why the bounds are enough for these questions.  *Controller*: three gates are
the least with which a release has to elect between two, and a newcomer can
join while another gate is being released; two adjacent ranges and one that
covers both give new, joined and doubly overlapped regions; gates and regions
are not reused, so a region that dies and is registered again takes a second
identity.  *Pledge*: two joining nodes are the least that compete for a key,
three members the least with majorities that are not everybody, so that two
juries can differ and still share a juror; one restart anywhere is enough to lose
approvals or an unflushed key.  *KV*: two nodes are
the least with a replica, two writes the least with an older and a newer
version; with one key both writes meet; a queue of two lets a batch be filtered
while another waits to be persisted.  `Fallible` says which stage's engine
writes may fail: in `kv` the counter's, next to a crash; in `kv_spread` also the
persist stage's.  *Drift*: two dispatches
meet from any two windows, and create, close and a late report take the one
label through its life; prerendered windows, which need three labels, are left
to the proofs, which hold with and without them.  *Aether*: three levels are the least in which a
context is hidden half way; six renders mount all three, change, unmount and
mount one again.  *TelemCache*: five samples let two buffers be flushed and a
third be in use, with a fetch that is older than the flush.  *TelemStreamer*
and *TelemReader*: two actors that share one channel and differ in another;
three instants are the least with a range inside another.
*Layout*: three tabs are the least with which a leaf is divided, one half
closed and the other lifted while a tab is in another window; the drift of keys
that loses a drop needs five, which `layout_drop` has in one window; in that
instance `TabsMatchLayouts`, `MosaicShape` and `DropLands` hold too, by a check
outside of the runs, over all states up to the first such drop.

Deadlock is not checked: gates, writes, dispatches, renders and restarts are
used up, calls have ended, and then nothing is left to do.

Symmetry is used for gates, regions and subjects (the controller compares
positions, never identities), for the states of Aether's components, and for tabs and
secondary windows (their keys are only compared).  Aspen's nodes are not
symmetric: its kv compares their keys, and the nodes that join differ in the
peers they ask.

The type invariants of CesiumController, AspenPledge, AspenKV, TelemReader,
TelemStreamer, TelemCache and Aether are proved, and that of Layout is a conjunct
of one invariant of its run; what Drift's proofs need of types is part of their
invariant (`Shaped`).  Every property of a passing run has a mutant, a definition that changes the model like a plausible
bug in the code (`Mutant:` in the modules, or a comment that says what it goes
without in Layout and Mosaic) and that violates the
property under the same configuration.

## Fairness

`kv_spread`: the stages of the pipeline are goroutines that wait only for their
channels: weak fairness of `Persist` and `ReceiveFeedback`, and strong fairness
of `Filter`, which is disabled while the channel to persist is full.  The
emitter fires at every gossip interval and picks a random peer, so a node that
stays infected gossips to each peer again and again: strong fairness of
`Gossip`.  Nothing is assumed of the answers and of feedback, which may be lost
every time, and nothing of clients, opens and crashes.

`drift`: weak fairness of what each window does by itself (run the
next call queued on its mutex, take the next event, go on with configureStore)
and of a reply that was begun: calls to the runtime return, events are
delivered.  Nothing is assumed of users, of window events and of reloads.

`telem_streamer`: weak fairness of the tasks in the mutex, timers and settled
promises (`Progress`), of the run loop, and of the server handling what it
received; a connection may be lost, and nothing makes the server send frames or
the application call anything.

`telem_reader`: weak fairness of `Progress`: timers fire, requests are answered
or fail, promises resume.

## Proofs

The proofs are invariance proofs for all values of the constants: any number
of gates, regions, ranges and authorities; any finite set of nodes, any number
of keys, proposals, restarts, writes, versions and failing engine writes; any
reads of any channels and time ranges, and any number of failing requests,
flushed buffers and collections; any stream handlers and channels, and any number of faults; any
finite tree of components, with any states, renders, reports and throws; any
windows, keys, dispatches, reloads and failing calls; any samples, buffer sizes,
lost frames, reads and references.  They
use the assumptions named in the modules (`AuthorityAssumption`,
`RangeAssumption`, `NilAssumption`; `BoundAssumption` and `NodeAssumption` of
AspenPledge and of AspenKV, `ClusterAssumption`, `NoneAssumption`; `ReaderAssumption`;
`StreamerAssumption`; `AetherAssumption`, `NestingAssumption`; `DriftAssumption`;
`CacheAssumption`),
which TLC evaluates in every run.  `NestingAssumption` says that composites do not
enclose themselves, at whatever distance: in every set of components there is one
whose parent is not in it.

**CesiumControllerProofs.**  `IInv` strengthens the checked invariants by what
they silently rely on: a gate is in `gates[r]` exactly while it is open or leaked
on `r` (`Membership`, `Opened`); positions are below the
region's counter and differ within a region (`Positions`, `PositionsDistinct`),
without which "outranks" is no order; `curr` is nil or a gate that was opened
on the region (`CurrOpened`), also when it is stale; subjects differ within a
region (`SubjectsDistinct`), without which a transfer could hide a change of
control; at most one release elects at a time, and then at least one gate is
left and `curr` is nil (`OneElection`, `ElectingIsNil`); and what unallocated and
empty regions look like (`Blank`, `EmptyRegion`).
There is one lemma per action.  From `IInv` follow `TypeCorrect`,
`RegionsStayDisjoint`, `RegionsStayControlled`, `TransfersAreTruthful`,
and the two action properties `ControlIsNeverUsurped` and
`HighestStaysInControl`.  `RegionsRemovedWhenEmptied` needs one thing more, that
the gates of a region whose removal is pending or done were opened after the
release that emptied it (`Slipped`).

**AspenPledgeProofs.**  `IInv` says that every approval, granted or already used
for an admission, is remembered by the incarnation of the juror that gave it or
that this incarnation is over (`GrantsRemembered`, `AdmissionsRemembered`);
that therefore two pledges with the same key, pending or admitted, share no
juror (`PendingApart`, `PendingAdmittedApart`, `AdmittedApart`); and that
grants and outstanding verdicts together make a quorum of the candidates until
something fails (`JuryComplete`).  `JurorsApproveOnce` and `MajorityApproves`
follow; `KeysDistinct` combines them: two majorities of the same candidates
intersect (by cardinality), and without restarts the common juror is the same
incarnation.  All of it is for any clusters to start from.

**TelemReaderProofs.**  `IInv` follows the data from a read to its answer:
whatever a read wants and has not lost is in the cache, in its request or in its
gaps (`Accounted`), so that a read whose request is done finds it in the cache; a
running batch has fetched, or will fetch, all that its waiting requests ask for,
because the mutex keeps new requests out until it is done (`Fetching`); a batch
fetches nothing that no request asks for (`Solicited`), and a read has its cache
entries, but for channels that do not exist, from its retrieval until the client
is closed (`Entered`), so that no write meets a channel without one.  `Owned` and
`NothingLeft` say whose the gaps and requests are.  Requests are compared by the
pairs of channel and instant they cover: grouping them changes nothing of that
(`GroupedCovers`), the stretches of a set of instants make it up
(`StretchesCover`), and so the gaps cover what is missing (`GapsCover`);
`WriteFacts` says what a write brings, and that a read whose data it puts out is
`lost`.  `ReadsAreComplete` and `RejectionsHaveCauses` follow.

**AspenKVProofs.**  `IInv` is about everything in flight.  Whatever is
persisted, queued, gossiped or on its way was written (`Traced`); every version
given so far is within the persisted counter of the leaseholder that gave it,
and that is at most the one in memory (`Counted`), whence `VersionsAreUnique`; a
leaseholder's own writes wait for its persist stage in the order of their
versions (`InOrder`); a digest comes with a value (`Valued`).  While no engine
write failed, what the only leaseholder of a key has queued for it are its own
writes, newer than its digest, and no operation in a store, a message or the
queue of another node is newer than that digest (`Ahead` and `Behind`, in
`LeaseholderFirst`).  `LeaseholderIsNewest` is the part of that about stores, and
`LeaseholderKeepsNewest` follows as an action property.  The condition on failing
writes is needed: a batch whose `op.apply` failed counts as persisted and is
gossiped, so that other nodes get ahead of the leaseholder.

**TelemStreamerProofs.**  A task in the mutex pins the call that waits for it
(`TasksAwaited`), so no handler is added or removed behind its back; there is no
failed run loop without a streamer, and one is opened only where there is none
(`LoopHasStreamer`), so nothing opens a stream over a loop that failed; what a
handler asks for is in the cache once it has been retrieved (`Cached`) and, while
nothing fails, only cached channels are asked for and sent, so that no frame
fails the loop (`Orderly`).  `InStep` is what `AskedForWhatIsWanted` needs: between
two tasks the streamer and the last request on the socket have the keys of the
listeners, and a task that is opening a streamer, or awaits the end of the run
loop, does so because they want something, or nothing.

**AetherProofs.**  `Base` has the types; that whatever the worker has or will
hear of was registered, and only what is mounted is registered as live
(`Registered`); that a component is mounted in a mounted composite (`Enclosed`);
that of what is not mounted the worker will be told, last of all, to delete it
(`Doomed`); and that every component of the tree has a state (`Stateful`).
`HandlersAreKept` and `UnmountedIsDeleted` follow from it for every tree and
whatever changes its identity.  `Followed` is the converse of `Doomed`: the
messages on their way leave in the worker's tree what is mounted (`HeldAfter`),
and no update is sent whose parent the worker would not hold, unless a throw
cut an update short (`dirty`).  `States` adds that what is on its way, in one
direction only, is the sender's state.  `WorkerFollows` and `StatesAgree` have
the hypothesis `LeavesOnly`: only components that enclose nothing change their
type or their `onReceive`.  It is a hypothesis about the application, it is
needed (see below), and the run satisfies it.  `ContextsAgree` needs no such
hypothesis.  `Contexts` has, of every component the worker holds, that it was
handed what its parent hands down, but for values the parent set without trigger
(`Handed`, `Silent`), and has run with what it has, or that an update which
announces values was cut short above it (`Spoilt`); a cascade of
`internalUpdate` keeps this for the whole subtree it walks (`Cascade`), an update
of a new component for that component (`UpdateNew`).  Down the path to a
component this makes every announced value that of the nearest above that set it,
past parents that set others silently (`HasNearest`, `HandedDown`).  Two
definitions of the model are recursive functions, the path to a component
(`PathOf`) and the contexts a cascade computes; that such a function exists, and
that the path is the one along the parents, is proved from a least or outermost
counterexample (`Least`, `PathsExist`, `PathRecursion`, `GivenExists`).

**DriftProofs.**  `HeardInOrder` follows an action from its number to the inbox:
what a window has queued to emit is numbered upwards and up to its clock
(`Numbered`); what waits in an inbox is newer than what was heard from the same
window, in order, and older than all that this window has yet to emit (`Hears`,
`Above`).  Every dispatch and every call keeps this (`GoesOn`), a call that
throws too, since it drops an action and never delays one; and a window that
subscribes late, or drops what comes before its first state, hears less but not
in another order.  `NobodyOrphaned` rests on `Covered`: every window of the
runtime is in the main window's store or will be closed by a call that is
queued, and every window that a queued call creates is in the store or will be
closed by a later call; only the main window closes and creates (`Settled`).
Before it is up the main window is alone and hears of nothing but its own
properties (`Beginning`), so its syncInitial finds nothing to do.
Both theorems are for any actions of users, `setWindowProps` with keys
of no window included, and for either value of `EnablePrerender`.

**TelemCacheProofs.**  The cache is arithmetic on sequences, so most of the work
is in lemmas about the operators.  `FindFacts` and `PlanFacts` say where the two
ends of a series fall among the entries (`At`: past the first `lo`, and past the
first `up`) and that the plan follows from it; `SliceFacts` what a cut leaves;
`WriteOneFacts` puts them together: either the entries at the two ends have the
whole series already (`Had`), or the part they lack (`Fits`) takes the place of
the entries between them (`Spliced`).  None of this assumes that the entries are
in order.  Hence three lemmas about one write: what is written can be found
afterwards, and nothing before it in the list goes past its end (`WriteLands`);
what lies before the series and is found that way stays (`WriteKeepsEarly`); and
entries in order stay in order and lose nothing, unless the series is inside
the first (`WriteKeeps`).  The loops are proved with `Climb`, an induction whose
property is a set and which the prover can therefore instantiate: it rests on
the least element of a set of numbers, which the library's well-founded
orders give.  `Fills` keeps that the next sample is one past the buffer's end or
two, that every sample is at its alignment or one behind (`Close`), and that what
was flushed is in order and comes before the buffer (`Queued`).  The inductive
invariant `Inv` is then short: the clock, a sound buffer (`CurrOK`), sound
entries (`Sound`), and entries in order unless `firstHit` (`Apart`).
`FetchFillsHolds` and the buffer's part of `KeptUntilStaleHolds` need no order of
the entries, because an answer and the flushed buffers are themselves in order
(`WritesLand`); the rest of `KeptUntilStale` needs it, see below.

Only model-checked:

- the liveness properties: the prover has no fairness and no ENABLED;
- the refinement of TabPlacement and everything else about Layout and Mosaic,
  whose trees need RECURSIVE operators;
- the two violations.

## Where the code and its documentation disagree

Two runs have the expectation `violation`; `PROJECT.json` quotes the lines.

`controller_join`: `release` unlocks a region that lost its last gate and only
then removes it from the list.  A gate opened in between joins a region that
nobody can find afterwards, and the next gate over the same range gets a region
and a controller of its own, while the comment on `GateConfig.TimeRange` says
that overlapping gates share a region.  `RemovedWhenEmptied` says what does hold.

`layout_drop`: `liftUp` gives a new key to the node it lifts and none to the node's
descendants, and a later lift of one of those leaves a key that is not whole.
With five tabs a drop beside a leaf then meets the root instead of the leaf's
missing child and puts the tab on an internal node.  A later drop that divides
this node loses tabs, which is why `TabsMatchLayouts` and `MosaicShape` are stated
until a drop has gone astray (`astray`).

Others are visible in the models without a run of their own, and are the reason
for the side conditions of the properties named here:

- `unprotectedUpdate` hands control to any better gate, RFC 0014 says to the
  next highest (`HighestKept` excepts a controller that lowers itself);
  `LeadingState` can read `curr` while it is nil; an open over two regions leaves
  a gate behind (`"leaked"`), and its region is never removed.
- A node that was just admitted knows only itself and is its own jury
  (`SameCandidatesUniqueKeys` compares responsibles with the same candidates).
- Feedback on an old version marks a key recovered although the store holds a
  newer one (`OnlyWriteSpreads` is about a key written once); recovery writes
  values without digests, so the next write leases the key anew; the high water
  is one number for all leaseholders; `commitTo` acknowledges a batch it could
  not apply; a replica may persist an older version after a newer one.
- A window that joins may apply an action its first state holds already, or
  miss one, so the stores of two windows may differ although nothing is under
  way; properties that report late bring a closed window back without a key;
  `setWindowProps` for a key that no window has writes `windows['undefined']`
  (state.ts:170-173, 396-398), for which a window is then created; such a window
  can be given to one key and be renamed to another, so the index of keys is not
  exact and no property says it is; a main window that
  restarts may never answer a window that waits, and may create one that was
  closed meanwhile (`HandshakeEnds` and `NoOrphanWindow` except a restart).
- A component set by both threads at once keeps a different state on each
  (`AgreeUnlessCrossed`), as does one whose worker sets the state of a component
  without `onReceive` (main.tsx:104-107).  A value set without `trigger` reaches
  only children that are created, or told of something else, afterwards: others
  keep an old one (`ContextsAgree` is about announced values).  A composite whose
  type or `onReceive` changes is deleted on the worker with all it encloses, and
  only the composite itself is created again; its children stay mounted without a component on the worker
  (`LeavesOnly`, and `Reidentified` in the run).
- A series inside the first cached one is taken for one before all, although a
  comment in `bounds.ts` says that the plan is null for one that is entirely
  contained (`StaticOrdered` and its `firstHit`), and the integrity check then
  throws.  Two reads, of a range and of one inside it, are enough: the write of
  the second answer rejects the whole batch (`RejectedForCause` and its
  `nested`).  Entries may overlap from then on, and a later write can drop a
  position that is held or fresh.  A late answer for [1,5), inside the flushed [0,6), leaves the
  entries [1,4) and [0,6), in this order; a second one for [2,6) is cut to [4,6)
  and replaces [0,6), so that position 0 is gone.  It takes more samples and
  fetches than the run has (8 samples, 2 pending): the proof of `KeptUntilStale`
  failed on it, hence the `~firstHit'` in its second part.
- The channel retriever leaves out a channel that does not exist, and the read
  fails at the cache, not at the retrieval (`RejectedForCause` and its
  `unknown`).  Data collected between a read's fetch and its second look is
  missing from its response (`ResolvedReadsComplete` and its `lost`).
- A stream that is being opened while `close` ends stays open
  (`NoStreamAfterClose` and its `raced`); the delayed removal keeps a handler's
  channels for five seconds.
- A tab that is the last of a secondary window and is opened in a new window is
  closed with it (`OpenedTabIsKept`); a place between the two dispatches purges
  the new window's mosaic.  A mosaic window that the operating system closes
  leaves its mosaic and its tabs behind, although `middleware.ts:138` says it
  removes "all layouts associated with the mosaic window": the effect returns two
  lines above, because `closeWindow({})` has no key (`MosaicsAreShown` excepts
  both by its `cut`).

## What is not modelled

`PROJECT.json` gives the reason for each component.  In short: transports,
codecs, the server and API, the Python and C++ clients are I/O and translation;
the driver is a process of its own; services keep records in Aspen's kv; pluto's
components and the console's pages render, and edit records of one user in one
thread.  The rest of Cesium and the distribution layer are planned.  Within the
modelled components: retry intervals (a retry may come at any time), observers
of the key-value store, transactions over several leaseholders (documented as
not atomic), the exhaustion of 12-bit node keys, and reads; the geometry of
windows in Drift; sizes and directions in the mosaic; modals, drawers, themes
and the confirmation of unsaved changes in the layout.

## Plan

1. Proofs for Layout and Mosaic (`TabsMatchLayouts`, `MosaicsAreShown`).  The
   trees are built by RECURSIVE operators, after which the prover has no SMT
   solver; with a tree as a function from the keys of its nodes the proofs could
   argue from a least counterexample, as those of Aether and TelemCache do.
2. *CesiumUnary*, a composition over CesiumController: the region's entity
   (the domain writer or nil), the write that follows `Authorize`, the close of
   the writer by the last release, deletes and existence checks.
3. *AspenGossip*: heartbeats, sync/ack/ack2, the store's copy-and-set in two
   steps; the `Gossip` step of AspenPledge as its abstraction.
4. *CesiumDomain* and *CesiumFileController*: pointers, persistence and reload
   after a crash; descriptors, their limit and the wait for one.
5. The confirmation of unsaved changes in the layout (`useRemover` filters the
   keys by the position of an answer that belongs to another list), and the
   client's writers and iterators.

The project keeps its runs few: a run for a new module takes the place of one
whose question the proofs have settled.
