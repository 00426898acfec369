# A TLA+ development of etcd-cr

etcd-cr is a partial rewrite of etcd for reading along: one server process with
a raft node, the structures around it and the start of its front ends.  Much of
etcd is commented out.  The modules here model what the code does now, not what
etcd does: no message is sent, no leader is elected, and of the log only an empty
file is written.

## 1. The system

| part | code | modules |
|---|---|---|
| process start and front-end listeners | `etcdmain`, `embed` | `Startup`, `ServerProofs` |
| server life cycle | `etcdserver/server.go`, `v2_server.go`, `apply_v2.go` | `ServerLifecycle`, `ServerProofs` |
| interrupts | `pkg/osutil` | `Interrupts`, `PackagesProofs` |
| data directory, WAL creation | `etcdmain/etcd.go`, `etcdserver/server.go`, `wal`, `pkg/fileutil` | `DataDir`, `ServerProofs` |
| cluster membership | `etcdserver/api/membership`, `pkg/types`, `etcdserver/cluster_util.go` | `ClusterBootstrap`, `MembershipProofs` |
| raft node: start, ticks, elections | `raft/raft.go`, `raft/node.go`, `raft/bootstrap.go`, `etcdserver/raft.go` | `RaftNode`, `RaftNodeProofs` |
| raft log | `raft/log.go`, `raft/log_unstable.go` | `RaftLog`, `AbstractLog`, `RaftLogProofs` |
| stable storage | `raft/storage.go`, `raft/util.go` | `MemoryStorage`, `MemoryStorageProofs` |
| vote arithmetic, progress tracker | `raft/quorum`, `raft/tracker` | `VoteQuorum`, `Tracker`, `ConfChangeProofs` |
| configuration changes | `raft/confchange`, `raft.applyConfChange` | `ConfChange`, `ConfChangeProofs` |
| write requests | `etcdserver/v3_server.go`, `pkg/wait/wait.go` | `RequestWait`, `RequestProofs` |
| request ids | `pkg/idutil` | `IdGenerator`, `PackagesProofs` |
| logical deadlines | `pkg/wait/wait_time.go` | `WaitTime`, `PackagesProofs` |
| backend | `mvcc/backend`, `etcdserver/backend.go` | `Backend`, `ServerProofs` |
| protocol buffer messages | `*.pb.go` | `Wire`, `Codec`, `RaftpbMessages`, `EtcdserverpbMessages` |
| connection limit, self-signed certificates | `pkg/transport` | `LimitListener`, `SelfCert`, `PackagesProofs` |
| statistics | `etcdserver/api/v2stats` | `StatsQueue`, `StatsWindow`, `RequestProofs` |

`etcdmain` identifies the data directory and starts `embed`, which opens listeners
and builds an `EtcdServer`.  The server touches its directories, opens the
backend, derives the members of the cluster from `--initial-cluster`, creates the
WAL and starts a raft node (`Bootstrap` writes one entry per member and commits
them), a goroutine that ticks it, one that fast-forwards the ticks of a
single-node cluster, and one that publishes the server's attributes and makes it
ready.  Only then are clients served.  A client's `Put` is registered under a
fresh id, proposed to the node, and waits for an answer or its timeout.

The modules compose as follows.  `RaftLog` extends `MemoryStorage` and is shown
to implement `AbstractLog`.  `Tracker` extends `VoteQuorum`; `ConfChange`
extends `Tracker`; `RaftNode` extends `Tracker` and takes `Bootstrap`'s
membership changes from an instance of `ConfChange`.  `Startup` extends
`ServerLifecycle`: its main goroutine starts the server and waits for it, and the
composition is proved to implement `ServerLifecycle`.
`StatsQueue` is shown to implement `StatsWindow`.  `Codec` is one machine for all
messages; the two tables of messages give its constants.  Modules named `MC...`
give constants their values.  `MCServer` and `MCPackages` also put several parts
that share no variable into one instance: a variable `unit`, chosen at the start,
says which of them runs, and the others stand still.  Since every property is
about the variables of one part, this checks each part with all its behaviours;
what the parts do to each other is in `Startup`, which composes the process with
the server, and otherwise a choice inside the part (in `Backend`, how long the
file stays locked).

## 2. The modules

**MemoryStorage.**  One action per mutating method.  `ents` is `ms.ents` moved to
base 1, so `ents[1]` is the dummy entry.  An entry is its index and term.  `err`
is how the last call ended; `"panic"` stands for the logger's panic and for an
index out of range.  Sizes (`limitSize`) are counted in entries.

**RaftLog.**  `offset` and `entries` are `unstable`'s fields.  The application is
the caller of `newReady`, `MemoryStorage.Append` and `stableTo`.  Today no code
calls the last two, so it is external, and it holds one slice (`handed`) at a
time.  Appends may happen between its three steps.  `LogMatching` is what raft
guarantees of the slices given to `append`: they come from leaders' logs.
`committed` and `applied` are constant after the start because no code assigns
them later.  `unstable.snapshot` is left out for the same reason.

**AbstractLog.**  What the state machine may rely on: one window of terms whose
committed part is fixed.

**VoteQuorum, Tracker, ConfChange.**  A Go map of ids is a set, and `Nil` is the
nil map, which `checkInvariants` tells apart.  `makeVoter` for several nodes is
one step because the order of the additions does not matter.  Besides the empty
tracker the initial states contain every legal one, joint configurations
included, because `Simple` has to refuse those.

**RaftNode.**  One node from `StartNode` on: the ticker, `advanceTicks`, the
bounded channel `tickc`, and `tickElection` in `node.run`.  Randomised timeouts
are a nondeterministic choice.  `Crash` and a later `StartNode` lose everything.
`fired` counts the ticker's firings in the life of a process, up to `MaxFired`.

**RequestWait.**  Requests are goroutines.  The reads of the two indices, the id,
the registration, the proposal and the `select` are separate steps, and
`Trigger` is two because it sends after unlocking.  The applier and raft's
acceptance of a proposal are external.  `IdSpan` is 2^48 in the code; at most
`MaxIssued <= IdSpan` ids are issued, so that no id comes round.

**WaitTime.**  Waiters share one channel per deadline.  `woken` and `trigger` keep
who was released and by which deadline.  Nothing calls `Trigger` today, so its
deadlines come in any order.

**IdGenerator.**  Members hand out ids and are restarted; prefix, timestamp and
counter have the widths `PrefixSpan`, `TsSpan` and `CntSpan` (2^16, 2^40 and 2^8).
Nothing is assumed that would keep ids apart: members' ids may agree in their low
16 bits, the clock may be set back or come round between two processes, and a
process may hand out more ids than its counter has room for.  `born`, `had` and
`overrun` record these cases, and `IdsKeptApart` says that an id comes twice in them
only.

**ServerLifecycle.**  `EtcdServer.start` with its two calls of `goAttach`, `run`,
`publish` and callers of `stopWithDelay`, each a goroutine.  `wgMu` is a
reader-writer lock on which a waiting writer bars new readers, as in Go.
`publish` includes the whole way of its request: `Do`, the applier's `Put`,
`UpdateAttributes`.

**Startup.**  The main goroutine from `identifyDataDirOrDie` to the last `select`,
and the goroutines of `servePeers`, `serveClients` and `serve`.  Every step that
can fail may fail, and open listeners may fail later.  A client URL has an address
and a scheme; URLs that share an address are merged as in
`configureClientListeners`.  `net.Listen` and the `defer` that closes the listener
are two steps (`deferred` holds what the pending functions would close), with the
limit on file descriptors and `NewKeepAliveListener` between them.  The latter is
handed the network as its scheme, so it does not ask for a TLS configuration.

**Interrupts.**  Registration, the goroutine of `HandleInterrupts`, and callers of
`Exit`.  Signals come at any time, up to `MaxSignals`.

**DataDir.**  `disk` is the set of names that exist, `place` where in its start a
process is, and `dirType` what it took the directory for.  Every file operation is
a step; a crash loses the locks and keeps the names.

**ClusterBootstrap.**  A configuration is a sequence of name and URL pairs.  Every
process reads its own permutation, walks its map in any order, and either starts,
fails or panics.  Both sorts of the code (of a member's URLs and of the ids) are
`Ascending`, the one increasing sequence of a set: an entry is not repeated in a
configuration, and ids are keys of a map.  A URL and a token are texts, sequences of
pieces, and what is hashed is the texts of the sorted URLs and of the token one after
the other, as `newMember` puts them together.  The hash, the first 8 bytes of a SHA-1
sum, is any function chosen at the start among `Hashes`: it need not tell texts apart
and may give `raft.None`.  Two clusters with different tokens may therefore share
ids; nothing in the code prevents it, and no property says otherwise.

**Backend.**  `openBackend`'s goroutine and timer, `backend.run`, users that commit
and take snapshots, and `Close`.  bolt is external: `Open` waits for the file lock or
fails, which ends the process, and `Close` waits for open transactions.  That a
snapshot keeps its database is bolt's promise and not checked here.

**Wire, Codec.**  A message is a record and an encoding a sequence of bytes.  The
tables say for each message, separately and as the generated methods do, what the
struct declares, what `MarshalTo` writes (with the literal tag bytes), what `Size`
adds up and what `Unmarshal` accepts.  `Codec` marshals a message, lets the bytes
be read whole, packed, into a used message, with a field of a newer version, or
cut, and runs `Unmarshal` one loop iteration per step with a stack of frames.  The
word is narrower than 64 bits but has the same edge, one bit in the last byte.  The
copies of the shared functions differ in one respect: `raft.pb.go` does not check that
a position plus a length is still positive, and the other files return
`ErrInvalidLength` when it is not.  The model follows both (`Guarded`); where
`raft.pb.go` would slice with a negative position it ends with `"panic"`.  No encoding
that is delivered in the run has such a length.

**LimitListener.**  Goroutines in `Accept`, connections that several goroutines
close, and the listener's own `Close`.

**StatsQueue, StatsWindow.**  The ring and the window it promises.  `Rate` is two
steps, because it gives the lock back in between.

**SelfCert.**  The two files, each with the key pair it was opened for and whether it
was written in full.  Opening and writing are separate steps with a crash or a
failure between them, and the error of `pem.Encode` is ignored as in the code.  `torn`
holds the pairs of which a write was cut short: such a pair, with an empty key, is
found and handed out by the next start, and only loading it (`baseConfig`) would
notice.  Nobody else is assumed to write or remove the files.

## 3. What the runs show

| run | bounds | shows |
|---|---|---|
| `raft_log` | 3 indices, 2 terms, batches of 2, 2 peers | `slice` returns the log whatever the storage still holds, no storage panic, refinement of `AbstractLog` (committed entries are stable) |
| `memory_storage` | 4 indices, 2 terms, batches of 2 | `Append` overlays, after every sequence of calls |
| `conf_change` | 3 nodes (symmetric), 2 changes per entry | vote results and tallies equal a reference, decisions are final, quorums of neighbours overlap |
| `raft_node` | clusters of 1, 2 and 3, 3 election ticks, a channel of 2, 4 terms | fast-forwarding starts no election, elections are no closer than the ticker allows, elections repeat for ever although ticks are dropped |
| `request_wait` | 2 goroutines, ids 0..3, 3 issued, a gap of 1 | one sender per channel, no leak, every request returns |
| `codec` | 15-bit words, 8-bit enums, values at the edges of their encodings; the messages of `raftpb`, `etcdserverpb`, `mvccpb` and `authpb` | exact sizes, round trip, merging, unknown fields kept, cuts noticed, termination |
| `startup` | 1 peer URL, client URLs for http and https on one address or for https and unix on two, 1 caller of `stopWithDelay` | no client listener leaked, no send on a closed channel, and a restarted process ends on an error |
| `cluster_bootstrap` | 2 processes, 2 tokens, the configurations and hashes of `MCClusterBootstrap`, with clashes | the same bootstrap with distinct ids, the same verdict |
| `server`: `ServerLifecycle` | 3 callers of `stopWithDelay` | nothing attached after stopping, errors stop the server |
| `server`: `DataDir` | 2 processes, 2 crashes | the directory stays usable and is never taken for empty, the log of a running server stays, the lock is given up |
| `server`: `Backend` | 2 users | Close and Commit end |
| `packages`: `WaitTime` | 2 waiters, deadlines 0..3 | nobody misses a trigger |
| `packages`: `IdGenerator` | 3 members of which 2 share a prefix, clocks 0..2, 2 times, 2 counts per time, 3 ids | an id comes twice only when prefixes agree or a counter has outrun the clock |
| `packages`: `Interrupts` | 2 handlers, 2 callers of `Exit`, 2 signals | handlers run, all and in order, and the process ends |
| `packages`: `LimitListener` | limit 2, 2 acceptors, 3 connections, 2 closers each | never more than the limit, and a closed listener lets everyone go |
| `packages`: `StatsQueue` | capacity 3, sizes 1 and 2, 2 callers of `Rate` | the ring is the window and its total the sum |
| `packages`: `SelfCert` | 4 pairs, 4 crashes | certificate and key always match, and are whole unless a write of theirs was cut short |

Why the bounds are enough to meet the interesting cases: three indices and two
terms allow an entry to be overwritten twice and compacted underneath; three
nodes give odd, even and joint majorities; a channel of two fills up before an
election of three ticks; two requests with an id space of four let a late answer
meet a timeout while the other request goes on, and the counter wraps.  Three
ids with room for two per time make a counter run into the next timestamp, three
clocks with two times let the timestamp come round, and a restart may find any clock.
Three
callers of `stopWithDelay` are more than `errorc` and `run` take.  Two
client URLs, of which one needs a certificate, fail before and after a
listener is open, and the four goroutines that can report an error outnumber the
three places of `errc`.  Two
processes with two crashes leave the data directory at every point of a start
while the other starts or runs.  A 15-bit word has varints of one, two and three
bytes, the last with one bit in use.  A ring of three fills, wraps and is cleared.

Two runs end in a violation.  They show where a comment and the code disagree about
what happens over several steps:

| run | comment | what the code does |
|---|---|---|
| `term_lost` | `node.go:387`, term and vote are persistent | they are neither written nor restored |
| `error_ends` | `etcdmain/etcd.go:147`, an error ends the program | not after a first start, whose channels are thrown away |

Other comments that the models contradict, and that no run is spent on because the
code beside them shows it: `storage.go:64` (`ents[i]` is counted from the dummy entry,
not from the snapshot), `quorum.go:10` (half of an even configuration loses a vote),
`raft.go:441` (the winner stays a candidate), `raft.go:235` (with `preVote` the election
panics), `wait_time.go:7` (an equal deadline is enough), `server.go:717` (nothing closes
`StopNotify`'s channel), `server.go:791` (`publish` stores no attributes),
`embed/etcd.go:88` (peer listeners stay open after an error), `etcdmain/etcd.go:142`
(reached after a failed start too), `etcdmain/etcd.go:174` (`publish` is not aborted by a
stop: its request is answered at once and without a look at the context, and the
channel that would end the wait is never closed), `id.go:42` (an id is unique only under
the conditions of `IdsKeptApart`), `wal.go:49` (the log stays in `wal.tmp`),
`cluster_util.go:14` (the answer is always no), `backend.go:203` (no transaction is
opened).

Deadlock is not checked where a system may stop: after a panic or an exit, with
all bounds used up, or with nothing left to do.

## 4. Fairness

A goroutine that can go on does: its steps are weakly fair.  Nothing is assumed
of what need not happen: calls from outside, signals, crashes, failures, new
requests.  Beyond that:

- `RaftNode`: the ticker fires again and again and `node.run` is a loop that always
  receives from `tickc`.  Starts and crashes are not fair.
- `RequestWait`: every request's context has a timeout and expires.  Neither raft
  nor the applier is assumed to answer.
- `Backend`: strong fairness where Go gives it.  A `select` chooses at random among
  ready cases, so `run` does not miss `stopc` for ever because of its timer; a
  mutex does not starve a waiter.  Whoever holds the file lets go of it some day,
  and snapshots are closed.
- `LimitListener`: the inner `Accept` of a closed listener fails, and every
  connection is closed some day, by its client, its handler or the server.
- `Interrupts`: handlers return.

## 5. What is proved

All theorems hold for every value of the constants that satisfies the named
assumptions of the modules.  These say that bounds are natural numbers
(`StorageBounds`, `PeersBound`, `ChangesBound`, `RequestConstants`, `DeadlineBound`,
`SignalBound`, `CertBounds`, `QueueAssumption`, `DirAssumption`), that sets of actors
or ids are finite where something is counted (`TrackerConstants`,
`ListenerAssumption`), and that a value that stands for nobody is nobody's
(`TrackerConstants`, `DirAssumption`, `UsersAssumption`).  The ones with more to them:

- `NodeConstants`: an election takes at least two ticks, and a list of peers is a
  sequence of ids other than 0, the node's own among them.
- `IdAssumption`: the spans are positive numbers.  (That their product is one is stated
  with them, because the provers do not find it.)
- `UrlsAssumption`: the listen URLs of clients are a sequence, of the four schemes the
  configuration accepts.
- `ConfigAssumption`, `HashAssumption`: a configuration is a finite set of pairs of a
  name and a URL (a number, for its place in the order of strings); the hash
  gives numbers and is defined on the texts that occur.

What is proved with induction over data (running sums, the elements of a set in
order, the changes of `Bootstrap`) is proved by the least counterexample, by counting,
or by the cases the code distinguishes.

**MemoryStorageProofs.**  `StorageInvariant`: `ents` is non-empty with consecutive
indices.  The type invariant does not say so, and no method is safe without it.
From it `StorageTypeCorrect`, `FirstIndexNeverMovesBack`, `EntriesAlwaysServed` and
`AppendAlwaysOverlays`; the last two turn positions in `ents` into indices with it.

**RaftLogProofs.**  `LogInvariant` proves `IndInv`.  `NoGap` alone is not inductive:
a report that arrives late drops entries from `unstable` on the strength of one
term comparison.  `IndInv` adds how the windows of storage, unstable and handed
entries overlap (`Windows`, `HandedWindow`), that the storage, now and after the
pending write, agrees with the log on committed entries (`AgreesOnCommitted`),
and that one equal term implies an equal prefix (`MatchesLog`).  The last is
what makes the term comparison of `stableTo` sufficient.  There is one lemma per
action.  From it `LogTypeCorrect`, `LogHasNoGap`, `SnapshotTermIsRight`,
`StorageIsSafe`, `CommittedIsStable` and `LogRefinesAbstractLog`.
`SliceAlwaysServed` and `NextEntsAlwaysServed` rest on lemmas about what "serves a
range" means: it survives concatenation of adjacent ranges and cutting by size.

**ConfChangeProofs.**  `ConfInvariant` proves `ConfInv`, which adds to the visible
properties that exactly the members are tracked.  From it `TrackerTypeCorrect`,
`RolesStayClear` and `ResultIsAlwaysLegal`.  `DecisionStays` rests on vote sets
that only grow, `QuorumsAlwaysOverlap` on counting two majorities whose
configurations differ in one node.  `ResultsAreReference` compares `VoteResult` with
a definition that asks of all ways the missing votes can come in: it is enough to
look at the fewest and the most yes votes, since agreement only grows with them.

**RaftNodeProofs.**  `FastForwardIsSafe` and `ElectionsKeepPace` from `PaceInv`, which
counts all ticks of a life: an election timeout for each election held, the ticks
counted towards the next, the ones in `tickc` and the ones `advanceTicks` still has to
send exceed the firings of the ticker by less than an election timeout.
`NodeStartsAsVoter` follows the changes `Bootstrap` applies one after the other:
after the first `i` of them exactly the first `i` peers are voters, tracked and
nobody is a learner (`With`), however often a peer is named; so no change is
refused, and the node itself comes up as a voter that may campaign.

**RequestProofs**, the requests a server takes:

- `RequestInvariant` proves `ReqInv`. `NoDuplicateId` is not inductive; `ReqInv`
  adds that every id in use is one of the `issued` last ones counted back from
  `suffix` (`IdsInUse`, which with `issued <= IdSpan` makes a fresh id fresh),
  that an id has one owner at a time (`OneOwner`), and that the applied index a
  request has read is at most the present one (`ReadBefore`). From it
  `RequestTypeCorrect`, `IdsNeverClash`, `OneAnswerPerChannel`,
  `WaitListDoesNotLeak` and `GapTestIsSound`.
- `QueueKeepsWindow`: the ring implements `StatsWindow`, whose contents are the `size`
  entries from `front` on.  `RingInv` says that `back` is where `front` and `size` put
  it, and that the running total is the sum of the window, which goes through lemmas
  about the sum of a window that loses its first or gains a last request.

**PackagesProofs**, five packages that share no state:

- `IdsStayApart` from `IdInv`: a member that is not overrun has counted from its
  timestamp without leaving its bits (`CounterInv`), and its suffix is at or above
  every one an id of it was made from, in this life or an earlier one (`ReachedInv`).
  A restart keeps the latter because the new timestamp has passed what the old
  process could count in the milliseconds it lived.
- `LimitHolds` from `SlotInv`: the slots taken are those of acceptors past `acquire`,
  open connections, and connections closed but not released; each connection
  releases once.
- `TriggerReachesAll` and `NobodyWokenEarly` from `WaitInv`, which adds the types and
  that only who has called `Wait` is woken.
- `PairAlwaysMatches` from `CertInv`: files are opened only when there was no pair, the
  certificate first, so a key on disk belongs to the certificate beside it; and a
  file that is not whole is being written or belongs to a torn pair.
- `HandlersAlwaysRunWhole` from `InterruptInv`: who calls the handlers holds
  `interruptExitMu` and keeps it (`ExitMuInv`), and the copy of the handlers it works
  through has at its front what was registered before the signal (`CopyInv`).

**ServerProofs**, the process around the server:

- `NothingAddedAfterStopping` from `GroupInv`: whoever is between the look at
  `stopping` and the `Add` holds `wgMu` for reading, and `stopping` is closed only
  under the write lock.  `StartupRunsServer` shows that `Startup` implements
  `ServerLifecycle`, so that the theorem holds of the whole process.
- `ListenersAreClosed` and `ServersCNeverSentClosed` from `StartupInv`: an address has a
  context as long as its listener is open, but for the listener whose `defer` is still
  to come, and every other open one has its `defer` (`ListenersInv`).  Between
  `net.Listen` and the `defer` the process can only go on or end.  Channels are closed
  only by a start that has not got to the goroutines that serve (`ClosedInv`).
- `LogCanBeCreated`, `LogIsKept` and `LaterStartsAreMembers` from `DirInv`: whoever
  touches the log holds the lock on `db` (`LockHeld`); the temporary directory is
  empty while its maker works in it, although a start before may have crashed
  anywhere (`TmpInv`); and the directory of the member is older than the database in
  it (`MemberInv`).
- `SecondLockAlwaysFree` and `RunEndsFirst` from `BackendInv`: `readTx`'s lock is taken
  only within `batchTx`'s (`CommitInv`), and `Close` goes on only after `run` (`RunInv`).

**MembershipProofs.**  `VerdictIsShared`, `BootstrapIsShared` and `MemberAlwaysFound`
from `ClusterInv`: every process is working through one and the same configuration
(`Works`), and its map holds exactly the names its loop has reached, each under the
id computed from configuration and token alone (`Mapped`).  `OrderDoesNotMatter` is the
key: what `MemberID` hashes is the set of URLs in ascending order, whatever order the
entries came in.  That a set has such an order, and one only, is `AscendingExists` and
`AscendingIs`.  A refusal is traced to its reason, which is a property of the
configuration, the name or two clashing ids (`Known`).

## 6. What is only model-checked

Liveness is beyond the prover: `KeepsCampaigning`, `EveryRequestReturns`,
`ErrorStopsServer`, `RestartedEndsOnError`, `SignalEndsProcess`, `BackendIsGivenUp`, `ClosedListenerStops`, `CloseReturns`,
`CommitEnds`.  `Wire` and `Codec` use recursive operators, about which nothing can
be proved: `SizeIsExact`, `RoundTrip`, `CutNoticed` and `UnmarshalEnds` are checked for
all messages and the values at the edges.

The other way round, these properties are proved for every value of the constants
and no run repeats them: the types (`TypeOK`, `StorageTypeOK`, `TrackerTypeOK`,
`RequestTypeOK`), `NoGap`, `SnapshotTermRight`, `CommittedStable`, `NextEntsServed`,
`EntriesServed`, `FirstIndexMonotone`, `RolesAreClear`, `AppliedIsLegal`,
`NoDuplicateId`, `AdmittedWithinGap`, `NotWokenEarly`, `NodeIsVoter`,
`SecondLockIsFree`, `RunEndsBeforeDb`, `MemberIsFound`, and that `Startup` implements
`ServerLifecycle`.

## 7. Not modelled

- Leases: the lessor's loop is never started, no code grants a lease, and nothing
  pushes onto the expiry heap.
- Peer transport: `AddPeer` is empty and `AddRemote` only registers; no message is
  sent or received.  A model of several raft nodes that vote for each other would
  describe etcd and not this code.
- mvcc store: constructors and interfaces; no operation has a body.  For the same
  reason the buffers of the backend are left out.
- gRPC and HTTP front ends: argument checks, delegation and route tables.
- Configuration, flags, help, logging: parsing and formatting without state.  What
  decides the fate of a start (`--initial-cluster`, the listen URLs) is in
  `ClusterBootstrap` and `Startup`.
- `node.run`'s `Ready`: it is built and never sent; `RaftLog` covers how its parts
  are read.  `RestartNode` has no caller.
- The metrics listeners of `embed`, and what the timeout and keep-alive listeners of
  `pkg/transport` do with connections: they wrap `net`.
- Contents of files (certificates, the WAL's records): a file is there or not, known by
  who wrote it, and of a certificate or key whether it is complete.
