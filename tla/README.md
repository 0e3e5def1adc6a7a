# The quip dashboard, in TLA+

The dashboard of the quip network has one long-running backend (Rust) that
follows the finalized chain, keeps winners, difficulty, participation and
authorship in a database (Turso/SQLite or PostgreSQL), and serves them, together
with live node and miner telemetry, to a React frontend.  This directory is a
verification project for that backend.  Its core is the part where a mistake
loses data silently and for good: the store that records which heights are
finished, and the indexer that decides when they are.  Around it are the way to
the node, the files and registry tables that are published, the miner service,
the process from start to exit, and the init process of the container.

## 1. Inventory

Paths are relative to `src/crates/`; `qd/` stands for `quip-dashboard/src/`,
`ds/` for `dashboard-store/src/`.

| component | state it keeps | operations | hard behaviour |
|---|---|---|---|
| Coverage intervals (`ds/coverage.rs`, `ds/types.rs`, `qd/indexer/coverage.rs`) | start, low, high, gaps, pruning floor of one domain | cover, contains, validate, uncovered, retryable_range, subtract_points | ends of `u64`, adjacency, gaps at the edges |
| Indexing store (`ds/coverage.rs`, `ds/blocks.rs`) | generation, coverage, rows, scans, absence markers, finalized identities, target | initialize, commit_block, commit_range, begin_scan, append_scan_page, mark_unavailable, set_pruned_floor, set_finalized_target, reindex | stale generations, conflicting history, replay, order of operations |
| Finalized-block indexer (`qd/indexer/{mod,live,backfill}.rs`) | connection, watch channel of targets, two lanes, progress | run/connection/initialize, announce, live, backfill rounds, process, participation | two lanes on one store, every await a preemption, cancellation anywhere, lagging and pruning nodes |
| Registry reconciliation (`qd/indexer/reconcile.rs`) | registry snapshot, change cursors | head, registry walk, targeted refresh, first-seen search | two writers of one counter, walks cut off and begun again |
| Qblock files and export (`qd/indexer/file_writer.rs`, `qd/qblock_*.rs`) | qblock files, manifest, restore window | merge, atomic write, list, restore, rebuild | shared temporary name, crash between commit and file |
| Sync gate (`qd/indexer/sync_gate.rs`) | in-sync runs | evaluate | flapping |
| Work admission (`qd/indexer/admission.rs`) | two counters | try_live, try_backfill, drop | limits, undo |
| Store writer (`ds/store.rs`, `ds/backend.rs`) | writer connection, rollback flag, writer lease | write, begin, commit, drop, close | cancelled transactions |
| Migrations (`ds/migrations.rs`) | ledger of applied names | migrate | partial application |
| Telemetry and inspection queries (`ds/{telemetry,miners,inspection,blocks}.rs`) | derived tables | reads, recompute, cutover | rollup against base rows |
| Chain reader and transport (`qd/chain/{mod,transport,budget}.rs`) | connections, semaphores, caches | calls, singleflight, charge | slot order, cancelled leaders |
| Chain snapshots (`qd/chain/snapshots.rs`) | none (reads at pinned state) | qblock pages, participants, difficulty | page ends, discarded state |
| Chain metadata and decoding (`qd/chain/{metadata,decode}.rs`) | metadata cache | decode | pure |
| Miner service (`qd/miner/{mod,cache,stream,client}.rs`) | singleflight cache, streams | fetch, catch up | expiry, cancelled leaders |
| Miner log parsing (`qd/miner/parse.rs`) | none | parse | pure |
| Health (`qd/health.rs`) | last progress | watchdog, startup grace | stale progress |
| Task lifecycle (`qd/lifecycle.rs`, `qd/bin/quip-dashboard.rs`) | task set, deadline, network binding, backfill marker, catch-up checkpoint | open, migrate, bind, device backfill, poll, shutdown | one deadline for drain, abort, close; crashes between two durable writes |
| Process supervisor (`qd/supervisor.rs`) | three children, log pipes, stderr queue | spawn, TERM/KILL, reap, drain, exit code | races of exits and signals, one budget |
| HTTP API (`qd/http/*`) | admission semaphore | routes | overload, timeouts |
| Geo, node list, configuration, model types | caches, none | lookups, parsing | none of note |
| Frontend, shared types, deployment, benchmarks | browser state | rendering | outside the backend |

**How the parts interact.**  `run()` connects to a node and calls
`connection()`, which initialises the coverage of every domain, records the head
as the durable target and then runs an announcer, the live lane and the
backfill lane as branches of one `select!`: when any branch returns, all of them
are dropped at whatever `await` they stand.  The announcer writes a finalized
head to the store and only then publishes it on a watch channel; the live lane
takes the newest published head, the backfill lane plans from the coverage.  Both
go through `process()`: read generations and coverage, decode the block,
enrich it domain by domain from a pinned state, commit, and page through the
participants.  Everything that survives a dropped connection or a restart is in
the store, which re-checks the generation the caller saw at the start
(`DomainGuard`) in every transaction.

Below the lanes, a sync gate and an admission counter decide whether a block may
start; the chain reader runs it on job slots, and its reads go through a shared
response cache with a byte budget to the call slots of the socket.  Live work has
a reserve at each of these.  Beside the lanes, the reconciliation task writes
the chain head and walks the miner registry, the live lane refreshes the accounts
its block changed, and both lanes merge what they committed into published files
that a maintenance task restores and lists.  Around all of it, `serve()` opens
the store under a writer lease, migrates it, starts the required tasks, and
shuts them down by one deadline; the indexer task first binds the database to a
chain.  The HTTP API and the miner poll ask miners through single-flight caches
and a client with few permits.  In the container the supervisor process starts
collector, backend and web server and stops them in order.

**What makes each part correct.**  Coverage: the record means exactly the
completed heights and every record written is readable again.  Store: within a
generation completion is monotone and has evidence; nothing of an old generation
survives a reindex; a height has one finalized identity for ever.  Indexer:
covered heights have all their rows; work never runs ahead of the durable
target; floors only hide what is really gone; every height is settled in the
end; no interleaving is fatal.  Chain reader: live work is never starved by
backfill, caches keep their bounds.  Miner service: one fetch per resource, no
circular wait, the local miner stays reachable.  Publication: files show only
what is committed, counters never go back.  Service: the store is closed only when
nobody uses it, a database belongs to one chain, no recent solution is skipped.
Supervisor: services end before their collector, signals reach only owned
processes, exit code 0 means a clean stop.  The hazards behind these are listed,
line by line, in `PROJECT.json`.

## 2. Modules

| module | what it is |
|---|---|
| `Coverage` | the coverage record and its pure operators, with `U64Max` as the width |
| `CoverageMachine` | one record driven by every sequence of completions, floors and markers, beside the reference set of completed heights |
| `IndexStore` | the indexing store, one action per transaction, any caller, any argument |
| `CoverageLedger` | abstract promise: epochs and monotone sets of completed heights |
| `IndexStoreProofs` | facts about `Cover`, `Contains`, `Uncovered`; theorems about `CoverageMachine`; the store's invariants and its refinement of `CoverageLedger` |
| `Indexer` | announcer, live lane, backfill lane, `process()` and the external node, over the actions of `IndexStore` |
| `IndexerProofs` | the invariant of the lanes over the store's, what is covered, durable and hidden, that every indexer step is a store step, that `run()` goes on |
| `StoreWriter`, `AtomicWrites` | the single writer connection with cancellation and deferred rollback; abstract promise: a write happens whole or not at all |
| `StoreWriterProofs` | the writer's invariants and its refinement of `AtomicWrites` |
| `ChainReader` | sync gate, admission, job slots, response cache, byte budget and call slots under live and backfill jobs |
| `MinerService` | HTTP admission, single-flight caches, dispatches with their trails, the client's permits and unreachable hosts |
| `QblockFiles` | lanes and maintenance writing qblock files and the manifest through inodes |
| `Registry` | chain head, registry walk, targeted refresh and first-seen search |
| `Service` | the backend process: lease, migrations, tasks and shutdown, binding, device backfill, miner poll and catch-up |
| `ProcessSupervisor` | the container's init process: children, signals, deadlines, log lines, exit code |
| `ChainReaderProofs`, `MinerServiceProofs` | the invariants and theorems of the chain reader and of the miner service |
| `PublicationProofs` | the invariants and theorems of `QblockFiles` and `Registry` |
| `ServiceProofs`, `ProcessSupervisorProofs` | the invariants and theorems of the process and of the init process |
| `MC*` | constants of the instances; `MCPublication` puts `QblockFiles` and `Registry` into one run |

`IndexStore` EXTENDS `Coverage`; `Indexer` EXTENDS `IndexStore` and composes the
lanes with the store: a lane's step that commits is the conjunction of the
lane's bookkeeping and the store's action.  An operator whose name ends in an
underscore and a word (`Cover_...`, `RaiseFloor_Covers`) is a *deviation*: a
plausible mistake in the code that the properties must catch.  No specification
uses them; they are the mutants listed in `PROJECT.json`.

### Correspondence

*Coverage.*  `Coverage.gaps` is a sorted vector of disjoint intervals in the
code and a set here; first and last are by `lo`.  `Option<u64>` is a height or
`None = -1`.  Additions near the top saturate (`SatAdd`) exactly where the code
uses `saturating_add`, and are guarded where it uses `checked_add`.

*Store.*  A missing coverage row is a record of generation 0.  A scan is
identified by domain, generation and pinned height (its id in the code is
derived from the same); its cursor, a storage key, is the set of heights whose
keys it has passed.  `rows[d]` holds the rows a domain owns; the generation and
hash in a row, and `proven`, are history variables that the properties need and
no action reads (except the winner's hash, which the code stores and checks).
A batch is one call of `commit_block`: guards, records and completed domains.
An error or `StaleGeneration` changes nothing because the transaction is rolled
back, so in `IndexStore` a refused call is no step; the `Indexer`, whose next
step depends on it, models the refusals.  That a transaction is atomic even
when its future is dropped is what `StoreWriter` shows.

*Writer.*  A task is one write of `N` statements.  Each SQL command in flight is a
place (`pc`) of its own, because that is where a future can be dropped; the
engine is external and described by what BEGIN, a statement, COMMIT and ROLLBACK
do to it, including the two engines' different answers to a BEGIN inside a
transaction.  `bind_network_with`, which holds the lock through its callbacks
before BEGIN, is a task in `Verifiers`.  A task that waits for the lock and is
dropped has done nothing and is simply never scheduled.

*Indexer.*  One step per await.  `lane[w]` is one execution of `process()` with
its local variables: `pc`, the height, the pin, the domains still to visit, the
guards, the floor that was read, the completed domains and the participants
already paged.  `bf` is the backfill worker around its lane.  `conn = "dead"` is
`run()` having returned an error.  Merged awaits, none of which can be told apart
by the properties: a domain's coverage and its marker in `ReadGuard`; the
durable target and authorship's coverage in `PlanRound`; `observe` and
`committed_target` in `Initialized`.

*Chain reader.*  A job is a block (live or backfill) or a registry pass.  Its place
`at[j]` is the wait it is in; the slots it holds follow from the place, so a
dropped future releases them by leaving.  A cell is a `OnceCell` that lives while
the cache or a job refers to it (`Arc::strong_count`); a large response leaves the
cache for the weak table and keeps its response permits.  A claim of a backfill
permit and its release are two steps each, as the two atomic counters are.

*Miner service.*  A request is a list of stages, each a set of branches; a branch
gets one resource from its cache.  A dispatch is a resource with parts: it keeps
the lock of its slot while it gets its trails.  Sizes, ages and the order of use are
nondeterministic: any idle entry may be the oldest, any value may expire, the
byte budget may or may not have room.

*Files.*  A path refers to an inode, and a writer keeps the inode it has opened:
with one temporary name per path and process, two writers may share one.  A
content is a set of facts or `Partial`, which is read as nothing, as the code
treats malformed JSON.

*Registry.*  A block is one event of one account, so that what a read at a pinned
block returns follows from the block; a page is one account.  A connection
that ends drops the walk and the refresh wherever they are.

*Service.*  `db` is what survives a crash; everything else is the process.  A
shutdown deadline is a tick.  `run_indexer` is modelled up to the indexer proper,
which is one action that adds a retained block of the connected chain or moves
the head.  After the cancellation the indexer and the poll take no more steps: one
taken then has the effect it would have had just before.

*Supervisor.*  The clock counts the deadlines of the budget (0.7, 0.8, 0.85,
0.9, 0.95, 1) and advances only where `run()` waits.  `waitid` with `WNOWAIT`
leaves a zombie, so an exited child still owns its group ID; `lost` is a child
that somebody else has reaped.

### Abstractions

* The finalized chain is fixed (`BlockHash`, `Kind`, `DropAt`, `Participants`);
  finality means there is no fork.  A node may lag, discard state, fail reads.
* A block always has an author.  Rows are compared by one value per record,
  because the store refuses or replaces whole records; enrichment of a topology
  in an existing record is not distinguished.
* In `Indexer` the sync gate, whose pause only delays a round, is a `PlanRound`
  not taken, and permits only delay as well; both are modelled in `ChainReader`.
* File export and registry maintenance are written by the same lanes but neither
  read nor written by the state of `Indexer`; they have modules of their own.
* A sync state that cannot be read ends the round of the backfill lane; in
  `ChainReader` it is a pause that leaves the gate alone.
* Announcing the same head twice is left out: the store ignores it.
* `index_finalized` is used by tests only.
* A process that ends with a fatal error is not restarted in `Indexer`; restarts
  are the subject of `Service`.
* The two pipe readers of a child are one.  A reader's send to the collector is
  a datagram that never blocks and is part of the step that takes the line.

## 3. Runs

| run | question | states | bounds and why they are enough |
|---|---|---|---|
| `coverage` | do the interval operators agree with sets of heights? | 12 k | `U64Max = 4`: five heights give two gaps with a covered height between, both ends of the width, adjacency on either side |
| `store` | scans, ranges, markers, floors, target, reindex and conflicting blocks, by any caller | 321 k | three heights, two hashes (symmetric), two generations: a stale scan, a finished one and an open one can coexist |
| `store_writer` | one writer connection, cancelled tasks, failing statements, a crash | 7.7 k | three tasks of two statements: one abandoned, one that inherits the rollback, one after it; one crash |
| `indexer_lanes` | both lanes, one failure or restart, a winner that the chain drops; liveness; every step is a store step | 305 k | three heads, so that a head can be superseded between the two lanes; page and replay limits of 1, so that full pages, empty last pages and split ranges all occur |
| `indexer_faults` | nodes that discard state, paged participants, one failure or restart, a reindex between or during connections | 3.0 M | the one block with participants may be discarded, on one node and not on the next; two participants (symmetric) with pages of one, so that a height can be half stored; two generations |
| `chain_reader` | who gets permits, slots and cache room | 108 k | one slot more than the backfill share everywhere, one permit more than the reserve, a cache of one entry and one unit of budget, two good samples: every limit is reached and every wait happens |
| `miner` | caches, dispatches, permits, dropped requests, silent peers | 498 k | two dispatches that share a trail with one entry per cache, so that eviction and waiting coincide; one peer permit of two |
| `publication` | files and registry | 3.2 M | one lane and the maintenance on one qblock with two facts are two writers of one name; two accounts and chains of three blocks let an account set, clear and set its descriptor, and a walk be overtaken |
| `service` | starts, crashes, failing tasks, binding, poll | 2.8 M | two starts (a crash and the recovery), two endpoints of two chains, histories of one or both, batches of two solutions with a lookback of one |
| `supervisor` | children, signals, log lines, deadlines | 885 k | three children, two lines with a queue of one, two spawn attempts |
| `indexer_missing`, `service_marker` | findings, section 6 | | |

`store`, `store_writer`, `indexer_faults`, `service` and `supervisor` say
`CHECK_DEADLOCK FALSE`: the bound on generations, tasks or starts, or the exit of
the process, really ends the behaviours, and a reindex during a scan may stop the
indexer (section 6).  The other passing runs check for deadlock.

**Deviations.**  Each property of a passing run has a mutant in `PROJECT.json`: the
definition it names is replaced by the deviation beside it, and the run must then
report that property.

**Fairness.**  `Indexer.FairSpec` assumes weak fairness of reconnecting, announcing,
each lane, and of the node catching up.  tokio polls every branch of the `select!`
that has been woken, `run()` reconnects in a loop, and each lane is one future, so
a lane with a step to take eventually takes it.  Failures (`MaxFails`) and chain
growth are bounded and not fair; nothing is assumed of them.  The sync gate's
pause is within the assumption: the gate opens in the end.  `ChainReader` assumes
that the runtime runs every job and that live requests are answered or time out,
and nothing of the answers to backfill: that is what `LiveGetsSlot` is about.
`MinerService` assumes the same of the local miner and nothing of peers.
`Service` and `ProcessSupervisor` assume that the main task runs and that time
passes, and nothing of tasks, children or stderr.  tokio's semaphores are fair
queues; weak fairness of the acquisition is enough here because at most one live
job competes.  Strong fairness is not used.

## 4. Proofs

Checked by TLAPS for every value of the constants that satisfies the named
assumptions: `U64MaxAssumption`, `StoreAssumption`, `WriterAssumption`,
`IndexerAssumption` (there is a domain, the participants of the chain are
finitely many), `ServiceAssumption` (the list of endpoints is not empty:
`config.rs` rejects an empty one), `FilesAssumption` (finitely many writers, and
more inodes than they can have open: a file system that can create one more
file), `RegistryAssumption`, the supervisor's on its queue, `ReaderAssumption` (finitely
many jobs, keys and cells; a job is of one lane; the reserve is within the total and the
sub-budget below the slots, as 8 of 64 and 2 of 4 are) and `MinerAssumption` (parts have
no parts, both limits of the client are positive: 2 and 4).  Each inductive
invariant was checked by TLC on the bounds of its component's run before it
was proved.

*Coverage.*  `CoverageInv` is the type invariant, `ValidCoverage(persisted)` and
`Covered(persisted) = reference`.  Validity is needed for induction: only because gaps are
separated and strictly inside the bounds does `Carve` leave records that are
valid again.  The lemmas at the head of
`IndexStoreProofs` say what `Cover` adds to `Covered`, that it
keeps `ValidCoverage`, and that `Contains` is pointwise.  Theorems:
`CoverageAlwaysReadable`, `CoverageMeansCompleted`,
`PlannerIsExact`, and `PlansAreExact` about the intervals the lanes are given; the
first unmarked height is a least element of a set of naturals, which a
well-founded order gives without an induction over the list of intervals.

*Store.*  `StoreInv` is the conjunction of the type invariant, `MissingIsEmpty` (a
row of generation 0 has no covered height: otherwise reading a missing record
would forget completions), `CoverageReadable`, `OneIdentityPerHeight`,
`OnlyCurrentGeneration` and `CoverageHasEvidence`.  The parts need one
another: a range is committed from a scan whose generation is the current one
only because of `OnlyCurrentGeneration`; its evidence is that every found winner
of it was already covered.  There is one lemma per operation.  From `StoreInv`
follow the action property `HistoryNeverRewritten` and the refinement
`RefinesLedger`.

*Writer.*  `WriterInv` adds to the type invariant that only the holder of the
mutex has a command in flight (`Exclusive`), that a transaction which is open or
about to be opened is flagged (`Flagged`: this is why `begin` raises the flag
before BEGIN), that a running task's transaction holds its own statements and
nothing else (`OwnWritesOnly`), and that durable writes are whole
(`WholeOrNothing`).  `EffectFacts` shows that a command in flight is harmless
whether or not it takes effect, so dropping a task, failing a command and a crash
share one argument (`DroppedKeeps`).  Theorems: `WriterStartsClean`,
`WritesAreWhole`, and `WriterIsAtomic`, the refinement of `AtomicWrites`.

*Indexer.*  `IndexerInv` is `StoreInv` with what the indexer, unlike an arbitrary
caller, makes of the store (`StoreHonest`: identities are the chain's, a proven
height has every row it owes, a finished enumeration has every winner its pinned
state retained, all at or below the durable target) and with what each process
holds in memory across its awaits: `LaneOK` (the height is durable, no guard is
ahead of the store, participants already passed are stored *if the guard is still
the current generation*), `BackfillOK`, `LinkOK`, `FloorsOK`, `CommittedOK`.
The condition on the guard is what carries the proof over a reindex in the middle
of a block: a lane that has become stale may hold anything, because the store
refuses what it commits.  The steps are proved through a lemma per kind of store call
(`Call`): an indexer step makes one honest call, and honest calls keep
`StoreHonest`.  Theorems: `CoverageIsNeverPremature`, `TargetIsDurable`,
`FloorsBelongToTheNode`.  `IndexerUsesTheStore` is the refinement: `Starts`,
`Pins`, `Floors`, `Cursors` and `Targets` only bound the arguments TLC
enumerates in `IndexStore`, so the theorem is stated for the case that they leave
out nothing.  With it the store's theorems, the ledger's refinement included, hold
of the indexer.  `RunGoesOn` proves `NeverStops` from a second invariant,
`AliveInv`; it assumes `Lag = 0` and `~Reindexing`, and both are needed: section 6
says what happens without them.

*Supervisor.*  `SupInv` relates the place of `run()` to what has happened to the
children: `StartOK` (who is spawned is a prefix of the order), `StopOK` (who is not
in the list of children left is reaped, then silent, unless the shutdown is late),
`PipesOK` (process, pipe and reader are in step), `CollectorOK` (the collector is
asked last).  The four properties are parts of it, because each stop relies on
what the one before it left: `ZeroMeansClean` at the exit needs `StopOK` of both
stops and `LinesAccounted`.  Theorems: `CollectorIsLast`, `SignalsStayHome`,
`EveryLineIsCounted`, `ZeroIsEarned`, `WakeupsAreKept`, the third for every capacity of
the queue and number of lines.

*Service.*  `ServiceInv` has three parts that do not depend on one another.
`BindingOK`: while rows are verified, those before the current one are of the
endpoint's chain, and nobody else binds the database meanwhile (the lease).
`CatchupOK`: what is left of a batch begins right after the checkpoint.
`LifecycleOK`: what each place of `serve()` knows of tasks, connections and the
first failure.  Theorems: `HistoryIsOfOneChain`, `CheckpointIsHonest`,
`SuccessIsHonest`.

*Files.*  That a visible file is backed by the store is not inductive: a rename
publishes an inode that several writers may have open.  `FilesBacked` asks it of
every inode of every path and of what every writer has in memory, complete or
not, and `Grows` (facts are only added, a published path stays published) shows
that nothing backed loses its backing.  `SweepOK` adds that each winner of a pass
without error has a file, is still to be checked or is being written.  Theorems:
`FilesShowTheStore`, `ManifestIsHonest`, `WindowNarrowsSafely`.

*Registry.*  `LockOK` gives the lock one owner and makes what the owner pinned a
block of the chain; `CountersOK` says that no counter is ahead of the state the
owner writes from.  The chain is only extended (`Extended`), so what a pinned block
shows stays what it was (`PastStays`) and counts grow with the block
(`ProofsGrow`).  `CountersOnlyGrow` follows.  `SearchOK` keeps the first block between
the two ends of the search; that the lower half may be thrown away needs that a
descriptor never cleared stays (`PresentStays`), a greatest-element argument.
`FirstSeenIsFirst` follows, for chains of any length.

*Chain reader.*  Four invariants that lean on one another.  `AdmissionInv` says that the
counters are what the places of the jobs say: a job between its two claims or its two
releases counts as backfill and not globally, so the global count never exceeds live
jobs and the backfill count together, and a full house leaves at least the reserve to
live jobs.  With the releases in the other order this fails.  `GateInv` ties the counter of the
gate to the streak of good samples; with the fact that no other step enters a round
it gives `GateDebounced`.  `CacheInv` follows each key from the cache to the weak table.
`SlotInv` counts the holders of the three sub-budgets, and the large responses that took
over a job's response slot: backfill that holds a block, response or call slot holds its
sub-budget as well, because of `CallOrder`, whose successor function is computed once
(`NextSlotValues`).  `BackfillSparesSlots`, a part of `LiveReserve`, is the safety half of
`LiveGetsSlot`.  Theorems: `LiveKeepsItsReserve`, `BackfillLeavesLiveSlots`,
`GateIsDebounced`, `CacheIsBounded`.

*Miner service.*  `SingleFlight` is not inductive: it needs that there is one slot to lock.
`Anchored` says that a slot somebody refers to is the entry of its resource, which
evicting and pruning keep because they spare slots in use, and `Shape` what a branch
refers to at each place; `LocksExclusive` then gives one fetch per resource.
`NoCircularWait` follows from the same invariant without a further induction: who waits for
the lock of a part waits for a fetch in progress, because parts have no parts and so no
branch holds their lock while it waits for another lock; and a branch that has the
common permit waits for nothing but the answer.  Theorems: `OneFetchPerResource`,
`SomebodyCanMove`.

`CoverageAlwaysReadable` and `StoreTypeCorrect` state facts that no run lists as a
property: the first is implied on the instance by `CoverageReadable`, the second
is the type invariant of `IndexStore`, needed by every other proof about it.

**Only model-checked.**  Liveness under fairness (`EverythingSettles`, `ShutdownEnds`,
`FailureEndsProcess`, `LiveGetsSlot`, `LocalGetsSlot`), which is out of the prover's
reach.  Every other property of a passing run is a theorem.
What a recursive definition computes for every input would need an induction
over data that the provers cannot instantiate; least- and greatest-element
arguments over sets of heights take its place where they can.

## 5. Plan

Done, in the order of importance: coverage, store, indexer and writer, then the
modules around them; proofs of every safety and action property of them.  Next:
the authorship cutover and the miner rollups of the store against their base
rows; the cache of decoded blocks; the chunks of a miner response stream.

## 6. Findings

* `indexer_missing` - a winner whose QBlock the chain has dropped is covered
  by the range commit although its data was never stored: the scan pinned after
  the drop does not list it, so nothing marks it.  The documentation says that
  missing data is left uncovered or marked.  `CoveredMeansIndexed`
  states the guarantee that does hold.
* `service_marker` - the device backfill commits its marker and reindexes in a later
  transaction.  A crash between the two leaves the marker, the next start takes the
  decision for carried out, and the coverage is never cleared.  The comment
  relies on "the cleared coverage" to complete the recovery.

Observations that have no run of their own:

* With `Lag = 1` the indexer violates `NeverStops`: after reconnecting to a node that
  is behind the durable target, backfill asks it for a height it does not have,
  which is a fatal error.  `run()` is documented to return only conflicting
  finalized history and invalid persisted state.
* With `Prunable = 1` and winners it violates `EverythingSettles`: an unfinished scan
  whose pinned state the node discards stays the active scan of its generation,
  each page fails, and the domain's backfill makes no more progress.
* A reindex that removes a scan between `begin_scan` and `scan_progress` is fatal
  as well; deployments keep the two apart by the writer lease, so `NeverStops` is
  not claimed for `indexer_faults`.
* A height whose read fails for ever stays in front of its domain's range;
  failures are bounded in the model, so `EverythingSettles` says nothing of it.
* `atomic_write` promises that no partial file is ever at the path
  (`qd/qblock_path.rs:49`).  Two writers of one process share the temporary name,
  so one can rename what the other has only begun to write.  The readers treat
  such a file as empty and the properties of `QblockFiles` hold nevertheless; a later
  merge replaces it by what it adds, and the restore passes over a file that exists.
* The device backfill's decision is written into the observability snapshot by
  read-modify-write, and so is the miner poll's part: either can overwrite the
  other's.  The next start writes the decision again.
* A miner's descriptor is upserted with a first-seen time computed by the caller, which
  the store replaces by the update's own time for a new row.
* An indexer that binds while the process stops sets the phase from `Stopping` back
  to `Ready`.

## 7. Not modelled

* Pure conversion: SCALE metadata and decoding, miner log parsing, model types,
  configuration.  They keep no state that steps can disturb.
* Read-only queries (telemetry, inspection, HTTP routes), geo lookups and the node list.
* In the registry, topologies, epoch authorities and the difficulty poll: one row
  or map each, overwritten whole by one reader.
* The store's authorship cutover and derived summaries, which SQL recomputes
  from base rows; the read-only connection pool.
* The miner telemetry files, rewritten whole by one task.
* The transport's reconnection, its metrics, the cache of decoded blocks, and the
  chunks of a response stream.
* The ages and thresholds behind readiness.
* The frontend, shared types, deployment files, benchmarks and tools: outside the
  backend.
