# ckbadger in TLA+

ckbadger indexes the CKB chain into RocksDB and serves an explorer from it. This
directory models the parts of it that are hardest to test: how a live-syncing
indexer keeps its stores and its fork history right while the node changes
branch, writes fail and the process dies between two commits; how the peer
crawler works a round off over many interrupted slices; and how the supervisor
restarts, defers and stops its children.

Check a model with `tlc -config <cfg> <module>`, the proofs with
`tlapm <module>Proofs.tla`.

## 1. The system and what is hard about it

| Part | State | Operations | Hard behaviour | Status |
| --- | --- | --- | --- | --- |
| Domain store under live sync (`sync/batch.rs`, `db/writer/`, `undo_log_ops.rs`, `reorg_ops.rs`) | headers, mutable rows, undo log and its coverage floor, live-cell summary and its history, cleanup marker, deep-fork flag | commit a batch, detect and execute a reorg, clean up a failed batch, record a deep fork, start up | a rollback is several commits; the node moves during the fork-point search; a crash anywhere | `LiveStore` |
| What its readers see | chain, public summary, freeze | | the same, seen from outside | `TipView`, `LiveStoreView` |
| Pipeline (`sync/pipeline.rs`) | two bounded channels, reset epoch and flag, cell cache, pending counter, retry budget | fetch, resolve, publish, count, send; receive, check, write, reset | three tasks against one another and against resets | `Pipeline` |
| Canonical derivations (`derive/`) | per-aggregate state and cursor, rebuilt column family | chunk, live delta, reset for a rollback, startup normalisation | a rebuild runs beside live deltas; rollback of a half-built aggregate | `Derive` |
| Reorg events and the commit window (`db/writer/reorg.rs`, `sync/batch.rs`) | events and their links, pending marker; both stores, and what of each is on disk | synced payload commit, domain commit, begin_rollback, execute_reorg, reconcile | power loss loses unsynced writes of one store only; switches during a switch | `ForkEvents` |
| Fork view of the API (`routes/forks.rs`) | a memo keyed by the tip | serve | the store comes back to a tip | `ForkView` |
| Peer crawler (`crawler/engine.rs`, `network_ops.rs`) | active round, candidates with their aliases and observations, published nodes | open or resume, seed, admit, apply a result, publish | rounds longer than a process; a bound that refuses results; aliases that expire and return | `Crawler` |
| Supervisor and sequencer (`cli/supervisor.rs`, `cli/sequencer.rs`) | list of children, restart and handoff windows, gate | scan, block, hand off, back off, respawn; poll, spawn, list; stop | three tasks and a mutex that is dropped in the middle | `Supervisor` |

`PROJECT.json` has the full list of components, each hazard at its source line,
and the source lines of every definition.

How the parts meet: the fetcher reads blocks by number from the node's database
and sends batches to the parser, which resolves every input from the cell cache,
the batch itself or the store, and sends parsed batches to the writer. The writer
alone changes the domain store: payloads go to the append-only store first, with
an fsync, then the domain batch. A reorg, a mismatch or a failed write makes it
bump the epoch, notify the fetcher and drain its channel. A rollback leaves an
event behind that is linked to others once replay has caught up; the API reads
both. The supervisor starts a stopped indexer again, and the indexers of several
networks one after the other. The crawler has a store of its own.

## 2. Modules

### LiveStore, TipView, LiveStoreView

The durable state of the domain store, one action per commit. A block is the
sequence of branch labels from genesis to itself, so height, parent and hash
come with it. A row is the set of blocks folded into it: rows whose rollback the
undo log owns are exactly those whose value is a fold of block effects, and
"right" means "contains the stored blocks that touch it, and no other".

| Code | Model |
| --- | --- |
| `write_parsed_batch`, up to the domain commit | `CommitBatch`, with `PreImages`, `Pruned`, `NextFloor`, `NextHist` |
| its steps after the commit | `FinishBatch`, or `WriteFails` from `committed` |
| `check_and_handle_reorg`, `find_fork_point` | `CheckPasses`, `DetectReorg`, `ProbePasses`, `FindForkPoint`, `NodeReadFails`: one action per read of the node |
| `execute_reorg` | `ExecuteReorg`, `ReplayUndo`, `WithdrawSummary` or `RollbackRefused`, `CommitRollback`, `RecordReorgEvent` |
| `record_deep_fork` | `RecordDeepFork` |
| `cleanup_batch_range`, `BatchFailureTracker` | `CleanupBatchRange`, the same rollback, `FinishCleanup` |
| `init_sync_start_with_options` | `Restart` |

`ReplayUndo` replays one entry per step; the code flushes every 50,000, so
every state a crash can leave behind is a state of the model. `Restart` has no
branch for a store with partial data: `StartupRecovers` shows it is never
reached. `torn` is a history variable: the stored blocks some of whose rows a
rollback has undone. Between fetching and writing nothing else runs here; the
concurrency of the tasks is Pipeline's subject.

`TipView` says what a reader is promised, without undo log, marker or process: a
linked chain that grows only under a summary that is shown, shrinks only while
the summary is withdrawn, and freezes at a deep fork. `LiveStoreView`
instantiates it with the headers, the current summary and the deep-fork flag,
and states that LiveStore implements it.

### Pipeline

The three tasks of `run_pipeline`. One cell is followed: a block may create it or
spend it, and the position (`created_at_block`) the parser resolved travels with
the batch. The epoch is compared only for equality with its current value, so a
batch carries `fresh`, and `BumpEpoch` clears it everywhere. `RetryUnresolved`
counts an attempt unless a rollback's marker is set, as
`advance_unresolved_retry_budget` does. A rollback is three steps here, since
LiveStore has its detail; deep forks and the escalation after three failures are
also LiveStore's. The lag gate of the second reorg check is open, as it is near
the tip.

### Derive

The rebuild of derived aggregates and their maintenance by live batches. A block
toggles one source row, and an aggregate is followed per source row as the sum of
the contributions added so far: 0 or 1 when right, -1 while a deletion has
arrived before its row was folded. The grouping of rows under an aggregate's own
keys is left out, since sums commute.

| Code | Model |
| --- | --- |
| `apply_live_batch`, `stage_one`, `stage_into` | `ApplyLiveBatch` with `Applied`, `PreImages`; `FailLiveBatch` when a checked row is negative |
| `DeriveScheduler::step` | `Start`, `Chunk`, `Complete` |
| `invalidate_for_rollback` | `InvalidateForRollback` with `Corrupted`, `DroppedEntries` |
| undo replay, then removal of the blocks | `ReplayUndo`, `CommitRollback` |
| `normalize_on_startup` | `NormalizeOnStartup` |

`check_row` is taken as what the three aggregates have in common: no negative
row (`.bit` cells also refuse a count above 1, which only torn rows could reach).
`Complete` has no failing branch, because `ServedUnlessTorn` covers the rows being
validated: a running aggregate is never torn. Retention of undo entries and
refused rollbacks are LiveStore's subject; here a rollback may go to any height.

### ForkEvents, ForkView

A chain is the sequence of its blocks' difficulties, and a block is the prefix
that ends with it. The node prefers the greater total difficulty, so it may switch
to a shorter chain. `db` is the domain store in use and `disk` what a power loss
leaves of it; `cells` and `synced` are the same for the append-only store.

| Code | Model |
| --- | --- |
| `write_parsed_batch`, its two commits | `CommitCells` (`commit_synced`), `CommitDomain` |
| `reconcile_reorg_events` | `Reconcile` with `Due`, `ReconcileAccepts`, `Candidates`, `Restored`, `Reconciled` |
| `begin_rollback` | `BeginRollback`, inside `BeginReorg` and `CleanupBatch` |
| `check_and_handle_reorg`, `find_fork_point` | `DetectReorg`, `FindForkPoint`, `ReadTip`, `ReadTipHash`, `QueryFails`: one action per read of the node |
| `execute_reorg` | `NothingOrphaned`, or `BeginReorg`, `Rollback`, `Flush`, `RecordEvent` |
| `cleanup_batch_range` | `CleanupBatch`, `CleanupRollback` |
| `fork_view`, `TipMemo` | `ServeForks`, `MemoHit` (module ForkView) |

The domain log reaches the disk at any moment (`DomainSync`), or at the explicit
flush of a reorg. The rows are LiveStore's subject, so a rollback is one step.
ForkView puts an API process beside the writer; a request reads one pinned view.

### Crawler

The durable frontier (`cand`), the active round and the published nodes. A slice
loads them, admits up to `Concurrency` probes and checkpoints each result in one
write batch; since every change of the working copy is checkpointed before the
next await, one variable stands for the copy and the store, and a crash loses only
what is in flight.

| Code | Model |
| --- | --- |
| `initialize_or_resume` | `StartSlice` with `Resumed` or `Opened`, `Seeds`, `PrepareRound`; `SeedOverflow` |
| `select_next_candidate`, admission | `Selectable`, `Admit`, `DeadlineReached` |
| `apply_probe_result`, `merge_candidate` | `ProbeDone` with `Applied`, `MergeCandidates`, `Reopens`; `ProbeOverflow` when `ensure_frontier_bound` refuses |
| `publish_completed_round`, `commit_crawl_round` | `PublishRound` with `Verified`, `Pruned`, `NextNodes`, or `PublishRefused` |
| `run_crawler` | `SlicePartial`, `EndSlice` |

### Supervisor

The main task, the monitor and the sequencer, with the mutex over the list of
children: `lock` is held over several steps by a scan and by the shutdown, and
free during a backoff. A child is a record as in `ManagedChild`; a process exits
with one of the codes `classify_child_exit` tells apart. `log` is a history
variable: when each child was restarted and handed over. Init is the supervisor
with its immediate children and the first indexer spawned.

| Code | Model |
| --- | --- |
| `monitor_children_multi` | `BeginScan`, `BlockChild`, `Handoff`, `HandoffBlocked`, `Halt`, `BeginBackoff`, `Restart`, `RestartFails`, `EndScan` |
| `decide_restart`, `handoff_allowed` | `Effective`, `Halts`, `HandoffAllowed` |
| `sequence_indexers`, `observe_gate`, `spawn_with_retry` | `SeqPoll`, `SeqGate`, `SeqCheck`, `SeqSpawns`, `SeqSpawnFails`, `SeqList`, `SeqStop` |
| shutdown in `run_supervisor_inner_with_sequencer` | `ShutdownSignal`, `BeginStop`, `StopChild`, `EndStop`, `Return` |

## 3. Runs

| Run | Shows | Bounds |
| --- | --- | --- |
| `store_crash` | type, no orphan in a row, only undone blocks missing, undo coverage, linked headers, summary of the tip, startup always recovers, a deep fork freezes the store; the store implements `TipView` | height 3, batches of 2, depth 1, 2 switches, 2 crashes, 1 failed write |
| `store_retry` | rows exact between batches; the store catches up | height 3, depth 3, 1 switch, 3 failed writes (so the escalation happens) |
| `store_torn` | a disagreement, section 5 | the smallest that shows it |
| `pipeline_retry` | no underflow, the parser never starves, everything is stored | height 3, batches of 2, capacity 1, 2 failed writes |
| `pipeline_reorg` | only batches on the stored tip are written; the store catches up short of one dead end | height 2, 2 switches, 1 failed write |
| `pipeline_stranded` | a disagreement, section 5 | the smallest that shows it |
| `derive` | every contribution counted once while folding, served rows exact unless torn, reset rows empty, startup accepts, every aggregate ends complete | 2 aggregates, 2 rows, height 3, batches of 2, 2 rollbacks, 1 crash |
| `fork_events` | a surviving tip has its payloads; reconciliation never meets a state it refuses; the marker names the newest event; links agree and are true; every marker goes | height 3, 2 difficulties, 2 switches, batches of 2, 1 fault |
| `fork_view` | a disagreement, section 5 | the same, without faults |
| `crawler` | observations are counted once and kept; fresh nodes are dialled again; a drained round can be published unless wedged; rounds complete | 2 peers with 3 aliases, limits 2 and 3, 2 probes at a time, 2 rounds, 1 crash or change of limit |
| `crawler_readvertised` | a disagreement, section 5 | 3 peers with 4 aliases, 2 rounds |
| `supervisor` | rate limits, the bulk gate, no listed child after a shutdown, every exit handled, the shutdown ends, deferred indexers start | 2 networks and 1 other child, limits of 1 and 2, 2 exits |

Why the bounds are enough: two labels make two branches; depth 1 makes every fork
of two blocks deep; height 3 with batches of 2 has a batch that crosses the
retention floor and the summary window; two switches let the node leave a branch
and come back, which is what stale batches, torn rows and reversal links need; two
crashes hit a rollback and the recovery from it. In Pipeline, capacity 1 makes
both sends wait, and a retry budget of 2 has one attempt that is survived and one
that is not. In Derive, two aggregates put one behind the other in the registry,
two rows let a live delta hit a row before or after the fold cursor, and two
rollbacks let one reset a rebuild and another replay the log of the next. In
ForkEvents, difficulties 1 and 3 let one block outweigh two, so a switch may go to
a shorter chain. In Crawler, two aliases of one peer are what retries, expiry and
re-advertisement need, and the second round starts from published nodes; a TTL of
0 makes aliases expire within the bound on the clock (the safety properties were
also checked with a TTL of 1, 1,011,128 states). In Supervisor, the third child is
the deferred one, and limits of 1 and 2 are reached and exceeded by two exits and
failed respawns.

Deadlock is not checked for the indexer's modules: at the bound the node stops and
so may the indexer, and a deep fork is meant to stop it; Derive is quiet once all
is complete and its bounds are reached. ForkEvents, Crawler and Supervisor have an
explicit resting step at their bounds, and deadlock is checked there.

Fairness: weak fairness of the indexer's own steps (LiveStore) or of each task
(Pipeline), since the runtime polls each, and of the restart, which the
supervisor does; in Derive of the scheduler's step, which the writer loop takes
between batches while something is pending and sync is near the tip. In ForkEvents
the writer is weakly fair and so is the node's next block, since a proof-of-work
chain grows. In Crawler the service loop and the probes, which have deadlines, are
weakly fair; admission is strongly fair, since a budget of seconds does not run
out before the first dial of every slice. In Supervisor the tasks are weakly fair;
taking the mutex is strongly fair, since tokio's mutex is FIFO; and a store is not
unreadable for ever, nor does a deferred spawn fail for ever. Nothing is assumed
of the monitor's respawns. The node's switches, crashes, power loss, write errors
and exits owe nothing.

`QuickReset` is a timing assumption, and a constant. When TRUE, a reset (a few
atomic stores and a non-blocking drain) is quicker than a block fetch or a retry
sleep of the parser, and does not fall between the fetcher's choice of a range
and its read of the epoch two statements later. Without it `NoUnderflow` fails
(section 5), and liveness fails too: resets can chase each other, each one falling
into the next plan, for ever. `pipeline_retry` and `pipeline_reorg` assume it, and so
do the theorems about their invariants; the one about `CommitsExtendTip` does not.

## 4. Proofs

All theorems hold for every value of the constants that satisfies the module's
named assumption.

**LiveStoreProofs** (about LiveStore and LiveStoreView): `TypeCorrect`, `RowsHaveNoOrphans`, `OnlyTornBlocksMissing` and
`WindowIsCovered`. None of the last three is inductive. A replay writes a
pre-image back, so the proof must know what pre-images contain; the inductive
invariant `IInv` adds to the type invariant

- `DataInv`: the floor is no higher than the tip; an undo entry belongs to a
  stored block that touches its key, and its pre-image holds exactly the stored
  effects below that block, up to torn ones; rows hold no orphan and miss only
  torn blocks; above the floor a block that touches a key has its entry, unless
  it is torn and gone from the row and from every other pre-image;
- `BatchFollowsTip`: a batch about to be written consists of blocks at the
  heights above the tip;
- `JobInRange`: a rollback's target lies between floor and tip, and nothing is
  left to replay once the summary is withdrawn.

TLC finds `IInv` true in all 681,653 states of the `store_crash` instance. Each
action preserves each conjunct it can disturb. `CommitBatch` needs that the new
pre-images chain through the batch, `ReplayUndo` that the newest entry goes first,
`CommitRollback` that nothing above the target is left in the undo log.

The same module proves `HeadersStayLinked`, `SummaryIsTheTips`, `EveryStopRestarts`,
`DeepForkIsFinal`, and `StoreImplementsView`, the refinement: initial states map to
initial states of TipView, and every step to a step of it or to a stutter. The
invariant adds `MarkerInv` to `IInv`: the cleanup marker lives from the withdrawal
of the summary to the rollback's commit or the restart after it, the target's
summary is still retained in between, and a deep fork leaves the writer paused or
down.

`RowsExact` is false after the crash of `store_torn`, so its theorems say when it
holds. `RowsStayExact`: in every behaviour in which no rollback is cut short, by a
crash or by a refusal (`RollbacksFinish`), for any number of crashes elsewhere.
Torn blocks then exist only while a rollback runs, and are above its target
(`TornInv`). `UncutRowsExact` discharges that hypothesis for the instance of
`store_retry`: without crashes, and with a chain no longer than the summary window, no
rollback is ever refused, because every summary it may return to is still retained
(`WindowInv`).

**ForkEventsProofs**: `TipHasPayloads`, `MarkerNamesNewest`, `LinksAlwaysAgree`,
`LinksAlwaysTrue`. Since
a power loss replaces the store in use by the one on disk, the invariant states
everything of both: links and marker are good (`Good`), and every block of either
chain has its payloads on disk (`PayloadInv`). Between the two commits the blocks
of the batch are synced (`WriterInv`); a rollback only shortens a chain.
`MarkerAlwaysAccepted` says that `MarkerOutlivesNothing` holds. The property speaks
of the moment an event is due, while the blocks it needs can be cut off long
before; so `MInv` adds that the chain, in use and on disk, always holds the pending
event's fork point and the block recorded as the successor of its new tip
(`Intact`). Two kinds of rollback could break that. The cleanup of a failed batch
cuts at the tip the batch started from, which is no lower than either block, or
interrupts the event first; a reorg always interrupts it first, and then cuts at a
block of the branch it read (`JobInv`). TLC finds `MInv` true in all 439,526 states
of the `fork_events` instance. `LinksAlwaysTrue` is the action property `LinksAreTrue`.
A power loss is the step that could break it, by bringing back an older link; the
invariant `HistoryInv` says that the store in use has every link of the store on disk.

**PipelineProofs**: `CommitsExtend`. No assumption about the tasks' speed is needed: the
writer alone changes the stored chain, so the comparison of the parent hash still
holds when the batch is written (`WriterInv`), and a cleanup or a reorg never
targets a height above the tip. `PendingNeverUnderflows` does assume `QuickReset`:
the counter is at least the number of blocks in the fresh batches that were counted
and not yet received, a sum over both channels and the hands of the tasks, which
every send, receipt and reset keeps in step. `ParserNeverGivesUp` says that
`ParserKeepsResolving` holds until the node first leaves its branch (after that it may
not, section 5), under `QuickReset` too. Up to then everything stored or under way is
of the node's branch (`BranchInv`). The heart is `FeedInv`: while the followed cell is
neither in the cache nor for good in the store, each fresh batch that may need it
contains it or comes after one that does, and no batch past its publication contains
it. Eviction cannot break this, since what it drops is below what a rollback under way
will keep; a failed write can, and its reset makes every batch stale and has the
fetcher start again above the store. TLC finds both invariants true in all 64,844
states of the `pipeline_retry` instance.

**DeriveProofs**: `TypeCorrect`, `RebuildsAccount`, `ServedRowsExact`,
`ResetLeavesNothing`, `StartupNeverRefuses`. A rollback replays pre-images, so it is
not enough that the rows are right at the tip: `Restorable` says that for every
height since an aggregate's completion, below which nothing is torn, the undo log
restores the rows of that height. `ReplayInv` says what the reset before a rollback
has made of the log, so that no replay writes into a rebuilt aggregate. TLC finds the
inductive invariant true in all 161,236 states of the `derive` instance.

**SupervisorMonitorProofs**, **SupervisorProofs**: `TypeCorrect`, `RespawnsLimited`,
`SequencerGated`, `StoppedStaysStopped`. The code decides by a pruned history that is
carried over from one child to the next and extended by failed respawns, the
property speaks of what really happened: the invariant matches the respawns of a
child, from the last one back and as long as they are in the window, with the
entries of its history, each at least as late. `LockInv` says who holds the mutex,
`StopInv` how far the shutdown has come, `GateInv` that what the sequencer read at
its poll stays true until the child is listed. The first module has the invariant
and the monitor, the second the other tasks and the theorems. TLC finds it true in
all 66,333 states of the `supervisor` instance.

**CrawlerSliceProofs**, **CrawlerProofs**: `TypeCorrect`, `EvidenceIsCounted`,
`FreshNodesDialled`, `WorkIsKept`, `DrainedPublishes`. The tally of a round is compared
with the number of observations, so the invariant must exclude a second observation
of an alias: a probe in flight is of an alias not observed yet, and one per peer
(`FlightInv`). `PeerOK` relates the state of a peer to its observations and says that
a state a round goes on from has an alias left to dial; with `ClockInv`, that no
stamp is later than the clock, it is what the checks of the publication come down to.
`NodeOK` says that a published node has an alias verified when it was last seen, so
that a fresh node has a fresh alias. The first module has the invariant and the
steps of a slice that dial nothing, the second the results, the publication and the
theorems. TLC finds this `IInv` true in all 177,026 states of the `crawler` instance.

Only model-checked: all liveness (`CatchesUp` and its kind), which is out of the
prover's reach, and the disagreements of the next section.

## 5. Disagreements met while modelling

Shown by a run:

1. `store_torn`: the undo replay of a rollback is durable before the rollback
   itself. After a crash in between, startup finds nothing above the tip and
   skips the cleanup ("atomic WriteBatch guarantees consistency"). If the node
   went back to the old branch the rows stay wrong.
2. `pipeline_stranded`: a reorg is seen only when a batch reaches the writer, and
   a batch that spends a cell made only on the new branch never does.
3. `crawler_readvertised`: `merge_candidate` reopens a failed peer for a new alias,
   not for an expired one that is advertised again. The peer keeps a fresh alias
   nobody dialled, and the round can never be published.
4. `fork_view`: the memo is keyed by the tip, and the store may come back to a tip
   with another history of events.

Shown by a configuration that can be run by hand:

| Configuration | Module, property | What happens, against what is said |
| --- | --- | --- |
| `MCLiveStoreWindow.cfg` | MCLiveStore, `ShallowReorgSucceeds` | a rollback drops the summaries above its target and the window refills one block at a time, so a second shallow reorg can be refused, after its undo replay (`docs/prompts/REORG_HANDLING.md:39`) |
| `MCLiveStoreCleanup.cfg` | MCLiveStore, `FailedBatchIsRetried` | a step after the commit of a batch longer than the summary window fails; the cleanup is refused, again after the replay (`docs/INDEXER_PIPELINE.md:361`) |
| `MCPipelineCounter.cfg` | MCPipeline, `NoUnderflow` | the counter is zeroed after the drain, and a batch of the new epoch may be counted in between (comment at `pipeline.rs:2411`) |
| `MCPipelineCache.cfg` | MCPipeline, `SpendsResolveExactly` | an abandoned batch publishes its outputs after the caches were cleared; the epoch is compared only later (comment at `pipeline.rs:3002`) |
| `MCForkEventsAddress.cfg` | ForkEvents, `ForkAddressIsUnique` | a branch left, restored and left again makes two events with one address ("one fork event per fork point and first orphan is an invariant", `forks.rs:1180`) |
| `MCCrawlerSeed.cfg` | MCCrawler, `RetainedAliasesAreRedialled` | a new round refused while seeding is stored without its candidates; with a higher limit it resumes and does not dial them ("Raising the limit resumes by safely retrying that source", `docs/NETWORK_PEER_CRAWLER.md:207`) |

Read off the code, or off an excluded case of a property:

- a batch counted after the counter was zeroed and then dropped as stale leaves
  the counter too high until the next reset (nothing else reads it);
- a crash between the rollback and its event loses the event;
- the crash of `store_torn` also leaves a derived aggregate that completed at or
  below the rollback's target complete, kept by startup, and without some stored
  blocks (the `torn` case of `ServedUnlessTorn`);
- a crawl round that lasts longer than the node TTL after a success drops the
  node it has just verified and is then refused (`Outlived` in Crawler);
- a child the sequencer has spawned and not yet listed when the tasks are aborted
  is killed by `kill_on_drop`, and nobody waits for it before the workdir locks
  are released (`KillDropped` in Supervisor), while `workdir_lock.rs:8` says they
  are "Held until every managed service has stopped".

## 6. Not modelled, and why

- Hourly retention: deletion steps behind a persisted boundary, inside the batch
  commit. It belongs in one state with LiveStore's floor, since a rollback has to
  respect both; LiveStore is already the largest of the models.
- Background workers (cycles, DOB decode, label import): independent cursors; the
  next candidates.
- Read view: a pinned snapshot. The models take a request as one read of a
  committed state, which is what it gives.
- Websocket fan-out, pool mirror, crawler observer, geo lookup: I/O around state
  that is rebuilt from its source.
- Bulk build, block and protocol parsers, key encodings and query operations, the
  node's database reader, DOB decoder, verify, bench, TUI and frontend: sequential
  or pure code, most of the repository's lines, with no interleaving, fault or
  protocol that a small instance would say anything about.

Worth adding next: LiveStore with Derive (one rollback for both).
