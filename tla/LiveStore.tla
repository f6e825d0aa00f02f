------------------------------ MODULE LiveStore ------------------------------
(***************************************************************************)
(* The domain store of a live-syncing indexer, commit by commit.           *)
(*                                                                         *)
(* A live batch commits headers, mutable rows, per-block undo pre-images,  *)
(* the undo coverage floor and the live-cell summary in ONE write batch.   *)
(* A rollback (reorg, or the cleanup of a failed batch) is NOT one write:  *)
(* undo replay, withdrawal of the summary, canonical rollback and the      *)
(* reorg event are separate commits, and the process may die between any   *)
(* two of them.  The CKB node switches branch at any moment, also between  *)
(* two reads of one fork-point search.                                     *)
(*                                                                         *)
(* A block is the sequence of branch labels from genesis to itself: its    *)
(* length is its height, its front is its parent, and it is its own hash.  *)
(* A row is abstracted to the set of blocks whose effects it contains.     *)
(***************************************************************************)
EXTENDS Integers, Sequences, FiniteSets

CONSTANTS
    Label,          \* labels that tell two blocks of one height apart
    Key,            \* keys of rows whose rollback is owned by the undo log
    StatsKey,       \* keys of the pruned scopes (EntityStats and Derived)
    Touch,          \* Touch[l]: keys a block labelled l mutates
    MaxHeight,      \* bound: height of the node's chain
    MaxHandoff,     \* bound: height at which bulk build hands over
    MaxBatch,       \* blocks in one fetched batch, at most
    DeepForkDepth,  \* DEEP_FORK_DEPTH = MAX_SHALLOW_REORG_DEPTH
    RetainBlocks,   \* ENTITY_STATS_UNDO_RETAIN_BLOCKS
    MaxSwitches,    \* bound: branch switches of the node
    MaxCrashes,     \* bound: process crashes
    MaxWriteErrors  \* bound: failed batch writes

ASSUME ConstantsAssumption ==
    /\ Key # {} /\ StatsKey \subseteq Key
    /\ Touch \in [Label -> SUBSET Key]
    /\ MaxHeight \in Nat /\ MaxHandoff \in Nat /\ MaxBatch \in Nat \ {0}
    /\ DeepForkDepth \in Nat \ {0} /\ RetainBlocks \in Nat
    /\ MaxSwitches \in Nat /\ MaxCrashes \in Nat /\ MaxWriteErrors \in Nat

VARIABLES
    node,       \* the CKB node's canonical chain (labels above genesis)
    switches,   \* branch switches so far
    headers,    \* block_headers: the stored blocks 1..tip
    rows,       \* undo-owned rows: key -> blocks folded into it
    undo,       \* reorg_undo_log_by_block: [blk, key, prev]
    floor,      \* EntityStatsUndoContract.coverage_floor_block
    hist,       \* retained live-cell summaries, one per block
    current,    \* LIVE_CELL_SUMMARY_CURRENT: {} when withdrawn
    marker,     \* ROLLBACK_CLEANUP_IN_PROGRESS
    deepFork,   \* SyncStatus.deep_fork_detected
    pc,         \* where the writer task stands
    job,        \* the rollback in flight: its cause and target
    inflight,   \* the batch fetched and parsed but not yet written
    fails,      \* BatchFailureTracker: failures in a row of one start block
    faults,     \* crashes and failed writes so far
    exit,       \* why the process last stopped
    torn        \* history: stored blocks some of whose rows were undone

domain == <<headers, rows, undo, floor, hist, current, marker, deepFork>>
process == <<pc, job, inflight, fails, exit>>
vars == <<node, switches, domain, process, faults, torn>>

Chains == UNION {[1..n -> Label] : n \in 0..MaxHeight}
Block == Seq(Label)
Genesis == <<>>
Tip == Len(headers)
HeaderAt(h) == IF h = 0 THEN Genesis ELSE headers[h]
TipBlock == HeaderAt(Tip)
ChainBlock(h) == SubSeq(node, 1, h)
Extends(b, parent) == Len(b) = Len(parent) + 1 /\ SubSeq(b, 1, Len(parent)) = parent
Touched(b) == Touch[b[Len(b)]]

\* The blocks up to height h whose effects row k must contain.
Effects(k, h) == {headers[i] : i \in {j \in 1..h : k \in Touched(headers[j])}}

NoJob == [kind |-> "none", target |-> 0]
NoFails == [start |-> 0, count |-> 0]
ForkFloor == IF Tip > DeepForkDepth THEN Tip - DeepForkDepth ELSE 0

TypeOK ==
    /\ node \in Seq(Label) /\ switches \in Nat
    /\ headers \in Seq(Block)
    /\ rows \in [Key -> SUBSET Block]
    /\ undo \subseteq [blk : Nat, key : Key, prev : SUBSET Block]
    /\ floor \in Nat
    /\ hist \subseteq Block /\ current \subseteq Block
    /\ marker \in BOOLEAN /\ deepFork \in BOOLEAN
    /\ pc \in {"idle", "probe", "search", "write", "committed", "undo",
               "marked", "event", "cleaned", "paused", "down"}
    /\ job \in [kind : {"none", "reorg", "cleanup"}, target : Nat]
    /\ inflight \in Seq(Block)
    /\ fails \in [start : Nat, count : Nat]
    /\ faults \in [crashes : Nat, writes : Nat]
    /\ exit \in {"none", "crash", "node", "precheck", "coverage",
                 "reorg_history", "cleanup_history", "escalated"}
    /\ torn \subseteq Block

\* A store handed over by bulk build: the node's chain up to its tip, no undo
\* entry, and a contract whose floor is that tip.
Init ==
    /\ node \in {c \in Chains : Len(c) <= MaxHandoff}
    /\ headers = [i \in 1..Len(node) |-> SubSeq(node, 1, i)]
    /\ rows = [k \in Key |-> Effects(k, Len(node))]
    /\ undo = {} /\ floor = Len(node)
    /\ hist = {HeaderAt(h) : h \in ForkFloor..Tip}
    /\ current = {TipBlock}
    /\ marker = FALSE /\ deepFork = FALSE
    /\ pc = "idle" /\ job = NoJob /\ inflight = <<>> /\ fails = NoFails
    /\ switches = 0 /\ faults = [crashes |-> 0, writes |-> 0] /\ exit = "none" /\ torn = {}

(***************************************************************************)
(* The node.                                                               *)
(***************************************************************************)
NodeExtend ==
    /\ Len(node) < MaxHeight
    /\ \E l \in Label : node' = Append(node, l)
    /\ UNCHANGED <<switches, domain, process, faults, torn>>

NodeSwitch ==
    /\ switches < MaxSwitches
    /\ node' \in Chains \ {node}
    /\ switches' = switches + 1
    /\ UNCHANGED <<domain, process, faults, torn>>

(***************************************************************************)
(* Stopping.  `Stop(reason)` is an error that leaves run_pipeline: memory   *)
(* is lost, the store stays as it is.                                       *)
(***************************************************************************)
Stop(reason) ==
    /\ pc' = "down" /\ exit' = reason
    /\ job' = NoJob /\ inflight' = <<>> /\ fails' = NoFails

\* Mutant: the reset forgets to drain the channel.
ResetWithoutDrain ==
    /\ pc' = "idle" /\ job' = NoJob /\ UNCHANGED inflight

\* A reset drops what the fetcher and the parser have queued.
BackToIdle ==
    /\ pc' = "idle" /\ job' = NoJob /\ inflight' = <<>>

(***************************************************************************)
(* Fetching and the reorg check before every write.                        *)
(***************************************************************************)
\* One block of the next batch, read by number: the node may switch branch
\* between two blocks of one batch.
FetchBlock ==
    /\ pc = "idle"
    /\ Len(inflight) < MaxBatch
    /\ LET h == Tip + Len(inflight) + 1 IN
         /\ h <= Len(node)
         /\ inflight' = Append(inflight, ChainBlock(h))
    /\ UNCHANGED <<node, switches, domain, pc, job, fails, exit, faults, torn>>

\* The height whose hash the reorg check reads next.
ReadHeight ==
    CASE pc = "idle" -> Tip
      [] pc = "probe" -> ForkFloor
      [] OTHER -> job.target

Checking == (pc = "idle" /\ inflight # <<>>) \/ pc = "probe" \/ pc = "search"
NodeHas(h) == h <= Len(node)
NodeAgrees(h) == ChainBlock(h) = HeaderAt(h)

\* The node no longer has the block the check asks for: an error.
NodeReadFails ==
    /\ Checking /\ ~NodeHas(ReadHeight)
    /\ Stop("node")
    /\ UNCHANGED <<node, switches, domain, faults, torn>>

\* No reorg.  A batch that does not build on the stored tip is dropped.
CheckPasses ==
    /\ pc = "idle" /\ inflight # <<>>
    /\ NodeHas(Tip) /\ NodeAgrees(Tip)
    /\ IF Extends(inflight[1], TipBlock)
         THEN pc' = "write" /\ UNCHANGED <<job, inflight>>
         ELSE BackToIdle
    /\ UNCHANGED <<node, switches, domain, fails, exit, faults, torn>>

DetectReorg ==
    /\ pc = "idle" /\ inflight # <<>>
    /\ NodeHas(Tip) /\ ~NodeAgrees(Tip)
    /\ pc' = IF ForkFloor > 0 THEN "probe" ELSE "search"
    /\ job' = [kind |-> "reorg", target |-> Tip]
    /\ UNCHANGED <<node, switches, domain, inflight, fails, exit, faults, torn>>

\* The bounded probe at ForkFloor: a mismatch there is a deep fork.  The
\* event, the flag and the withdrawal of the summary are one batch.
RecordDeepFork ==
    /\ pc = "probe" /\ NodeHas(ForkFloor) /\ ~NodeAgrees(ForkFloor)
    /\ deepFork' = TRUE /\ current' = {}
    /\ pc' = "paused" /\ job' = NoJob /\ inflight' = <<>>
    /\ UNCHANGED <<node, switches, headers, rows, undo, floor, hist, marker,
                   fails, exit, faults, torn>>

ProbePasses ==
    /\ pc = "probe" /\ NodeHas(ForkFloor) /\ NodeAgrees(ForkFloor)
    /\ pc' = "search"
    /\ UNCHANGED <<node, switches, domain, job, inflight, fails, exit, faults, torn>>

\* find_fork_point walks down from the tip, one read of the node per height.
FindForkPoint ==
    /\ pc = "search" /\ NodeHas(job.target) /\ ~NodeAgrees(job.target)
    /\ IF job.target > ForkFloor
         THEN /\ job' = [job EXCEPT !.target = @ - 1]
              /\ UNCHANGED <<pc, inflight, fails, exit>>
         ELSE Stop("node")
    /\ UNCHANGED <<node, switches, domain, faults, torn>>
(***************************************************************************)
(* Rollback.  execute_reorg and cleanup_batch_range share it: replay the   *)
(* undo log, then roll the canonical data back.                            *)
(***************************************************************************)
\* The checks execute_reorg makes before it writes anything.
ReorgRefusal(target) ==
    IF ~(current = {TipBlock} /\ TipBlock \in hist) THEN "precheck"
    ELSE IF target < floor THEN "coverage"
    ELSE IF target >= Tip THEN "precheck"   \* the node went back meanwhile
    ELSE "none"

ExecuteReorg ==
    /\ pc = "search" /\ NodeHas(job.target) /\ NodeAgrees(job.target)
    /\ LET refusal == ReorgRefusal(job.target) IN
         IF refusal = "none"
           THEN pc' = "undo" /\ UNCHANGED <<job, inflight, fails, exit>>
           ELSE Stop(refusal)
    /\ UNCHANGED <<node, switches, domain, faults, torn>>

\* Mutant: the scan for entries to replay starts one block too high.
PendingAboveNext == {e \in undo : e.blk > job.target + 1}

\* The entries a rollback has to replay: blocks above its target.
Pending == {e \in undo : e.blk > job.target}

\* rollback_via_undo_log: newest entry first; the pre-image is put back and
\* the entry deleted in one write.  The code flushes every
\* UNDO_ROLLBACK_FLUSH_EVERY entries; one entry at a time reaches every state
\* any flush size can leave behind.
ReplayUndo ==
    /\ pc = "undo"
    /\ \E e \in Pending :
         /\ \A f \in Pending : f.blk <= e.blk
         /\ rows' = [rows EXCEPT ![e.key] = e.prev]
         /\ undo' = undo \ {e}
         /\ torn' = torn \cup {HeaderAt(e.blk)}
    /\ UNCHANGED <<node, switches, headers, floor, hist, current, marker,
                   deepFork, process, faults>>

\* prepare_live_cell_summary_rollback: both ends of the rollback need a
\* retained summary, and it may span DeepForkDepth blocks at most.
SummaryPlanHolds(target) ==
    /\ TipBlock \in hist
    /\ current = {TipBlock} \/ (current = {} /\ marker)
    /\ Tip - target <= DeepForkDepth
    /\ HeaderAt(target) \in hist

\* The plan is made after the replay is durable; a refusal leaves the replay.
RollbackRefused ==
    /\ pc = "undo" /\ Pending = {} /\ ~SummaryPlanHolds(job.target)
    /\ Stop(IF job.kind = "reorg" THEN "reorg_history" ELSE "cleanup_history")
    /\ UNCHANGED <<node, switches, domain, faults, torn>>

\* Mutant: the summary stays until the rollback commits.
LeaveCurrent == UNCHANGED <<marker, current>>

\* The cleanup marker and the withdrawal of the public summary: one write.
WithdrawCurrent == marker' = TRUE /\ current' = {}

WithdrawSummary ==
    /\ pc = "undo" /\ Pending = {} /\ SummaryPlanHolds(job.target)
    /\ WithdrawCurrent
    /\ pc' = "marked"
    /\ UNCHANGED <<node, switches, headers, rows, undo, floor, hist, deepFork,
                   job, inflight, fails, exit, faults, torn>>

\* Mutant: the rolled-back blocks keep their retained summaries.
KeepAllHist(target) == hist

KeptHist(target) == {b \in hist : Len(b) <= target}

\* The canonical rollback: headers, summary, history and marker in one write.
CommitRollback ==
    /\ pc = "marked"
    /\ headers' = SubSeq(headers, 1, job.target)
    /\ hist' = KeptHist(job.target)
    /\ current' = {HeaderAt(job.target)}
    /\ marker' = FALSE
    /\ torn' = {b \in torn : Len(b) <= job.target}
    /\ pc' = IF job.kind = "reorg" THEN "event" ELSE "cleaned"
    /\ UNCHANGED <<node, switches, rows, undo, floor, deepFork, job, inflight,
                   fails, exit, faults>>

\* The reorg event and the cleared deep-fork flag, after the rollback.
RecordReorgEvent ==
    /\ pc = "event"
    /\ deepFork' = FALSE
    /\ BackToIdle
    /\ UNCHANGED <<node, switches, headers, rows, undo, floor, hist, current,
                   marker, fails, exit, faults, torn>>

(***************************************************************************)
(* Writing a batch.                                                        *)
(***************************************************************************)
\* Mutant: the links inside a batch are not verified.
AnyOrder(batch) == TRUE

Linked(batch) == \A i \in 2..Len(batch) : Extends(batch[i], batch[i - 1])

\* prepare_live_cell_summary_snapshots: the batch continues the summary.
BatchAcceptable ==
    /\ current = {TipBlock} /\ TipBlock \in hist
    /\ Linked(inflight)

Max2(a, b) == IF a > b THEN a ELSE b
\* Mutant: the floor follows the tip down after a rollback.
FloorBehindTip == Tip - RetainBlocks

\* stage_entity_stats_undo_retention, bounded by the tip the batch builds on;
\* the floor never moves backwards.
NextFloor == Max2(floor, Tip - RetainBlocks)

\* Mutant: pruning reaches one block above the floor it commits.
PrunedPastFloor == {e \in undo : /\ e.key \in StatsKey
                                 /\ floor < e.blk /\ e.blk <= NextFloor + 1}

Pruned == {e \in undo : /\ e.key \in StatsKey
                        /\ floor < e.blk /\ e.blk <= NextFloor}

\* Blocks of the batch before position i that touch k.
BatchEffects(k, i) == {inflight[j] : j \in {n \in 1..(i - 1) : k \in Touched(inflight[n])}}

\* Mutant: every block of the batch records the row as the batch found it.
PreImagesPerBatch ==
    UNION {{[blk |-> Tip + i, key |-> k, prev |-> rows[k]] :
              k \in Touched(inflight[i])} : i \in 1..Len(inflight)}

\* One pre-image per block and key: the row at the end of the previous block.
PreImages ==
    UNION {{[blk |-> Tip + i, key |-> k, prev |-> rows[k] \cup BatchEffects(k, i)] :
              k \in Touched(inflight[i])} : i \in 1..Len(inflight)}

\* put_live_cell_summary_snapshots: every block's summary is put and the one
\* DeepForkDepth + 1 below it expires.
Expired(h) == Tip < h + DeepForkDepth + 1 /\ h + DeepForkDepth + 1 <= Tip + Len(inflight)
NextHist ==
    {b \in hist : Len(b) <= Tip /\ ~Expired(Len(b))}
      \cup {inflight[i] : i \in {j \in 1..Len(inflight) : ~Expired(Tip + j)}}

\* The atomic domain commit of write_parsed_batch.
CommitBatch ==
    /\ pc = "write" /\ BatchAcceptable
    /\ headers' = headers \o inflight
    /\ rows' = [k \in Key |-> rows[k] \cup BatchEffects(k, Len(inflight) + 1)]
    /\ undo' = (undo \ Pruned) \cup PreImages
    /\ floor' = NextFloor
    /\ hist' = NextHist
    /\ current' = {inflight[Len(inflight)]}
    /\ pc' = "committed"
    /\ job' = [kind |-> "cleanup", target |-> Tip]
    /\ UNCHANGED <<node, switches, marker, deepFork, inflight, fails, exit,
                   faults, torn>>

\* The post-commit steps (DAO singletons, reorg events) succeed.
FinishBatch ==
    /\ pc = "committed"
    /\ BackToIdle /\ fails' = NoFails
    /\ UNCHANGED <<node, switches, domain, exit, faults, torn>>

\* An error of the write, classified CleanupAndRetry: the batch range is
\* rolled back to the block before it, whether or not the batch committed.
CleanupBatchRange(target) ==
    IF target < floor THEN Stop("coverage")
    ELSE /\ pc' = "undo"
         /\ job' = [kind |-> "cleanup", target |-> target]
         /\ inflight' = <<>>
         /\ fails' = [start |-> target + 1,
                      count |-> IF fails.start = target + 1 THEN fails.count + 1 ELSE 1]
         /\ UNCHANGED exit

\* The batch mixes branches, so no commit is attempted.
RejectBatch ==
    /\ pc = "write" /\ ~BatchAcceptable
    /\ CleanupBatchRange(Tip)
    /\ UNCHANGED <<node, switches, domain, faults, torn>>

\* A write error before the commit, or of a fallible step after it.
WriteFails ==
    /\ faults.writes < MaxWriteErrors
    /\ \/ pc = "write" /\ CleanupBatchRange(Tip)
       \/ pc = "committed" /\ CleanupBatchRange(job.target)
    /\ faults' = [faults EXCEPT !.writes = @ + 1]
    /\ UNCHANGED <<node, switches, domain, torn>>

MaxBatchFailures == 3

FinishCleanup ==
    /\ pc = "cleaned"
    /\ IF fails.count >= MaxBatchFailures
         THEN Stop("escalated")
         ELSE BackToIdle /\ UNCHANGED <<fails, exit>>
    /\ UNCHANGED <<node, switches, domain, faults, torn>>

(***************************************************************************)
(* Crash and restart.                                                      *)
(***************************************************************************)
Crash ==
    /\ pc # "down" /\ faults.crashes < MaxCrashes
    /\ Stop("crash")
    /\ faults' = [faults EXCEPT !.crashes = @ + 1]
    /\ UNCHANGED <<node, switches, domain, torn>>

\* has_partial_data_after_block: undo entries above the tip (headers above the
\* tip do not exist: the tip is the highest header).
HasPartialData == \E e \in undo : e.blk > Tip

\* Mutant: startup restores the summary whenever it is withdrawn.
SummaryWithdrawn == current = {}

\* Only a rollback's own marker makes startup restore the summary.
MustRestoreSummary == marker

\* init_sync_start_with_options: without partial data nothing is rolled back;
\* an interrupted rollback only gets its summary back from the tip's history.
Restart ==
    /\ pc = "down" /\ ~HasPartialData
    /\ IF MustRestoreSummary
         THEN /\ TipBlock \in hist
              /\ current' = {TipBlock} /\ marker' = FALSE
         ELSE UNCHANGED <<current, marker>>
    /\ pc' = IF deepFork THEN "paused" ELSE "idle"
    /\ UNCHANGED <<node, switches, headers, rows, undo, floor, hist, deepFork,
                   job, inflight, fails, exit, faults, torn>>

Next ==
    \/ NodeExtend \/ NodeSwitch
    \/ FetchBlock \/ NodeReadFails \/ CheckPasses \/ DetectReorg
    \/ RecordDeepFork \/ ProbePasses \/ FindForkPoint
    \/ ExecuteReorg \/ ReplayUndo \/ RollbackRefused \/ WithdrawSummary
    \/ CommitRollback \/ RecordReorgEvent
    \/ CommitBatch \/ FinishBatch \/ RejectBatch \/ WriteFails \/ FinishCleanup
    \/ Crash \/ Restart

Spec == Init /\ [][Next]_vars

\* The writer, the fetcher and a restart keep running while they can; the node,
\* crashes and write errors owe nothing.
Steps ==
    \/ FetchBlock \/ NodeReadFails \/ CheckPasses \/ DetectReorg
    \/ RecordDeepFork \/ ProbePasses \/ FindForkPoint
    \/ ExecuteReorg \/ ReplayUndo \/ RollbackRefused \/ WithdrawSummary
    \/ CommitRollback \/ RecordReorgEvent
    \/ CommitBatch \/ FinishBatch \/ RejectBatch \/ FinishCleanup

FairSpec == Spec /\ WF_vars(Steps) /\ WF_vars(Restart)

(***************************************************************************)
(* Properties.                                                             *)
(***************************************************************************)
\* No row ever contains a block the store no longer has, so replaying a chain
\* can never fold the same block twice -- wherever a rollback was cut short.
NoOrphanRows == \A k \in Key : rows[k] \subseteq Effects(k, Tip)

\* A stored block is missing from a row only when a rollback replayed that
\* block's undo entry and never removed its header.
OnlyTornRowsMissing == \A k \in Key : Effects(k, Tip) \ torn \subseteq rows[k]

\* Between batches the rows are exactly the effects of the stored chain.
RowsExact == pc = "idle" => \A k \in Key : rows[k] = Effects(k, Tip)

\* The same, whenever the node still has the stored tip: rows that are wrong
\* there are never rolled back and written again.
CanonicalRowsExact ==
    pc = "idle" /\ NodeHas(Tip) /\ NodeAgrees(Tip)
      => \A k \in Key : rows[k] = Effects(k, Tip)

\* Above the coverage floor every mutation can still be undone: its pre-image
\* is retained, unless an unfinished rollback has consumed it.
UndoCoversWindow ==
    \A h \in (floor + 1)..Tip : \A k \in Touched(headers[h]) :
        headers[h] \in torn \/ \E e \in undo : e.blk = h /\ e.key = k

\* The stored headers are one chain, although batches are fetched by number
\* while the node switches branch.
HeadersLinked == \A h \in 1..Tip : Extends(HeaderAt(h), HeaderAt(h - 1))

\* The public live-cell summary is the tip's, or withdrawn exactly while a
\* rollback is under way or a deep fork is unresolved; every retained summary
\* belongs to a stored block.
SummaryTracksTip ==
    /\ current = IF marker \/ deepFork THEN {} ELSE {TipBlock}
    /\ TipBlock \in hist
    /\ hist \subseteq {HeaderAt(h) : h \in 0..Tip}

\* Startup never finds undo entries above the tip, and can always restore an
\* interrupted rollback's summary: every stop can be restarted from.
StartupRecovers == ~HasPartialData /\ (MustRestoreSummary => TipBlock \in hist)

\* After a deep fork nothing but the node moves, across restarts too.
DeepForkFreezesStore ==
    [][deepFork => UNCHANGED <<headers, rows, undo, floor, hist, current>>]_vars

\* A fork within DeepForkDepth is never refused for want of a retained summary.
ShallowReorgSucceeds == exit # "reorg_history"

\* A failed batch write is always rolled back and retried: its cleanup is
\* never refused for want of a retained summary.
FailedBatchIsRetried == exit # "cleanup_history"

\* A longer node chain is eventually stored, or the indexer rests in one of
\* the two documented dead ends: a deep fork, a fork below the floor.
CommonHeight == CHOOSE h \in 0..Tip :
    /\ NodeHas(h) /\ NodeAgrees(h)
    /\ \A i \in (h + 1)..Tip : ~(NodeHas(i) /\ NodeAgrees(i))
CatchesUp == []<>(Len(node) <= Tip \/ deepFork \/ CommonHeight < floor)
=============================================================================
