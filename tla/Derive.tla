------------------------------- MODULE Derive -------------------------------
(***************************************************************************)
(* Derived aggregates: rebuilt from a snapshot, chunk by chunk, on the     *)
(* writer task, while every live batch adds its own signed deltas; reset,  *)
(* or rolled back through the undo log, by every rollback.                 *)
(*                                                                         *)
(* A block toggles one source row: it writes it, or removes it.  A stored  *)
(* chain is the sequence of the rows its blocks toggle, and the source     *)
(* rows move with the headers.  An aggregate is followed row by row: what  *)
(* it holds for a row is the sum of the contributions added so far, and is *)
(* right when it equals the row's own presence, 0 or 1.                    *)
(***************************************************************************)
EXTENDS Integers, Sequences, FiniteSets

CONSTANTS
    Aggregates,     \* how many aggregates the registry lists
    Rows,           \* how many source rows there are, in key order
    MaxHeight,      \* bound: height of the stored chain
    MaxHandoff,     \* bound: height at which bulk build hands over
    MaxBatch,       \* blocks in one live batch, at most
    MaxRollbacks,   \* bound: rollbacks
    MaxCrashes      \* bound: process crashes

ASSUME DeriveAssumption ==
    /\ Aggregates \in Nat \ {0} /\ Rows \in Nat \ {0}
    /\ MaxHeight \in Nat /\ MaxHandoff \in Nat /\ MaxBatch \in Nat \ {0}
    /\ MaxRollbacks \in Nat /\ MaxCrashes \in Nat

VARIABLES
    chain,     \* the stored chain: the row each block toggles
    meta,      \* DeriveMeta of each aggregate: [state, at]
    value,     \* the rows of each aggregate's column family
    undo,      \* Derived undo entries: [blk, agg, row, prev]
    active,    \* the rebuild in flight, in memory: [agg, snapshot, cursor]
    pc,        \* where the writer task stands
    target,    \* the rollback in flight
    faults,    \* rollbacks and crashes so far
    torn       \* history: heights whose entries were replayed, per aggregate

vars == <<chain, meta, value, undo, active, pc, target, faults, torn>>

Agg == 1..Aggregates
Row == 1..Rows
Tip == Len(chain)

\* The source rows a chain leaves: a row toggled an odd number of times.
Source(ch) == [r \in Row |-> Cardinality({i \in DOMAIN ch : ch[i] = r}) % 2]
Upto(ch, h) == SubSeq(ch, 1, h)

NoRows == [r \in Row |-> 0]
NotStarted == [state |-> "not_started", at |-> 0]
Idle == [agg |-> 0, snapshot |-> NoRows, cursor |-> 0]

\* The persisted metadata, rows and undo entries, and the rebuild in memory,
\* stay within their types; the fold cursor within the source rows.
TypeOK ==
    /\ chain \in Seq(Row)
    /\ meta \in [Agg -> [state : {"not_started", "folding", "validating", "complete", "failed"},
                         at : Nat]]
    /\ value \in [Agg -> [Row -> Int]]
    /\ undo \subseteq [blk : Nat, agg : Agg, row : Row, prev : Int]
    /\ active \in [agg : 0..Aggregates, snapshot : [Row -> {0, 1}], cursor : 0..Rows]
    /\ pc \in {"idle", "replay", "down"} /\ target \in Nat
    /\ faults \in [rollbacks : Nat, crashes : Nat]
    /\ torn \in [Agg -> SUBSET Nat]

\* A store handed over by bulk build, which writes no aggregate.
Init ==
    /\ chain \in UNION {[1..n -> Row] : n \in 0..MaxHandoff}
    /\ meta = [a \in Agg |-> NotStarted] /\ value = [a \in Agg |-> NoRows]
    /\ undo = {} /\ active = Idle /\ pc = "idle" /\ target = 0
    /\ faults = [rollbacks |-> 0, crashes |-> 0] /\ torn = [a \in Agg |-> {}]

(***************************************************************************)
(* Live batches.                                                           *)
(***************************************************************************)
\* Mutant: live sync maintains complete aggregates only.
MaintainedWhenComplete(a) == meta[a].state = "complete"

Maintained(a) == meta[a].state \in {"folding", "validating", "complete"}
ChecksRows(a) == meta[a].state \in {"validating", "complete"}

\* What the aggregate holds once the blocks up to height h of ch, a chain that
\* extends the stored one, have added their deltas.
Applied(a, ch, h) == [r \in Row |-> value[a][r] + Source(Upto(ch, h))[r] - Source(chain)[r]]

\* Mutant: every pre-image is the value before the batch.
PreImagesPerBatch(a, ch) ==
    {[blk |-> h, agg |-> a, row |-> ch[h], prev |-> value[a][ch[h]]] : h \in (Tip + 1)..Len(ch)}

\* One pre-image per block, of the row it touches.
PreImages(a, ch) ==
    {[blk |-> h, agg |-> a, row |-> ch[h], prev |-> Applied(a, ch, h - 1)[ch[h]]] :
        h \in (Tip + 1)..Len(ch)}

\* check_row, in what all aggregates share: no row is negative.  Live writes
\* are checked where they touch, once the rows are claimed to be exact.
Broken(a, ch) ==
    /\ ChecksRows(a)
    /\ \E h \in (Tip + 1)..Len(ch) : Applied(a, ch, Len(ch))[ch[h]] < 0

Batches == UNION {[1..n -> Row] : n \in 1..MaxBatch}

\* The rows and their undo entries join the batch's own atomic write.
ApplyLiveBatch ==
    /\ pc = "idle"
    /\ \E b \in Batches :
         /\ Tip + Len(b) <= MaxHeight
         /\ \A a \in Agg : ~Broken(a, chain \o b)
         /\ chain' = chain \o b
         /\ value' = [a \in Agg |-> IF Maintained(a) THEN Applied(a, chain', Len(chain')) ELSE value[a]]
         /\ undo' = undo \cup UNION {PreImages(a, chain') : a \in {x \in Agg : Maintained(x)}}
    /\ UNCHANGED <<meta, active, pc, target, faults, torn>>

\* A broken row is marked in a write of its own; the batch is not committed
\* and the process stops.
FailLiveBatch ==
    /\ pc = "idle"
    /\ \E b \in Batches, a \in Agg :
         /\ Tip + Len(b) <= MaxHeight
         /\ Broken(a, chain \o b)
         /\ \A x \in 1..(a - 1) : ~Broken(x, chain \o b)
         /\ meta' = [meta EXCEPT ![a].state = "failed"]
    /\ pc' = "down" /\ active' = Idle
    /\ UNCHANGED <<chain, value, undo, target, faults, torn>>

(***************************************************************************)
(* The scheduler: one step between two batches.                            *)
(***************************************************************************)
Pending == {a \in Agg : meta[a].state # "complete"}
NextPending(a) == a \in Pending /\ \A x \in Pending : a <= x

\* Mutant: a rebuild never recognises itself.
NeverContinues(a) == FALSE

\* The rebuild in memory is this aggregate's, and no rollback reset it.  Within
\* one process a running state is always the last start's, so the run counter
\* adds nothing here.
Continues(a) == active.agg = a /\ meta[a].state \in {"folding", "validating"}

Start ==
    /\ pc = "idle"
    /\ \E a \in Agg :
         /\ NextPending(a) /\ ~Continues(a)
         /\ meta' = [meta EXCEPT ![a] = [state |-> "folding", at |-> 0]]
         /\ value' = [value EXCEPT ![a] = NoRows]
         /\ active' = [agg |-> a, snapshot |-> Source(chain), cursor |-> 0]
         /\ torn' = [torn EXCEPT ![a] = {}]
    /\ UNCHANGED <<chain, undo, pc, target, faults>>

\* Mutant: a chunk may run one row past the end.
AnyChunkEnd == (active.cursor + 1)..(Rows + 1)

\* Where a chunk's budget may end it.
ChunkEnd == (active.cursor + 1)..Rows

\* Fold some rows of the snapshot on top of whatever live deltas are there.
Chunk ==
    /\ pc = "idle"
    /\ \E a \in Agg, end \in ChunkEnd :
         /\ NextPending(a) /\ Continues(a) /\ meta[a].state = "folding"
         /\ value' = [value EXCEPT ![a] =
                        [r \in Row |-> IF active.cursor < r /\ r <= end
                                         THEN @[r] + active.snapshot[r] ELSE @[r]]]
         /\ active' = [active EXCEPT !.cursor = end]
         /\ meta' = [meta EXCEPT ![a].state = IF end >= Rows THEN "validating" ELSE "folding"]
    /\ UNCHANGED <<chain, undo, pc, target, faults, torn>>

\* The last rows are checked, and the aggregate is complete at the tip of that
\* moment.  Checking chunks before it move only a cursor.
Complete ==
    /\ pc = "idle"
    /\ \E a \in Agg :
         /\ NextPending(a) /\ Continues(a) /\ meta[a].state = "validating"
         /\ \A r \in Row : value[a][r] >= 0
         /\ meta' = [meta EXCEPT ![a] = [state |-> "complete", at |-> Tip]]
    /\ active' = Idle
    /\ UNCHANGED <<chain, value, undo, pc, target, faults, torn>>

(***************************************************************************)
(* Rollback to a height: reset what it would corrupt, replay the undo log, *)
(* remove the blocks.  Each is a commit of its own.                        *)
(***************************************************************************)
\* Mutant: the completion height is compared off by one.
CorruptedBelow(a, to) ==
    \/ meta[a].state \in {"folding", "validating"} /\ to < Tip
    \/ meta[a].state = "complete" /\ to + 1 < meta[a].at

Corrupted(a, to) ==
    \/ meta[a].state \in {"folding", "validating"} /\ to < Tip
    \/ meta[a].state = "complete" /\ to < meta[a].at

\* Mutant: the pre-images of a reset aggregate stay in the undo log.
KeptEntries(to) == {}

\* Only a complete aggregate's pre-images, all recorded since, are replayed.
DroppedEntries(to) ==
    {e \in undo : e.blk > to /\ ~(meta[e.agg].state = "complete" /\ to >= meta[e.agg].at)}

InvalidateForRollback ==
    /\ pc = "idle" /\ faults.rollbacks < MaxRollbacks
    /\ \E to \in 0..Tip :
         /\ target' = to
         /\ meta' = [a \in Agg |-> IF Corrupted(a, to) THEN NotStarted ELSE meta[a]]
         /\ value' = [a \in Agg |-> IF Corrupted(a, to) THEN NoRows ELSE value[a]]
         /\ torn' = [a \in Agg |-> IF Corrupted(a, to) THEN {} ELSE torn[a]]
         /\ undo' = undo \ DroppedEntries(to)
    /\ pc' = "replay"
    /\ faults' = [faults EXCEPT !.rollbacks = @ + 1]
    /\ UNCHANGED <<chain, active>>

ToReplay == {e \in undo : e.blk > target}

ReplayUndo ==
    /\ pc = "replay"
    /\ \E e \in ToReplay :
         /\ \A f \in ToReplay : f.blk <= e.blk
         /\ value' = [value EXCEPT ![e.agg][e.row] = e.prev]
         /\ undo' = undo \ {e}
         /\ torn' = [torn EXCEPT ![e.agg] = @ \cup {e.blk}]
    /\ UNCHANGED <<chain, meta, active, pc, target, faults>>

CommitRollback ==
    /\ pc = "replay" /\ ToReplay = {}
    /\ chain' = Upto(chain, target)
    /\ torn' = [a \in Agg |-> {h \in torn[a] : h <= target}]
    /\ pc' = "idle"
    /\ UNCHANGED <<meta, value, undo, active, target, faults>>

(***************************************************************************)
(* Crash and restart.                                                      *)
(***************************************************************************)
Crash ==
    /\ pc # "down" /\ faults.crashes < MaxCrashes
    /\ pc' = "down" /\ active' = Idle
    /\ faults' = [faults EXCEPT !.crashes = @ + 1]
    /\ UNCHANGED <<chain, meta, value, undo, target, torn>>

Keeps(a) == meta[a].state = "complete"

\* normalize_on_startup: whatever is not complete is reset.  A completion
\* above the tip is refused.
NormalizeOnStartup ==
    /\ pc = "down"
    /\ \A a \in Agg : Keeps(a) => meta[a].at <= Tip
    /\ meta' = [a \in Agg |-> IF Keeps(a) THEN meta[a] ELSE NotStarted]
    /\ value' = [a \in Agg |-> IF Keeps(a) THEN value[a] ELSE NoRows]
    /\ torn' = [a \in Agg |-> IF Keeps(a) THEN torn[a] ELSE {}]
    /\ pc' = "idle"
    /\ UNCHANGED <<chain, undo, active, target, faults>>

Next ==
    \/ ApplyLiveBatch \/ FailLiveBatch
    \/ Start \/ Chunk \/ Complete
    \/ InvalidateForRollback \/ ReplayUndo \/ CommitRollback
    \/ Crash \/ NormalizeOnStartup

Spec == Init /\ [][Next]_vars

\* The writer loop steps the scheduler whenever something is pending, finishes
\* a rollback it began, and the process is started again.
FairSpec ==
    /\ Spec
    /\ WF_vars(Start \/ Chunk \/ Complete)
    /\ WF_vars(ReplayUndo \/ CommitRollback) /\ WF_vars(NormalizeOnStartup)

(***************************************************************************)
(* Properties.                                                             *)
(***************************************************************************)
\* While a rebuild folds (chunk, apply_live_batch), every contribution has been added exactly once: live
\* deltas above the snapshot, snapshot rows up to the cursor.
FoldingAccounts ==
    \A a \in Agg : meta[a].state = "folding" /\ active.agg = a =>
        \A r \in Row : value[a][r] = Source(chain)[r]
                         - (IF r > active.cursor THEN active.snapshot[r] ELSE 0)

\* Rows that are served, or about to be, equal a derivation from scratch at
\* the tip, as derive_ops.rs says of Complete and of Validating, unless a rollback that did not finish undid some of their blocks.
ServedUnlessTorn ==
    \A a \in Agg : ChecksRows(a) /\ torn[a] = {} => value[a] = Source(chain)

\* A reset aggregate is empty, wherever the rollback that reset it was cut
\* short: no pre-image is replayed into it (invalidate_for_rollback: "never
\* half-restored").
ResetIsEmpty == \A a \in Agg : meta[a].state = "not_started" => value[a] = NoRows

\* No rollback leaves a completion above the tip, which startup
\* (normalize_on_startup) would refuse for ever.
StartupAccepts == \A a \in Agg : meta[a].state = "complete" => meta[a].at <= Tip

\* Rebuilds (DeriveScheduler::step) end, however often rollbacks and crashes restart them.
EventuallyComplete == <>[](Pending = {})
=============================================================================
