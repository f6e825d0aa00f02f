----------------------------- MODULE ForkEvents -----------------------------
(***************************************************************************)
(* The history of chain switches beside the chain itself: the events the   *)
(* writer records when it rolls back, the marker of the event that waits   *)
(* for replay, the links reconciliation adds between events, and the       *)
(* commit window across the two stores every live batch goes through.      *)
(*                                                                         *)
(* A chain is the sequence of its blocks' difficulties above genesis.  The *)
(* block at height h is identified by the prefix of length h, as its hash  *)
(* commits to its ancestry.  The node prefers the greater total difficulty *)
(* and so may switch to a shorter chain.  Left out: the rows a rollback    *)
(* restores and the deep fork (module LiveStore), stale batches (module    *)
(* Pipeline).                                                              *)
(***************************************************************************)
EXTENDS Integers, Sequences

CONSTANTS
  Difficulties,  \* the difficulties a block may have
  MaxHeight,     \* bound on the height of the node's chain
  MaxSwitches,   \* bound on the node's switches
  MaxBatch,      \* bound on the blocks of one live batch
  MaxFaults      \* bound on write failures, crashes and power losses

ASSUME ForkEventsAssumption ==
  /\ Difficulties # {} /\ Difficulties \subseteq Nat \ {0}
  /\ {MaxHeight, MaxSwitches, MaxBatch, MaxFaults} \subseteq Nat

VARIABLES
  node,    \* the chain of the CKB node
  switches,\* how often it switched
  db,      \* domain store: chain, events in key order, pending event or 0
  disk,    \* the domain state a power loss falls back to
  cells,   \* append-only store: blocks whose cell payloads are stored
  synced,  \* the part of cells that is on disk
  pc,      \* where the writer is
  job,     \* what the writer is working on
  faults   \* faults so far

vars == <<node, switches, db, disk, cells, synced, pc, job, faults>>

-----------------------------------------------------------------------------
Chains == UNION {[1..n -> Difficulties] : n \in 0..MaxHeight}
TotalDifficulty == [chain \in Chains |->
  LET upto[h \in 0..Len(chain)] == IF h = 0 THEN 0 ELSE upto[h - 1] + chain[h]
  IN  upto[Len(chain)]]
Heavier == [chain \in Chains |-> {c \in Chains : TotalDifficulty[c] > TotalDifficulty[chain]}]
At(chain, h) == SubSeq(chain, 1, h)

\* Ancestry, as in SequencesExt. It is spelled out because the prover carries
\* every definition of an extended module into each proof obligation.
IsPrefix(a, b) == Len(a) <= Len(b) /\ a = At(b, Len(a))
IsStrictPrefix(a, b) == IsPrefix(a, b) /\ a # b
Blocks(chain) == {At(chain, h) : h \in 1..Len(chain)}
NoHash == <<>>
NoJob == [fork |-> 0, old |-> NoHash, new |-> NoHash]

NewEvent(fork, old, new) ==
  [fork |-> fork, old |-> old, new |-> new, reverted |-> 0, reverses |-> {},
   superseded |-> NoHash, interrupted |-> FALSE]
FirstOrphan(e) == At(e.old, e.fork + 1)

\* A live store at genesis.
Init ==
  /\ node = <<>> /\ switches = 0
  /\ db = [chain |-> <<>>, events |-> <<>>, pending |-> 0]
  /\ disk = db
  /\ cells = {} /\ synced = {}
  /\ pc = "idle" /\ job = NoJob
  /\ faults = 0

-----------------------------------------------------------------------------
\* The node finds or receives the next block of its chain (external).
NodeGrows ==
  /\ \E d \in Difficulties : node' = Append(node, d)
  /\ Len(node) < MaxHeight
  /\ UNCHANGED <<switches, db, disk, cells, synced, pc, job, faults>>

\* The node switches to a heavier chain (external).
NodeSwitches ==
  /\ switches < MaxSwitches
  /\ switches' = switches + 1
  /\ node' \in {c \in Heavier[node] : ~IsPrefix(node, c)}
  /\ UNCHANGED <<db, disk, cells, synced, pc, job, faults>>

\* A live batch extends the stored tip along the node's chain.
StartBatch ==
  /\ pc = "idle"
  /\ IsStrictPrefix(db.chain, node)
  /\ \E n \in 1..MaxBatch :
       /\ Len(db.chain) + n <= Len(node)
       /\ job' = [NoJob EXCEPT !.fork = Len(db.chain), !.new = At(node, Len(db.chain) + n)]
  /\ pc' = "cells"
  /\ UNCHANGED <<node, switches, db, disk, cells, synced, faults>>

\* Mutant: the payloads are written without the fsync.
CommitUnsynced == cells' = cells \cup Blocks(job.new) /\ UNCHANGED synced

\* commit_synced: the payloads, with an fsync.
CommitSynced == cells' = cells \cup Blocks(job.new) /\ synced' = cells'

\* The payloads go first.
CommitCells ==
  /\ pc = "cells"
  /\ CommitSynced
  /\ pc' = "domain"
  /\ UNCHANGED <<node, switches, db, disk, job, faults>>

\* Then the domain batch, in one write that is not synced.
CommitDomain ==
  /\ pc = "domain"
  /\ db' = [db EXCEPT !.chain = job.new]
  /\ pc' = "reconcile"
  /\ UNCHANGED <<node, switches, disk, cells, synced, job, faults>>

-----------------------------------------------------------------------------
\* Mutant: replay has to pass the observed tip.
DuePastTip(d) == d.pending # 0 /\ Len(d.chain) > Len(d.events[d.pending].new)

\* reconcile_reorg_events runs once replay has reached the observed new tip.
Due(d) == d.pending # 0 /\ Len(d.chain) >= Len(d.events[d.pending].new)

\* The conditions it refuses to go on without.
ReconcileAccepts(d) ==
  LET cur == d.events[d.pending]
      winning == At(d.chain, Len(cur.new))
  IN  /\ At(d.chain, cur.fork) = At(cur.old, cur.fork)
      /\ cur.superseded # NoHash => cur.superseded = winning /\ winning # cur.new

\* The events an earlier switch abandoned and that this switch may have restored.
Candidates(d) ==
  {i \in DOMAIN d.events \ {d.pending} :
     d.events[i].reverted = 0 /\ Len(d.events[i].old) > d.events[d.pending].fork}
Reached(d, i) == Len(d.events[i].old) <= Len(d.chain)

\* Mutant: a tip of the same height counts as the abandoned tip.
RestoredByHeight(d) == {i \in Candidates(d) : Reached(d, i)}

\* The ones whose abandoned tip is canonical again.
Restored(d) == {i \in Candidates(d) : Reached(d, i) /\ IsPrefix(d.events[i].old, d.chain)}

\* Mutant: the new link is not added to the current event.
KeepReverses(d) == d.events[d.pending].reverses

Reverses(d) == d.events[d.pending].reverses \cup Restored(d)

\* What it writes, in one batch: the links both ways, the hash that replaced
\* the observed tip, and no marker once every candidate height is reached.
Reconciled(d) ==
  LET cur == d.events[d.pending]
      winning == At(d.chain, Len(cur.new))
      link(i) == [d.events[i] EXCEPT !.reverted = d.pending]
  IN  [d EXCEPT
        !.events = [i \in DOMAIN d.events |->
           IF i = d.pending
           THEN [cur EXCEPT !.superseded = IF winning # cur.new THEN winning ELSE @,
                            !.reverses = Reverses(d)]
           ELSE IF i \in Restored(d) THEN link(i) ELSE d.events[i]],
        !.pending = IF \A i \in Candidates(d) : Reached(d, i) THEN 0 ELSE @]

Reconcile ==
  /\ pc = "reconcile"
  /\ Due(db) => ReconcileAccepts(db)
  /\ db' = IF Due(db) THEN Reconciled(db) ELSE db
  /\ pc' = "idle" /\ job' = NoJob
  /\ UNCHANGED <<node, switches, disk, cells, synced, faults>>

\* A batch write fails, before or after its domain commit, or reconciliation
\* refuses; the writer cleans the batch's range up and will retry it.
WriteFails ==
  /\ pc \in {"cells", "domain", "reconcile"}
  /\ \/ faults < MaxFaults /\ faults' = faults + 1
     \/ pc = "reconcile" /\ Due(db) /\ ~ReconcileAccepts(db) /\ UNCHANGED faults
  /\ pc' = "cleanup"
  /\ UNCHANGED <<node, switches, db, disk, cells, synced, job>>

-----------------------------------------------------------------------------
\* Mutants: the marker stays; nothing is interrupted.
MarkerStays(d) == [d EXCEPT !.events[d.pending].interrupted = TRUE]
NothingInterrupted(d) == d

Interrupt(d) == [d EXCEPT !.events[d.pending].interrupted = TRUE, !.pending = 0]

\* begin_rollback: a pending event whose fork point may go is marked
\* interrupted and its marker deleted.
BeginRollback(d, isCleanup, target) ==
  IF d.pending = 0 \/ (isCleanup /\ target >= d.events[d.pending].fork)
  THEN d
  ELSE Interrupt(d)

\* cleanup_batch_range: back to the block before the batch.
CleanupBatch ==
  /\ pc = "cleanup"
  /\ db' = BeginRollback(db, TRUE, job.fork)
  /\ pc' = "undo"
  /\ UNCHANGED <<node, switches, disk, cells, synced, job, faults>>

CleanupRollback ==
  /\ pc = "undo"
  /\ db' = [db EXCEPT !.chain = At(@, job.fork)]
  /\ pc' = "idle" /\ job' = NoJob
  /\ UNCHANGED <<node, switches, disk, cells, synced, faults>>

\* check_and_handle_reorg: the node has another block at the stored height (if
\* it has none, the query fails and is retried).
DetectReorg ==
  /\ pc = "idle"
  /\ Len(node) >= Len(db.chain) /\ ~IsPrefix(db.chain, node)
  /\ job' = [NoJob EXCEPT !.fork = Len(db.chain), !.old = db.chain]
  /\ pc' = "search"
  /\ UNCHANGED <<node, switches, db, disk, cells, synced, faults>>

\* find_fork_point: height by height downwards, each a query of its own, which
\* fails when the node has moved to a chain without that height.
QueryFails ==
  /\ \/ pc = "search" /\ job.fork > Len(node)
     \/ pc = "hash" /\ Len(job.new) > Len(node)
  /\ pc' = "idle" /\ job' = NoJob
  /\ UNCHANGED <<node, switches, db, disk, cells, synced, faults>>

FindForkPoint ==
  /\ pc = "search"
  /\ job.fork <= Len(node)
  /\ IF At(node, job.fork) = At(db.chain, job.fork)
     THEN pc' = "tip" /\ UNCHANGED job
     ELSE pc' = pc /\ job' = [job EXCEPT !.fork = @ - 1]
  /\ UNCHANGED <<node, switches, db, disk, cells, synced, faults>>

\* The node's tip number, read after the search, and the hash at that number,
\* read after it: the node may have switched in between.
ReadTip ==
  /\ pc = "tip"
  /\ job' = [job EXCEPT !.new = node]
  /\ pc' = "hash"
  /\ UNCHANGED <<node, switches, db, disk, cells, synced, faults>>

ReadTipHash ==
  /\ pc = "hash"
  /\ Len(job.new) <= Len(node)
  /\ job' = [job EXCEPT !.new = At(node, Len(@))]
  /\ pc' = "begin"
  /\ UNCHANGED <<node, switches, db, disk, cells, synced, faults>>

\* execute_reorg: refuse an empty old branch, interrupt, roll back, flush both
\* stores, record.
NothingOrphaned ==
  /\ pc = "begin"
  /\ job.fork = Len(job.old)
  /\ pc' = "idle" /\ job' = NoJob
  /\ UNCHANGED <<node, switches, db, disk, cells, synced, faults>>

BeginReorg ==
  /\ pc = "begin"
  /\ job.fork < Len(job.old)
  /\ db' = BeginRollback(db, FALSE, job.fork)
  /\ pc' = "rollback"
  /\ UNCHANGED <<node, switches, disk, cells, synced, job, faults>>

Rollback ==
  /\ pc = "rollback"
  /\ db' = [db EXCEPT !.chain = At(@, job.fork)]
  /\ pc' = "flush"
  /\ UNCHANGED <<node, switches, disk, cells, synced, job, faults>>

Flush ==
  /\ pc = "flush"
  /\ disk' = db /\ synced' = cells
  /\ pc' = "record"
  /\ UNCHANGED <<node, switches, db, cells, job, faults>>

\* The event and its marker in one batch.
RecordEvent ==
  /\ pc = "record"
  /\ db' = [db EXCEPT !.events = Append(@, NewEvent(job.fork, job.old, job.new)),
                      !.pending = Len(db.events) + 1]
  /\ pc' = "idle" /\ job' = NoJob
  /\ UNCHANGED <<node, switches, disk, cells, synced, faults>>

-----------------------------------------------------------------------------
\* RocksDB or the kernel writes the domain log out (external).
DomainSync ==
  /\ disk # db
  /\ disk' = db
  /\ UNCHANGED <<node, switches, db, cells, synced, pc, job, faults>>

\* A crash, or an error of a step of the reorg that its caller retries.
Crash ==
  /\ faults < MaxFaults /\ faults' = faults + 1
  /\ pc # "idle"
  /\ pc' = "idle" /\ job' = NoJob
  /\ UNCHANGED <<node, switches, db, disk, cells, synced>>

PowerLoss ==
  /\ faults < MaxFaults /\ faults' = faults + 1
  /\ db' = disk /\ cells' = synced
  /\ pc' = "idle" /\ job' = NoJob
  /\ UNCHANGED <<node, switches, disk, synced>>

Writer ==
  \/ StartBatch \/ CommitCells \/ CommitDomain \/ Reconcile
  \/ CleanupBatch \/ CleanupRollback
  \/ DetectReorg \/ QueryFails \/ FindForkPoint \/ ReadTip \/ ReadTipHash
  \/ NothingOrphaned \/ BeginReorg \/ Rollback \/ Flush \/ RecordEvent

\* The node's height is at its bound and the store has followed.
Rest == pc = "idle" /\ db.chain = node /\ Len(node) = MaxHeight /\ UNCHANGED vars

Next ==
  \/ NodeGrows \/ NodeSwitches \/ Writer \/ WriteFails
  \/ DomainSync \/ Crash \/ PowerLoss \/ Rest

Spec == Init /\ [][Next]_vars
\* The writer loop takes its next step whenever it has one, and the network
\* keeps finding blocks.
FairSpec == Spec /\ WF_vars(Writer) /\ WF_vars(NodeGrows)

-----------------------------------------------------------------------------
\* Every variable has its type.
TypeOK ==
  LET Events == [fork : 0..MaxHeight, old : Chains, new : Chains, reverted : Nat,
                 reverses : SUBSET (1..Len(db.events)), superseded : Chains,
                 interrupted : BOOLEAN]
  IN  /\ node \in Chains /\ switches \in 0..MaxSwitches /\ db.chain \in Chains
      /\ \A i \in DOMAIN db.events : db.events[i] \in Events
      /\ db.pending \in 0..Len(db.events)
      /\ synced \subseteq cells /\ cells \subseteq Chains
      /\ job \in [fork : 0..MaxHeight, old : Chains, new : Chains]
      /\ faults \in 0..MaxFaults

\* "Fsyncing append-only first makes a durable domain tip T always imply durable
\* append-only payloads": after any power loss, every block of the domain chain
\* that survived has its payloads, and so has the chain in use.
TipImpliesPayloads == Blocks(db.chain) \subseteq cells /\ Blocks(disk.chain) \subseteq synced

\* The strict checks of reconcile_reorg_events never fail: while a marker
\* survives, the chain still holds the fork point of its event and the block
\* that replaced its observed tip, whatever failed, crashed or switched between.
MarkerOutlivesNothing == Due(db) => ReconcileAccepts(db)

\* The marker names an event that was not interrupted, and that is the newest:
\* a switch recorded later interrupted the earlier one first.
MarkerIsNewest ==
  db.pending # 0 => db.pending = Len(db.events) /\ ~db.events[db.pending].interrupted

\* Reversal links agree both ways after every crash, and a reversing event is
\* later than, and forks below the old tip of, the event it reverses.
LinksAgree ==
  \A i, j \in DOMAIN db.events :
    /\ db.events[i].reverted = j <=> i \in db.events[j].reverses
    /\ db.events[i].reverted = j => i < j /\ db.events[j].fork < Len(db.events[i].old)

\* A link is added only while the chain holds the abandoned tip again ("compare
\* actual canonical ancestry, not equal-height tip guesses").
LinksAreTrue ==
  [][\A i \in DOMAIN db.events :
       i \in DOMAIN db'.events /\ db'.events[i].reverted # db.events[i].reverted
         /\ db'.events[i].reverted # 0
       => IsPrefix(db.events[i].old, db.chain)]_vars

\* A pending reconciliation is finished, or interrupted by a newer switch; a
\* crash between the commit and the reconciliation delays it to the next batch,
\* which the last block of the model does not have.
ReconcileFinishes ==
  \A i \in 1..MaxHeight :
    db.pending = i ~> db.pending # i \/ (faults > 0 /\ Len(db.chain) = MaxHeight)

\* "one fork event per fork point and first orphan is an invariant": the address
\* /forks/<fork point>/<first orphan> names one event.
ForkAddressIsUnique ==
  \A i, j \in DOMAIN db.events :
    db.events[i].fork = db.events[j].fork /\ FirstOrphan(db.events[i]) = FirstOrphan(db.events[j])
      => i = j
=============================================================================
