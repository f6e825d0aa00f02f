------------------------------ MODULE Pipeline ------------------------------
(***************************************************************************)
(* The three tasks of run_pipeline (fetcher, parser, writer), their two    *)
(* bounded channels, the reset protocol between them, the parser's cell    *)
(* cache and the counter of pending transactions.                          *)
(*                                                                         *)
(* A chain is the sequence of its blocks' labels.  One cell is followed: a *)
(* block labelled in Creates makes it, a block labelled in Spends spends   *)
(* it, and the position the parser resolved for it travels with the batch. *)
(* Every block holds one transaction.  What a rollback writes is the       *)
(* subject of LiveStore; here it is three steps, and never a deep fork.    *)
(*                                                                         *)
(* The reset epoch is a counter compared only for equality with its        *)
(* current value, so a batch carries `fresh`, and a bump ends it for all.  *)
(***************************************************************************)
EXTENDS Integers, Sequences

CONSTANTS
    Label,           \* what a block may be
    Creates,         \* labels of blocks that create the followed cell
    Spends,          \* labels of blocks that spend it
    MaxHeight,       \* bound: height of the node's chain
    MaxBatch,        \* blocks in one fetched batch, at most
    Capacity,        \* PIPELINE_CHANNEL_CAPACITY
    RetryBudget,     \* PARSER_UNRESOLVED_MAX_RETRIES
    MaxSwitches,     \* bound: branch switches of the node
    MaxWriteErrors,  \* bound: failed batch writes
    QuickReset       \* timing: a reset is quicker than a fetch or a retry

ASSUME PipelineAssumption ==
    /\ Creates \subseteq Label /\ Spends \subseteq Label /\ Creates \cap Spends = {}
    /\ MaxHeight \in Nat /\ MaxBatch \in Nat \ {0} /\ Capacity \in Nat \ {0}
    /\ RetryBudget \in Nat \ {0} /\ MaxSwitches \in Nat /\ MaxWriteErrors \in Nat
    /\ QuickReset \in BOOLEAN

VARIABLES
    node,      \* the CKB node's canonical chain
    db,        \* the stored chain
    fetcher,   \* [pc, next, batch]; next = 0 is None
    fetchQ,    \* fetch_tx -> fetch_rx
    parser,    \* [pc, batch, tries]
    parseQ,    \* parse_tx -> parse_rx
    writer,    \* [pc, batch, kind, target]
    notify,    \* pipeline_reset_notify_flag
    pending,   \* parse_tx_pending_txs
    cache,     \* cell_cache: created_at_block of the cell, 0 when absent
    ctip,      \* committed_tip_for_cache
    faults     \* [switches, writes] so far

tasks == <<fetcher, fetchQ, parser, parseQ, writer>>
shared == <<notify, pending, cache, ctip>>
vars == <<node, db, tasks, shared, faults>>

Positions(ch, labels) == {i \in 1..Len(ch) : ch[i] \in labels}
First(S) == IF S = {} THEN 0 ELSE CHOOSE i \in S : \A j \in S : i <= j
CreatedAt(ch) == First(Positions(ch, Creates))
SpentAt(ch) == First(Positions(ch, Spends))

\* get_full_cells_info_batch_chunk: a live cell, or else a consumed one.
StoredAt == CreatedAt(db)

\* A chain creates the cell once, and spends it once, after creating it.
Valid(ch) ==
    /\ \A i, j \in Positions(ch, Creates) : i = j
    /\ \A i, j \in Positions(ch, Spends) : i = j
    /\ SpentAt(ch) # 0 => CreatedAt(ch) \in 1..SpentAt(ch)

Chains == {ch \in UNION {[1..n -> Label] : n \in 0..MaxHeight} : Valid(ch)}
IsPrefix(s, t) == Len(s) <= Len(t) /\ SubSeq(t, 1, Len(s)) = s

\* Blocks start..Len(chain) of a chain; pos is the resolved created_at_block.
NoBatch == [start |-> 0, chain |-> <<>>, fresh |-> FALSE, pos |-> 0]
TxCount(b) == Len(b.chain) - b.start + 1
NeedsCell(b) == SpentAt(b.chain) >= b.start
CreatesCell(b) == CreatedAt(b.chain) >= b.start

Batch == [start : 0..MaxHeight, chain : Chains, fresh : BOOLEAN, pos : 0..MaxHeight]

TypeOK ==
    /\ node \in Chains /\ db \in Chains
    /\ fetcher \in [pc : {"top", "epoch", "fetch", "send", "gone"},
                    next : 0..(MaxHeight + 1), batch : Batch]
    /\ fetchQ \in Seq(Batch) /\ Len(fetchQ) <= Capacity
    /\ parser \in [pc : {"recv", "resolve", "publish", "count", "send", "gone"},
                   batch : Batch, tries : 0..RetryBudget]
    /\ parseQ \in Seq(Batch) /\ Len(parseQ) <= Capacity
    /\ writer \in [pc : {"recv", "check", "write", "undo", "marked", "clear", "bump",
                         "notify", "drain", "zero", "down", "panic"},
                   batch : Batch, kind : {"none", "reorg", "cleanup"}, target : 0..MaxHeight]
    /\ notify \in BOOLEAN /\ pending \in Nat
    /\ cache \in 0..MaxHeight /\ ctip \in -1..MaxHeight
    /\ faults \in [switches : 0..MaxSwitches, writes : 0..MaxWriteErrors]

\* The tasks and what they share, as run_pipeline starts them.
IdleFetcher == [pc |-> "top", next |-> 0, batch |-> NoBatch]
IdleParser == [pc |-> "recv", batch |-> NoBatch, tries |-> 0]
IdleWriter == [pc |-> "recv", batch |-> NoBatch, kind |-> "none", target |-> 0]

Init ==
    /\ node = <<>> /\ db = <<>>
    /\ fetcher = IdleFetcher /\ parser = IdleParser /\ writer = IdleWriter
    /\ fetchQ = <<>> /\ parseQ = <<>>
    /\ notify = FALSE /\ pending = 0 /\ cache = 0 /\ ctip = -1
    /\ faults = [switches |-> 0, writes |-> 0]

NodeExtend ==
    /\ \E l \in Label : node' = Append(node, l)
    /\ node' \in Chains
    /\ UNCHANGED <<db, tasks, shared, faults>>

NodeSwitch ==
    /\ faults.switches < MaxSwitches
    /\ node' \in Chains \ {node}
    /\ faults' = [faults EXCEPT !.switches = @ + 1]
    /\ UNCHANGED <<db, tasks, shared>>

Running == writer.pc \notin {"down", "panic"}
Resetting == writer.pc \in {"notify", "drain", "zero"}

(***************************************************************************)
(* The fetcher.                                                            *)
(***************************************************************************)
\* Take the reset notification, read both tips, choose the range.  The span
\* is adaptive.  A start above the node's tip polls, keeping next_block.
PlanFetch ==
    /\ Running /\ fetcher.pc = "top" /\ (QuickReset => ~Resetting)
    /\ notify' = FALSE
    /\ LET next == IF notify THEN 0 ELSE fetcher.next
           start == IF next = 0 THEN Len(db) + 1 ELSE next
       IN IF start > Len(node)
            THEN fetcher' = [fetcher EXCEPT !.next = next]
            ELSE \E end \in start..Len(node) :
                   /\ end - start < MaxBatch
                   /\ fetcher' = [pc |-> "epoch", next |-> next,
                                  batch |-> [NoBatch EXCEPT !.start = start,
                                                            !.chain = SubSeq(node, 1, end)]]
    /\ UNCHANGED <<node, db, fetchQ, parser, parseQ, writer, pending, cache, ctip, faults>>

\* The epoch is read after the range is chosen and before the blocks are.
LoadEpoch ==
    /\ Running /\ fetcher.pc = "epoch" /\ (QuickReset => ~Resetting)
    /\ fetcher' = [fetcher EXCEPT !.pc = "fetch", !.batch.fresh = TRUE]
    /\ UNCHANGED <<node, db, fetchQ, parser, parseQ, writer, shared, faults>>

\* fetch_blocks_direct reads the range by number on the node's branch of that
\* moment; a block that is gone fails the fetch, and next_block is dropped.
FetchBlocks ==
    /\ Running /\ fetcher.pc = "fetch" /\ (QuickReset => ~Resetting)
    /\ LET end == Len(fetcher.batch.chain) IN
         fetcher' = IF end <= Len(node)
                      THEN [fetcher EXCEPT !.pc = "send",
                                           !.batch.chain = SubSeq(node, 1, end)]
                      ELSE IdleFetcher
    /\ UNCHANGED <<node, db, fetchQ, parser, parseQ, writer, shared, faults>>

\* The send waits for room; it fails when the parser has dropped its end.
SendFetched ==
    /\ Running /\ fetcher.pc = "send"
    /\ \/ /\ parser.pc # "gone" /\ Len(fetchQ) < Capacity
          /\ fetchQ' = Append(fetchQ, fetcher.batch)
          /\ fetcher' = [IdleFetcher EXCEPT !.next = Len(fetcher.batch.chain) + 1]
       \/ /\ parser.pc = "gone"
          /\ fetcher' = [IdleFetcher EXCEPT !.pc = "gone"]
          /\ UNCHANGED fetchQ
    /\ UNCHANGED <<node, db, parser, parseQ, writer, shared, faults>>

FetcherStep == PlanFetch \/ LoadEpoch \/ FetchBlocks \/ SendFetched

(***************************************************************************)
(* The parser.                                                             *)
(***************************************************************************)
ReceiveFetched ==
    /\ Running /\ parser.pc = "recv" /\ fetchQ # <<>>
    /\ fetchQ' = Tail(fetchQ)
    /\ parser' = IF Head(fetchQ).fresh
                   THEN [pc |-> "resolve", batch |-> Head(fetchQ), tries |-> 0]
                   ELSE IdleParser
    /\ UNCHANGED <<node, db, fetcher, parseQ, writer, shared, faults>>

\* Where an input's cell is found: the cache, else an output of this very
\* batch, else the store.  0: nowhere.
Resolved(b) ==
    IF cache # 0 THEN cache
    ELSE IF CreatesCell(b) THEN CreatedAt(b.chain)
    ELSE StoredAt

ResolveInputs ==
    /\ Running /\ parser.pc = "resolve"
    /\ LET b == parser.batch IN
         /\ b.fresh /\ (NeedsCell(b) => Resolved(b) # 0)
         /\ parser' = [parser EXCEPT !.pc = "publish", !.tries = 0,
                                     !.batch.pos = IF NeedsCell(b) THEN Resolved(b) ELSE 0]
    /\ UNCHANGED <<node, db, fetcher, fetchQ, parseQ, writer, shared, faults>>

AbandonStale ==
    /\ Running /\ parser.pc = "resolve" /\ ~parser.batch.fresh
    /\ parser' = IdleParser
    /\ UNCHANGED <<node, db, fetcher, fetchQ, parseQ, writer, shared, faults>>

\* An attempt counts unless a rollback has set its marker; the last one ends
\* the task.  A quick reset leaves no time for attempts before its bump.
RetryUnresolved ==
    /\ Running /\ parser.pc = "resolve" /\ parser.batch.fresh
    /\ NeedsCell(parser.batch) /\ Resolved(parser.batch) = 0
    /\ writer.pc # "marked" /\ (QuickReset => writer.pc # "bump")
    /\ parser' = IF parser.tries + 1 >= RetryBudget
                   THEN [IdleParser EXCEPT !.pc = "gone"]
                   ELSE [parser EXCEPT !.tries = @ + 1]
    /\ fetchQ' = IF parser'.pc = "gone" THEN <<>> ELSE fetchQ
    /\ UNCHANGED <<node, db, fetcher, parseQ, writer, shared, faults>>

\* Mutant: the block after the committed tip is evicted too.
EvictsUncommitted(at) == at <= ctip + 1

\* evict_committed_cell_cache_entries: what it drops is in the store.
Evicts(at) == at <= ctip

\* The batch's outputs enter the cache, whatever the epoch is by now; an
\* oversized cache is trimmed; only then is the epoch compared again.
PublishOutputs ==
    /\ Running /\ parser.pc = "publish"
    /\ LET at == IF CreatesCell(parser.batch) THEN CreatedAt(parser.batch.chain) ELSE cache
       IN cache' \in {at} \cup (IF Evicts(at) THEN {0} ELSE {})
    /\ parser' = IF parser.batch.fresh THEN [parser EXCEPT !.pc = "count"] ELSE IdleParser
    /\ UNCHANGED <<node, db, fetcher, fetchQ, parseQ, writer, notify, pending, ctip, faults>>

\* Counted before the send: the writer subtracts as soon as it receives.
CountPending ==
    /\ Running /\ parser.pc = "count"
    /\ pending' = pending + TxCount(parser.batch)
    /\ parser' = [parser EXCEPT !.pc = "send"]
    /\ UNCHANGED <<node, db, fetcher, fetchQ, parseQ, writer, notify, cache, ctip, faults>>

SendParsed ==
    /\ Running /\ parser.pc = "send" /\ Len(parseQ) < Capacity
    /\ parseQ' = Append(parseQ, parser.batch)
    /\ parser' = IdleParser
    /\ UNCHANGED <<node, db, fetcher, fetchQ, writer, shared, faults>>

ParserStep ==
    \/ ReceiveFetched \/ ResolveInputs \/ AbandonStale \/ RetryUnresolved
    \/ PublishOutputs \/ CountPending \/ SendParsed

(***************************************************************************)
(* The writer.                                                             *)
(***************************************************************************)
\* Mutant: a stale batch is subtracted like any other.
SubtractsAlways(b) == TxCount(b)

\* A stale batch is dropped without touching the counter.
Subtracts(b) == IF b.fresh THEN TxCount(b) ELSE 0

\* atomic_checked_sub_u64 panics below zero.  A batch that does not start
\* right above the stored tip resets the pipeline; caches are kept.
ReceiveParsed ==
    /\ writer.pc = "recv" /\ parseQ # <<>>
    /\ LET b == Head(parseQ) IN
         IF Subtracts(b) > pending
           THEN writer' = [IdleWriter EXCEPT !.pc = "panic"] /\ UNCHANGED pending
           ELSE /\ pending' = pending - Subtracts(b)
                /\ writer' = IF ~b.fresh THEN IdleWriter
                             ELSE IF b.start # Len(db) + 1
                               THEN [IdleWriter EXCEPT !.pc = "bump"]
                               ELSE [IdleWriter EXCEPT !.pc = "check", !.batch = b]
    /\ parseQ' = Tail(parseQ)
    /\ UNCHANGED <<node, db, fetcher, fetchQ, parser, notify, cache, ctip, faults>>

\* Mutant: the parent hash of the first block is not compared.
BuildsOnHeight(b) == b.start = Len(db) + 1

BuildsOnTip(b) == SubSeq(b.chain, 1, b.start - 1) = db

\* The highest stored block the node still has.
Common == {h \in 0..Len(db) : h <= Len(node) /\ SubSeq(node, 1, h) = SubSeq(db, 1, h)}
ForkPoint == CHOOSE h \in Common : \A i \in Common : i <= h

\* check_and_handle_reorg, run on every batch that starts at the right height:
\* an error when the node lacks the stored tip, a rollback when it disagrees.
\* A batch of another branch with no reorg in sight only resets the pipeline.
CheckReorg ==
    /\ writer.pc = "check"
    /\ writer' =
         IF Len(node) < Len(db) THEN [IdleWriter EXCEPT !.pc = "down"]
         ELSE IF ForkPoint < Len(db)
           THEN [writer EXCEPT !.pc = "undo", !.kind = "reorg", !.target = ForkPoint]
         ELSE IF BuildsOnTip(writer.batch) THEN [writer EXCEPT !.pc = "write"]
         ELSE [IdleWriter EXCEPT !.pc = "bump"]
    /\ UNCHANGED <<node, db, fetcher, fetchQ, parser, parseQ, shared, faults>>

\* The commit.  The committed tip follows it; storing it later only makes the
\* parser keep an entry it may keep anyway.
WriteBatch ==
    /\ writer.pc = "write"
    /\ db' = writer.batch.chain /\ ctip' = Len(db')
    /\ writer' = IdleWriter
    /\ UNCHANGED <<node, fetcher, fetchQ, parser, parseQ, notify, pending, cache, faults>>

\* The write fails before its commit, or in a step after it.
WriteFails ==
    /\ writer.pc = "write" /\ faults.writes < MaxWriteErrors
    /\ db' \in {db, writer.batch.chain}
    /\ writer' = [writer EXCEPT !.pc = "undo", !.kind = "cleanup", !.target = Len(db)]
    /\ faults' = [faults EXCEPT !.writes = @ + 1]
    /\ UNCHANGED <<node, fetcher, fetchQ, parser, parseQ, shared>>

\* The undo log is replayed; then the marker is set.
MarkRollback ==
    /\ writer.pc = "undo"
    /\ writer' = [writer EXCEPT !.pc = "marked"]
    /\ UNCHANGED <<node, db, fetcher, fetchQ, parser, parseQ, shared, faults>>

CommitRollback ==
    /\ writer.pc = "marked"
    /\ db' = SubSeq(db, 1, writer.target)
    /\ writer' = [writer EXCEPT !.pc = "clear"]
    /\ UNCHANGED <<node, fetcher, fetchQ, parser, parseQ, shared, faults>>

\* After a reorg the committed tip for the cache is one below the new tip.
ClearCaches ==
    /\ writer.pc = "clear"
    /\ cache' = 0
    /\ ctip' = IF writer.kind = "reorg" THEN Len(db) - 1 ELSE ctip
    /\ writer' = [IdleWriter EXCEPT !.pc = "bump"]
    /\ UNCHANGED <<node, db, fetcher, fetchQ, parser, parseQ, notify, pending, faults>>

Stale(b) == [b EXCEPT !.fresh = FALSE]

\* request_pipeline_reset: the epoch first, the fetcher's flag second.  A
\* quick reset does not fall between the fetcher's plan and its epoch.
BumpEpoch ==
    /\ writer.pc = "bump" /\ (QuickReset => fetcher.pc # "epoch")
    /\ fetcher' = [fetcher EXCEPT !.batch = Stale(@)]
    /\ parser' = [parser EXCEPT !.batch = Stale(@)]
    /\ fetchQ' = [i \in DOMAIN fetchQ |-> Stale(fetchQ[i])]
    /\ parseQ' = [i \in DOMAIN parseQ |-> Stale(parseQ[i])]
    /\ writer' = [writer EXCEPT !.pc = "notify"]
    /\ UNCHANGED <<node, db, shared, faults>>

\* Mutant: the fetcher is not told.
SkipNotify ==
    /\ writer.pc = "notify"
    /\ writer' = [writer EXCEPT !.pc = "drain"]
    /\ UNCHANGED <<node, db, fetcher, fetchQ, parser, parseQ, shared, faults>>

NotifyFetcher ==
    /\ writer.pc = "notify"
    /\ notify' = TRUE
    /\ writer' = [writer EXCEPT !.pc = "drain"]
    /\ UNCHANGED <<node, db, fetcher, fetchQ, parser, parseQ, pending, cache, ctip, faults>>

\* drain_channel: whatever is queued, until one try_recv finds nothing.
DrainParsed ==
    /\ writer.pc = "drain"
    /\ IF parseQ # <<>> THEN parseQ' = Tail(parseQ) /\ UNCHANGED writer
       ELSE writer' = [writer EXCEPT !.pc = "zero"] /\ UNCHANGED parseQ
    /\ UNCHANGED <<node, db, fetcher, fetchQ, parser, shared, faults>>

ZeroPending ==
    /\ writer.pc = "zero"
    /\ pending' = 0
    /\ writer' = IdleWriter
    /\ UNCHANGED <<node, db, fetcher, fetchQ, parser, parseQ, notify, cache, ctip, faults>>

\* Nothing arrives and a task has ended: the process exits.
IdleTimeout ==
    /\ writer.pc = "recv" /\ parseQ = <<>>
    /\ parser.pc = "gone" \/ fetcher.pc = "gone"
    /\ writer' = [IdleWriter EXCEPT !.pc = "down"]
    /\ UNCHANGED <<node, db, fetcher, fetchQ, parser, parseQ, shared, faults>>

WriterStep ==
    \/ ReceiveParsed \/ CheckReorg \/ WriteBatch \/ MarkRollback \/ CommitRollback
    \/ ClearCaches \/ BumpEpoch \/ NotifyFetcher \/ DrainParsed \/ ZeroPending
    \/ IdleTimeout

\* A new process on the same store.
Restart ==
    /\ ~Running
    /\ fetcher' = IdleFetcher /\ parser' = IdleParser /\ writer' = IdleWriter
    /\ fetchQ' = <<>> /\ parseQ' = <<>>
    /\ notify' = FALSE /\ pending' = 0 /\ cache' = 0 /\ ctip' = Len(db) - 1
    /\ UNCHANGED <<node, db, faults>>

Next == NodeExtend \/ NodeSwitch \/ FetcherStep \/ ParserStep \/ WriterStep \/ WriteFails \/ Restart

Spec == Init /\ [][Next]_vars

\* Each task is polled by the runtime, and a supervisor restarts the process;
\* the node and write errors owe nothing.
FairSpec ==
    /\ Spec
    /\ WF_vars(FetcherStep) /\ WF_vars(ParserStep) /\ WF_vars(WriterStep) /\ WF_vars(Restart)

(***************************************************************************)
(* Properties.                                                             *)
(***************************************************************************)
\* The stored chain only grows on top of what is stored: no batch planned
\* before a reset, a rollback or a branch switch is ever written after it.
CommitsExtendTip == [][Len(db') > Len(db) => IsPrefix(db, db')]_db

\* The pending counter never underflows.
NoUnderflow == writer.pc # "panic"

\* While the node keeps its branch the parser never runs out of retries: a
\* cell leaves the cache only when the store has it, write failures included.
ParserKeepsResolving == parser.pc # "gone"

\* A spend is written with the height its cell was really created at.
SpendsResolveExactly ==
    writer.pc = "write" /\ NeedsCell(writer.batch)
      => writer.batch.pos = CreatedAt(writer.batch.chain)

\* A longer node chain is eventually stored.
CatchesUp == []<>(Len(node) <= Len(db))

\* The one dead end: the node left the stored branch, and a block above the
\* stored tip spends a cell that only the node's new branch created.
Stranded ==
    /\ ~IsPrefix(db, node)
    /\ SpentAt(node) > Len(db) /\ CreatedAt(node) <= Len(db) /\ StoredAt = 0

\* Short of that dead end, a longer node chain is eventually stored, through
\* reorgs, failed writes, resets and restarts.
CatchesUpUnlessStranded == []<>(Len(node) <= Len(db) \/ Stranded)
=============================================================================
