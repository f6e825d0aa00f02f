--------------------------- MODULE PipelineProofs ---------------------------
(***************************************************************************)
(* For every chain, channel capacity, batch size and number of faults: a   *)
(* commit extends the stored tip, the pending counter never underflows,    *)
(* and the parser never runs out of retries while the node keeps its       *)
(* branch.  The last two take resets to be quick.                          *)
(***************************************************************************)
EXTENDS Pipeline, SequenceTheorems, WellFoundedInduction, TLAPS

Word == Seq(Label)

\* A batch holds at least one block, or is NoBatch.
GoodBatch ==
    {b \in [start : Nat, chain : Word, fresh : BOOLEAN, pos : Nat] : b.start <= Len(b.chain)}

Fetcher == [pc : {"top", "epoch", "fetch", "send", "gone"}, next : Nat, batch : GoodBatch]
Parser == [pc : {"recv", "resolve", "publish", "count", "send", "gone"}, batch : GoodBatch,
           tries : Nat]
Writer == [pc : {"recv", "check", "write", "undo", "marked", "clear", "bump", "notify",
                 "drain", "zero", "down", "panic"},
           batch : GoodBatch, kind : {"none", "reorg", "cleanup"}, target : Nat]

TasksInv ==
    /\ fetcher \in Fetcher /\ fetchQ \in Seq(GoodBatch)
    /\ parser \in Parser /\ parseQ \in Seq(GoodBatch)
    /\ writer \in Writer

\* Only the writer changes the stored chain, so what it compared still holds
\* when it writes; and it never rolls back to above the stored tip.
WriterInv ==
    /\ writer.pc \in {"check", "write"} => writer.batch.start = Len(db) + 1
    /\ writer.pc = "write" => BuildsOnTip(writer.batch)
    /\ writer.pc \in {"undo", "marked"} => writer.target <= Len(db)

IInv == node \in Word /\ db \in Word /\ cache \in Nat /\ TasksInv /\ WriterInv

\* A leaf that cites no prover goes to SMT, for at most a minute.
USE SMTT(60)

-----------------------------------------------------------------------------
(* Numbers. *)

\* A set of naturals that is not empty has a least element.
LEMMA LeastExists ==
    ASSUME NEW S \in SUBSET Nat, S # {}
    PROVE  \E i \in S : \A j \in S : i <= j
<1>1. PICK i \in S : \A j \in S : ~(<<j, i>> \in OpToRel(<, Nat))
  BY NatLessThanWellFounded, WFMin, Zenon
<1>2. \A j \in S : ~(j < i)
  BY <1>1, Zenon DEF OpToRel
<1> QED
  BY <1>2

\* First is 0 or an element.
LEMMA FirstType ==
    ASSUME NEW S \in SUBSET Nat
    PROVE  First(S) \in Nat
<1>1. CASE S = {}
  BY <1>1 DEF First
<1>2. CASE S # {}
  <2>1. \E i \in S : \A j \in S : i <= j
    BY <1>2, LeastExists
  <2> QED
    BY <1>2, <2>1, Zenon DEF First
<1> QED
  BY <1>1, <1>2

\* The heights of a cell are naturals.
LEMMA HeightTypes ==
    ASSUME NEW ch \in Word
    PROVE  CreatedAt(ch) \in Nat /\ SpentAt(ch) \in Nat
<1>1. Len(ch) \in Nat
  BY LenProperties DEF Word
<1>2. Positions(ch, Creates) \in SUBSET Nat /\ Positions(ch, Spends) \in SUBSET Nat
  BY <1>1 DEF Positions
<1> QED
  BY <1>2, FirstType DEF CreatedAt, SpentAt

\* A prefix of a chain.
LEMMA PrefixType ==
    ASSUME NEW ch \in Word, NEW h \in 0..Len(ch)
    PROVE  SubSeq(ch, 1, h) \in Word /\ Len(SubSeq(ch, 1, h)) = h
<1>1. Len(ch) \in Nat /\ h \in Int /\ 1 \in Int
  BY LenProperties DEF Word
<1>2. \A i \in 1..h : ch[i] \in Label
  BY <1>1, ElementOfSeq DEF Word
<1> QED
  BY <1>1, <1>2, SubSeqProperties DEF Word

\* find_fork_point ends: genesis is common, so there is a highest common block.
LEMMA ForkPointType ==
    ASSUME node \in Word, db \in Word
    PROVE  ForkPoint \in 0..Len(db)
<1>1. Len(db) \in Nat /\ Len(node) \in Nat
  BY LenProperties DEF Word
<1>2. 0 \in Common
  <2>1. SubSeq(node, 1, 0) = <<>> /\ SubSeq(db, 1, 0) = <<>>
    BY SubSeqEmpty
  <2> QED
    BY <1>1, <2>1 DEF Common
<1>3. Common \subseteq 0..Len(db)
  BY DEF Common
<1> DEFINE D == {Len(db) - h : h \in Common}
<1>4. D \in SUBSET Nat /\ D # {}
  BY <1>1, <1>2, <1>3
<1>5. PICK i \in D : \A j \in D : i <= j
  BY <1>4, LeastExists, Zenon
<1>6. PICK h \in Common : i = Len(db) - h
  BY <1>5
<1>7. \A k \in Common : k <= h
  <2> TAKE k \in Common
  <2>1. i <= Len(db) - k
    BY <1>5
  <2>2. h \in Int /\ k \in Int
    BY <1>1, <1>3
  <2> QED
    BY <1>1, <1>6, <2>1, <2>2
<1>8. ForkPoint \in Common
  BY <1>7 DEF ForkPoint
<1> QED
  BY <1>3, <1>8

-----------------------------------------------------------------------------
(* Batches and the tasks that hold them. *)

\* Tasks as run_pipeline starts them hold no batch.
LEMMA IdleTypes ==
    /\ NoBatch \in GoodBatch
    /\ IdleFetcher \in Fetcher /\ IdleParser \in Parser /\ IdleWriter \in Writer
<1>1. <<>> \in Word /\ Len(<<>>) = 0
  BY DEF Word
<1>2. NoBatch \in GoodBatch
  BY <1>1 DEF NoBatch, GoodBatch
<1> QED
  BY <1>2 DEF IdleFetcher, IdleParser, IdleWriter, Fetcher, Parser, Writer

\* A bump of the epoch keeps the blocks of a batch, and of a queue of them.
LEMMA StaleTypes ==
    /\ \A b \in GoodBatch : Stale(b) \in GoodBatch
    /\ \A q \in Seq(GoodBatch) : [i \in DOMAIN q |-> Stale(q[i])] \in Seq(GoodBatch)
<1>1. ASSUME NEW b \in GoodBatch PROVE Stale(b) \in GoodBatch
  <2>1. /\ Stale(b) \in [start : Nat, chain : Word, fresh : BOOLEAN, pos : Nat]
        /\ Stale(b).start = b.start /\ Stale(b).chain = b.chain
    BY Zenon DEF GoodBatch, Stale
  <2> QED
    BY <2>1 DEF GoodBatch
<1>2. ASSUME NEW q \in Seq(GoodBatch)
      PROVE  [i \in DOMAIN q |-> Stale(q[i])] \in Seq(GoodBatch)
  <2>1. DOMAIN q = 1..Len(q) /\ Len(q) \in Nat /\ \A i \in 1..Len(q) : q[i] \in GoodBatch
    BY <1>2, LenProperties, ElementOfSeq
  <2>2. [i \in DOMAIN q |-> Stale(q[i])] \in [1..Len(q) -> GoodBatch]
    BY <1>1, <2>1
  <2> QED
    BY <2>1, <2>2
<1> QED
  BY <1>1, <1>2

\* A start.
LEMMA InitInvariant == Init => IInv
<1> SUFFICES ASSUME Init PROVE IInv
  OBVIOUS
<1>1. <<>> \in Word /\ <<>> \in Seq(GoodBatch)
  BY DEF Word
<1>2. TasksInv
  BY <1>1, IdleTypes DEF Init, TasksInv
<1>3. WriterInv
  BY DEF Init, WriterInv, IdleWriter
<1> QED
  BY <1>1, <1>2, <1>3 DEF Init, IInv

\* A step that leaves the store and the writer alone.
LEMMA WriterUntouched ==
    ASSUME IInv, db' = db, writer' = writer, node' \in Word, cache' \in Nat, TasksInv'
    PROVE  IInv'
<1>1. WriterInv'
  BY DEF IInv, WriterInv, BuildsOnTip
<1> QED
  BY <1>1 DEF IInv

\* The node's moves touch nothing of the indexer.
LEMMA NodeInvariant == IInv /\ (NodeExtend \/ NodeSwitch) => IInv'
<1> SUFFICES ASSUME IInv, NodeExtend \/ NodeSwitch PROVE IInv'
  OBVIOUS
<1>1. node' \in Chains /\ UNCHANGED <<db, tasks, shared>>
  BY DEF NodeExtend, NodeSwitch
<1>2. node' \in Word
  <2>1. PICK n \in 0..MaxHeight : node' \in [1..n -> Label]
    BY <1>1 DEF Chains
  <2>2. n \in Nat
    BY <2>1, PipelineAssumption
  <2> QED
    BY <2>1, <2>2 DEF Word
<1>3. TasksInv' /\ db' = db /\ writer' = writer /\ cache' \in Nat
  BY <1>1 DEF IInv, TasksInv, tasks, shared
<1> QED
  BY <1>2, <1>3, WriterUntouched

-----------------------------------------------------------------------------
(* The fetcher and the parser. *)

\* The fetcher's batches hold blocks of one chain and reach the queue whole.
LEMMA FetcherInvariant == IInv /\ FetcherStep => IInv'
<1> SUFFICES ASSUME IInv, FetcherStep PROVE IInv'
  OBVIOUS
<1>1. /\ node \in Word /\ Len(node) \in Nat /\ db \in Word /\ Len(db) \in Nat /\ TasksInv
      /\ fetcher \in Fetcher
      /\ fetchQ \in Seq(GoodBatch)
  BY LenProperties DEF IInv, TasksInv, Word
<1>2. db' = db /\ writer' = writer /\ node' = node /\ cache' = cache /\ parser' = parser /\ parseQ' = parseQ
  BY Zenon DEF FetcherStep, PlanFetch, LoadEpoch, FetchBlocks, SendFetched, shared
<1> SUFFICES /\ fetcher' \in Fetcher
             /\ fetchQ' \in Seq(GoodBatch)
  BY <1>1, <1>2, WriterUntouched DEF IInv, TasksInv
<1>3. CASE PlanFetch
  <2> DEFINE next == IF notify THEN 0 ELSE fetcher.next
             start == IF next = 0 THEN Len(db) + 1 ELSE next
  <2>1. next \in Nat /\ start \in Nat
    BY <1>1 DEF Fetcher
  <2>2. fetchQ' = fetchQ
    BY <1>3, Zenon DEF PlanFetch
  <2>3. CASE start > Len(node)
    <3>1. fetcher' = [fetcher EXCEPT !.next = next]
      BY <1>3, <2>3, Zenon DEF PlanFetch
    <3> QED
      BY <1>1, <2>1, <2>2, <3>1 DEF Fetcher
  <2>4. CASE ~(start > Len(node))
    <3>1. PICK end \in start..Len(node) :
            fetcher' = [pc |-> "epoch", next |-> next,
                        batch |-> [NoBatch EXCEPT !.start = start,
                                                  !.chain = SubSeq(node, 1, end)]]
      BY <1>3, <2>4, Zenon DEF PlanFetch
    <3>2. end \in 0..Len(node) /\ start <= end
      BY <1>1, <2>1, <3>1
    <3>3. SubSeq(node, 1, end) \in Word /\ Len(SubSeq(node, 1, end)) = end
      BY <1>1, <3>2, PrefixType
    <3> HIDE DEF next, start
    <3>4. PICK b : b = [start |-> start, chain |-> SubSeq(node, 1, end), fresh |-> FALSE, pos |-> 0]
      BY Zenon
    <3>5. b \in GoodBatch
      BY <2>1, <3>2, <3>3, <3>4 DEF GoodBatch
    <3>6. fetcher' = [pc |-> "epoch", next |-> next, batch |-> b]
      BY <3>1, <3>4, Zenon DEF NoBatch
    <3> QED
      BY <1>1, <2>1, <2>2, <3>5, <3>6 DEF Fetcher
  <2> QED
    BY <2>3, <2>4
<1>4. CASE LoadEpoch
  <2>1. PICK b \in GoodBatch : b = fetcher.batch
    BY <1>1 DEF Fetcher
  <2>2. [b EXCEPT !.fresh = TRUE] \in GoodBatch
    BY Zenon DEF GoodBatch
  <2>3. fetcher' = [fetcher EXCEPT !.pc = "fetch", !.batch = [b EXCEPT !.fresh = TRUE]]
    BY <1>1, <1>4, <2>1 DEF LoadEpoch, Fetcher
  <2>4. fetchQ' = fetchQ
    BY <1>4 DEF LoadEpoch
  <2> QED
    BY <1>1, <2>2, <2>3, <2>4, Zenon DEF Fetcher
<1>5. CASE FetchBlocks
  <2>1. PICK b \in GoodBatch : b = fetcher.batch
    BY <1>1 DEF Fetcher
  <2>2. fetchQ' = fetchQ
    BY <1>5 DEF FetchBlocks
  <2>3. CASE Len(b.chain) <= Len(node)
    <3>1. Len(b.chain) \in 0..Len(node) /\ b.start <= Len(b.chain) /\ b.start \in Nat
      BY <1>1, <2>3, LenProperties DEF GoodBatch, Word
    <3>2. PICK c \in Word : c = SubSeq(node, 1, Len(b.chain)) /\ Len(c) = Len(b.chain)
      BY <1>1, <3>1, PrefixType, Zenon
    <3>3. [b EXCEPT !.chain = c] \in GoodBatch
      BY <3>1, <3>2, Zenon DEF GoodBatch
    <3>4. fetcher' = [fetcher EXCEPT !.pc = "send", !.batch = [b EXCEPT !.chain = c]]
      BY <1>1, <1>5, <2>1, <2>3, <3>2 DEF FetchBlocks, Fetcher
    <3> QED
      BY <1>1, <2>2, <3>3, <3>4, Zenon DEF Fetcher
  <2>4. CASE ~(Len(b.chain) <= Len(node))
    BY <1>1, <1>5, <2>1, <2>2, <2>4, IdleTypes DEF FetchBlocks
  <2> QED
    BY <2>3, <2>4
<1>6. CASE SendFetched
  <2>1. PICK b \in GoodBatch : b = fetcher.batch
    BY <1>1 DEF Fetcher
  <2>2. PICK n \in Nat : n = Len(b.chain) + 1
    BY LenProperties DEF GoodBatch, Word
  <2>3. \/ fetchQ' = Append(fetchQ, b) /\ fetcher' = [IdleFetcher EXCEPT !.next = n]
        \/ fetchQ' = fetchQ /\ fetcher' = [IdleFetcher EXCEPT !.pc = "gone"]
    BY <1>6, <2>1, <2>2 DEF SendFetched
  <2>4. Append(fetchQ, b) \in Seq(GoodBatch)
    BY <1>1, AppendProperties
  <2> QED
    BY <1>1, <2>3, <2>4, IdleTypes, Zenon DEF Fetcher
<1> QED
  BY <1>3, <1>4, <1>5, <1>6 DEF FetcherStep

\* The parser passes the blocks of a batch on as it got them.
LEMMA ParserInvariant == IInv /\ ParserStep => IInv'
<1> SUFFICES ASSUME IInv, ParserStep PROVE IInv'
  OBVIOUS
<1>1. /\ node \in Word /\ db \in Word /\ cache \in Nat /\ TasksInv
      /\ fetchQ \in Seq(GoodBatch) /\ parser \in Parser /\ parseQ \in Seq(GoodBatch)
      /\ <<>> \in Seq(GoodBatch)
  BY DEF IInv, TasksInv
<1>2. db' = db /\ writer' = writer /\ node' = node /\ fetcher' = fetcher
  BY DEF ParserStep, ReceiveFetched, ResolveInputs, AbandonStale, RetryUnresolved,
         PublishOutputs, CountPending, SendParsed, shared
<1>3. PICK b \in GoodBatch : b = parser.batch
  BY <1>1 DEF Parser
<1>4. CreatedAt(b.chain) \in Nat /\ StoredAt \in Nat
  BY <1>1, HeightTypes DEF GoodBatch, StoredAt
<1> SUFFICES /\ parser' \in Parser /\ fetchQ' \in Seq(GoodBatch) /\ parseQ' \in Seq(GoodBatch)
             /\ cache' \in Nat
  BY <1>1, <1>2, WriterUntouched DEF IInv, TasksInv
<1>5. CASE ReceiveFetched
  <2>1. Head(fetchQ) \in GoodBatch /\ Tail(fetchQ) \in Seq(GoodBatch)
    BY <1>1, <1>5, HeadTailProperties DEF ReceiveFetched
  <2>2. parser' \in Parser
    BY <1>5, <2>1, IdleTypes DEF ReceiveFetched, Parser
  <2> QED
    BY <1>1, <1>5, <2>1, <2>2 DEF ReceiveFetched, shared
<1>6. CASE ResolveInputs
  <2>1. PICK p \in Nat : p = IF NeedsCell(b) THEN Resolved(b) ELSE 0
    BY <1>1, <1>4 DEF Resolved
  <2>2. [b EXCEPT !.pos = p] \in GoodBatch
    BY DEF GoodBatch
  <2>3. parser' = [parser EXCEPT !.pc = "publish", !.tries = 0, !.batch = [b EXCEPT !.pos = p]]
    BY <1>1, <1>3, <1>6, <2>1 DEF ResolveInputs, Parser
  <2>4. parser' \in Parser
    BY <1>1, <2>2, <2>3, ZenonT(60) DEF Parser
  <2> QED
    BY <1>1, <1>6, <2>4 DEF ResolveInputs, shared
<1>7. CASE AbandonStale
  BY <1>1, <1>7, IdleTypes DEF AbandonStale, shared
<1>8. CASE RetryUnresolved
  <2>1. parser' \in {[IdleParser EXCEPT !.pc = "gone"], [parser EXCEPT !.tries = @ + 1]}
    BY <1>8 DEF RetryUnresolved
  <2>2. parser' \in Parser
    BY <1>1, <2>1, IdleTypes DEF Parser
  <2>3. fetchQ' \in {<<>>, fetchQ}
    BY <1>8 DEF RetryUnresolved
  <2> QED
    BY <1>1, <1>8, <2>2, <2>3 DEF RetryUnresolved, shared
<1>9. CASE PublishOutputs
  <2>1. cache' \in Nat
    BY <1>1, <1>3, <1>4, <1>9 DEF PublishOutputs
  <2>2. parser' \in Parser
    BY <1>1, <1>9, IdleTypes DEF PublishOutputs, Parser
  <2> QED
    BY <1>1, <1>9, <2>1, <2>2 DEF PublishOutputs
<1>10. CASE CountPending
  <2>1. parser' \in Parser
    BY <1>1, <1>10 DEF CountPending, Parser
  <2> QED
    BY <1>1, <1>10, <2>1 DEF CountPending
<1>11. CASE SendParsed
  <2>1. Append(parseQ, b) \in Seq(GoodBatch)
    BY <1>1, AppendProperties
  <2> QED
    BY <1>1, <1>3, <1>11, <2>1, IdleTypes DEF SendParsed, shared
<1> QED
  BY <1>5, <1>6, <1>7, <1>8, <1>9, <1>10, <1>11 DEF ParserStep

-----------------------------------------------------------------------------
(* The writer. *)

\* A step after which the writer neither checks, writes nor rolls back.
LEMMA WriterElsewhere ==
    ASSUME IInv, node' = node, db' \in Word, cache' \in Nat, TasksInv',
           writer'.pc \notin {"check", "write", "undo", "marked"}
    PROVE  IInv'
BY DEF IInv, WriterInv

\* The steps that read the store: receive a batch, check it, reset the pipeline.
LEMMA WriterReads ==
    ASSUME IInv,
           \/ ReceiveParsed \/ CheckReorg \/ MarkRollback \/ ClearCaches \/ BumpEpoch
           \/ NotifyFetcher \/ DrainParsed \/ ZeroPending \/ IdleTimeout
    PROVE  IInv'
<1>1. /\ node \in Word /\ db \in Word /\ Len(db) \in Nat /\ cache \in Nat /\ TasksInv /\ WriterInv
      /\ fetchQ \in Seq(GoodBatch) /\ parseQ \in Seq(GoodBatch)
      /\ writer \in Writer /\ fetcher \in Fetcher /\ parser \in Parser
  BY LenProperties DEF IInv, TasksInv, Word
<1>2. CASE ReceiveParsed
  <2>1. PICK b \in GoodBatch : b = Head(parseQ)
    BY <1>1, <1>2, HeadTailProperties DEF ReceiveParsed
  <2>2. parseQ' = Tail(parseQ) /\ Tail(parseQ) \in Seq(GoodBatch)
    BY <1>1, <1>2, HeadTailProperties DEF ReceiveParsed
  <2>3. UNCHANGED <<node, db, fetcher, fetchQ, parser, cache>>
    BY <1>2 DEF ReceiveParsed
  <2>4. \/ writer' \in {[IdleWriter EXCEPT !.pc = "panic"], IdleWriter, [IdleWriter EXCEPT !.pc = "bump"]}
        \/ b.start = Len(db) + 1 /\ writer' = [IdleWriter EXCEPT !.pc = "check", !.batch = b]
    BY <1>2, <2>1 DEF ReceiveParsed
  <2>5. writer' \in Writer
    BY <2>4, IdleTypes, ZenonT(60) DEF Writer
  <2>6. TasksInv'
    BY <1>1, <2>2, <2>3, <2>5 DEF TasksInv
  <2>7. CASE writer' \in {[IdleWriter EXCEPT !.pc = "panic"], IdleWriter, [IdleWriter EXCEPT !.pc = "bump"]}
    <3>1. writer'.pc \in {"panic", "recv", "bump"}
      BY <2>7 DEF IdleWriter
    <3> QED
      BY <1>1, <2>3, <2>6, <3>1, WriterElsewhere
  <2>8. CASE b.start = Len(db) + 1 /\ writer' = [IdleWriter EXCEPT !.pc = "check", !.batch = b]
    <3>1. writer'.pc = "check" /\ writer'.batch = b
      BY <2>8 DEF IdleWriter
    <3>2. WriterInv'
      BY <2>3, <2>8, <3>1 DEF WriterInv
    <3> QED
      BY <1>1, <2>3, <2>6, <3>2 DEF IInv
  <2> QED
    BY <2>4, <2>7, <2>8
<1>3. CASE CheckReorg
  <2>1. ForkPoint \in 0..Len(db) /\ ForkPoint \in Nat
    BY <1>1, ForkPointType
  <2>2. UNCHANGED <<node, db, fetcher, fetchQ, parser, parseQ, cache>> /\ writer.pc = "check"
    BY <1>3 DEF CheckReorg, shared
  <2>3. \/ writer' \in {[IdleWriter EXCEPT !.pc = "down"], [IdleWriter EXCEPT !.pc = "bump"]}
        \/ writer' = [writer EXCEPT !.pc = "undo", !.kind = "reorg", !.target = ForkPoint]
        \/ BuildsOnTip(writer.batch) /\ writer' = [writer EXCEPT !.pc = "write"]
    BY <1>3 DEF CheckReorg
  <2>4. writer' \in Writer
    BY <1>1, <2>1, <2>3, IdleTypes, ZenonT(60) DEF Writer
  <2>5. TasksInv'
    BY <1>1, <2>2, <2>4 DEF TasksInv
  <2>6. CASE writer' \in {[IdleWriter EXCEPT !.pc = "down"], [IdleWriter EXCEPT !.pc = "bump"]}
    <3>1. writer'.pc \in {"down", "bump"}
      BY <2>6 DEF IdleWriter
    <3> QED
      BY <1>1, <2>2, <2>5, <3>1, WriterElsewhere
  <2>7. CASE writer' = [writer EXCEPT !.pc = "undo", !.kind = "reorg", !.target = ForkPoint]
    <3>1. writer'.pc = "undo" /\ writer'.target = ForkPoint
      BY <1>1, <2>7 DEF Writer
    <3>2. WriterInv'
      BY <1>1, <2>1, <2>2, <3>1 DEF WriterInv
    <3> QED
      BY <1>1, <2>2, <2>5, <3>2 DEF IInv
  <2>8. CASE BuildsOnTip(writer.batch) /\ writer' = [writer EXCEPT !.pc = "write"]
    <3>1. writer'.pc = "write" /\ writer'.batch = writer.batch
      BY <1>1, <2>8 DEF Writer
    <3>2. WriterInv'
      BY <1>1, <2>2, <2>8, <3>1 DEF WriterInv, BuildsOnTip
    <3> QED
      BY <1>1, <2>2, <2>5, <3>2 DEF IInv
  <2> QED
    BY <2>3, <2>6, <2>7, <2>8
<1>4. CASE MarkRollback
  <2>1. /\ UNCHANGED <<node, db, fetcher, fetchQ, parser, parseQ, cache>>
        /\ writer.pc = "undo" /\ writer' = [writer EXCEPT !.pc = "marked"]
    BY <1>4 DEF MarkRollback, shared
  <2>2. writer' \in Writer /\ writer'.pc = "marked" /\ writer'.target = writer.target
    BY <1>1, <2>1 DEF Writer
  <2>3. WriterInv' /\ TasksInv'
    BY <1>1, <2>1, <2>2 DEF WriterInv, TasksInv
  <2> QED
    BY <1>1, <2>1, <2>3 DEF IInv
<1>5. CASE ClearCaches \/ ZeroPending \/ IdleTimeout
  <2>1. /\ writer' \in {[IdleWriter EXCEPT !.pc = "bump"], IdleWriter, [IdleWriter EXCEPT !.pc = "down"]}
        /\ UNCHANGED <<node, db, fetcher, fetchQ, parser, parseQ>> /\ cache' \in {0, cache}
    BY <1>5 DEF ClearCaches, ZeroPending, IdleTimeout, shared
  <2>2. writer' \in Writer /\ writer'.pc \in {"bump", "recv", "down"}
    BY <2>1, IdleTypes DEF Writer, IdleWriter
  <2>3. TasksInv'
    BY <1>1, <2>1, <2>2 DEF TasksInv
  <2> QED
    BY <1>1, <2>1, <2>2, <2>3, WriterElsewhere
<1>6. CASE BumpEpoch
  <2>1. /\ fetcher' = [fetcher EXCEPT !.batch = Stale(fetcher.batch)]
        /\ parser' = [parser EXCEPT !.batch = Stale(parser.batch)]
        /\ fetchQ' = [i \in DOMAIN fetchQ |-> Stale(fetchQ[i])]
        /\ parseQ' = [i \in DOMAIN parseQ |-> Stale(parseQ[i])]
        /\ writer' = [writer EXCEPT !.pc = "notify"]
        /\ UNCHANGED <<node, db, cache>>
    BY <1>1, <1>6 DEF BumpEpoch, shared, Fetcher, Parser
  <2>2. fetcher' \in Fetcher
    BY <1>1, <2>1, StaleTypes DEF Fetcher
  <2>3. parser' \in Parser
    BY <1>1, <2>1, StaleTypes, Zenon DEF Parser
  <2>4. fetchQ' \in Seq(GoodBatch) /\ parseQ' \in Seq(GoodBatch)
    BY <1>1, <2>1, StaleTypes
  <2>5. writer' \in Writer /\ writer'.pc = "notify"
    BY <1>1, <2>1, Zenon DEF Writer
  <2>6. TasksInv'
    BY <2>2, <2>3, <2>4, <2>5 DEF TasksInv
  <2> QED
    BY <1>1, <2>1, <2>5, <2>6, WriterElsewhere
<1>7. CASE NotifyFetcher \/ DrainParsed
  <2>1. Tail(parseQ) \in Seq(GoodBatch) \/ parseQ = <<>>
    BY <1>1, HeadTailProperties
  <2>2. /\ writer' = writer \/ writer' = [writer EXCEPT !.pc = "drain"] \/ writer' = [writer EXCEPT !.pc = "zero"]
        /\ writer.pc \in {"notify", "drain"}
        /\ UNCHANGED <<node, db, fetcher, fetchQ, parser, cache>>
        /\ parseQ' \in Seq(GoodBatch)
    BY <1>1, <1>7, <2>1, Zenon DEF NotifyFetcher, DrainParsed, shared
  <2>3. writer' \in Writer /\ writer'.pc \in {"notify", "drain", "zero"}
    BY <1>1, <2>2, Zenon DEF Writer
  <2>4. TasksInv'
    BY <1>1, <2>2, <2>3 DEF TasksInv
  <2> QED
    BY <1>1, <2>2, <2>3, <2>4, WriterElsewhere
<1> QED
  BY <1>2, <1>3, <1>4, <1>5, <1>6, <1>7

\* The steps that write the store: commit, a failed write, a rollback's commit.
LEMMA WriterWrites ==
    ASSUME IInv, WriteBatch \/ WriteFails \/ CommitRollback
    PROVE  IInv'
<1>1. /\ node \in Word /\ db \in Word /\ Len(db) \in Nat /\ cache \in Nat /\ TasksInv /\ WriterInv
      /\ writer \in Writer
  BY LenProperties DEF IInv, TasksInv, Word
<1>2. PICK b \in GoodBatch : b = writer.batch
  BY <1>1 DEF Writer
<1>3. b.chain \in Word /\ Len(b.chain) \in Nat /\ b.start <= Len(b.chain)
  BY LenProperties DEF GoodBatch, Word
<1>4. UNCHANGED <<node, fetcher, fetchQ, parser, parseQ, cache>>
  BY DEF WriteBatch, WriteFails, CommitRollback, shared
<1>5. CASE WriteBatch
  <2>1. db' \in Word /\ writer' \in Writer /\ writer'.pc = "recv"
    BY <1>2, <1>3, <1>5, IdleTypes DEF WriteBatch, IdleWriter
  <2>2. TasksInv'
    BY <1>1, <1>4, <2>1 DEF TasksInv
  <2> QED
    BY <1>1, <1>4, <2>1, <2>2, WriterElsewhere
<1>6. CASE WriteFails
  <2>1. db' \in {db, b.chain} /\ writer.pc = "write"
    BY <1>2, <1>6 DEF WriteFails
  <2>2. writer' \in Writer /\ writer'.pc = "undo" /\ writer'.target = Len(db)
    BY <1>1, <1>6, Zenon DEF WriteFails, Writer
  <2>3. b.start = Len(db) + 1
    BY <1>1, <1>2, <2>1 DEF WriterInv
  <2>4. db' \in Word /\ Len(db) <= Len(db')
    BY <1>1, <1>3, <2>1, <2>3
  <2>5. WriterInv'
    BY <2>2, <2>4 DEF WriterInv
  <2>6. TasksInv'
    BY <1>1, <1>4, <2>2 DEF TasksInv
  <2> QED
    BY <1>1, <1>4, <2>4, <2>5, <2>6 DEF IInv
<1>7. CASE CommitRollback
  <2>1. writer.pc = "marked" /\ db' = SubSeq(db, 1, writer.target)
    BY <1>7 DEF CommitRollback
  <2>2. writer.target \in 0..Len(db)
    BY <1>1, <2>1 DEF WriterInv, Writer
  <2>3. db' \in Word
    BY <1>1, <2>1, <2>2, PrefixType
  <2>4. writer' \in Writer /\ writer'.pc = "clear"
    BY <1>1, <1>7 DEF CommitRollback, Writer
  <2>5. TasksInv'
    BY <1>1, <1>4, <2>4 DEF TasksInv
  <2> QED
    BY <1>1, <1>4, <2>3, <2>4, <2>5, WriterElsewhere
<1> QED
  BY <1>5, <1>6, <1>7

\* A new process starts with idle tasks and empty channels.
LEMMA RestartInvariant ==
    ASSUME IInv, Restart
    PROVE  IInv'
<1>1. node \in Word /\ db \in Word /\ node' = node /\ db' = db /\ cache' = 0
  BY DEF IInv, Restart
<1>2. writer' = IdleWriter /\ writer'.pc = "recv"
  BY DEF Restart, IdleWriter
<1>3. TasksInv'
  BY <1>2, IdleTypes DEF Restart, TasksInv
<1> QED
  BY <1>1, <1>2, <1>3, WriterElsewhere

\* The invariant, at every step of every task.
LEMMA NextInvariant == IInv /\ [Next]_vars => IInv'
<1> SUFFICES ASSUME IInv, [Next]_vars PROVE IInv'
  OBVIOUS
<1>1. CASE UNCHANGED vars
  <2>1. UNCHANGED <<node, db, fetcher, fetchQ, parser, parseQ, writer, cache>>
    BY <1>1 DEF vars, tasks, shared
  <2> QED
    BY <2>1 DEF IInv, TasksInv, WriterInv, BuildsOnTip
<1>2. CASE NodeExtend \/ NodeSwitch
  BY <1>2, NodeInvariant
<1>3. CASE FetcherStep
  BY <1>3, FetcherInvariant
<1>4. CASE ParserStep
  BY <1>4, ParserInvariant
<1>5. CASE WriterStep
  BY <1>5, WriterReads, WriterWrites DEF WriterStep
<1>6. CASE WriteFails
  BY <1>6, WriterWrites
<1>7. CASE Restart
  BY <1>7, RestartInvariant
<1> QED
  BY <1>1, <1>2, <1>3, <1>4, <1>5, <1>6, <1>7 DEF Next

\* The inductive invariant of the three tasks.
LEMMA Invariant == Spec => []IInv
<1> QED
  BY InitInvariant, NextInvariant, PTL DEF Spec

\* A step that makes the stored chain longer is a commit of the checked batch.
LEMMA StepExtendsTip ==
    ASSUME IInv, [Next]_vars
    PROVE  [Len(db') > Len(db) => IsPrefix(db, db')]_db
<1>1. /\ db \in Word /\ Len(db) \in Nat /\ WriterInv /\ writer \in Writer
  BY LenProperties DEF IInv, TasksInv, Word
<1>2. CASE WriteBatch \/ WriteFails
  <2>1. PICK b \in GoodBatch : b = writer.batch
    BY <1>1 DEF Writer
  <2>2. b.chain \in Word /\ Len(b.chain) \in Nat /\ b.start <= Len(b.chain)
    BY LenProperties DEF GoodBatch, Word
  <2>3. b.start = Len(db) + 1 /\ BuildsOnTip(b)
    BY <1>1, <1>2, <2>1 DEF WriterInv, WriteBatch, WriteFails
  <2>4. SubSeq(b.chain, 1, Len(db)) = db
    BY <1>1, <2>3 DEF BuildsOnTip
  <2>5. db' \in {db, b.chain}
    BY <1>2, <2>1 DEF WriteBatch, WriteFails
  <2> QED
    BY <1>1, <2>2, <2>4, <2>5 DEF IsPrefix
<1>3. CASE CommitRollback
  <2>1. db' = SubSeq(db, 1, writer.target) /\ writer.target \in 0..Len(db)
    BY <1>1, <1>3 DEF CommitRollback, WriterInv, Writer
  <2>2. Len(db') <= Len(db)
    BY <1>1, <2>1, PrefixType
  <2> QED
    BY <1>1, <2>1, <2>2, PrefixType
<1>4. CASE ~(WriteBatch \/ WriteFails \/ CommitRollback)
  BY <1>4, Zenon DEF Next, vars, tasks, shared, NodeExtend, NodeSwitch, FetcherStep, PlanFetch,
       LoadEpoch, FetchBlocks, SendFetched, ParserStep, ReceiveFetched, ResolveInputs,
       AbandonStale, RetryUnresolved, PublishOutputs, CountPending, SendParsed, WriterStep,
       ReceiveParsed, CheckReorg, MarkRollback, ClearCaches, BumpEpoch, NotifyFetcher,
       DrainParsed, ZeroPending, IdleTimeout, Restart
<1> QED
  BY <1>2, <1>3, <1>4

\* CommitsExtendTip for every chain, capacity, batch size and number of
\* faults, and without the timing assumption: the writer is the only task that
\* changes the store, so what it compared before its node queries still holds
\* when it commits, and a failed write is rolled back to where it began.
THEOREM CommitsExtend == Spec => CommitsExtendTip
<1> QED
  BY Invariant, StepExtendsTip, PTL DEF Spec, CommitsExtendTip

-----------------------------------------------------------------------------
(* The pending counter, when a reset is quicker than a fetch or a retry. *)

\* The prefix sums of what the writer will subtract for a queue of batches.
Sums(q, f) ==
    /\ f[0] = 0
    /\ \A i \in 1..Len(q) : f[i] = f[i - 1] + Subtracts(q[i])
    /\ \A i, j \in 0..Len(q) : i <= j => f[i] <= f[j]

\* What is counted and not sent yet.
Unsent == IF parser.pc = "send" THEN Subtracts(parser.batch) ELSE 0

\* The counter covers everything that the writer will still subtract.
Covered ==
    \E f \in [0..Len(parseQ) -> Nat] :
        Sums(parseQ, f) /\ f[Len(parseQ)] + Unsent <= pending

NoneFresh ==
    /\ ~fetcher.batch.fresh /\ ~parser.batch.fresh
    /\ \A i \in 1..Len(fetchQ) : ~fetchQ[i].fresh
    /\ \A i \in 1..Len(parseQ) : ~parseQ[i].fresh

\* From the bump to the zeroing every batch under way is stale.
CounterInv ==
    QuickReset => /\ pending \in Nat
                  /\ Resetting => NoneFresh
                  /\ Covered
                  /\ NoUnderflow

\* A batch that is subtracted holds at least one transaction.
LEMMA SubtractsType ==
    ASSUME NEW b \in GoodBatch
    PROVE  /\ Subtracts(b) \in Nat /\ TxCount(b) \in Nat /\ Subtracts(b) <= TxCount(b)
           /\ ~b.fresh => Subtracts(b) = 0
<1>1. b.start \in Nat /\ Len(b.chain) \in Nat /\ b.start <= Len(b.chain)
  BY LenProperties DEF GoodBatch, Word
<1>2. TxCount(b) \in Nat
  BY <1>1 DEF TxCount
<1> QED
  BY <1>2 DEF Subtracts

\* A queue of stale batches sums to nothing, an empty one included.
LEMMA SumsStale ==
    ASSUME NEW q \in Seq(GoodBatch), \A i \in 1..Len(q) : ~q[i].fresh
    PROVE  \E f \in [0..Len(q) -> Nat] : Sums(q, f) /\ f[Len(q)] = 0
<1>1. Len(q) \in Nat /\ \A i \in 1..Len(q) : Subtracts(q[i]) = 0
  BY LenProperties, ElementOfSeq, SubtractsType
<1>2. PICK f \in [0..Len(q) -> Nat] : \A i \in 0..Len(q) : f[i] = 0
  <2> DEFINE z == [i \in 0..Len(q) |-> 0]
  <2>1. z \in [0..Len(q) -> Nat] /\ \A i \in 0..Len(q) : z[i] = 0
    OBVIOUS
  <2> HIDE DEF z
  <2> QED
    BY <2>1, Zenon
<1>3. Sums(q, f) /\ f[Len(q)] = 0
  BY <1>1, <1>2 DEF Sums
<1> QED
  BY <1>3

\* A batch sent adds its count.
LEMMA SumsAppend ==
    ASSUME NEW q \in Seq(GoodBatch), NEW b \in GoodBatch,
           NEW f \in [0..Len(q) -> Nat], Sums(q, f)
    PROVE  \E g \in [0..Len(Append(q, b)) -> Nat] :
              Sums(Append(q, b), g) /\ g[Len(Append(q, b))] = f[Len(q)] + Subtracts(b)
<1>1. PICK n \in Nat : n = Len(q)
  BY LenProperties
<1>2. PICK r \in Seq(GoodBatch) :
        /\ r = Append(q, b) /\ Len(r) = n + 1 /\ r[n + 1] = b /\ \A i \in 1..n : r[i] = q[i]
  BY <1>1, AppendProperties
<1>3. PICK s \in Nat : s = Subtracts(b)
  BY SubtractsType
<1>4. f[n] \in Nat
  BY <1>1
<1>5. PICK g \in [0..(n + 1) -> Nat] : (\A i \in 0..n : g[i] = f[i]) /\ g[n + 1] = f[n] + s
  <2> DEFINE G == [i \in 0..(n + 1) |-> IF i = n + 1 THEN f[n] + s ELSE f[i]]
  <2>1. G \in [0..(n + 1) -> Nat]
    BY <1>1, <1>4
  <2>2. (\A i \in 0..n : G[i] = f[i]) /\ G[n + 1] = f[n] + s
    BY <1>1
  <2> QED
    BY <2>1, <2>2, Zenon
<1>6. \A i \in 1..(n + 1) : g[i] = g[i - 1] + Subtracts(r[i])
  <2> SUFFICES ASSUME NEW i \in 1..(n + 1) PROVE g[i] = g[i - 1] + Subtracts(r[i])
    OBVIOUS
  <2>1. CASE i = n + 1
    BY <1>2, <1>3, <1>5, <2>1
  <2>2. CASE i # n + 1
    <3>1. i \in 1..n /\ i - 1 \in 0..n /\ i \in 0..n
      BY <2>2
    <3>2. f[i] = f[i - 1] + Subtracts(q[i])
      BY <1>1, <3>1 DEF Sums
    <3> QED
      BY <1>2, <1>5, <3>1, <3>2
  <2> QED
    BY <2>1, <2>2
<1>7. \A i, j \in 0..(n + 1) : i <= j => g[i] <= g[j]
  <2> SUFFICES ASSUME NEW i \in 0..(n + 1), NEW j \in 0..(n + 1), i <= j PROVE g[i] <= g[j]
    OBVIOUS
  <2>1. \A k, l \in 0..n : k <= l => f[k] <= f[l]
    BY <1>1 DEF Sums
  <2>2. \A k \in 0..n : f[k] \in Nat
    BY <1>1
  <2>3. CASE j \in 0..n
    BY <1>5, <2>1, <2>3
  <2>4. CASE j = n + 1 /\ i \in 0..n
    <3>1. f[i] <= f[n] /\ f[i] \in Nat
      BY <2>1, <2>2, <2>4
    <3> QED
      BY <1>4, <1>5, <2>4, <3>1
  <2>5. CASE j = n + 1 /\ i = n + 1
    BY <1>5, <2>5
  <2> QED
    BY <2>3, <2>4, <2>5
<1>8. g[0] = 0
  BY <1>1, <1>5 DEF Sums
<1>9. Sums(r, g) /\ g[Len(r)] = f[n] + s
  BY <1>2, <1>5, <1>6, <1>7, <1>8 DEF Sums
<1> QED
  BY <1>1, <1>2, <1>3, <1>5, <1>9, Zenon

\* A batch received takes its count away, and the rest is still covered.
LEMMA SumsTail ==
    ASSUME NEW q \in Seq(GoodBatch), q # <<>>, NEW f \in [0..Len(q) -> Nat], Sums(q, f)
    PROVE  /\ Subtracts(Head(q)) <= f[Len(q)]
           /\ \E g \in [0..Len(Tail(q)) -> Nat] :
                Sums(Tail(q), g) /\ g[Len(Tail(q))] = f[Len(q)] - Subtracts(Head(q))
<1>1. PICK n \in Nat : n + 1 = Len(q)
  <2>1. Len(q) \in Nat \ {0}
    BY EmptySeq
  <2> QED
    BY <2>1
<1>2. PICK r \in Seq(GoodBatch) : r = Tail(q) /\ Len(r) = n /\ \A i \in 1..n : r[i] = q[i + 1]
  BY <1>1, HeadTailProperties
<1>3. \A i \in 0..(n + 1) : f[i] \in Nat
  BY <1>1
<1>4. \A i, j \in 0..(n + 1) : i <= j => f[i] <= f[j]
  BY <1>1 DEF Sums
<1>5. Head(q) \in GoodBatch /\ Head(q) = q[1]
  BY HeadTailProperties
<1>6. PICK s \in Nat : s = Subtracts(Head(q))
  BY <1>5, SubtractsType
<1>7. f[1] = s
  <2>1. 1 \in 1..Len(q) /\ f[1] = f[1 - 1] + Subtracts(q[1])
    BY <1>1 DEF Sums
  <2>2. f[0] = 0
    BY DEF Sums
  <2> QED
    BY <1>5, <1>6, <2>1, <2>2
<1>8. \A i \in 0..n : f[i + 1] - s \in Nat
  <2> SUFFICES ASSUME NEW i \in 0..n PROVE f[i + 1] - s \in Nat
    OBVIOUS
  <2>1. f[1] <= f[i + 1] /\ f[i + 1] \in Nat
    BY <1>3, <1>4
  <2> QED
    BY <1>7, <2>1
<1>9. PICK g \in [0..n -> Nat] : \A i \in 0..n : g[i] = f[i + 1] - s
  <2> DEFINE G == [i \in 0..n |-> f[i + 1] - s]
  <2>1. G \in [0..n -> Nat]
    BY <1>8
  <2> QED
    BY <2>1, Zenon
<1>10. \A i \in 1..n : g[i] = g[i - 1] + Subtracts(r[i])
  <2> SUFFICES ASSUME NEW i \in 1..n PROVE g[i] = g[i - 1] + Subtracts(r[i])
    OBVIOUS
  <2>1. i + 1 \in 1..(n + 1) /\ i - 1 \in 0..n /\ i \in 0..n /\ (i + 1) - 1 = i /\ (i - 1) + 1 = i
    OBVIOUS
  <2>2. f[i + 1] = f[i] + Subtracts(q[i + 1])
    BY <1>1, <2>1 DEF Sums
  <2>3. g[i] = f[i + 1] - s /\ g[i - 1] = f[i] - s /\ r[i] = q[i + 1]
    BY <1>2, <1>9, <2>1
  <2>4. q[i + 1] \in GoodBatch
    BY <1>1, <2>1, ElementOfSeq
  <2>5. Subtracts(q[i + 1]) \in Nat
    BY <2>4, SubtractsType, Zenon
  <2>6. i \in 0..(n + 1)
    OBVIOUS
  <2>7. f[i] \in Nat
    BY <1>3, <2>6
  <2> QED
    BY <2>2, <2>3, <2>5, <2>7
<1>11. \A i, j \in 0..n : i <= j => g[i] <= g[j]
  <2> SUFFICES ASSUME NEW i \in 0..n, NEW j \in 0..n, i <= j PROVE g[i] <= g[j]
    OBVIOUS
  <2>1. i + 1 \in 0..(n + 1) /\ j + 1 \in 0..(n + 1) /\ i + 1 <= j + 1
    OBVIOUS
  <2>2. f[i + 1] <= f[j + 1] /\ f[i + 1] \in Nat /\ f[j + 1] \in Nat
    BY <1>3, <1>4, <2>1
  <2>3. PICK x \in Nat, y \in Nat : x = f[i + 1] /\ y = f[j + 1]
    BY <2>2, Zenon
  <2>4. x <= y /\ g[i] = x - s /\ g[j] = y - s
    BY <1>9, <2>2, <2>3
  <2> QED
    BY <2>4
<1>12. g[0] = 0 /\ g[n] = f[n + 1] - s
  BY <1>7, <1>9
<1>13. Sums(r, g)
  BY <1>2, <1>10, <1>11, <1>12, Zenon DEF Sums
<1>14. s <= f[n + 1]
  BY <1>3, <1>4, <1>7
<1> QED
  BY <1>1, <1>2, <1>6, <1>9, <1>12, <1>13, <1>14, Zenon

\* A step that sends nothing to the writer and counts nothing.
LEMMA CoveredKept ==
    ASSUME IInv, IInv', pending \in Nat, Covered, parseQ' = parseQ, pending' = pending,
           parser' = parser \/ parser'.pc # "send"
    PROVE  pending' \in Nat /\ Covered'
<1>1. PICK f \in [0..Len(parseQ) -> Nat] : Sums(parseQ, f) /\ f[Len(parseQ)] + Unsent <= pending
  BY DEF Covered
<1>2. parseQ \in Seq(GoodBatch) /\ parser \in Parser
  BY DEF IInv, TasksInv
<1>3. f[Len(parseQ)] \in Nat
  BY <1>1, <1>2, LenProperties
<1>4. Unsent \in Nat
  BY <1>2, SubtractsType DEF Unsent, Parser
<1>5. Unsent' \in {0, Unsent}
  BY DEF Unsent
<1>6. f[Len(parseQ)] + Unsent' <= pending
  BY <1>1, <1>3, <1>4, <1>5
<1> QED
  BY <1>1, <1>6 DEF Covered

\* The node and the fetcher: nothing fetched during a reset carries its epoch.
LEMMA FetcherCounts ==
    ASSUME IInv, IInv', QuickReset, CounterInv, NodeExtend \/ NodeSwitch \/ FetcherStep
    PROVE  CounterInv'
<1>1. /\ parseQ' = parseQ /\ pending' = pending /\ parser' = parser /\ writer' = writer
  BY Zenon DEF NodeExtend, NodeSwitch, FetcherStep, PlanFetch, LoadEpoch, FetchBlocks, SendFetched,
         tasks, shared
<1>2. pending' \in Nat /\ Covered' /\ NoUnderflow'
  BY <1>1, CoveredKept DEF CounterInv, NoUnderflow
<1>3. ASSUME Resetting' PROVE NoneFresh'
  <2>1. Resetting /\ NoneFresh
    BY <1>1, <1>3 DEF CounterInv, Resetting
  <2>2. CASE NodeExtend \/ NodeSwitch
    BY <2>1, <2>2 DEF NodeExtend, NodeSwitch, NoneFresh, tasks
  <2>3. ~PlanFetch /\ ~LoadEpoch /\ ~FetchBlocks
    BY <2>1 DEF PlanFetch, LoadEpoch, FetchBlocks
  <2>4. CASE SendFetched
    <3>1. PICK b \in GoodBatch : b = fetcher.batch /\ ~b.fresh
      BY <2>1 DEF IInv, TasksInv, Fetcher, NoneFresh
    <3>2. fetcher'.batch = NoBatch /\ fetchQ' \in {fetchQ, Append(fetchQ, b)}
      BY <2>4, <3>1 DEF SendFetched, IdleFetcher
    <3>3. ~fetcher'.batch.fresh
      BY <3>2 DEF NoBatch
    <3>4. fetchQ \in Seq(GoodBatch) /\ Len(fetchQ) \in Nat
      BY LenProperties DEF IInv, TasksInv
    <3>5. \A i \in 1..Len(fetchQ') : ~fetchQ'[i].fresh
      <4>1. CASE fetchQ' = fetchQ
        BY <2>1, <4>1 DEF NoneFresh
      <4>2. CASE fetchQ' = Append(fetchQ, b)
        <5>1. /\ Len(fetchQ') = Len(fetchQ) + 1 /\ fetchQ'[Len(fetchQ) + 1] = b
              /\ \A i \in 1..Len(fetchQ) : fetchQ'[i] = fetchQ[i]
          BY <3>4, <4>2, AppendProperties
        <5> SUFFICES ASSUME NEW i \in 1..(Len(fetchQ) + 1) PROVE ~fetchQ'[i].fresh
          BY <5>1
        <5>2. i \in 1..Len(fetchQ) \/ i = Len(fetchQ) + 1
          BY <3>4
        <5> QED
          BY <2>1, <3>1, <5>1, <5>2 DEF NoneFresh
      <4> QED
        BY <3>2, <4>1, <4>2
    <3> QED
      BY <1>1, <2>1, <3>3, <3>5 DEF NoneFresh
  <2> QED
    BY <2>2, <2>3, <2>4 DEF FetcherStep
<1> QED
  BY <1>2, <1>3 DEF CounterInv

\* The parser counts a batch before it sends it.
LEMMA ParserCounts ==
    ASSUME IInv, IInv', QuickReset, CounterInv, ParserStep
    PROVE  CounterInv'
<1>1. writer' = writer /\ fetcher' = fetcher
  BY DEF ParserStep, ReceiveFetched, ResolveInputs, AbandonStale, RetryUnresolved,
         PublishOutputs, CountPending, SendParsed
<1>2. /\ fetchQ \in Seq(GoodBatch) /\ Len(fetchQ) \in Nat /\ parser \in Parser
      /\ parseQ \in Seq(GoodBatch) /\ Len(parseQ) \in Nat
      /\ pending \in Nat /\ Covered /\ NoUnderflow'
  BY <1>1, LenProperties DEF IInv, TasksInv, CounterInv, NoUnderflow
<1>3. PICK b \in GoodBatch : b = parser.batch
  BY <1>2 DEF Parser
<1>4. ~IdleParser.batch.fresh /\ IdleParser.pc = "recv"
  BY DEF IdleParser, NoBatch
<1>5. ASSUME Resetting' PROVE Resetting /\ NoneFresh
  BY <1>1, <1>5 DEF CounterInv, Resetting
<1>6. CASE ReceiveFetched
  <2>1. parseQ' = parseQ /\ pending' = pending /\ fetchQ' = Tail(fetchQ) /\ fetchQ # <<>>
    BY <1>6 DEF ReceiveFetched, shared
  <2>2. \/ parser' = [pc |-> "resolve", batch |-> Head(fetchQ), tries |-> 0]
        \/ parser' = IdleParser
    BY <1>6 DEF ReceiveFetched
  <2>3. pending' \in Nat /\ Covered'
    BY <1>2, <1>4, <2>1, <2>2, CoveredKept DEF CounterInv
  <2>4. ASSUME Resetting' PROVE NoneFresh'
    <3>1. /\ Len(fetchQ') = Len(fetchQ) - 1 /\ Head(fetchQ) = fetchQ[1] /\ 1 \in 1..Len(fetchQ)
          /\ \A i \in 1..Len(fetchQ') : fetchQ'[i] = fetchQ[i + 1]
      BY <1>2, <2>1, HeadTailProperties, EmptySeq
    <3>2. \A i \in 1..Len(fetchQ) : ~fetchQ[i].fresh
      BY <1>5, <2>4 DEF NoneFresh
    <3>3. \A i \in 1..Len(fetchQ') : ~fetchQ'[i].fresh
      <4> SUFFICES ASSUME NEW i \in 1..Len(fetchQ') PROVE ~fetchQ'[i].fresh
        OBVIOUS
      <4>1. i + 1 \in 1..Len(fetchQ)
        BY <1>2, <3>1
      <4> QED
        BY <3>1, <3>2, <4>1
    <3>4. ~parser'.batch.fresh
      BY <1>4, <2>2, <3>1, <3>2
    <3> QED
      BY <1>1, <1>5, <2>1, <2>4, <3>3, <3>4, Zenon DEF NoneFresh
  <2> QED
    BY <1>2, <2>3, <2>4, Zenon DEF CounterInv
<1>7. CASE ResolveInputs \/ AbandonStale \/ RetryUnresolved \/ PublishOutputs
  <2>1. parseQ' = parseQ /\ pending' = pending
    BY <1>7 DEF ResolveInputs, AbandonStale, RetryUnresolved, PublishOutputs, shared
  <2>2. /\ parser'.pc # "send"
        /\ ~b.fresh => ~parser'.batch.fresh
    <3>1. CASE ResolveInputs
      <4>1. PICK n : n = IF NeedsCell(b) THEN Resolved(b) ELSE 0
        OBVIOUS
      <4>2. parser' = [parser EXCEPT !.pc = "publish", !.tries = 0,
                                     !.batch = [b EXCEPT !.pos = n]]
        BY <1>2, <1>3, <3>1, <4>1 DEF ResolveInputs, Parser
      <4>3. PICK c : c = [b EXCEPT !.pos = n]
        BY Zenon
      <4>4. ~b.fresh => ~c.fresh
        BY <4>3 DEF GoodBatch
      <4>5. parser'.pc = "publish" /\ parser'.batch = c
        BY <1>2, <4>2, <4>3 DEF Parser
      <4> QED
        BY <4>4, <4>5
    <3>2. CASE AbandonStale
      BY <1>4, <3>2 DEF AbandonStale
    <3>3. CASE RetryUnresolved
      BY <1>2, <1>3, <1>4, <3>3 DEF RetryUnresolved, Parser, IdleParser
    <3>4. CASE PublishOutputs
      BY <1>2, <1>3, <1>4, <3>4, Zenon DEF PublishOutputs, Parser
    <3> QED
      BY <1>7, <3>1, <3>2, <3>3, <3>4
  <2>3. pending' \in Nat /\ Covered'
    BY <1>2, <2>1, <2>2, CoveredKept
  <2>4. fetchQ' \in {<<>>, fetchQ}
    BY <1>7 DEF ResolveInputs, AbandonStale, RetryUnresolved, PublishOutputs
  <2>5. ASSUME Resetting' PROVE NoneFresh'
    <3>1. \A i \in 1..Len(fetchQ') : ~fetchQ'[i].fresh
      BY <1>5, <2>4, <2>5 DEF NoneFresh
    <3>2. ~parser'.batch.fresh
      BY <1>3, <1>5, <2>2, <2>5 DEF NoneFresh
    <3> QED
      BY <1>1, <1>5, <2>1, <2>5, <3>1, <3>2 DEF NoneFresh
  <2> QED
    BY <1>2, <2>3, <2>5 DEF CounterInv
<1>8. PICK f \in [0..Len(parseQ) -> Nat] : Sums(parseQ, f) /\ f[Len(parseQ)] + Unsent <= pending
  BY <1>2 DEF Covered
<1>9. PICK s \in Nat : s = f[Len(parseQ)]
  BY <1>2, <1>8
<1>10. Subtracts(b) \in Nat /\ TxCount(b) \in Nat /\ Subtracts(b) <= TxCount(b)
  BY SubtractsType
<1>11. CASE CountPending
  <2>1. /\ parser.pc = "count" /\ parser' = [parser EXCEPT !.pc = "send"]
        /\ pending' = pending + TxCount(b) /\ parseQ' = parseQ /\ fetchQ' = fetchQ
    BY <1>3, <1>11 DEF CountPending
  <2>2. parser'.pc = "send" /\ parser'.batch = b
    BY <1>2, <1>3, <2>1 DEF Parser
  <2>3. Unsent = 0 /\ Unsent' = Subtracts(b)
    BY <2>1, <2>2 DEF Unsent
  <2>4. s + Unsent' <= pending' /\ pending' \in Nat
    BY <1>2, <1>8, <1>9, <1>10, <2>1, <2>3
  <2>5. Covered'
    BY <1>8, <1>9, <2>1, <2>4 DEF Covered
  <2>6. Resetting' => NoneFresh'
    BY <1>1, <1>3, <1>5, <2>1, <2>2 DEF NoneFresh
  <2> QED
    BY <1>2, <2>4, <2>5, <2>6 DEF CounterInv
<1>12. CASE SendParsed
  <2>1. /\ parser.pc = "send" /\ parser' = IdleParser
        /\ parseQ' = Append(parseQ, b) /\ pending' = pending /\ fetchQ' = fetchQ
    BY <1>3, <1>12 DEF SendParsed, shared
  <2>2. Unsent = Subtracts(b) /\ Unsent' = 0
    BY <1>3, <1>4, <2>1 DEF Unsent
  <2>3. PICK g \in [0..Len(parseQ') -> Nat] : Sums(parseQ', g) /\ g[Len(parseQ')] = s + Subtracts(b)
    BY <1>2, <1>8, <1>9, <2>1, SumsAppend, ZenonT(60)
  <2>4. g[Len(parseQ')] + Unsent' <= pending'
    BY <1>2, <1>8, <1>9, <1>10, <2>1, <2>2, <2>3
  <2>5. Covered'
    BY <2>3, <2>4 DEF Covered
  <2>6. ASSUME Resetting' PROVE NoneFresh'
    <3>1. /\ Len(parseQ') = Len(parseQ) + 1 /\ parseQ'[Len(parseQ) + 1] = b
          /\ \A i \in 1..Len(parseQ) : parseQ'[i] = parseQ[i]
      BY <1>2, <2>1, AppendProperties
    <3>2. ~b.fresh /\ \A i \in 1..Len(parseQ) : ~parseQ[i].fresh
      BY <1>3, <1>5, <2>6 DEF NoneFresh
    <3>3. \A i \in 1..Len(parseQ') : ~parseQ'[i].fresh
      <4> SUFFICES ASSUME NEW i \in 1..(Len(parseQ) + 1) PROVE ~parseQ'[i].fresh
        BY <3>1
      <4>1. i \in 1..Len(parseQ) \/ i = Len(parseQ) + 1
        BY <1>2
      <4> QED
        BY <3>1, <3>2, <4>1
    <3> QED
      BY <1>1, <1>4, <1>5, <2>1, <2>6, <3>3 DEF NoneFresh
  <2> QED
    BY <1>2, <2>1, <2>5, <2>6 DEF CounterInv
<1> QED
  BY <1>6, <1>7, <1>11, <1>12 DEF ParserStep

\* The steps of the writer that neither receive nor reset.
LEMMA WriterCountsNothing ==
    ASSUME IInv, IInv', QuickReset, CounterInv,
           \/ CheckReorg \/ WriteBatch \/ WriteFails \/ MarkRollback \/ CommitRollback
           \/ ClearCaches \/ IdleTimeout
    PROVE  CounterInv'
<1>1. parseQ' = parseQ /\ pending' = pending /\ parser' = parser
  BY DEF CheckReorg, WriteBatch, WriteFails, MarkRollback, CommitRollback, ClearCaches,
         IdleTimeout, shared
<1>2. pending' \in Nat /\ Covered'
  BY <1>1, CoveredKept DEF CounterInv
<1>3. writer'.pc \in {"down", "undo", "write", "bump", "recv", "marked", "clear"}
  <2>1. writer \in Writer
    BY DEF IInv, TasksInv
  <2>2. CASE CheckReorg
    BY <2>1, <2>2 DEF CheckReorg, Writer, IdleWriter
  <2>3. CASE WriteBatch \/ ClearCaches \/ IdleTimeout
    BY <2>3 DEF WriteBatch, ClearCaches, IdleTimeout, IdleWriter
  <2>4. CASE WriteFails \/ MarkRollback \/ CommitRollback
    BY <2>1, <2>4, Zenon DEF WriteFails, MarkRollback, CommitRollback, Writer
  <2> QED
    BY <2>2, <2>3, <2>4
<1>4. ~Resetting' /\ NoUnderflow'
  BY <1>3 DEF Resetting, NoUnderflow
<1> QED
  BY <1>2, <1>4 DEF CounterInv

\* The writer subtracts what was counted, and a reset leaves nothing to subtract.
LEMMA WriterCounts ==
    ASSUME IInv, IInv', QuickReset, CounterInv,
           \/ ReceiveParsed \/ BumpEpoch \/ NotifyFetcher \/ DrainParsed \/ ZeroPending
    PROVE  CounterInv'
<1>1. /\ fetchQ \in Seq(GoodBatch) /\ Len(fetchQ) \in Nat /\ parser \in Parser
      /\ parseQ \in Seq(GoodBatch) /\ Len(parseQ) \in Nat /\ writer \in Writer
      /\ fetcher \in Fetcher
      /\ pending \in Nat /\ Covered /\ writer.pc # "panic"
  BY LenProperties DEF IInv, TasksInv, CounterInv, NoUnderflow
<1>2. PICK f \in [0..Len(parseQ) -> Nat] : Sums(parseQ, f) /\ f[Len(parseQ)] + Unsent <= pending
  BY <1>1 DEF Covered
<1>3. PICK s \in Nat : s = f[Len(parseQ)]
  BY <1>1, <1>2
<1>4. Unsent \in Nat
  BY <1>1, SubtractsType DEF Unsent, Parser
<1>5. CASE ReceiveParsed
  <2>1. PICK b \in GoodBatch : b = Head(parseQ)
    BY <1>1, <1>5, HeadTailProperties DEF ReceiveParsed
  <2>2. PICK n \in Nat : n = Subtracts(b)
    BY SubtractsType
  <2>3. parseQ # <<>> /\ parseQ' = Tail(parseQ) /\ parser' = parser
    BY <1>5 DEF ReceiveParsed
  <2>4. /\ n <= s
        /\ \E g \in [0..Len(parseQ') -> Nat] : Sums(parseQ', g) /\ g[Len(parseQ')] = s - n
    BY <1>1, <1>2, <1>3, <2>1, <2>2, <2>3, SumsTail, ZenonT(60)
  <2>5. ~(n > pending)
    BY <1>1, <1>2, <1>3, <1>4, <2>4
  <2>6. /\ pending' = pending - n
        /\ writer'.pc \in {"recv", "bump", "check"}
    <3>1. ~(Subtracts(Head(parseQ)) > pending) /\ Subtracts(Head(parseQ)) = n
      BY <2>1, <2>2, <2>5
    <3>2. /\ pending' = pending - n
          /\ writer' \in {IdleWriter, [IdleWriter EXCEPT !.pc = "bump"],
                         [IdleWriter EXCEPT !.pc = "check", !.batch = b]}
      BY <1>5, <2>1, <3>1 DEF ReceiveParsed
    <3> QED
      BY <3>2 DEF IdleWriter
  <2>7. Unsent' = Unsent
    BY <2>3 DEF Unsent
  <2>8. pending' \in Nat /\ (s - n) + Unsent' <= pending'
    BY <1>1, <1>2, <1>3, <1>4, <2>4, <2>5, <2>6, <2>7
  <2>9. Covered'
    BY <2>4, <2>8 DEF Covered
  <2> QED
    BY <2>6, <2>8, <2>9 DEF CounterInv, Resetting, NoUnderflow
<1>6. CASE BumpEpoch
  <2>1. /\ fetcher' = [fetcher EXCEPT !.batch = Stale(fetcher.batch)]
        /\ parser' = [parser EXCEPT !.batch = Stale(parser.batch)]
        /\ fetchQ' = [i \in DOMAIN fetchQ |-> Stale(fetchQ[i])]
        /\ parseQ' = [i \in DOMAIN parseQ |-> Stale(parseQ[i])]
        /\ writer' = [writer EXCEPT !.pc = "notify"]
        /\ pending' = pending
    BY <1>1, <1>6 DEF BumpEpoch, shared, Fetcher, Parser
  <2>2. \A b \in GoodBatch : ~Stale(b).fresh
    BY DEF Stale, GoodBatch
  <2>3. ASSUME NEW q \in Seq(GoodBatch), NEW r, r = [i \in DOMAIN q |-> Stale(q[i])]
        PROVE  \A i \in 1..Len(r) : ~r[i].fresh
    <3>1. r \in Seq(GoodBatch) /\ DOMAIN r = 1..Len(r) /\ DOMAIN q = 1..Len(q) /\ DOMAIN r = DOMAIN q
      BY <2>3, StaleTypes, LenProperties
    <3>2. \A i \in 1..Len(r) : q[i] \in GoodBatch /\ r[i] = Stale(q[i])
      BY <2>3, <3>1, ElementOfSeq
    <3> QED
      BY <2>2, <3>2
  <2>4. (\A i \in 1..Len(fetchQ') : ~fetchQ'[i].fresh) /\ \A i \in 1..Len(parseQ') : ~parseQ'[i].fresh
    BY <1>1, <2>1, <2>3, Zenon
  <2>5. ~fetcher'.batch.fresh /\ ~parser'.batch.fresh
    <3>1. fetcher'.batch = Stale(fetcher.batch) /\ fetcher.batch \in GoodBatch
      BY <1>1, <2>1 DEF Fetcher
    <3>2. parser'.batch = Stale(parser.batch) /\ parser.batch \in GoodBatch
      BY <1>1, <2>1 DEF Parser
    <3> QED
      BY <2>2, <3>1, <3>2
  <2>6. parseQ' \in Seq(GoodBatch) /\ parser'.batch \in GoodBatch
    BY DEF IInv, TasksInv, Parser
  <2>7. PICK g \in [0..Len(parseQ') -> Nat] : Sums(parseQ', g) /\ g[Len(parseQ')] = 0
    BY <2>4, <2>6, SumsStale
  <2>8. Unsent' = 0
    BY <2>5, <2>6, SubtractsType DEF Unsent
  <2>9. Covered' /\ pending' \in Nat
    <3>1. g[Len(parseQ')] + Unsent' <= pending' /\ pending' \in Nat
      BY <1>1, <2>1, <2>7, <2>8
    <3> QED
      BY <2>7, <3>1 DEF Covered
  <2>10. writer'.pc = "notify"
    BY <1>1, <2>1 DEF Writer
  <2> QED
    BY <2>4, <2>5, <2>9, <2>10 DEF CounterInv, NoneFresh, NoUnderflow
<1>7. CASE NotifyFetcher
  <2>1. /\ UNCHANGED <<fetcher, fetchQ, parser, parseQ, pending>>
        /\ writer.pc = "notify" /\ writer' = [writer EXCEPT !.pc = "drain"]
    BY <1>7 DEF NotifyFetcher
  <2>2. writer'.pc = "drain" /\ NoneFresh
    BY <1>1, <2>1 DEF Writer, CounterInv, Resetting
  <2>3. pending' \in Nat /\ Covered'
    BY <1>1, <2>1, CoveredKept
  <2> QED
    BY <2>1, <2>2, <2>3 DEF CounterInv, NoneFresh, NoUnderflow
<1>8. CASE DrainParsed
  <2>1. /\ UNCHANGED <<fetcher, fetchQ, parser, pending>> /\ NoneFresh
        /\ writer' \in {writer, [writer EXCEPT !.pc = "zero"]} /\ writer.pc = "drain"
        /\ (parseQ # <<>> /\ parseQ' = Tail(parseQ)) \/ parseQ' = parseQ
    BY <1>8 DEF DrainParsed, shared, CounterInv, Resetting
  <2>2. writer'.pc # "panic"
    BY <1>1, <2>1 DEF Writer
  <2>3. \A i \in 1..Len(parseQ') : ~parseQ'[i].fresh
    <3>1. CASE parseQ' = parseQ
      BY <2>1, <3>1 DEF NoneFresh
    <3>2. CASE parseQ # <<>> /\ parseQ' = Tail(parseQ)
      <4>1. Len(parseQ') = Len(parseQ) - 1 /\ \A i \in 1..Len(parseQ') : parseQ'[i] = parseQ[i + 1]
        BY <1>1, <3>2, HeadTailProperties
      <4> SUFFICES ASSUME NEW i \in 1..Len(parseQ') PROVE ~parseQ'[i].fresh
        OBVIOUS
      <4>2. i + 1 \in 1..Len(parseQ)
        BY <1>1, <4>1
      <4> QED
        BY <2>1, <4>1, <4>2 DEF NoneFresh
    <3> QED
      BY <2>1, <3>1, <3>2
  <2>4. parseQ' \in Seq(GoodBatch)
    BY DEF IInv, TasksInv
  <2>5. PICK g \in [0..Len(parseQ') -> Nat] : Sums(parseQ', g) /\ g[Len(parseQ')] = 0
    BY <2>3, <2>4, SumsStale
  <2>6. Unsent' = Unsent
    BY <2>1 DEF Unsent
  <2>7. Unsent <= pending
    BY <1>1, <1>2, <1>3, <1>4
  <2>8. Covered' /\ pending' \in Nat
    <3>1. g[Len(parseQ')] + Unsent' <= pending' /\ pending' \in Nat
      BY <1>1, <1>4, <2>1, <2>5, <2>6, <2>7
    <3> QED
      BY <2>5, <3>1 DEF Covered
  <2> QED
    BY <2>1, <2>2, <2>3, <2>8 DEF CounterInv, NoneFresh, NoUnderflow
<1>9. CASE ZeroPending
  <2>1. UNCHANGED <<parser, parseQ>> /\ pending' = 0 /\ writer' = IdleWriter /\ NoneFresh
    BY <1>9 DEF ZeroPending, CounterInv, Resetting
  <2>2. PICK g \in [0..Len(parseQ) -> Nat] : Sums(parseQ, g) /\ g[Len(parseQ)] = 0
    BY <1>1, <2>1, SumsStale, Zenon DEF NoneFresh
  <2>3. Unsent' = 0
    BY <1>1, <2>1, SubtractsType DEF Unsent, NoneFresh, Parser
  <2>4. Covered' /\ pending' \in Nat
    BY <2>1, <2>2, <2>3 DEF Covered
  <2>5. writer'.pc = "recv"
    BY <2>1 DEF IdleWriter
  <2> QED
    BY <2>4, <2>5 DEF CounterInv, Resetting, NoUnderflow
<1> QED
  BY <1>5, <1>6, <1>7, <1>8, <1>9

\* An empty queue sums to nothing.
LEMMA SumsEmpty ==
    ASSUME NEW q, q = <<>>
    PROVE  \E f \in [0..Len(q) -> Nat] : Sums(q, f) /\ f[Len(q)] = 0
<1>1. q \in Seq(GoodBatch) /\ Len(q) = 0
  BY EmptySeq
<1>2. \A i \in 1..Len(q) : ~q[i].fresh
  BY <1>1
<1> QED
  BY <1>1, <1>2, SumsStale, Zenon

\* Every process starts with nothing counted and nothing queued.
LEMMA RestartCounts ==
    ASSUME Restart
    PROVE  CounterInv'
<1>1. Unsent' = 0 /\ parseQ' = <<>> /\ pending' = 0 /\ writer'.pc = "recv"
  BY DEF Restart, Unsent, IdleParser, IdleWriter
<1>2. PICK g \in [0..Len(parseQ') -> Nat] : Sums(parseQ', g) /\ g[Len(parseQ')] = 0
  BY <1>1, SumsEmpty
<1>3. Covered'
  BY <1>1, <1>2 DEF Covered
<1> QED
  BY <1>1, <1>3, ZenonT(60) DEF CounterInv, Resetting, NoUnderflow

\* So does the first one.
LEMMA InitCounts == Init => CounterInv
<1> SUFFICES ASSUME Init PROVE CounterInv
  OBVIOUS
<1>1. Unsent = 0 /\ parseQ = <<>> /\ pending = 0 /\ writer.pc = "recv"
  BY DEF Init, Unsent, IdleParser, IdleWriter
<1>2. PICK g \in [0..Len(parseQ) -> Nat] : Sums(parseQ, g) /\ g[Len(parseQ)] = 0
  BY <1>1, SumsEmpty
<1>3. Covered
  BY <1>1, <1>2 DEF Covered
<1> QED
  BY <1>1, <1>3, ZenonT(60) DEF CounterInv, Resetting, NoUnderflow

\* The counter stays covered.
LEMMA NextCounts == IInv /\ IInv' /\ CounterInv /\ [Next]_vars => CounterInv'
<1> SUFFICES ASSUME IInv, IInv', CounterInv, [Next]_vars, QuickReset PROVE CounterInv'
  BY DEF CounterInv
<1>1. CASE UNCHANGED vars
  <2>1. UNCHANGED <<fetcher, fetchQ, parser, parseQ, writer, pending>>
    BY <1>1 DEF vars, tasks, shared
  <2> QED
    BY <2>1 DEF CounterInv, Resetting, NoneFresh, Covered, Unsent, NoUnderflow
<1>2. CASE NodeExtend \/ NodeSwitch \/ FetcherStep
  BY <1>2, FetcherCounts
<1>3. CASE ParserStep
  BY <1>3, ParserCounts
<1>4. CASE WriterStep
  BY <1>4, WriterCounts, WriterCountsNothing DEF WriterStep
<1>5. CASE WriteFails
  BY <1>5, WriterCountsNothing
<1>6. CASE Restart
  BY <1>6, RestartCounts
<1> QED
  BY <1>1, <1>2, <1>3, <1>4, <1>5, <1>6 DEF Next

\* atomic_checked_sub_u64 never panics, for every capacity, batch size and
\* number of faults, as long as a reset is quicker than a fetch or a retry:
\* then nothing that carries the new epoch is counted before the counter is
\* zeroed.  Without that the pending count of a fresh batch can be lost.
THEOREM PendingNeverUnderflows == Spec => [](QuickReset => NoUnderflow)
<1>1. CounterInv => (QuickReset => NoUnderflow)
  BY DEF CounterInv
<1> QED
  BY <1>1, Invariant, InitCounts, NextCounts, PTL DEF Spec

-----------------------------------------------------------------------------
(* Resolving inputs while the node keeps its branch, with quick resets. *)

\* The height at which the node's branch creates the followed cell, and the
\* height that the store keeps whatever the rollback under way does.
Made == CreatedAt(node)
Floor == IF writer.pc \in {"undo", "marked"} THEN writer.target ELSE Len(db)

\* The cell is found in the cache or in the store, for good.
Known == cache # 0 \/ Made <= Floor

Within(b) == b.start <= Made /\ Made <= Len(b.chain)
Covers(b) == b.fresh /\ Within(b)

\* The parser, or one of the first n queued batches, will publish the cell.
Ahead == parser.pc \in {"resolve", "publish"} /\ Covers(parser.batch)
Queued(n) == \E j \in 1..n : Covers(fetchQ[j])
Supplied(start, n) == start <= Made \/ Ahead \/ Queued(n)

Real(b) == 1 <= b.start /\ IsPrefix(b.chain, node)

\* Everything stored or under way is of the node's branch, and no task ends.
StoreReal ==
    /\ node \in Chains /\ IsPrefix(db, node)
    /\ cache \in {0, Made} /\ ctip \in Int /\ ctip <= Floor
FetcherReal ==
    /\ fetcher.pc # "gone" /\ fetcher.next <= Len(node) + 1
    /\ fetcher.pc # "top" => Real(fetcher.batch)
QueueReal == \A i \in 1..Len(fetchQ) : Real(fetchQ[i])
ParserReal ==
    /\ parser.pc # "gone"
    /\ parser.pc # "recv" => Real(parser.batch)
    /\ \A i \in 1..Len(parseQ) : Real(parseQ[i])
WriterReal ==
    /\ writer.pc # "down" /\ writer.kind # "reorg"
    /\ writer.pc \in {"check", "write"} => Real(writer.batch)

BranchInv == StoreReal /\ FetcherReal /\ QueueReal /\ ParserReal /\ WriterReal

\* While the cell is in neither place, every fresh batch that may need it
\* contains it or comes after one that does, and no batch past publication
\* contains it.
FedFetcher ==
    /\ fetcher.pc = "epoch" \/ (fetcher.pc # "top" /\ fetcher.batch.fresh)
         => Supplied(fetcher.batch.start, Len(fetchQ))
    /\ fetcher.pc = "top" /\ ~notify /\ fetcher.next # 0 /\ writer.pc # "notify"
         => Supplied(fetcher.next, Len(fetchQ))
FedQueue == \A i \in 1..Len(fetchQ) : fetchQ[i].fresh => Supplied(fetchQ[i].start, i - 1)
FedParser ==
    /\ parser.pc = "resolve" /\ parser.batch.fresh => parser.batch.start <= Made
    /\ parser.pc \in {"count", "send"} => ~Covers(parser.batch)
    /\ \A i \in 1..Len(parseQ) : ~Covers(parseQ[i])
FedWriter ==
    /\ Len(db) < Made
    /\ writer.pc \in {"check", "write"} => ~Within(writer.batch)

Fed == FedFetcher /\ FedQueue /\ FedParser /\ FedWriter

\* A fetcher that holds a stale batch has been told to start again.
Told ==
    fetcher.pc \in {"fetch", "send"} /\ ~fetcher.batch.fresh => notify \/ writer.pc = "notify"

FeedInv == Told /\ (writer.pc # "bump" /\ ~Known => Fed)

SteadyInv ==
    /\ faults \in [switches : Nat, writes : Nat]
    /\ QuickReset /\ faults.switches = 0 => BranchInv /\ FeedInv

\* IsPrefix, block by block.
LEMMA PrefixPoints ==
    ASSUME NEW p \in Word, NEW t \in Word
    PROVE  IsPrefix(p, t) <=> Len(p) <= Len(t) /\ \A i \in 1..Len(p) : p[i] = t[i]
<1>1. Len(p) \in Nat /\ Len(t) \in Nat
  BY LenProperties DEF Word
<1> SUFFICES ASSUME Len(p) <= Len(t)
             PROVE  SubSeq(t, 1, Len(p)) = p <=> \A i \in 1..Len(p) : p[i] = t[i]
  BY DEF IsPrefix
<1>2. PICK c \in Word : c = SubSeq(t, 1, Len(p)) /\ Len(c) = Len(p)
  <2>1. Len(p) \in 0..Len(t)
    BY <1>1
  <2> QED
    BY <2>1, PrefixType, Zenon
<1>3. \A i \in 1..Len(p) : c[i] = t[i]
  <2>1. \A i \in 1..Len(p) : t[i] \in Label
    BY <1>1, ElementOfSeq DEF Word
  <2>2. \A i \in 1..(Len(p) - 1 + 1) : SubSeq(t, 1, Len(p))[i] = t[1 + i - 1]
    BY <1>1, <2>1, SubSeqProperties
  <2> QED
    BY <1>1, <1>2, <2>2
<1>4. ASSUME \A i \in 1..Len(p) : p[i] = t[i] PROVE c = p
  BY <1>2, <1>3, <1>4, SeqEqual DEF Word
<1> QED
  BY <1>2, <1>3, <1>4, Zenon

\* What is a prefix of a prefix is a prefix, and so is what a cut leaves.
LEMMA PrefixOfPrefix ==
    ASSUME NEW p \in Word, NEW q \in Word, NEW t \in Word, IsPrefix(p, q), IsPrefix(q, t)
    PROVE  IsPrefix(p, t)
<1>1. Len(p) \in Nat /\ Len(q) \in Nat /\ Len(t) \in Nat
  BY LenProperties DEF Word
<1> QED
  BY <1>1, PrefixPoints

LEMMA CutIsPrefix ==
    ASSUME NEW t \in Word, NEW h \in 0..Len(t)
    PROVE  IsPrefix(SubSeq(t, 1, h), t)
BY PrefixType, LenProperties DEF Word, IsPrefix

\* First is the least element.
LEMMA FirstLeast ==
    ASSUME NEW S \in SUBSET Nat, S # {}
    PROVE  First(S) \in S /\ \A j \in S : First(S) <= j
<1>1. \E i \in S : \A j \in S : i <= j
  BY LeastExists
<1> QED
  BY <1>1, Zenon DEF First

\* The first block of a kind in a prefix is that of the chain, if it is there.
LEMMA FirstOfPrefix ==
    ASSUME NEW p \in Word, NEW t \in Word, IsPrefix(p, t), NEW labels,
           NEW f, f = First(Positions(t, labels))
    PROVE  /\ f \in 0..Len(t)
           /\ First(Positions(p, labels)) = IF f <= Len(p) THEN f ELSE 0
<1>1. Len(p) \in Nat /\ Len(t) \in Nat
  BY LenProperties DEF Word
<1> DEFINE P == Positions(p, labels)
           T == Positions(t, labels)
<1>2. P \in SUBSET Nat /\ T \in SUBSET Nat /\ T \subseteq 1..Len(t) /\ P \subseteq 1..Len(p)
  BY <1>1 DEF Positions
<1>3. \A i \in Nat : i \in P <=> i \in T /\ i <= Len(p)
  BY <1>1, PrefixPoints DEF Positions
<1> HIDE DEF P, T
<1>4. CASE T = {}
  <2>1. P = {} /\ f = 0
    BY <1>2, <1>3, <1>4, Zenon DEF First, T
  <2>2. First(P) = 0
    BY <2>1, Zenon DEF First
  <2> QED
    BY <1>1, <2>1, <2>2 DEF P
<1>5. CASE T # {}
  <2>1. f \in T /\ \A j \in T : f <= j
    BY <1>2, <1>5, FirstLeast DEF T
  <2>2. f \in Nat /\ f \in 0..Len(t)
    BY <1>2, <2>1
  <2>3. CASE f <= Len(p)
    <3>1. f \in P
      BY <1>3, <2>1, <2>2, <2>3
    <3>2. PICK g \in P : g = First(P) /\ g <= f
      BY <1>2, <3>1, FirstLeast, Zenon
    <3>3. g \in Nat /\ g \in T
      BY <1>2, <1>3, Zenon
    <3>4. f = g
      BY <2>1, <2>2, <3>2, <3>3
    <3> QED
      BY <2>2, <2>3, <3>2, <3>4 DEF P
  <2>4. CASE ~(f <= Len(p))
    <3>1. P = {}
      <4> SUFFICES ASSUME NEW i \in P PROVE FALSE
        BY Zenon
      <4>1. i \in Nat /\ i \in T /\ i <= Len(p)
        BY <1>2, <1>3
      <4> QED
        BY <1>1, <2>1, <2>2, <2>4, <4>1
    <3> QED
      BY <2>2, <2>4, <3>1 DEF First, P
  <2> QED
    BY <2>3, <2>4
<1> QED
  BY <1>4, <1>5

\* Where the cell is on the node's branch, and in what is of that branch.
LEMMA CreatedOnBranch ==
    ASSUME node \in Word, NEW ch \in Word, IsPrefix(ch, node)
    PROVE  /\ Made \in 0..Len(node)
           /\ CreatedAt(ch) = IF Made <= Len(ch) THEN Made ELSE 0
BY FirstOfPrefix, Zenon DEF Made, CreatedAt

\* A spend comes after the creation.
LEMMA SpendOnBranch ==
    ASSUME node \in Word, node \in Chains, NEW ch \in Word, IsPrefix(ch, node), SpentAt(ch) # 0
    PROVE  Made # 0 /\ Made <= Len(ch)
<1>1. Len(ch) \in Nat /\ Len(node) \in Nat
  BY LenProperties DEF Word
<1>2. PICK s : s = SpentAt(node)
  BY Zenon
<1>3. s \in 0..Len(node) /\ SpentAt(ch) = IF s <= Len(ch) THEN s ELSE 0
  BY <1>2, FirstOfPrefix, Zenon DEF SpentAt
<1>4. s # 0 /\ s <= Len(ch)
  BY <1>3
<1>5. Made \in 1..s
  BY <1>2, <1>4, Zenon DEF Chains, Valid, Made
<1> QED
  BY <1>1, <1>3, <1>4, <1>5

\* A new block leaves the cell where it is, or creates it above everything.
LEMMA GrownNode ==
    ASSUME node \in Word, NEW l \in Label, node' = Append(node, l)
    PROVE  /\ Len(node') = Len(node) + 1 /\ IsPrefix(node, node') /\ node' \in Word
           /\ Made' = Made \/ (Made = 0 /\ Made' = Len(node'))
<1>1. Len(node) \in Nat
  BY LenProperties DEF Word
<1>2. /\ node' \in Word /\ Len(node') = Len(node) + 1
      /\ \A i \in 1..Len(node) : node'[i] = node[i]
  BY AppendProperties DEF Word
<1>3. IsPrefix(node, node')
  <2>1. Len(node) <= Len(node')
    BY <1>1, <1>2
  <2> QED
    BY <1>2, <2>1, PrefixPoints, Zenon
<1>4. PICK m : m = Made'
  BY Zenon
<1>5. m \in 0..Len(node') /\ Made = IF m <= Len(node) THEN m ELSE 0
  BY <1>2, <1>3, <1>4, FirstOfPrefix, Zenon DEF Made, CreatedAt
<1> QED
  BY <1>1, <1>2, <1>3, <1>4, <1>5

\* What is of the branch stays so while a step leaves it and the node alone.
LEMMA RealKept ==
    ASSUME node' = node, BranchInv
    PROVE  /\ Made' = Made
           /\ UNCHANGED <<db, writer, cache, ctip>> => StoreReal'
           /\ UNCHANGED fetcher => FetcherReal'
           /\ UNCHANGED fetchQ => QueueReal'
           /\ UNCHANGED <<parser, parseQ>> => ParserReal'
           /\ UNCHANGED writer => WriterReal'
<1>1. Made' = Made
  BY Zenon DEF Made
<1>2. ASSUME UNCHANGED <<db, writer, cache, ctip>> PROVE StoreReal'
  BY <1>1, <1>2, Zenon DEF BranchInv, StoreReal, Floor
<1>3. ASSUME UNCHANGED fetcher PROVE FetcherReal'
  BY <1>3, Zenon DEF BranchInv, FetcherReal, Real
<1>4. ASSUME UNCHANGED fetchQ PROVE QueueReal'
  BY <1>4, Zenon DEF BranchInv, QueueReal, Real
<1>5. ASSUME UNCHANGED <<parser, parseQ>> PROVE ParserReal'
  BY <1>5, Zenon DEF BranchInv, ParserReal, Real
<1>6. ASSUME UNCHANGED writer PROVE WriterReal'
  BY <1>6, Zenon DEF BranchInv, WriterReal, Real
<1> QED
  BY <1>1, <1>2, <1>3, <1>4, <1>5, <1>6, Zenon

\* And so does what is said of it while the cell is in neither place.
LEMMA FedKept ==
    ASSUME node' = node, Fed
    PROVE  /\ UNCHANGED <<parser, fetchQ, fetcher, notify, writer>> => FedFetcher'
           /\ UNCHANGED <<parser, fetchQ>> => FedQueue'
           /\ UNCHANGED <<parser, parseQ>> => FedParser'
           /\ UNCHANGED <<db, writer>> => FedWriter'
<1>1. Made' = Made
  BY Zenon DEF Made
<1>2. ASSUME UNCHANGED <<parser, fetchQ, fetcher, notify, writer>> PROVE FedFetcher'
  BY <1>1, <1>2, Zenon DEF Fed, FedFetcher, Supplied, Ahead, Queued, Covers, Within
<1>3. ASSUME UNCHANGED <<parser, fetchQ>> PROVE FedQueue'
  BY <1>1, <1>3, Zenon DEF Fed, FedQueue, Supplied, Ahead, Queued, Covers, Within
<1>4. ASSUME UNCHANGED <<parser, parseQ>> PROVE FedParser'
  BY <1>1, <1>4, Zenon DEF Fed, FedParser, Covers, Within
<1>5. ASSUME UNCHANGED <<db, writer>> PROVE FedWriter'
  BY <1>1, <1>5, Zenon DEF Fed, FedWriter, Within
<1> QED
  BY <1>2, <1>3, <1>4, <1>5, Zenon

\* The fetcher plans above what is stored or above what it has sent.
LEMMA PlanFeeds ==
    ASSUME IInv, IInv', QuickReset, BranchInv, FeedInv, PlanFetch
    PROVE  BranchInv' /\ FeedInv'
<1>1. /\ node \in Word /\ Len(node) \in Nat /\ db \in Word /\ Len(db) \in Nat
      /\ fetcher \in Fetcher /\ fetcher.next \in Nat
  BY LenProperties DEF IInv, TasksInv, Word, Fetcher
<1>2. /\ UNCHANGED <<node, db, fetchQ, parser, parseQ, writer, cache, ctip>>
      /\ fetcher.pc = "top" /\ notify' = FALSE /\ ~Resetting
  BY Zenon DEF PlanFetch
<1>3. Made' = Made /\ StoreReal' /\ QueueReal' /\ ParserReal' /\ WriterReal'
  BY <1>2, RealKept, Zenon
<1>4. PICK next \in Nat : next = IF notify THEN 0 ELSE fetcher.next
  BY <1>1
<1>5. PICK start \in Nat : start = IF next = 0 THEN Len(db) + 1 ELSE next
  BY <1>1
<1>6. 1 <= start
  BY <1>1, <1>5
<1>7. next <= Len(node) + 1
  BY <1>1, <1>4 DEF BranchInv, FetcherReal
<1>8. ASSUME Fed PROVE Supplied(start, Len(fetchQ)) /\ (next # 0 => Supplied(next, Len(fetchQ)))
  <2>1. next # 0 => Supplied(next, Len(fetchQ))
    BY <1>2, <1>4, <1>8, Zenon DEF Fed, FedFetcher, Resetting
  <2>2. CASE next = 0
    <3>1. start <= Made
      <4>1. Len(db) < Made /\ Made \in Nat
        BY <1>1, <1>8, HeightTypes DEF Fed, FedWriter, Made
      <4> QED
        BY <1>1, <1>5, <2>2, <4>1
    <3> QED
      BY <2>2, <3>1, Zenon DEF Supplied
  <2> QED
    BY <1>5, <2>1, <2>2, Zenon
<1>9. CASE start > Len(node)
  <2>1. fetcher' = [fetcher EXCEPT !.next = next]
    BY <1>4, <1>5, <1>9, Zenon DEF PlanFetch
  <2>2. fetcher'.pc = "top" /\ fetcher'.next = next
    BY <1>1, <1>2, <2>1, Zenon DEF Fetcher
  <2>3. FetcherReal'
    BY <1>2, <1>7, <2>2 DEF FetcherReal
  <2>4. Told'
    BY <2>2 DEF Told
  <2>5. ASSUME writer'.pc # "bump", ~Known' PROVE Fed'
    <3>1. Fed
      BY <1>2, <1>3, <2>5, Zenon DEF FeedInv, Known, Floor
    <3>2. FedFetcher'
      BY <1>2, <1>3, <1>8, <2>2, <3>1, Zenon DEF FedFetcher, Supplied, Ahead, Queued, Covers, Within
    <3> QED
      BY <1>2, <3>1, <3>2, FedKept, Zenon DEF Fed
  <2> QED
    BY <1>3, <2>3, <2>4, <2>5, Zenon DEF BranchInv, FeedInv
<1>10. CASE ~(start > Len(node))
  <2>1. PICK end \in start..Len(node) :
          fetcher' = [pc |-> "epoch", next |-> next,
                      batch |-> [NoBatch EXCEPT !.start = start,
                                                !.chain = SubSeq(node, 1, end)]]
    BY <1>4, <1>5, <1>10, Zenon DEF PlanFetch
  <2>2. fetcher'.pc = "epoch" /\ fetcher'.next = next /\ fetcher'.batch.start = start
        /\ fetcher'.batch.chain = SubSeq(node, 1, end)
    BY <2>1, Zenon DEF NoBatch
  <2>3. end \in 0..Len(node)
    BY <1>1, <2>1
  <2>4. IsPrefix(SubSeq(node, 1, end), node)
    BY <1>1, <2>3, CutIsPrefix, Zenon
  <2>5. FetcherReal'
    BY <1>2, <1>6, <1>7, <2>2, <2>4 DEF FetcherReal, Real
  <2>6. Told'
    BY <2>2 DEF Told
  <2>7. ASSUME writer'.pc # "bump", ~Known' PROVE Fed'
    <3>1. Fed
      BY <1>2, <1>3, <2>7, Zenon DEF FeedInv, Known, Floor
    <3>2. FedFetcher'
      BY <1>2, <1>3, <1>8, <2>2, <3>1, Zenon DEF FedFetcher, Supplied, Ahead, Queued, Covers, Within
    <3> QED
      BY <1>2, <3>1, <3>2, FedKept, Zenon DEF Fed
  <2> QED
    BY <1>3, <2>5, <2>6, <2>7, Zenon DEF BranchInv, FeedInv
<1> QED
  BY <1>9, <1>10, Zenon

\* What it loads and fetches starts where it planned.
LEMMA FetchFeeds ==
    ASSUME IInv, IInv', QuickReset, BranchInv, FeedInv, LoadEpoch \/ FetchBlocks
    PROVE  BranchInv' /\ FeedInv'
<1>1. /\ node \in Word /\ Len(node) \in Nat /\ fetcher \in Fetcher
  BY LenProperties DEF IInv, TasksInv, Word
<1>2. UNCHANGED <<node, db, fetchQ, parser, parseQ, writer, notify, cache, ctip>>
  BY Zenon DEF LoadEpoch, FetchBlocks, shared
<1>3. Made' = Made /\ StoreReal' /\ QueueReal' /\ ParserReal' /\ WriterReal'
  BY <1>2, RealKept, Zenon
<1>4. PICK b \in GoodBatch : b = fetcher.batch
  BY <1>1, Zenon DEF Fetcher
<1>5. /\ fetcher.pc \in {"epoch", "fetch"} /\ Real(b)
      /\ b.chain \in Word /\ Len(b.chain) \in 0..Len(node)
  <2>1. fetcher.pc \in {"epoch", "fetch"}
    BY Zenon DEF LoadEpoch, FetchBlocks
  <2>2. Real(b) /\ b.chain \in Word
    BY <1>4, <2>1 DEF BranchInv, FetcherReal, GoodBatch
  <2>3. Len(b.chain) \in Nat /\ Len(b.chain) <= Len(node)
    BY <2>2, LenProperties DEF Word, Real, IsPrefix
  <2> QED
    BY <1>1, <2>1, <2>2, <2>3
<1>6. /\ fetcher'.pc \in {"fetch", "send"} /\ fetcher'.next = fetcher.next
      /\ fetcher'.batch.start = b.start /\ IsPrefix(fetcher'.batch.chain, node)
      /\ \/ fetcher.pc = "epoch" /\ fetcher'.batch.fresh
         \/ fetcher.pc = "fetch" /\ fetcher'.batch.fresh = b.fresh
  <2>1. CASE LoadEpoch
    <3>1. fetcher' = [fetcher EXCEPT !.pc = "fetch", !.batch = [b EXCEPT !.fresh = TRUE]]
      BY <1>1, <1>4, <2>1, Zenon DEF LoadEpoch, Fetcher
    <3>2. PICK c : c = [b EXCEPT !.fresh = TRUE]
      BY Zenon
    <3>3. c.start = b.start /\ c.chain = b.chain /\ c.fresh = TRUE
      BY <3>2, Zenon DEF GoodBatch
    <3>4. fetcher'.pc = "fetch" /\ fetcher'.next = fetcher.next /\ fetcher'.batch = c
      BY <1>1, <3>1, <3>2, Zenon DEF Fetcher
    <3> QED
      BY <1>5, <2>1, <3>3, <3>4, Zenon DEF LoadEpoch, Real
  <2>2. CASE FetchBlocks
    <3>1. PICK d : d = SubSeq(node, 1, Len(b.chain)) /\ IsPrefix(d, node)
      BY <1>1, <1>5, CutIsPrefix, Zenon
    <3>2. Len(b.chain) <= Len(node)
      BY <1>1, <1>5
    <3>3. fetcher' = [fetcher EXCEPT !.pc = "send", !.batch = [b EXCEPT !.chain = d]]
      BY <1>1, <1>4, <2>2, <3>1, <3>2 DEF FetchBlocks, Fetcher
    <3>4. PICK c : c = [b EXCEPT !.chain = d]
      BY Zenon
    <3>5. c.start = b.start /\ c.chain = d /\ c.fresh = b.fresh
      BY <3>4, Zenon DEF GoodBatch
    <3>6. fetcher'.pc = "send" /\ fetcher'.next = fetcher.next /\ fetcher'.batch = c
      BY <1>1, <3>3, <3>4, Zenon DEF Fetcher
    <3> QED
      BY <2>2, <3>1, <3>5, <3>6, Zenon DEF FetchBlocks
  <2> QED
    BY <2>1, <2>2, Zenon
<1>7. FetcherReal'
  BY <1>2, <1>5, <1>6, Zenon DEF BranchInv, FetcherReal, Real
<1>8. Told'
  BY <1>2, <1>4, <1>6, Zenon DEF FeedInv, Told
<1>9. ASSUME writer'.pc # "bump", ~Known' PROVE Fed'
  <2>1. Fed
    BY <1>2, <1>3, <1>9, Zenon DEF FeedInv, Known, Floor
  <2>2. fetcher'.batch.fresh => Supplied(b.start, Len(fetchQ))
    BY <1>4, <1>6, <2>1, Zenon DEF Fed, FedFetcher
  <2>3. FedFetcher'
    BY <1>2, <1>3, <1>6, <2>2, Zenon DEF FedFetcher, Supplied, Ahead, Queued, Covers, Within
  <2> QED
    BY <1>2, <2>1, <2>3, FedKept, Zenon DEF Fed
<1> QED
  BY <1>3, <1>7, <1>8, <1>9, Zenon DEF BranchInv, FeedInv

\* A fresh batch joins the queue behind what it may need, and the next plan
\* starts right above it.
LEMMA SendFeeds ==
    ASSUME IInv, IInv', QuickReset, BranchInv, FeedInv, SendFetched
    PROVE  BranchInv' /\ FeedInv'
<1>1. /\ node \in Word /\ Len(node) \in Nat /\ fetcher \in Fetcher
      /\ fetchQ \in Seq(GoodBatch) /\ Len(fetchQ) \in Nat
  BY LenProperties DEF IInv, TasksInv, Word
<1>2. UNCHANGED <<node, db, parser, parseQ, writer, notify, cache, ctip>> /\ fetcher.pc = "send"
  BY Zenon DEF SendFetched, shared
<1>3. Made' = Made /\ StoreReal' /\ ParserReal' /\ WriterReal'
  BY <1>2, RealKept, Zenon
<1>4. PICK b \in GoodBatch : b = fetcher.batch
  BY <1>1, Zenon DEF Fetcher
<1>5. /\ Real(b) /\ b.chain \in Word /\ Len(b.chain) \in Nat /\ Len(b.chain) <= Len(node)
      /\ b.start \in Nat /\ Made \in Nat
  <2>1. Real(b) /\ b.chain \in Word /\ b.start \in Nat
    BY <1>2, <1>4 DEF BranchInv, FetcherReal, GoodBatch
  <2> QED
    BY <1>1, <2>1, LenProperties, HeightTypes DEF Word, Real, IsPrefix, Made
<1>6. PICK n \in Nat : n = Len(b.chain) + 1
  BY <1>5
<1>7. fetchQ' = Append(fetchQ, b) /\ fetcher' = [IdleFetcher EXCEPT !.next = n]
  BY <1>4, <1>6, Zenon DEF SendFetched, BranchInv, ParserReal
<1>8. fetcher'.pc = "top" /\ fetcher'.next = n
  BY <1>7, Zenon DEF IdleFetcher
<1>9. /\ Len(fetchQ') = Len(fetchQ) + 1 /\ fetchQ'[Len(fetchQ) + 1] = b
      /\ \A i \in 1..Len(fetchQ) : fetchQ'[i] = fetchQ[i]
  BY <1>1, <1>7, AppendProperties
<1>10. FetcherReal'
  BY <1>1, <1>2, <1>5, <1>6, <1>8 DEF FetcherReal
<1>11. QueueReal'
  <2> SUFFICES ASSUME NEW i \in 1..(Len(fetchQ) + 1) PROVE Real(fetchQ'[i])
    BY <1>2, <1>9, Zenon DEF QueueReal, Real
  <2>1. i \in 1..Len(fetchQ) \/ i = Len(fetchQ) + 1
    BY <1>1
  <2> QED
    BY <1>5, <1>9, <2>1, Zenon DEF BranchInv, QueueReal
<1>12. Told'
  BY <1>8 DEF Told
<1>13. ASSUME writer'.pc # "bump", ~Known' PROVE Fed'
  <2>1. Fed
    BY <1>2, <1>3, <1>13, Zenon DEF FeedInv, Known, Floor
  <2>2. Ahead' <=> Ahead
    BY <1>2, <1>3, Zenon DEF Ahead, Covers, Within
  <2>3. PICK L \in Nat : L = Len(fetchQ)
    BY <1>1, Zenon
  <2>4. /\ Len(fetchQ') = L + 1 /\ fetchQ'[L + 1] = b
        /\ \A i \in 1..L : fetchQ'[i] = fetchQ[i]
    BY <1>9, <2>3, Zenon
  <2>5. ASSUME NEW i \in Nat, i <= L, NEW k \in Nat, i <= k, Queued(i) PROVE Queued(k)'
    <3>1. PICK j \in 1..i : Covers(fetchQ[j])
      BY <2>5, Zenon DEF Queued
    <3>2. j \in 1..L /\ j \in 1..k
      BY <2>5
    <3>3. Covers(fetchQ[j])'
      BY <1>3, <2>4, <3>1, <3>2, Zenon DEF Covers, Within
    <3> QED
      BY <3>2, <3>3, Zenon DEF Queued
  <2>6. ASSUME NEW i \in Nat, i <= L, NEW s, Supplied(s, i) PROVE Supplied(s, i)'
    <3>1. Queued(i) => Queued(i)'
      BY <2>5, <2>6
    <3> QED
      BY <1>3, <2>2, <2>6, <3>1, Zenon DEF Supplied
  <2>7. b.fresh => b.start <= Made \/ Ahead \/ Queued(L)
    BY <1>2, <1>4, <2>1, <2>3, Zenon DEF Fed, FedFetcher, Supplied
  <2>8. FedQueue'
    <3> SUFFICES ASSUME NEW i \in 1..(L + 1), fetchQ'[i].fresh
                 PROVE  Supplied(fetchQ[i].start, i - 1)'
      BY <2>4, Zenon DEF FedQueue
    <3>1. PICK k \in Nat : k = i - 1 /\ k <= L
      BY <2>3
    <3>2. PICK s : s = fetchQ'[i].start
      BY Zenon
    <3>3. CASE i \in 1..L
      <4>1. Supplied(s, k)
        BY <2>1, <2>3, <2>4, <3>1, <3>2, <3>3, Zenon DEF Fed, FedQueue
      <4>2. Supplied(s, k)'
        BY <2>6, <3>1, <4>1, Zenon
      <4> QED
        BY <3>1, <3>2, <4>2, Zenon
    <3>4. CASE i = L + 1
      <4>1. k = L
        BY <2>3, <3>1, <3>4
      <4>2. b.fresh /\ s = b.start
        BY <2>4, <3>2, <3>4, Zenon
      <4>3. Supplied(s, k)
        BY <2>7, <4>1, <4>2, Zenon DEF Supplied
      <4>4. Supplied(s, k)'
        BY <2>6, <3>1, <4>3, Zenon
      <4> QED
        BY <3>1, <3>2, <4>4, Zenon
    <3>5. i \in 1..L \/ i = L + 1
      BY <2>3
    <3> QED
      BY <3>3, <3>4, <3>5, Zenon
  <2>9. PICK k \in Nat : k = L + 1 /\ k \in 1..k /\ L <= k
    BY <2>3
  <2>10. ASSUME ~notify, writer.pc # "notify" PROVE n <= Made \/ Ahead \/ Queued(k)'
    <3>1. b.fresh
      BY <1>2, <1>4, <2>10, Zenon DEF FeedInv, Told
    <3>2. CASE b.start <= Made /\ Made <= Len(b.chain)
      <4>1. Covers(fetchQ[k])'
        BY <1>3, <2>4, <2>9, <3>1, <3>2, Zenon DEF Covers, Within
      <4> QED
        BY <2>9, <4>1, Zenon DEF Queued
    <3>3. CASE ~(Made <= Len(b.chain))
      BY <1>5, <1>6, <3>3
    <3>4. CASE ~(b.start <= Made)
      <4>1. Queued(L) => Queued(k)'
        BY <2>3, <2>5, <2>9
      <4> QED
        BY <2>7, <3>1, <3>4, <4>1, Zenon
    <3> QED
      BY <3>2, <3>3, <3>4, Zenon
  <2>11. FedFetcher'
    <3>1. Len(fetchQ') = k
      BY <2>4, <2>9, Zenon
    <3>2. fetcher'.pc # "epoch"
      BY <1>8
    <3> QED
      BY <1>2, <1>3, <1>8, <2>2, <2>10, <3>1, <3>2, Zenon DEF FedFetcher, Supplied
  <2> QED
    BY <1>2, <2>1, <2>8, <2>11, FedKept, Zenon DEF Fed
<1> QED
  BY <1>3, <1>10, <1>11, <1>12, <1>13, Zenon DEF BranchInv, FeedInv

\* The queue moves up: what was first in it is now the parser's.
LEMMA ReceiveFeeds ==
    ASSUME IInv, IInv', QuickReset, BranchInv, FeedInv, ReceiveFetched
    PROVE  BranchInv' /\ FeedInv'
<1>1. PICK L \in Nat : L = Len(fetchQ) /\ 1 <= L
  BY EmptySeq, LenProperties DEF IInv, TasksInv, ReceiveFetched
<1>2. /\ UNCHANGED <<node, db, fetcher, parseQ, writer, notify, cache, ctip>>
      /\ parser.pc = "recv" /\ fetchQ # <<>> /\ fetchQ' = Tail(fetchQ)
  BY Zenon DEF ReceiveFetched, shared
<1>3. Made' = Made /\ StoreReal' /\ FetcherReal' /\ WriterReal'
  BY <1>2, RealKept, Zenon
<1>4. PICK M \in Nat : M = L - 1 /\ M + 1 = L /\ M <= L
  BY <1>1
<1>5. Len(fetchQ') = M /\ \A i \in 1..M : fetchQ'[i] = fetchQ[i + 1] /\ i + 1 \in 1..L
  <2>1. fetchQ \in Seq(GoodBatch)
    BY DEF IInv, TasksInv
  <2> QED
    BY <1>1, <1>2, <1>4, <2>1, HeadTailProperties
<1>6. PICK b \in GoodBatch : b = fetchQ[1] /\ b = Head(fetchQ)
  <2>1. fetchQ \in Seq(GoodBatch) /\ 1 \in 1..Len(fetchQ)
    BY <1>1 DEF IInv, TasksInv
  <2>2. fetchQ[1] \in GoodBatch /\ Head(fetchQ) = fetchQ[1]
    BY <1>2, <2>1, ElementOfSeq
  <2> QED
    BY <2>2, Zenon
<1>7. 1 \in 1..L
  BY <1>1
<1>8. \/ b.fresh /\ parser'.pc = "resolve" /\ parser'.batch = b
      \/ ~b.fresh /\ parser'.pc = "recv"
  BY <1>6, Zenon DEF ReceiveFetched, IdleParser
<1>9. QueueReal'
  <2> SUFFICES ASSUME NEW i \in 1..M PROVE Real(fetchQ[i])'
    BY <1>5, Zenon DEF QueueReal
  <2>1. i + 1 \in 1..L
    BY <1>5, Zenon
  <2> QED
    BY <1>1, <1>2, <1>5, <2>1, Zenon DEF BranchInv, QueueReal, Real
<1>10. ParserReal'
  <2>1. parser'.pc # "gone"
    BY <1>8
  <2>2. ASSUME parser'.pc # "recv" PROVE Real(parser.batch)'
    <3>1. Real(b)
      BY <1>1, <1>6, <1>7, Zenon DEF BranchInv, QueueReal
    <3> QED
      BY <1>2, <1>8, <2>2, <3>1, Zenon DEF Real
  <2>3. \A i \in 1..Len(parseQ') : Real(parseQ[i])'
    BY <1>2, Zenon DEF BranchInv, ParserReal, Real
  <2> QED
    BY <2>1, <2>2, <2>3, Zenon DEF ParserReal
<1>11. Told'
  BY <1>2, Zenon DEF FeedInv, Told
<1>12. ASSUME writer'.pc # "bump", ~Known' PROVE Fed'
  <2>1. Fed
    BY <1>2, <1>3, <1>12, Zenon DEF FeedInv, Known, Floor
  <2>2. ~Ahead
    BY <1>2 DEF Ahead
  <2>3. Covers(b) => Ahead'
    BY <1>3, <1>8, Zenon DEF Ahead, Covers, Within
  <2>4. ASSUME NEW i \in Nat, NEW k \in Nat, i = k + 1, i <= L, Queued(i)
        PROVE  Ahead' \/ Queued(k)'
    <3>1. PICK j \in 1..i : Covers(fetchQ[j])
      BY <2>4, Zenon DEF Queued
    <3>2. CASE j = 1
      BY <1>6, <2>3, <3>1, <3>2, Zenon
    <3>3. CASE j # 1
      <4>1. PICK h \in 1..k : h + 1 = j /\ h \in 1..M
        <5>1. j - 1 \in 1..k /\ (j - 1) + 1 = j /\ j - 1 \in 1..M
          BY <1>1, <1>4, <2>4, <3>1, <3>3
        <5> QED
          BY <5>1, Zenon
      <4>2. Covers(fetchQ[h])'
        BY <1>3, <1>5, <3>1, <4>1, Zenon DEF Covers, Within
      <4> QED
        BY <4>2, Zenon DEF Queued
    <3> QED
      BY <3>2, <3>3, Zenon
  <2>5. ASSUME NEW i \in Nat, NEW k \in Nat, i = k + 1, i <= L, NEW s, Supplied(s, i)
        PROVE  Supplied(s, k)'
    <3>1. Queued(i) => Ahead' \/ Queued(k)'
      BY <2>4, <2>5, Zenon
    <3> QED
      BY <1>3, <2>2, <2>5, <3>1, Zenon DEF Supplied
  <2>6. L <= L /\ L \in Nat
    BY <1>1
  <2>7. FedFetcher'
    <3>1. \A s : Supplied(s, L) => Supplied(s, M)'
      BY <1>4, <2>5, <2>6, Zenon
    <3>2. PICK s, t : s = fetcher.batch.start /\ t = fetcher.next
      BY Zenon
    <3>3. /\ Supplied(s, L) => Supplied(s, M)'
          /\ Supplied(t, L) => Supplied(t, M)'
      BY <3>1, Zenon
    <3>4. /\ Supplied(fetcher.batch.start, Len(fetchQ)) => Supplied(fetcher.batch.start, Len(fetchQ))'
          /\ Supplied(fetcher.next, Len(fetchQ)) => Supplied(fetcher.next, Len(fetchQ))'
      BY <1>1, <1>2, <1>5, <3>2, <3>3, Zenon
    <3> QED
      BY <1>2, <2>1, <3>4, Zenon DEF Fed, FedFetcher
  <2>8. FedQueue'
    <3> SUFFICES ASSUME NEW i \in 1..M, fetchQ'[i].fresh PROVE Supplied(fetchQ[i].start, i - 1)'
      BY <1>5, Zenon DEF FedQueue
    <3>1. PICK k \in Nat : k = i - 1 /\ i = k + 1 /\ (i + 1) - 1 = i /\ i \in Nat /\ i <= L
      BY <1>1, <1>4
    <3>2. PICK s : s = fetchQ'[i].start
      BY Zenon
    <3>3. Supplied(s, i)
      BY <1>1, <1>5, <2>1, <3>1, <3>2, Zenon DEF Fed, FedQueue
    <3>4. Supplied(s, k)'
      BY <2>5, <3>1, <3>3, Zenon
    <3> QED
      BY <3>1, <3>2, <3>4, Zenon
  <2>9. FedParser'
    <3>1. ASSUME b.fresh PROVE b.start <= Made
      <4>1. Supplied(b.start, 1 - 1)
        BY <1>1, <1>6, <1>7, <2>1, <3>1, Zenon DEF Fed, FedQueue
      <4>2. ~Queued(1 - 1)
        BY DEF Queued
      <4> QED
        BY <2>2, <4>1, <4>2, Zenon DEF Supplied
    <3>2. /\ parser'.pc = "resolve" /\ parser'.batch.fresh => parser'.batch.start <= Made'
          /\ parser'.pc \notin {"count", "send"}
      BY <1>3, <1>8, <3>1, Zenon
    <3>3. \A i \in 1..Len(parseQ') : ~Covers(parseQ[i])'
      BY <1>2, <1>3, <2>1, Zenon DEF Fed, FedParser, Covers, Within
    <3> QED
      BY <3>2, <3>3, Zenon DEF FedParser
  <2> QED
    BY <1>2, <2>1, <2>7, <2>8, <2>9, FedKept, Zenon DEF Fed
<1> QED
  BY <1>3, <1>9, <1>10, <1>11, <1>12, Zenon DEF BranchInv, FeedInv

\* What waits for the parser's batch still does while the parser holds it.
LEMMA SupplyKept ==
    ASSUME UNCHANGED <<node, fetcher, fetchQ, notify, writer>>, Fed, Ahead => Ahead'
    PROVE  FedFetcher' /\ FedQueue'
<1>1. Made' = Made
  BY Zenon DEF Made
<1>2. ASSUME NEW i, Queued(i) PROVE Queued(i)'
  BY <1>1, <1>2, Zenon DEF Queued, Covers, Within
<1>3. ASSUME NEW s, NEW i, Supplied(s, i) PROVE Supplied(s, i)'
  BY <1>1, <1>2, <1>3, Zenon DEF Supplied
<1>4. FedFetcher'
  <2>1. /\ Supplied(fetcher.batch.start, Len(fetchQ)) => Supplied(fetcher.batch.start, Len(fetchQ))'
        /\ Supplied(fetcher.next, Len(fetchQ)) => Supplied(fetcher.next, Len(fetchQ))'
    <3>1. PICK s, t, n : s = fetcher.batch.start /\ t = fetcher.next /\ n = Len(fetchQ)
      BY Zenon
    <3>2. (Supplied(s, n) => Supplied(s, n)') /\ (Supplied(t, n) => Supplied(t, n)')
      BY <1>3, Zenon
    <3> QED
      BY <3>1, <3>2, Zenon
  <2> QED
    BY <2>1, Zenon DEF Fed, FedFetcher
<1>5. FedQueue'
  <2> SUFFICES ASSUME NEW i \in 1..Len(fetchQ), fetchQ[i].fresh
               PROVE  Supplied(fetchQ[i].start, i - 1)'
    BY Zenon DEF FedQueue
  <2>1. PICK s, k : s = fetchQ[i].start /\ k = i - 1
    BY Zenon
  <2>2. Supplied(s, k)'
    BY <1>3, <2>1, Zenon DEF Fed, FedQueue
  <2> QED
    BY <2>1, <2>2, Zenon
<1> QED
  BY <1>4, <1>5, Zenon

\* A parser step that leaves the queue and the cache alone.
LEMMA ParserFeeds ==
    ASSUME BranchInv, FeedInv, ParserReal', Fed => FedParser', Ahead => Ahead',
           UNCHANGED <<node, db, fetcher, fetchQ, writer, notify, cache, ctip>>
    PROVE  BranchInv' /\ FeedInv'
<1>1. Made' = Made /\ StoreReal' /\ FetcherReal' /\ QueueReal' /\ WriterReal'
  BY RealKept, Zenon
<1>2. Told'
  BY Zenon DEF FeedInv, Told
<1>3. ASSUME writer'.pc # "bump", ~Known' PROVE Fed'
  <2>1. Fed
    BY <1>1, <1>3, Zenon DEF FeedInv, Known, Floor
  <2>2. FedFetcher' /\ FedQueue'
    BY <2>1, SupplyKept, Zenon
  <2> QED
    BY <2>1, <2>2, FedKept, Zenon DEF Fed
<1> QED
  BY <1>1, <1>2, <1>3, Zenon DEF BranchInv, FeedInv

\* Resolving keeps the batch, and only stale batches are abandoned.
LEMMA ResolveFeeds ==
    ASSUME IInv, IInv', BranchInv, FeedInv, ResolveInputs \/ AbandonStale
    PROVE  BranchInv' /\ FeedInv'
<1>1. /\ UNCHANGED <<node, db, fetcher, fetchQ, parseQ, writer, notify, cache, ctip>>
      /\ parser.pc = "resolve"
  BY Zenon DEF ResolveInputs, AbandonStale, shared
<1>2. Made' = Made
  BY <1>1, Zenon DEF Made
<1>3. PICK b \in GoodBatch : b = parser.batch /\ Real(b)
  <2>1. parser.batch \in GoodBatch
    BY Zenon DEF IInv, TasksInv, Parser
  <2> QED
    BY <1>1, <2>1 DEF BranchInv, ParserReal
<1>4. \/ /\ parser'.pc = "publish" /\ parser'.batch.start = b.start
         /\ parser'.batch.chain = b.chain /\ parser'.batch.fresh = b.fresh
      \/ parser'.pc = "recv" /\ ~b.fresh
  <2>1. CASE ResolveInputs
    <3>1. PICK p : p = IF NeedsCell(b) THEN Resolved(b) ELSE 0
      BY Zenon
    <3>2. parser' = [parser EXCEPT !.pc = "publish", !.tries = 0, !.batch = [b EXCEPT !.pos = p]]
      <4>1. parser \in Parser
        BY Zenon DEF IInv, TasksInv
      <4> QED
        BY <1>3, <2>1, <3>1, <4>1 DEF ResolveInputs, Parser
    <3>3. PICK c : c = [b EXCEPT !.pos = p]
      BY Zenon
    <3>4. c.start = b.start /\ c.chain = b.chain /\ c.fresh = b.fresh
      BY <3>3, Zenon DEF GoodBatch
    <3>5. parser'.pc = "publish" /\ parser'.batch = c
      BY <3>2, <3>3, Zenon DEF IInv, TasksInv, Parser
    <3> QED
      BY <3>4, <3>5, Zenon
  <2>2. CASE AbandonStale
    BY <1>3, <2>2, Zenon DEF AbandonStale, IdleParser
  <2> QED
    BY <2>1, <2>2, Zenon
<1>5. ParserReal'
  BY <1>1, <1>3, <1>4, Zenon DEF BranchInv, ParserReal, Real
<1>6. Ahead => Ahead'
  BY <1>2, <1>3, <1>4, Zenon DEF Ahead, Covers, Within
<1>7. Fed => FedParser'
  BY <1>1, <1>2, <1>4, Zenon DEF Fed, FedParser, Covers, Within
<1> QED
  BY <1>1, <1>5, <1>6, <1>7, ParserFeeds, Zenon

\* Counting and sending come after the publication.
LEMMA CountFeeds ==
    ASSUME IInv, IInv', BranchInv, FeedInv, CountPending \/ SendParsed
    PROVE  BranchInv' /\ FeedInv'
<1>1. /\ UNCHANGED <<node, db, fetcher, fetchQ, writer, notify, cache, ctip>>
      /\ parser.pc \in {"count", "send"}
  BY Zenon DEF CountPending, SendParsed, shared
<1>2. Made' = Made
  BY <1>1, Zenon DEF Made
<1>3. ~Ahead
  BY <1>1 DEF Ahead
<1>4. PICK b \in GoodBatch : b = parser.batch /\ Real(b)
  <2>1. parser.batch \in GoodBatch
    BY Zenon DEF IInv, TasksInv, Parser
  <2> QED
    BY <1>1, <2>1 DEF BranchInv, ParserReal
<1>5. CASE CountPending
  <2>1. parseQ' = parseQ /\ parser'.pc = "send" /\ parser'.batch = parser.batch
    BY <1>5, Zenon DEF CountPending, IInv, TasksInv, Parser
  <2>2. ParserReal'
    BY <1>1, <1>4, <2>1, Zenon DEF BranchInv, ParserReal, Real
  <2>3. Fed => FedParser'
    BY <1>1, <1>2, <2>1, Zenon DEF Fed, FedParser, Covers, Within
  <2> QED
    BY <1>1, <1>3, <2>2, <2>3, ParserFeeds, Zenon
<1>6. CASE SendParsed
  <2>1. parseQ' = Append(parseQ, b) /\ parser'.pc = "recv"
    BY <1>4, <1>6, Zenon DEF SendParsed, IdleParser
  <2>2. PICK L \in Nat : L = Len(parseQ)
    BY LenProperties DEF IInv, TasksInv
  <2>3. /\ Len(parseQ') = L + 1 /\ parseQ'[L + 1] = b
        /\ \A i \in 1..L : parseQ'[i] = parseQ[i]
    BY <2>1, <2>2, AppendProperties DEF IInv, TasksInv
  <2>4. \A i \in 1..(L + 1) : i \in 1..L \/ i = L + 1
    BY <2>2
  <2>5. ParserReal'
    <3>1. \A i \in 1..(L + 1) : Real(parseQ[i])'
      BY <1>1, <1>4, <2>2, <2>3, <2>4, Zenon DEF BranchInv, ParserReal, Real
    <3> QED
      BY <2>1, <2>3, <3>1 DEF ParserReal
  <2>6. ASSUME Fed PROVE FedParser'
    <3>1. \A i \in 1..(L + 1) : ~Covers(parseQ[i])'
      BY <1>1, <1>2, <1>4, <2>2, <2>3, <2>4, <2>6, Zenon DEF Fed, FedParser, Covers, Within
    <3> QED
      BY <2>1, <2>3, <3>1 DEF FedParser
  <2> QED
    BY <1>1, <1>3, <2>5, <2>6, ParserFeeds, Zenon
<1> QED
  BY <1>5, <1>6, Zenon

\* What the cache drops is in the store, and what it gets is the cell.
LEMMA PublishFeeds ==
    ASSUME IInv, IInv', BranchInv, FeedInv, PublishOutputs
    PROVE  BranchInv' /\ FeedInv'
<1>1. /\ UNCHANGED <<node, db, fetcher, fetchQ, parseQ, writer, notify, ctip>>
      /\ parser.pc = "publish"
  BY Zenon DEF PublishOutputs
<1>2. Made' = Made /\ FetcherReal' /\ QueueReal' /\ WriterReal' /\ Floor' = Floor
  BY <1>1, RealKept, Zenon DEF Floor
<1>3. PICK b \in GoodBatch : b = parser.batch /\ Real(b)
  <2>1. parser.batch \in GoodBatch
    BY Zenon DEF IInv, TasksInv, Parser
  <2> QED
    BY <1>1, <2>1 DEF BranchInv, ParserReal
<1>4. /\ node \in Word /\ b.chain \in Word /\ b.start \in Nat /\ 1 <= b.start
      /\ IsPrefix(b.chain, node) /\ Len(b.chain) \in Nat
  BY <1>3, LenProperties DEF IInv, GoodBatch, Word, Real
<1>5. Made \in Nat /\ CreatedAt(b.chain) = IF Made <= Len(b.chain) THEN Made ELSE 0
  <2>1. Made \in 0..Len(node) /\ CreatedAt(b.chain) = IF Made <= Len(b.chain) THEN Made ELSE 0
    BY <1>4, CreatedOnBranch, Zenon
  <2> QED
    BY <2>1
<1>6. PICK at : at = IF CreatesCell(b) THEN CreatedAt(b.chain) ELSE cache
  BY Zenon
<1>7. cache' = at \/ (cache' = 0 /\ at <= ctip)
  BY <1>3, <1>6 DEF PublishOutputs, Evicts
<1>8. /\ cache \in {0, Made} /\ ctip \in Int /\ ctip <= Floor /\ Floor \in Nat
  <2>1. Len(db) \in Nat /\ writer.target \in Nat
    BY LenProperties DEF IInv, TasksInv, Writer, Word
  <2> QED
    BY <2>1 DEF BranchInv, StoreReal, Floor
<1>9. at \in {0, Made} /\ (cache # 0 \/ Within(b) => at = Made /\ Made # 0)
  BY <1>4, <1>5, <1>6, <1>8 DEF CreatesCell, Within
<1>10. StoreReal'
  <2>1. cache' \in {0, Made}
    BY <1>7, <1>9
  <2> QED
    BY <1>1, <1>2, <2>1, Zenon DEF BranchInv, StoreReal
<1>11. Known \/ Within(b) => Known'
  <2>1. CASE Made <= Floor
    BY <1>2, <2>1, Zenon DEF Known
  <2>2. CASE cache # 0 \/ Within(b)
    <3>1. at = Made /\ Made # 0
      BY <1>9, <2>2, Zenon
    <3>2. cache' # 0 \/ Made <= Floor
      BY <1>5, <1>7, <1>8, <3>1
    <3> QED
      BY <1>2, <3>2, Zenon DEF Known
  <2> QED
    BY <2>1, <2>2, Zenon DEF Known
<1>12. \/ parser'.pc = "count" /\ parser'.batch = b
       \/ parser'.pc = "recv"
  BY <1>3, Zenon DEF PublishOutputs, IdleParser, IInv, TasksInv, Parser
<1>13. ParserReal'
  BY <1>1, <1>3, <1>12, Zenon DEF BranchInv, ParserReal, Real
<1>14. Told'
  BY <1>1, Zenon DEF FeedInv, Told
<1>15. ASSUME writer'.pc # "bump", ~Known' PROVE Fed'
  <2>1. Fed /\ ~Within(b)
    BY <1>1, <1>11, <1>15, Zenon DEF FeedInv
  <2>2. ~Ahead
    BY <1>3, <2>1, Zenon DEF Ahead, Covers
  <2>3. FedFetcher' /\ FedQueue'
    BY <1>1, <2>1, <2>2, SupplyKept, Zenon
  <2>4. FedParser'
    BY <1>1, <1>2, <1>12, <2>1, Zenon DEF Fed, FedParser, Covers, Within
  <2> QED
    BY <1>1, <2>1, <2>3, <2>4, FedKept, Zenon DEF Fed
<1> QED
  BY <1>2, <1>10, <1>13, <1>14, <1>15, Zenon DEF BranchInv, FeedInv

\* An input that needs the cell finds it: no attempt fails.
LEMMA NothingUnresolved ==
    ASSUME IInv, QuickReset, BranchInv, FeedInv
    PROVE  ~RetryUnresolved
<1> SUFFICES ASSUME RetryUnresolved PROVE FALSE
  OBVIOUS
<1>1. /\ parser.pc = "resolve" /\ parser.batch.fresh /\ NeedsCell(parser.batch)
      /\ Resolved(parser.batch) = 0 /\ writer.pc # "bump"
  BY Zenon DEF RetryUnresolved
<1>2. PICK b \in GoodBatch : b = parser.batch /\ Real(b)
  <2>1. parser.batch \in GoodBatch
    BY Zenon DEF IInv, TasksInv, Parser
  <2> QED
    BY <1>1, <2>1 DEF BranchInv, ParserReal
<1>3. /\ node \in Word /\ db \in Word /\ b.chain \in Word /\ b.start \in Nat /\ 1 <= b.start
      /\ IsPrefix(b.chain, node) /\ IsPrefix(db, node) /\ node \in Chains
      /\ Len(b.chain) \in Nat /\ Len(db) \in Nat
  BY <1>2, LenProperties DEF IInv, GoodBatch, Word, Real, BranchInv, StoreReal
<1>4. Made \in Nat /\ CreatedAt(b.chain) = IF Made <= Len(b.chain) THEN Made ELSE 0
  <2>1. Made \in 0..Len(node) /\ CreatedAt(b.chain) = IF Made <= Len(b.chain) THEN Made ELSE 0
    BY <1>3, CreatedOnBranch, Zenon
  <2> QED
    BY <2>1
<1>5. CreatedAt(db) = IF Made <= Len(db) THEN Made ELSE 0
  BY <1>3, CreatedOnBranch, Zenon
<1>6. Made # 0 /\ Made <= Len(b.chain)
  <2>1. SpentAt(b.chain) # 0
    <3>1. SpentAt(b.chain) \in Nat /\ SpentAt(b.chain) >= b.start
      BY <1>1, <1>2, <1>3, HeightTypes DEF NeedsCell
    <3> QED
      BY <1>3, <3>1
  <2> QED
    BY <1>3, <2>1, SpendOnBranch, Zenon
<1>7. cache = 0 /\ ~CreatesCell(b) /\ CreatedAt(db) = 0
  BY <1>1, <1>2, <1>4, <1>6 DEF Resolved, StoredAt, CreatesCell
<1>8. ~(b.start <= Made) /\ Len(db) < Made
  BY <1>3, <1>4, <1>5, <1>6, <1>7 DEF CreatesCell
<1>9. ~Known
  <2>1. Floor \in Nat /\ Floor <= Len(db)
    BY <1>3 DEF IInv, TasksInv, WriterInv, Writer, Floor
  <2> QED
    BY <1>3, <1>4, <1>7, <1>8, <2>1 DEF Known
<1> QED
  BY <1>1, <1>2, <1>8, <1>9, Zenon DEF FeedInv, Fed, FedParser

\* Queue r holds only batches of queue q.
Among(r, q) == \A i \in 1..Len(r) : \E j \in 1..Len(q) : r[i] = q[j]

\* A writer step that neither bumps the epoch nor ends with the cell in
\* neither place unless it began so.
LEMMA WriterFeeds ==
    ASSUME BranchInv, FeedInv, UNCHANGED <<node, fetcher, fetchQ, parser>>,
           StoreReal', WriterReal',
           notify \/ writer.pc = "notify" => notify' \/ writer'.pc = "notify",
           Among(parseQ', parseQ),
           writer'.pc # "bump" /\ ~Known' => writer.pc # "bump" /\ ~Known /\ (Fed => FedWriter')
    PROVE  BranchInv' /\ FeedInv'
<1>1. Made' = Made /\ FetcherReal' /\ QueueReal'
  BY RealKept, Zenon
<1>2. ParserReal'
  <2>1. \A i \in 1..Len(parseQ') : Real(parseQ[i])'
    <3> TAKE i \in 1..Len(parseQ')
    <3>1. PICK j \in 1..Len(parseQ) : parseQ'[i] = parseQ[j]
      BY Zenon DEF Among
    <3>2. Real(parseQ[j])
      BY Zenon DEF BranchInv, ParserReal
    <3> QED
      BY <3>1, <3>2, Zenon DEF Real
  <2> QED
    BY <2>1, Zenon DEF BranchInv, ParserReal, Real
<1>3. Told'
  BY Zenon DEF FeedInv, Told
<1>4. ASSUME writer'.pc # "bump", ~Known' PROVE Fed'
  <2>1. Fed /\ FedWriter'
    BY <1>4, Zenon DEF FeedInv
  <2>2. FedFetcher'
    BY <1>1, <2>1, Zenon DEF Fed, FedFetcher, Supplied, Ahead, Queued, Covers, Within
  <2>3. FedQueue'
    BY <2>1, FedKept, Zenon
  <2>4. FedParser'
    <3>1. \A i \in 1..Len(parseQ') : ~Covers(parseQ[i])'
      <4> TAKE i \in 1..Len(parseQ')
      <4>1. PICK j \in 1..Len(parseQ) : parseQ'[i] = parseQ[j]
        BY Zenon DEF Among
      <4>2. ~Covers(parseQ[j])
        BY <2>1, Zenon DEF Fed, FedParser
      <4> QED
        BY <1>1, <4>1, <4>2, Zenon DEF Covers, Within
    <3> QED
      BY <1>1, <2>1, <3>1, Zenon DEF Fed, FedParser, Covers, Within
  <2> QED
    BY <2>1, <2>2, <2>3, <2>4, Zenon DEF Fed
<1> QED
  BY <1>1, <1>2, <1>3, <1>4, Zenon DEF BranchInv, FeedInv

\* A queue as it is, or without its first batch, holds no other batch.
LEMMA TailHolds ==
    ASSUME NEW q \in Seq(GoodBatch), NEW r, r = q \/ (q # <<>> /\ r = Tail(q))
    PROVE  Among(r, q)
<1>1. CASE r = q
  BY <1>1, Zenon DEF Among
<1>2. CASE q # <<>> /\ r = Tail(q)
  <2>1. Len(q) \in Nat /\ Len(r) = Len(q) - 1 /\ \A i \in 1..Len(r) : r[i] = q[i + 1]
    BY <1>2, HeadTailProperties, LenProperties
  <2>2. \A i \in 1..Len(r) : i + 1 \in 1..Len(q)
    BY <2>1
  <2> QED
    BY <2>1, <2>2, Zenon DEF Among
<1> QED
  BY <1>1, <1>2, Zenon

\* The writer takes a batch that the parser has published.
LEMMA ReceiveParsedFeeds ==
    ASSUME IInv, IInv', BranchInv, FeedInv, ReceiveParsed
    PROVE  BranchInv' /\ FeedInv'
<1>1. /\ UNCHANGED <<node, db, fetcher, fetchQ, parser, notify, cache, ctip>>
      /\ writer.pc = "recv" /\ parseQ # <<>> /\ parseQ' = Tail(parseQ)
  BY Zenon DEF ReceiveParsed
<1>2. parseQ \in Seq(GoodBatch)
  BY Zenon DEF IInv, TasksInv
<1>3. PICK b \in GoodBatch : b = Head(parseQ) /\ b = parseQ[1] /\ 1 \in 1..Len(parseQ)
  <2>1. Len(parseQ) \in Nat /\ Len(parseQ) # 0
    BY <1>1, <1>2, EmptySeq
  <2>2. 1 \in 1..Len(parseQ) /\ Head(parseQ) = parseQ[1]
    BY <1>2, <2>1
  <2>3. parseQ[1] \in GoodBatch
    BY <1>2, <2>2, ElementOfSeq
  <2> QED
    BY <2>2, <2>3, Zenon
<1>4. /\ \/ writer'.pc \in {"recv", "panic", "bump"}
         \/ writer'.pc = "check" /\ writer'.batch = b /\ b.fresh
      /\ writer'.kind = "none"
  <2>1. \/ \E p \in {"panic", "bump"} : writer' = [IdleWriter EXCEPT !.pc = p]
        \/ writer' = IdleWriter
        \/ writer' = [IdleWriter EXCEPT !.pc = "check", !.batch = b] /\ b.fresh
    BY <1>3 DEF ReceiveParsed
  <2>2. IdleWriter \in Writer /\ IdleWriter.kind = "none"
    BY IdleTypes, Zenon DEF IdleWriter
  <2>3. ASSUME NEW p \in {"panic", "bump"}, writer' = [IdleWriter EXCEPT !.pc = p]
        PROVE  writer'.pc \in {"panic", "bump"} /\ writer'.kind = "none"
    BY <2>3, Zenon DEF IdleWriter
  <2>4. CASE writer' = IdleWriter
    BY <2>4, Zenon DEF IdleWriter
  <2>5. CASE writer' = [IdleWriter EXCEPT !.pc = "check", !.batch = b] /\ b.fresh
    BY <2>2, <2>5, Zenon DEF Writer
  <2> QED
    BY <2>1, <2>3, <2>4, <2>5, Zenon
<1>5. Made' = Made
  BY <1>1, Zenon DEF Made
<1>6. Floor' = Floor
  BY <1>1, <1>4, Zenon DEF Floor
<1>7. StoreReal'
  BY <1>1, <1>5, <1>6, Zenon DEF BranchInv, StoreReal
<1>8. WriterReal'
  <2>1. Real(b)
    BY <1>3, Zenon DEF BranchInv, ParserReal
  <2> QED
    BY <1>1, <1>4, <2>1, Zenon DEF WriterReal, Real
<1>9. Known' <=> Known
  BY <1>1, <1>5, <1>6, Zenon DEF Known
<1>10. ASSUME Fed PROVE FedWriter'
  <2>1. ~Covers(b)
    BY <1>3, <1>10, Zenon DEF Fed, FedParser
  <2> QED
    BY <1>1, <1>4, <1>5, <1>10, <2>1, Zenon DEF Fed, FedWriter, Covers, Within
<1>11. Among(parseQ', parseQ)
  BY <1>1, <1>2, TailHolds, Zenon
<1> QED
  BY <1>1, <1>7, <1>8, <1>9, <1>10, <1>11, WriterFeeds, Zenon

\* On one branch no reorganisation is found.
LEMMA NoFork ==
    ASSUME IInv, BranchInv
    PROVE  ~(Len(node) < Len(db)) /\ ~(ForkPoint < Len(db))
<1>1. /\ node \in Word /\ db \in Word /\ IsPrefix(db, node) /\ Len(db) \in Nat /\ Len(node) \in Nat
      /\ Len(db) <= Len(node)
  BY LenProperties DEF IInv, Word, BranchInv, StoreReal, IsPrefix
<1>2. Len(db) \in Common
  <2>1. SubSeq(node, 1, Len(db)) = db /\ SubSeq(db, 1, Len(db)) = db
    BY <1>1, SubSeqFull DEF IsPrefix, Word
  <2>2. Len(db) \in 0..Len(db)
    BY <1>1
  <2> QED
    BY <1>1, <2>1, <2>2, Zenon DEF Common
<1>3. \A i \in Common : i <= Len(db)
  BY <1>1 DEF Common
<1>4. ForkPoint \in Common /\ \A i \in Common : i <= ForkPoint
  BY <1>2, <1>3, Zenon DEF ForkPoint
<1>5. Common \subseteq Nat
  BY <1>1 DEF Common
<1> QED
  BY <1>1, <1>2, <1>4, <1>5

\* The steps that change neither the store nor what is cached.
LEMMA CheckFeeds ==
    ASSUME IInv, IInv', BranchInv, FeedInv,
           CheckReorg \/ MarkRollback \/ NotifyFetcher \/ DrainParsed \/ ZeroPending
    PROVE  BranchInv' /\ FeedInv'
<1>1. UNCHANGED <<node, db, fetcher, fetchQ, parser, cache, ctip>>
  BY Zenon DEF CheckReorg, MarkRollback, NotifyFetcher, DrainParsed, ZeroPending, shared
<1>2. Made' = Made
  BY <1>1, Zenon DEF Made
<1>3. parseQ \in Seq(GoodBatch) /\ writer \in Writer
  BY Zenon DEF IInv, TasksInv
<1>4. Among(parseQ', parseQ)
  <2>1. parseQ' = parseQ \/ (parseQ # <<>> /\ parseQ' = Tail(parseQ))
    BY Zenon DEF CheckReorg, MarkRollback, NotifyFetcher, DrainParsed, ZeroPending
  <2> QED
    BY <1>3, <2>1, TailHolds, Zenon
<1>5. /\ writer'.pc \in {"undo", "marked"} <=> writer.pc \in {"undo", "marked"}
      /\ writer'.pc \in {"undo", "marked"} => writer'.target = writer.target
      /\ writer'.pc \in {"check", "write"} => writer'.batch = writer.batch /\ writer.pc = "check"
      /\ writer'.pc # "down" /\ writer.pc # "bump"
      /\ writer'.kind \in {"none", writer.kind}
      /\ notify \/ writer.pc = "notify" => notify' \/ writer'.pc = "notify"
  <2>1. CASE CheckReorg
    <3>1. writer.pc = "check" /\ notify' = notify
      BY <2>1, Zenon DEF CheckReorg, shared
    <3>2. \/ writer' = [writer EXCEPT !.pc = "write"]
          \/ writer' = [IdleWriter EXCEPT !.pc = "bump"]
      BY <2>1, NoFork, Zenon DEF CheckReorg
    <3>3. \/ writer'.pc = "write" /\ writer'.batch = writer.batch /\ writer'.kind = writer.kind
          \/ writer'.pc = "bump" /\ writer'.kind = "none"
      BY <1>3, <3>2, Zenon DEF Writer, IdleWriter
    <3> QED
      BY <3>1, <3>3
  <2>2. CASE MarkRollback
    <3>1. writer.pc = "undo" /\ notify' = notify /\ writer' = [writer EXCEPT !.pc = "marked"]
      BY <2>2, Zenon DEF MarkRollback, shared
    <3>2. writer'.pc = "marked" /\ writer'.target = writer.target /\ writer'.kind = writer.kind
      BY <1>3, <3>1, Zenon DEF Writer
    <3> QED
      BY <3>1, <3>2
  <2>3. CASE NotifyFetcher
    <3>1. writer.pc = "notify" /\ notify' /\ writer' = [writer EXCEPT !.pc = "drain"]
      BY <2>3, Zenon DEF NotifyFetcher
    <3>2. writer'.pc = "drain" /\ writer'.kind = writer.kind
      BY <1>3, <3>1, Zenon DEF Writer
    <3> QED
      BY <3>1, <3>2
  <2>4. CASE DrainParsed
    <3>1. writer.pc = "drain" /\ notify' = notify
          /\ (writer' = writer \/ writer' = [writer EXCEPT !.pc = "zero"])
      BY <2>4, Zenon DEF DrainParsed, shared
    <3>2. writer'.pc \in {"drain", "zero"} /\ writer'.kind = writer.kind
      BY <1>3, <3>1, Zenon DEF Writer
    <3> QED
      BY <3>1, <3>2
  <2>5. CASE ZeroPending
    <3>1. writer.pc = "zero" /\ notify' = notify /\ writer'.pc = "recv" /\ writer'.kind = "none"
      BY <2>5, Zenon DEF ZeroPending, IdleWriter
    <3> QED
      BY <3>1
  <2> QED
    BY <2>1, <2>2, <2>3, <2>4, <2>5, Zenon
<1>6. Floor' = Floor
  BY <1>1, <1>5, Zenon DEF Floor
<1>7. StoreReal'
  BY <1>1, <1>2, <1>6, Zenon DEF BranchInv, StoreReal
<1>8. WriterReal'
  BY <1>1, <1>5, Zenon DEF BranchInv, WriterReal, Real
<1>9. Known' <=> Known
  BY <1>1, <1>2, <1>6, Zenon DEF Known
<1>10. Fed => FedWriter'
  BY <1>1, <1>2, <1>5, Zenon DEF Fed, FedWriter, Within
<1> QED
  BY <1>1, <1>4, <1>5, <1>7, <1>8, <1>9, <1>10, WriterFeeds, Zenon

\* A commit, or a failed one, moves the store and keeps what it had.
LEMMA WriteFeeds ==
    ASSUME IInv, IInv', BranchInv, FeedInv, WriteBatch \/ WriteFails
    PROVE  BranchInv' /\ FeedInv'
<1>1. /\ UNCHANGED <<node, fetcher, fetchQ, parser, parseQ, notify, cache>>
      /\ writer.pc = "write"
  BY Zenon DEF WriteBatch, WriteFails, shared
<1>2. Made' = Made
  BY <1>1, Zenon DEF Made
<1>3. PICK b \in GoodBatch : b = writer.batch /\ Real(b) /\ b.start = Len(db) + 1
  <2>1. writer.batch \in GoodBatch
    BY Zenon DEF IInv, TasksInv, Writer
  <2>2. Real(writer.batch) /\ writer.batch.start = Len(db) + 1
    BY <1>1 DEF BranchInv, WriterReal, IInv, WriterInv
  <2> QED
    BY <2>1, <2>2, Zenon
<1>4. /\ Len(db) \in Nat /\ Len(b.chain) \in Nat /\ Len(db) < Len(b.chain) /\ Made \in Nat
      /\ IsPrefix(b.chain, node) /\ IsPrefix(db, node) /\ ctip \in Int /\ ctip <= Len(db)
      /\ cache \in {0, Made} /\ node \in Chains
  <2>1. db \in Word /\ b.chain \in Word /\ node \in Word
    BY Zenon DEF IInv, GoodBatch
  <2>2. Len(db) \in Nat /\ Len(b.chain) \in Nat /\ Made \in Nat /\ b.start <= Len(b.chain)
    BY <2>1, LenProperties, HeightTypes DEF Word, Made, GoodBatch
  <2>3. Len(db) < Len(b.chain)
    BY <1>3, <2>2
  <2> QED
    BY <1>1, <1>3, <2>2, <2>3 DEF BranchInv, StoreReal, Floor, Real
<1>5. Among(parseQ', parseQ)
  BY <1>1, Zenon DEF Among
<1>6. CASE WriteBatch
  <2>1. db' = b.chain /\ ctip' = Len(b.chain) /\ writer' = IdleWriter
    BY <1>3, <1>6, Zenon DEF WriteBatch
  <2>2. writer'.pc = "recv" /\ writer'.kind = "none"
    BY <2>1, Zenon DEF IdleWriter
  <2>3. Floor' = Len(b.chain) /\ Floor = Len(db)
    BY <1>1, <2>1, <2>2 DEF Floor
  <2>4. StoreReal'
    <3>1. ctip' \in Int /\ ctip' <= Floor'
      BY <1>4, <2>1, <2>3
    <3> QED
      BY <1>1, <1>2, <1>4, <2>1, <3>1, Zenon DEF StoreReal
  <2>5. WriterReal'
    BY <2>2 DEF WriterReal
  <2>6. ASSUME ~Known' PROVE ~Known /\ FedWriter'
    BY <1>1, <1>2, <1>4, <2>1, <2>2, <2>3, <2>6 DEF Known, FedWriter
  <2> QED
    BY <1>1, <1>5, <2>4, <2>5, <2>6, WriterFeeds
<1>7. CASE WriteFails
  <2>1. /\ db' \in {db, b.chain} /\ ctip' = ctip
        /\ writer' = [writer EXCEPT !.pc = "undo", !.kind = "cleanup", !.target = Len(db)]
    BY <1>3, <1>7, Zenon DEF WriteFails, shared
  <2>2. writer'.pc = "undo" /\ writer'.kind = "cleanup" /\ writer'.target = Len(db)
    BY <2>1 DEF IInv, TasksInv, Writer
  <2>3. Floor' = Len(db) /\ Floor = Len(db)
    BY <1>1, <2>2 DEF Floor
  <2>4. StoreReal'
    BY <1>1, <1>2, <1>4, <2>1, <2>3, Zenon DEF StoreReal
  <2>5. WriterReal'
    BY <2>2 DEF WriterReal
  <2>6. Known' <=> Known
    BY <1>1, <1>2, <2>3, Zenon DEF Known
  <2>7. ASSUME Fed PROVE FedWriter'
    <3>1. Len(db) < Made /\ ~Within(b)
      BY <1>1, <1>3, <2>7, Zenon DEF Fed, FedWriter
    <3>2. Len(b.chain) < Made
      BY <1>3, <1>4, <3>1 DEF Within
    <3> QED
      BY <1>2, <2>1, <2>2, <3>1, <3>2 DEF FedWriter
  <2> QED
    BY <1>1, <1>5, <2>4, <2>5, <2>6, <2>7, WriterFeeds
<1> QED
  BY <1>6, <1>7, Zenon

\* A rollback takes back what a failed write left, and the cache with it; the
\* reset that follows makes every batch stale.
LEMMA RollbackFeeds ==
    ASSUME IInv, IInv', BranchInv, FeedInv, CommitRollback \/ ClearCaches
    PROVE  BranchInv' /\ FeedInv'
<1>1. UNCHANGED <<node, fetcher, fetchQ, parser, parseQ, notify>>
  BY Zenon DEF CommitRollback, ClearCaches, shared
<1>2. Made' = Made
  BY <1>1, Zenon DEF Made
<1>3. /\ db \in Word /\ node \in Word /\ Len(db) \in Nat /\ Made \in Nat
      /\ writer \in Writer /\ writer.target \in Nat
      /\ writer.pc \in {"undo", "marked"} => writer.target <= Len(db)
  BY LenProperties, HeightTypes DEF IInv, TasksInv, WriterInv, Word, Made, Writer
<1>4. Among(parseQ', parseQ)
  BY <1>1, Zenon DEF Among
<1>5. CASE CommitRollback
  <2>1. /\ writer.pc = "marked" /\ db' = SubSeq(db, 1, writer.target)
        /\ writer' = [writer EXCEPT !.pc = "clear"] /\ cache' = cache /\ ctip' = ctip
    BY <1>5, Zenon DEF CommitRollback, shared
  <2>2. writer'.pc = "clear" /\ writer'.kind = writer.kind
    BY <1>3, <2>1, Zenon DEF Writer
  <2>3. writer.target \in 0..Len(db) /\ writer.target <= Len(db)
    BY <1>3, <2>1
  <2>4. db' \in Word /\ Len(db') = writer.target /\ IsPrefix(db', db)
    BY <1>3, <2>1, <2>3, PrefixType, CutIsPrefix
  <2>5. IsPrefix(db', node)
    <3>1. IsPrefix(db, node)
      BY Zenon DEF BranchInv, StoreReal
    <3> QED
      BY <1>3, <2>4, <3>1, PrefixOfPrefix
  <2>6. Floor' = Floor
    <3>1. Floor = writer.target
      BY <2>1 DEF Floor
    <3>2. Floor' = Len(db')
      BY <2>2 DEF Floor
    <3> QED
      BY <2>4, <3>1, <3>2, Zenon
  <2>7. StoreReal'
    BY <1>1, <1>2, <2>1, <2>5, <2>6, Zenon DEF BranchInv, StoreReal
  <2>8. WriterReal'
    BY <2>2, Zenon DEF BranchInv, WriterReal
  <2>9. Known' <=> Known
    BY <1>2, <2>1, <2>6, Zenon DEF Known
  <2>10. Fed => FedWriter'
    BY <1>2, <1>3, <2>2, <2>3, <2>4 DEF Fed, FedWriter
  <2> QED
    BY <1>1, <1>4, <2>1, <2>7, <2>8, <2>9, <2>10, WriterFeeds
<1>6. CASE ClearCaches
  <2>1. /\ writer.pc = "clear" /\ db' = db /\ cache' = 0 /\ ctip' = ctip
        /\ writer' = [IdleWriter EXCEPT !.pc = "bump"]
    BY <1>6, Zenon DEF ClearCaches, BranchInv, WriterReal
  <2>2. writer'.pc = "bump" /\ writer'.kind = "none"
    BY <2>1, Zenon DEF IdleWriter
  <2>3. Floor' = Floor
    BY <2>1, <2>2, Zenon DEF Floor
  <2>4. StoreReal'
    BY <1>1, <1>2, <2>1, <2>3, Zenon DEF BranchInv, StoreReal
  <2>5. WriterReal'
    BY <2>2 DEF WriterReal
  <2> QED
    BY <1>1, <1>4, <2>1, <2>2, <2>4, <2>5, WriterFeeds
<1> QED
  BY <1>5, <1>6, Zenon

\* The bump: nothing under way is fresh, and the fetcher is about to be told.
LEMMA BumpFeeds ==
    ASSUME IInv, IInv', QuickReset, BranchInv, FeedInv, BumpEpoch
    PROVE  BranchInv' /\ FeedInv'
<1>1. /\ UNCHANGED <<node, db, notify, cache, ctip>>
      /\ writer.pc = "bump" /\ fetcher.pc # "epoch"
      /\ writer' = [writer EXCEPT !.pc = "notify"]
      /\ fetcher' = [fetcher EXCEPT !.batch = Stale(@)]
      /\ parser' = [parser EXCEPT !.batch = Stale(@)]
      /\ fetchQ' = [i \in DOMAIN fetchQ |-> Stale(fetchQ[i])]
      /\ parseQ' = [i \in DOMAIN parseQ |-> Stale(parseQ[i])]
  BY Zenon DEF BumpEpoch, shared
<1>2. /\ fetcher \in Fetcher /\ parser \in Parser /\ writer \in Writer
      /\ fetchQ \in Seq(GoodBatch) /\ parseQ \in Seq(GoodBatch)
  BY Zenon DEF IInv, TasksInv
<1>3. Made' = Made
  BY <1>1, Zenon DEF Made
<1>4. writer'.pc = "notify" /\ writer'.kind = writer.kind
  BY <1>1, <1>2, Zenon DEF Writer
<1>5. fetcher'.pc = fetcher.pc /\ fetcher'.next = fetcher.next /\ fetcher'.batch = Stale(fetcher.batch)
  BY <1>1, <1>2, Zenon DEF Fetcher
<1>6. parser'.pc = parser.pc /\ parser'.batch = Stale(parser.batch)
  BY <1>1, <1>2, Zenon DEF Parser
<1>7. ASSUME NEW b \in GoodBatch
      PROVE  Stale(b).start = b.start /\ Stale(b).chain = b.chain /\ ~Stale(b).fresh
  BY <1>7, Zenon DEF GoodBatch, Stale
<1>8. fetcher.batch \in GoodBatch /\ parser.batch \in GoodBatch
  BY <1>2, Zenon DEF Fetcher, Parser
<1>9. /\ Len(fetchQ') = Len(fetchQ)
      /\ \A i \in 1..Len(fetchQ) : fetchQ[i] \in GoodBatch /\ fetchQ'[i] = Stale(fetchQ[i])
  <2>1. DOMAIN fetchQ = 1..Len(fetchQ) /\ Len(fetchQ) \in Nat
    BY <1>2, LenProperties
  <2>2. \A i \in 1..Len(fetchQ) : fetchQ[i] \in GoodBatch
    BY <1>2, ElementOfSeq
  <2>3. fetchQ' \in Seq(GoodBatch) /\ DOMAIN fetchQ' = DOMAIN fetchQ
    BY <1>1, <1>2, StaleTypes
  <2>4. Len(fetchQ') = Len(fetchQ)
    BY <2>1, <2>3, LenProperties
  <2> QED
    BY <1>1, <2>1, <2>2, <2>4, Zenon
<1>10. /\ Len(parseQ') = Len(parseQ)
       /\ \A i \in 1..Len(parseQ) : parseQ[i] \in GoodBatch /\ parseQ'[i] = Stale(parseQ[i])
  <2>1. DOMAIN parseQ = 1..Len(parseQ) /\ Len(parseQ) \in Nat
    BY <1>2, LenProperties
  <2>2. \A i \in 1..Len(parseQ) : parseQ[i] \in GoodBatch
    BY <1>2, ElementOfSeq
  <2>3. parseQ' \in Seq(GoodBatch) /\ DOMAIN parseQ' = DOMAIN parseQ
    BY <1>1, <1>2, StaleTypes
  <2>4. Len(parseQ') = Len(parseQ)
    BY <2>1, <2>3, LenProperties
  <2> QED
    BY <1>1, <2>1, <2>2, <2>4, Zenon
<1>11. Floor' = Floor /\ Floor' = Len(db)
  BY <1>1, <1>4 DEF Floor
<1>12. StoreReal' /\ WriterReal'
  BY <1>1, <1>3, <1>4, <1>11 DEF BranchInv, StoreReal, WriterReal
<1>13. FetcherReal'
  BY <1>1, <1>5, <1>7, <1>8, Zenon DEF BranchInv, FetcherReal, Real
<1>14. QueueReal'
  <2> SUFFICES ASSUME NEW i \in 1..Len(fetchQ) PROVE Real(fetchQ[i])'
    BY <1>9, Zenon DEF QueueReal
  <2>1. Real(fetchQ[i]) /\ fetchQ[i] \in GoodBatch /\ fetchQ'[i] = Stale(fetchQ[i])
    BY <1>9, Zenon DEF BranchInv, QueueReal
  <2> QED
    BY <1>1, <1>7, <2>1, Zenon DEF Real
<1>15. ParserReal'
  <2>1. ASSUME NEW i \in 1..Len(parseQ) PROVE Real(parseQ[i])'
    <3>1. Real(parseQ[i]) /\ parseQ[i] \in GoodBatch /\ parseQ'[i] = Stale(parseQ[i])
      BY <1>10, <2>1, Zenon DEF BranchInv, ParserReal
    <3> QED
      BY <1>1, <1>7, <3>1, Zenon DEF Real
  <2>2. parser.pc # "gone" /\ (parser.pc # "recv" => Real(parser.batch)')
    BY <1>1, <1>6, <1>7, <1>8, Zenon DEF BranchInv, ParserReal, Real
  <2> QED
    BY <1>6, <1>10, <2>1, <2>2, Zenon DEF ParserReal
<1>16. Told'
  BY <1>4, Zenon DEF Told
<1>17. ASSUME ~Known' PROVE Fed'
  <2>1. Len(db') < Made'
    <3>1. Len(db) \in Nat /\ Made \in Nat
      BY LenProperties, HeightTypes DEF IInv, Word, Made
    <3> QED
      BY <1>1, <1>3, <1>11, <1>17, <3>1 DEF Known
  <2>2. FedWriter'
    BY <1>4, <2>1 DEF FedWriter
  <2>3. FedFetcher'
    BY <1>1, <1>4, <1>5, <1>7, <1>8, Zenon DEF FedFetcher
  <2>4. FedQueue'
    BY <1>7, <1>9, Zenon DEF FedQueue
  <2>5. FedParser'
    BY <1>6, <1>7, <1>8, <1>10, Zenon DEF FedParser, Covers
  <2> QED
    BY <2>2, <2>3, <2>4, <2>5, Zenon DEF Fed
<1> QED
  BY <1>12, <1>13, <1>14, <1>15, <1>16, <1>17, Zenon DEF BranchInv, FeedInv

\* A new block of the node is above everything stored or under way.
LEMMA ExtendFeeds ==
    ASSUME IInv, IInv', BranchInv, FeedInv, NodeExtend
    PROVE  BranchInv' /\ FeedInv'
<1>1. /\ UNCHANGED <<db, fetcher, fetchQ, parser, parseQ, writer, notify, cache, ctip>>
      /\ node' \in Chains /\ \E l \in Label : node' = Append(node, l)
  BY Zenon DEF NodeExtend, tasks, shared
<1>2. /\ node \in Word /\ Len(node) \in Nat /\ db \in Word /\ Len(db) \in Nat /\ Made \in Nat
      /\ fetcher \in Fetcher /\ fetcher.next \in Nat /\ parser \in Parser /\ writer \in Writer
      /\ fetchQ \in Seq(GoodBatch) /\ parseQ \in Seq(GoodBatch)
  BY LenProperties, HeightTypes DEF IInv, TasksInv, Word, Made, Fetcher
<1>3. /\ Len(node') = Len(node) + 1 /\ IsPrefix(node, node') /\ node' \in Word
      /\ Made' = Made \/ (Made = 0 /\ Made' = Len(node) + 1)
  BY <1>1, <1>2, GrownNode
<1>4. ASSUME NEW b \in GoodBatch, Real(b)
      PROVE  /\ 1 <= b.start /\ IsPrefix(b.chain, node')
             /\ b.start \in Nat /\ b.start <= Len(node)
             /\ Len(b.chain) \in Nat /\ Len(b.chain) <= Len(node)
  <2>1. b.chain \in Word /\ b.start \in Nat /\ b.start <= Len(b.chain)
    BY DEF GoodBatch
  <2>2. Len(b.chain) \in Nat /\ Len(b.chain) <= Len(node) /\ IsPrefix(b.chain, node) /\ 1 <= b.start
    BY <1>4, <2>1, LenProperties DEF Real, IsPrefix, Word
  <2>3. IsPrefix(b.chain, node')
    BY <1>2, <1>3, <2>1, <2>2, PrefixOfPrefix, Zenon
  <2> QED
    BY <1>2, <2>1, <2>2, <2>3
<1>5. /\ \A i \in 1..Len(fetchQ) : fetchQ[i] \in GoodBatch /\ Real(fetchQ[i])
      /\ \A i \in 1..Len(parseQ) : parseQ[i] \in GoodBatch /\ Real(parseQ[i])
  BY <1>2, ElementOfSeq DEF BranchInv, QueueReal, ParserReal
<1>6. /\ fetcher.batch \in GoodBatch /\ (fetcher.pc # "top" => Real(fetcher.batch))
      /\ parser.batch \in GoodBatch /\ (parser.pc # "recv" => Real(parser.batch))
      /\ writer.batch \in GoodBatch /\ (writer.pc \in {"check", "write"} => Real(writer.batch))
  BY <1>2, Zenon DEF BranchInv, FetcherReal, ParserReal, WriterReal, Fetcher, Parser, Writer
<1>7. StoreReal'
  <2>1. IsPrefix(db, node')
    BY <1>2, <1>3, PrefixOfPrefix, Zenon DEF BranchInv, StoreReal
  <2>2. cache \in {0, Made'}
    BY <1>3, Zenon DEF BranchInv, StoreReal
  <2>3. Floor' = Floor
    BY <1>1, Zenon DEF Floor
  <2> QED
    BY <1>1, <2>1, <2>2, <2>3, Zenon DEF BranchInv, StoreReal
<1>8. FetcherReal'
  <2>1. fetcher'.pc # "gone" /\ fetcher'.next <= Len(node') + 1
    BY <1>1, <1>2, <1>3 DEF BranchInv, FetcherReal
  <2> QED
    BY <1>1, <1>4, <1>6, <2>1, Zenon DEF FetcherReal, Real
<1>9. QueueReal'
  BY <1>1, <1>4, <1>5, Zenon DEF QueueReal, Real
<1>10. ParserReal'
  BY <1>1, <1>4, <1>5, <1>6, Zenon DEF BranchInv, ParserReal, Real
<1>11. WriterReal'
  BY <1>1, <1>4, <1>6, Zenon DEF BranchInv, WriterReal, Real
<1>12. Told'
  BY <1>1, Zenon DEF FeedInv, Told
<1>13. ASSUME writer'.pc # "bump", ~Known' PROVE Fed'
  <2>1. CASE Made' = Made
    <3>1. Fed
      BY <1>1, <1>13, <2>1, Zenon DEF FeedInv, Known, Floor
    <3>2. FedFetcher'
      BY <1>1, <2>1, <3>1, Zenon DEF Fed, FedFetcher, Supplied, Ahead, Queued, Covers, Within
    <3>3. FedQueue'
      BY <1>1, <2>1, <3>1, Zenon DEF Fed, FedQueue, Supplied, Ahead, Queued, Covers, Within
    <3>4. FedParser'
      BY <1>1, <2>1, <3>1, Zenon DEF Fed, FedParser, Covers, Within
    <3>5. FedWriter'
      BY <1>1, <2>1, <3>1, Zenon DEF Fed, FedWriter, Within
    <3> QED
      BY <3>2, <3>3, <3>4, <3>5, Zenon DEF Fed
  <2>2. CASE Made' = Len(node) + 1
    <3>1. ASSUME NEW b \in GoodBatch, Real(b)
          PROVE  b.start <= Made' /\ ~(Made' <= Len(b.chain))
      <4>1. /\ b.start \in Nat /\ b.start <= Len(node)
            /\ Len(b.chain) \in Nat /\ Len(b.chain) <= Len(node)
        BY <1>4, <3>1, Zenon
      <4> QED
        BY <1>2, <2>2, <4>1
    <3>2. FedFetcher'
      <4>1. fetcher'.next <= Made'
        BY <1>1, <1>2, <2>2 DEF BranchInv, FetcherReal
      <4>2. fetcher'.pc # "top" => fetcher'.batch.start <= Made'
        BY <1>1, <1>6, <3>1, Zenon
      <4>3. fetcher'.pc = "epoch" => fetcher'.pc # "top"
        OBVIOUS
      <4> QED
        BY <4>1, <4>2, <4>3, Zenon DEF FedFetcher, Supplied
    <3>3. FedQueue'
      BY <1>1, <1>5, <3>1, Zenon DEF FedQueue, Supplied
    <3>4. FedParser'
      <4>1. parser'.pc \in {"resolve", "count", "send"} => parser.pc # "recv"
        BY <1>1
      <4> QED
        BY <1>1, <1>5, <1>6, <3>1, <4>1, Zenon DEF FedParser, Covers, Within
    <3>5. FedWriter'
      <4>1. Len(db') < Made'
        BY <1>1, <1>2, <2>2 DEF BranchInv, StoreReal, IsPrefix
      <4> QED
        BY <1>1, <1>6, <3>1, <4>1, Zenon DEF FedWriter, Within
    <3> QED
      BY <3>2, <3>3, <3>4, <3>5, Zenon DEF Fed
  <2> QED
    BY <1>3, <2>1, <2>2, Zenon
<1> QED
  BY <1>7, <1>8, <1>9, <1>10, <1>11, <1>12, <1>13, Zenon DEF BranchInv, FeedInv

\* A start.
LEMMA InitSteady == Init => SteadyInv
<1> SUFFICES ASSUME Init PROVE SteadyInv
  OBVIOUS
<1>1. /\ node = <<>> /\ db = <<>> /\ fetchQ = <<>> /\ parseQ = <<>> /\ cache = 0 /\ ctip = -1
      /\ fetcher.pc = "top" /\ fetcher.next = 0 /\ parser.pc = "recv"
      /\ writer.pc = "recv" /\ writer.kind = "none"
  BY Zenon DEF Init, IdleFetcher, IdleParser, IdleWriter
<1>2. faults \in [switches : Nat, writes : Nat]
  BY DEF Init
<1>3. Len(<<>>) = 0 /\ <<>> \in Word
  BY DEF Word
<1>4. Made = 0
  <2>1. Positions(node, Creates) = {}
    BY <1>1, <1>3 DEF Positions
  <2> QED
    BY <2>1, Zenon DEF Made, CreatedAt, First
<1>5. Floor = 0
  BY <1>1, <1>3 DEF Floor
<1>6. node \in Chains
  <2>1. /\ Positions(node, Creates) = {} /\ Positions(node, Spends) = {}
    BY <1>1, <1>3 DEF Positions
  <2>2. SpentAt(node) = 0
    BY <2>1, Zenon DEF SpentAt, First
  <2>3. Valid(node)
    BY <2>1, <2>2, Zenon DEF Valid
  <2>4. node \in [1..0 -> Label] /\ 0 \in 0..MaxHeight
    BY <1>1, PipelineAssumption
  <2> QED
    BY <2>3, <2>4, Zenon DEF Chains
<1>7. StoreReal
  <2>1. IsPrefix(db, node)
    BY <1>1, <1>3, PrefixPoints
  <2> QED
    BY <1>1, <1>4, <1>5, <1>6, <2>1 DEF StoreReal
<1>8. FetcherReal /\ QueueReal /\ ParserReal /\ WriterReal
  BY <1>1, <1>3 DEF FetcherReal, QueueReal, ParserReal, WriterReal
<1>9. Told /\ Known
  BY <1>1, <1>4, <1>5 DEF Told, Known
<1> QED
  BY <1>2, <1>7, <1>8, <1>9, Zenon DEF SteadyInv, BranchInv, FeedInv

\* A step while the node keeps its branch.
LEMMA NextSteady ==
    ASSUME IInv, IInv', CounterInv, SteadyInv, [Next]_vars
    PROVE  SteadyInv'
<1>1. faults \in [switches : Nat, writes : Nat]
  BY Zenon DEF SteadyInv
<1>2. CASE NodeSwitch
  <2>1. faults' = [faults EXCEPT !.switches = faults.switches + 1]
    BY <1>2, Zenon DEF NodeSwitch
  <2>2. faults' \in [switches : Nat, writes : Nat] /\ faults'.switches # 0
    BY <1>1, <2>1
  <2> QED
    BY <2>2, Zenon DEF SteadyInv
<1>3. CASE ~NodeSwitch
  <2>1. faults' \in [switches : Nat, writes : Nat] /\ faults'.switches = faults.switches
    <3>1. CASE WriteFails
      <4>1. faults' = [faults EXCEPT !.writes = faults.writes + 1]
        BY <3>1, Zenon DEF WriteFails
      <4> QED
        BY <1>1, <4>1
    <3>2. CASE ~WriteFails
      <4>1. faults' = faults
        BY <1>3, <3>2, Zenon DEF Next, vars, tasks, shared, NodeExtend, FetcherStep, PlanFetch,
           LoadEpoch, FetchBlocks, SendFetched, ParserStep, ReceiveFetched, ResolveInputs,
           AbandonStale, RetryUnresolved, PublishOutputs, CountPending, SendParsed, WriterStep,
           ReceiveParsed, CheckReorg, WriteBatch, MarkRollback, CommitRollback, ClearCaches,
           BumpEpoch, NotifyFetcher, DrainParsed, ZeroPending, IdleTimeout, Restart
      <4> QED
        BY <1>1, <4>1, Zenon
    <3> QED
      BY <3>1, <3>2, Zenon
  <2> SUFFICES ASSUME QuickReset, faults.switches = 0 PROVE BranchInv' /\ FeedInv'
    BY <2>1, Zenon DEF SteadyInv
  <2>2. BranchInv /\ FeedInv
    BY Zenon DEF SteadyInv
  <2>3. CASE UNCHANGED vars
    <3>1. UNCHANGED <<node, db, fetcher, fetchQ, parser, parseQ, writer, notify, cache, ctip>>
      BY <2>3, Zenon DEF vars, tasks, shared
    <3>2. ParserReal'
      BY <2>2, <3>1, RealKept, Zenon
    <3>3. Ahead => Ahead'
      BY <3>1, Zenon DEF Ahead, Covers, Within, Made
    <3>4. Fed => FedParser'
      BY <3>1, FedKept, Zenon
    <3> QED
      BY <2>2, <3>1, <3>2, <3>3, <3>4, ParserFeeds, Zenon
  <2>4. CASE NodeExtend
    BY <2>2, <2>4, ExtendFeeds, Zenon
  <2>5. CASE FetcherStep
    BY <2>2, <2>5, PlanFeeds, FetchFeeds, SendFeeds, Zenon DEF FetcherStep
  <2>6. CASE ParserStep
    BY <2>2, <2>6, ReceiveFeeds, ResolveFeeds, NothingUnresolved, PublishFeeds, CountFeeds, Zenon
       DEF ParserStep
  <2>7. CASE WriterStep
    <3>1. ~IdleTimeout
      BY <2>2, Zenon DEF IdleTimeout, BranchInv, FetcherReal, ParserReal
    <3>2. CASE ReceiveParsed
      BY <2>2, <3>2, ReceiveParsedFeeds, Zenon
    <3>3. CASE CheckReorg \/ MarkRollback \/ NotifyFetcher \/ DrainParsed \/ ZeroPending
      BY <2>2, <3>3, CheckFeeds, Zenon
    <3>4. CASE WriteBatch
      BY <2>2, <3>4, WriteFeeds, Zenon
    <3>5. CASE CommitRollback \/ ClearCaches
      BY <2>2, <3>5, RollbackFeeds, Zenon
    <3>6. CASE BumpEpoch
      BY <2>2, <3>6, BumpFeeds, Zenon
    <3> QED
      BY <2>7, <3>1, <3>2, <3>3, <3>4, <3>5, <3>6, Zenon DEF WriterStep
  <2>8. CASE WriteFails
    BY <2>2, <2>8, WriteFeeds, Zenon
  <2>9. CASE Restart
    BY <2>2, <2>9 DEF Restart, Running, BranchInv, WriterReal, CounterInv, NoUnderflow
  <2> QED
    BY <1>3, <2>3, <2>4, <2>5, <2>6, <2>7, <2>8, <2>9, Zenon DEF Next
<1> QED
  BY <1>2, <1>3, Zenon

\* As long as the node keeps its branch and a reset is quicker than a fetch or
\* a retry, no attempt is ever counted by advance_unresolved_retry_budget and
\* the parser task does not end, for every chain, capacity, batch size and
\* number of failed writes: an evicted cell is in the store, and a rollback
\* that takes it out again makes stale every batch that could miss it.
THEOREM ParserNeverGivesUp ==
    Spec => [](QuickReset /\ faults.switches = 0 => ParserKeepsResolving)
<1>1. SteadyInv => (QuickReset /\ faults.switches = 0 => ParserKeepsResolving)
  BY Zenon DEF SteadyInv, BranchInv, ParserReal, ParserKeepsResolving
<1>2. IInv /\ IInv' /\ CounterInv /\ SteadyInv /\ [Next]_vars => SteadyInv'
  BY NextSteady
<1> QED
  BY <1>1, <1>2, Invariant, InitCounts, NextCounts, InitSteady, PTL DEF Spec

=============================================================================
