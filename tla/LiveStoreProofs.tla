--------------------------- MODULE LiveStoreProofs ---------------------------
(***************************************************************************)
(* Proofs about LiveStore, for every label, key and bound.                 *)
(***************************************************************************)
EXTENDS LiveStoreView, TLAPS, SequenceTheorems

-----------------------------------------------------------------------------
(* The inductive invariant. *)

\* Block number h is stored at height h.
Heights == \A h \in 1..Tip : Len(headers[h]) = h

\* Every undo entry belongs to a stored block that touches its key, and its
\* pre-image is the row at the end of the previous block, up to torn blocks.
UndoSound ==
    \A e \in undo :
        /\ e.blk \in 1..Tip
        /\ e.key \in Touched(headers[e.blk])
        /\ e.prev \subseteq Effects(e.key, e.blk - 1)
        /\ Effects(e.key, e.blk - 1) \ torn \subseteq e.prev

\* The effect of block h is nowhere left in what concerns row k.
Forgotten(h, k) ==
    /\ headers[h] \in torn
    /\ headers[h] \notin rows[k]
    /\ \A e \in undo : e.key = k => headers[h] \notin e.prev

\* Above the floor a mutation can be undone, or has been undone already.
UndoComplete ==
    \A h \in (floor + 1)..Tip : \A k \in Touched(headers[h]) :
        (\E e \in undo : e.blk = h /\ e.key = k) \/ Forgotten(h, k)

\* A batch under way is numbered from the tip and, once checked, builds on it.
BatchFollowsTip ==
    /\ pc \in {"idle", "probe", "search", "write", "down"} =>
         \A i \in 1..Len(inflight) : Len(inflight[i]) = Tip + i
    /\ pc = "write" => inflight # <<>> /\ Extends(inflight[1], TipBlock)

\* A rollback stays between the floor and the tip.
JobInRange ==
    /\ pc = "committed" => job.target <= Tip
    /\ pc \in {"undo", "marked"} => job.target \in floor..Tip
    /\ pc = "marked" => Pending = {}

\* What the stored data satisfy, whatever the writer is doing.
DataInv ==
    /\ floor <= Tip
    /\ Heights
    /\ UndoSound
    /\ NoOrphanRows
    /\ OnlyTornRowsMissing
    /\ UndoComplete

IInv == TypeOK /\ DataInv /\ BatchFollowsTip /\ JobInRange

\* A leaf that cites no prover goes to SMT, for at most a minute.
USE SMTT(60)

-----------------------------------------------------------------------------
(* Blocks and chains. *)

\* A block read from the node by number has that height (get_block_by_number).
LEMMA ChainBlockHeight ==
    ASSUME node \in Seq(Label), NEW h \in 1..Len(node)
    PROVE  ChainBlock(h) \in Block /\ Len(ChainBlock(h)) = h
<1>1. \A i \in 1..h : node[i] \in Label
  BY ElementOfSeq
<1> QED
  BY <1>1, SubSeqProperties DEF ChainBlock, Block

\* The stored header of a height up to the tip is a block of that height.
LEMMA StoredBlock ==
    ASSUME TypeOK, Heights, NEW h \in 0..Tip
    PROVE  HeaderAt(h) \in Block /\ Len(HeaderAt(h)) = h
<1>1. Tip \in Nat
  BY LenProperties DEF TypeOK, Tip
<1>2. CASE h = 0
  BY <1>2, EmptySeq DEF HeaderAt, Block, Genesis
<1>3. CASE h # 0
  BY <1>1, <1>3, ElementOfSeq DEF HeaderAt, Heights, TypeOK, Tip
<1> QED
  BY <1>2, <1>3

\* The chains a node can be on are sequences of labels.
LEMMA ChainsAreSequences == Chains \subseteq Seq(Label)
BY SeqDef, ConstantsAssumption DEF Chains

\* A block above genesis touches keys of the store.
LEMMA TouchedKeys ==
    ASSUME NEW b \in Block, Len(b) > 0
    PROVE  Touched(b) \subseteq Key
<1>1. b \in Seq(Label) /\ Len(b) \in 1..Len(b)
  BY LenProperties DEF Block
<1>2. b[Len(b)] \in Label
  BY <1>1, ElementOfSeq
<1> QED
  BY <1>2, ConstantsAssumption DEF Touched

\* The effects up to height h are blocks no higher than h.
LEMMA EffectsBelow ==
    ASSUME TypeOK, Heights, NEW k, NEW h \in 0..Tip, NEW b \in Effects(k, h)
    PROVE  Len(b) \in 1..h
<1>1. Tip \in Nat
  BY LenProperties DEF TypeOK, Tip
<1>2. PICK i \in 1..h : b = headers[i]
  BY DEF Effects
<1> QED
  BY <1>1, <1>2 DEF Heights

\* The effects up to height h depend on the headers up to h only.
LEMMA EffectsOfPrefix ==
    ASSUME NEW h \in Nat, \A i \in 1..h : headers'[i] = headers[i], NEW k
    PROVE  Effects(k, h)' = Effects(k, h)
<1>1. \A i \in 1..h : k \in Touched(headers[i])' <=> k \in Touched(headers[i])
  BY DEF Touched
<1>2. Effects(k, h)' = {headers'[i] : i \in {j \in 1..h : k \in Touched(headers[j])'}}
  BY DEF Effects
<1>3. ASSUME NEW b \in Effects(k, h) PROVE b \in Effects(k, h)'
  <2>1. PICK i \in 1..h : k \in Touched(headers[i]) /\ b = headers[i]
    BY DEF Effects
  <2> QED
    BY <1>1, <1>2, <2>1
<1>4. ASSUME NEW b \in Effects(k, h)' PROVE b \in Effects(k, h)
  <2>1. PICK i \in 1..h : k \in Touched(headers[i])' /\ b = headers'[i]
    BY <1>2
  <2> QED
    BY <1>1, <2>1 DEF Effects
<1> QED
  BY <1>3, <1>4

-----------------------------------------------------------------------------
(* Steps that leave the stored data alone. *)

\* What the data invariant says depends on five variables only.
LEMMA DataUntouched ==
    ASSUME DataInv, UNCHANGED <<headers, rows, undo, floor, torn>>
    PROVE  DataInv'
<1>1. (floor <= Tip)' /\ Heights'
  BY DEF DataInv, Heights, Tip
<1>2. UndoSound'
  BY DEF DataInv, UndoSound, Effects, Touched, Tip
<1>3. NoOrphanRows' /\ OnlyTornRowsMissing'
  BY DEF DataInv, NoOrphanRows, OnlyTornRowsMissing, Effects, Touched, Tip
<1>4. UndoComplete'
  BY DEF DataInv, UndoComplete, Forgotten, Touched, Tip
<1> QED
  BY <1>1, <1>2, <1>3, <1>4 DEF DataInv

\* An error that leaves run_pipeline keeps the invariant: memory is cleared.
LEMMA StopKeepsInvariant ==
    ASSUME IInv, NEW reason, Stop(reason),
           reason \in {"none", "crash", "node", "precheck", "coverage",
                       "reorg_history", "cleanup_history", "escalated"},
           UNCHANGED <<headers, rows, undo, floor, hist, torn>>,
           node' = node, switches' = switches,
           current' \subseteq Block, marker' \in BOOLEAN, deepFork' \in BOOLEAN,
           faults' \in [crashes : Nat, writes : Nat]
    PROVE  IInv'
<1>1. DataInv'
  BY DataUntouched DEF IInv
<1>2. TypeOK'
  BY EmptySeq, Zenon DEF IInv, TypeOK, Stop, NoJob, NoFails
<1>3. BatchFollowsTip' /\ JobInRange'
  BY EmptySeq DEF Stop, BatchFollowsTip, JobInRange
<1> QED
  BY <1>1, <1>2, <1>3 DEF IInv
\* A failed batch write that starts its cleanup, or is refused, keeps the
\* invariant: the target lies between the floor and the tip.
LEMMA CleanupKeepsInvariant ==
    ASSUME IInv, NEW target \in 0..Tip, CleanupBatchRange(target),
           UNCHANGED <<node, switches, domain, torn>>,
           faults' \in [crashes : Nat, writes : Nat]
    PROVE  IInv'
<1>1. CASE target < floor
  BY <1>1, StopKeepsInvariant, Zenon DEF CleanupBatchRange, IInv, TypeOK, domain
<1>2. CASE ~(target < floor)
  <2>1. Tip \in Nat /\ floor \in Nat
    BY LenProperties DEF IInv, TypeOK, Tip
  <2>2. DataInv'
    BY DataUntouched DEF IInv, domain
  <2>3. TypeOK'
    BY <1>2, <2>1, EmptySeq DEF CleanupBatchRange, IInv, TypeOK, domain
  <2>4. BatchFollowsTip' /\ JobInRange'
    BY <1>2, <2>1 DEF CleanupBatchRange, BatchFollowsTip, JobInRange, Tip, domain
  <2> QED
    BY <2>2, <2>3, <2>4 DEF IInv
<1> QED
  BY <1>1, <1>2, Zenon

-----------------------------------------------------------------------------
(* Undo replay. *)

\* Replaying the newest entry of rollback_via_undo_log keeps the data sound:
\* the block it belongs to becomes torn, no other row changes.
LEMMA ReplayKeepsData ==
    ASSUME IInv, ReplayUndo
    PROVE  DataInv'
<1>1. PICK e \in Pending : /\ \A f \in Pending : f.blk <= e.blk
                           /\ rows' = [rows EXCEPT ![e.key] = e.prev]
                           /\ undo' = undo \ {e}
                           /\ torn' = torn \cup {HeaderAt(e.blk)}
  BY Zenon DEF ReplayUndo
<1>2. /\ UNCHANGED <<headers, floor>> /\ Tip' = Tip
      /\ Tip \in Nat /\ floor \in Nat /\ job.target \in floor..Tip
  BY LenProperties DEF ReplayUndo, IInv, TypeOK, Tip, JobInRange
<1>3. /\ e \in undo /\ e.blk \in 1..Tip /\ e.blk > job.target
      /\ e.blk \in (floor + 1)..Tip /\ e.key \in Key
      /\ e.key \in Touched(headers[e.blk]) /\ HeaderAt(e.blk) = headers[e.blk]
  BY <1>1, <1>2 DEF Pending, IInv, DataInv, UndoSound, TypeOK, HeaderAt
<1>4. \A k, h : Effects(k, h)' = Effects(k, h)
  BY <1>2 DEF Effects, Touched
<1>5. \A k, h : h \in 0..Tip => \A b \in Effects(k, h) : Len(b) <= h
  BY EffectsBelow DEF IInv, DataInv
<1>6. (floor <= Tip)' /\ Heights'
  BY <1>2 DEF IInv, DataInv, Heights
<1>7. UndoSound'
  BY <1>1, <1>2, <1>4 DEF IInv, DataInv, UndoSound, Touched
<1>8. NoOrphanRows'
  <2> SUFFICES ASSUME NEW k \in Key PROVE rows'[k] \subseteq Effects(k, Tip)
    BY <1>2, <1>4 DEF NoOrphanRows
  <2>1. CASE k # e.key
    BY <1>1, <2>1 DEF IInv, TypeOK, DataInv, NoOrphanRows
  <2>2. CASE k = e.key
    <3>1. rows'[k] = e.prev
      BY <1>1, <2>2 DEF IInv, TypeOK
    <3>2. e.prev \subseteq Effects(k, e.blk - 1)
      BY <1>3, <2>2 DEF IInv, DataInv, UndoSound
    <3>3. Effects(k, e.blk - 1) \subseteq Effects(k, Tip)
      BY <1>2, <1>3 DEF Effects
    <3> QED
      BY <3>1, <3>2, <3>3
  <2> QED
    BY <2>1, <2>2
<1>9. OnlyTornRowsMissing'
  <2> SUFFICES ASSUME NEW k \in Key, NEW b \in Effects(k, Tip), b \notin torn'
               PROVE  b \in rows'[k]
    BY <1>2, <1>4 DEF OnlyTornRowsMissing
  <2>1. CASE k # e.key
    BY <1>1, <2>1 DEF IInv, TypeOK, DataInv, OnlyTornRowsMissing
  <2>2. CASE k = e.key
    <3>1. PICK j \in 1..Tip : k \in Touched(headers[j]) /\ b = headers[j]
      BY DEF Effects
    <3>2. j # e.blk
      BY <1>1, <1>3, <3>1
    <3>3. ~(j > e.blk)
      <4> SUFFICES ASSUME j > e.blk PROVE FALSE
        OBVIOUS
      <4>1. j \in (floor + 1)..Tip
        BY <1>2, <1>3, <3>1
      <4>2. b \notin torn
        BY <1>1
      <4>3. PICK f \in undo : f.blk = j /\ f.key = k
        BY <4>1, <4>2, <3>1 DEF IInv, DataInv, UndoComplete, Forgotten
      <4>4. f \in Pending
        BY <4>3, <1>2, <1>3 DEF Pending
      <4> QED
        BY <1>1, <1>2, <1>3, <4>3, <4>4
    <3>4. b \in Effects(k, e.blk - 1)
      BY <1>2, <1>3, <3>1, <3>2, <3>3 DEF Effects
    <3>5. b \in e.prev
      BY <1>1, <1>3, <2>2, <3>4, Zenon DEF IInv, DataInv, UndoSound
    <3> QED
      BY <1>1, <2>2, <3>5, Zenon DEF IInv, TypeOK
  <2> QED
    BY <2>1, <2>2
<1>10. UndoComplete'
  <2> SUFFICES ASSUME NEW h \in (floor + 1)..Tip, NEW k \in Touched(headers[h]),
                      ~\E f \in undo' : f.blk = h /\ f.key = k
               PROVE  Forgotten(h, k)'
    BY <1>2 DEF UndoComplete, Touched
  <2>0. h \in 1..Tip /\ k \in Key
    BY <1>2, ElementOfSeq, ConstantsAssumption
    DEF Touched, IInv, DataInv, Heights, TypeOK, Tip, Block
  <2>1. CASE h = e.blk /\ k = e.key
    <3>1. \A f \in undo' : f.key = k => f.blk <= h
      BY <1>1, <1>2, <1>3, <2>1 DEF Pending, IInv, TypeOK
    <3>2. \A f \in undo : f.blk <= h /\ f.key = k => headers[h] \notin f.prev
      <4> SUFFICES ASSUME NEW f \in undo, f.blk <= h, f.key = k, headers[h] \in f.prev
                   PROVE  FALSE
        OBVIOUS
      <4>1. f.blk \in 1..Tip /\ headers[h] \in Effects(k, f.blk - 1)
        BY DEF IInv, DataInv, UndoSound
      <4>2. Len(headers[h]) = h
        BY <2>0 DEF IInv, DataInv, Heights
      <4> QED
        BY <1>2, <1>5, <2>0, <4>1, <4>2
    <3>3. headers[h] \notin rows'[k]
      BY <1>1, <1>3, <2>0, <2>1, <3>2, Zenon DEF IInv, TypeOK
    <3> QED
      BY <1>1, <1>2, <1>3, <2>1, <3>1, <3>2, <3>3 DEF Forgotten
  <2>2. CASE ~(h = e.blk /\ k = e.key)
    <3>1. Forgotten(h, k)
      BY <1>1, <2>2 DEF IInv, DataInv, UndoComplete
    <3>2. headers[h] \notin rows'[k]
      BY <1>1, <1>3, <2>0, <3>1, Zenon DEF Forgotten, IInv, TypeOK
    <3> QED
      BY <1>1, <1>2, <3>1, <3>2 DEF Forgotten
  <2> QED
    BY <2>1, <2>2, Zenon
<1> QED
  BY <1>6, <1>7, <1>8, <1>9, <1>10 DEF DataInv
-----------------------------------------------------------------------------
(* Canonical rollback. *)

\* Removing the headers above the target after the replay keeps the data sound:
\* no row, and no retained pre-image, contains a removed block.
LEMMA RollbackKeepsData ==
    ASSUME IInv, CommitRollback
    PROVE  DataInv' /\ Tip' = job.target /\ headers' \in Seq(Block)
<1> DEFINE t == job.target
<1>1. Tip \in Nat /\ floor \in Nat /\ t \in floor..Tip /\ t \in 0..Tip /\ Pending = {}
  BY LenProperties DEF CommitRollback, IInv, TypeOK, Tip, JobInRange
<1>2. /\ headers' \in Seq(Block) /\ Tip' = t
      /\ \A i \in 1..t : headers'[i] = headers[i]
  <2>1. \A i \in 1..t : headers[i] \in Block
    BY <1>1, ElementOfSeq DEF IInv, TypeOK, Tip
  <2>2. headers' = SubSeq(headers, 1, t)
    BY DEF CommitRollback
  <2> QED
    BY <1>1, <2>1, <2>2, SubSeqProperties DEF Tip
<1>3. /\ UNCHANGED <<rows, undo, floor>>
      /\ torn' = {b \in torn : Len(b) <= t}
  BY DEF CommitRollback
<1>4. \A k, h : h \in 0..t => Effects(k, h)' = Effects(k, h)
  BY <1>1, <1>2, EffectsOfPrefix
<1>5. \A k, h : h \in 0..t => \A b \in Effects(k, h) : Len(b) <= t
  BY <1>1, EffectsBelow DEF IInv, DataInv
<1>6. \A e \in undo : e.blk \in 1..t
  BY <1>1 DEF Pending, IInv, DataInv, UndoSound
<1>7. (floor <= Tip)' /\ Heights'
  BY <1>1, <1>2, <1>3 DEF IInv, DataInv, Heights
<1>8. UndoSound'
  <2> SUFFICES ASSUME NEW e \in undo
               PROVE  /\ e.blk \in 1..t
                      /\ e.key \in Touched(headers[e.blk])'
                      /\ e.prev \subseteq Effects(e.key, e.blk - 1)'
                      /\ Effects(e.key, e.blk - 1)' \ torn' \subseteq e.prev
    BY <1>2, <1>3 DEF UndoSound, Touched, Effects
  <2>1. e.blk \in 1..t /\ e.blk - 1 \in 0..t
    BY <1>1, <1>6
  <2>2. Effects(e.key, e.blk - 1)' = Effects(e.key, e.blk - 1)
    BY <1>4, <2>1
  <2>3. Effects(e.key, e.blk - 1) \ torn' \subseteq Effects(e.key, e.blk - 1) \ torn
    BY <1>3, <1>5, <2>1, Zenon
  <2>4. e.key \in Touched(headers[e.blk])'
    BY <1>2, <2>1, Zenon DEF IInv, DataInv, UndoSound, Touched
  <2> QED
    BY <2>1, <2>2, <2>3, <2>4 DEF IInv, DataInv, UndoSound
<1>9. NoOrphanRows'
  <2> SUFFICES ASSUME NEW k \in Key, NEW b \in rows[k] PROVE b \in Effects(k, t)
    BY <1>1, <1>2, <1>3, <1>4 DEF NoOrphanRows
  <2>1. PICK j \in 1..Tip : k \in Touched(headers[j]) /\ b = headers[j]
    BY DEF IInv, DataInv, NoOrphanRows, Effects
  <2>2. ~(j > t)
    <3> SUFFICES ASSUME j > t PROVE FALSE
      OBVIOUS
    <3>1. j \in (floor + 1)..Tip
      BY <1>1, <2>1
    <3>2. PICK e \in undo : e.blk = j
      BY <2>1, <3>1, Zenon DEF IInv, DataInv, UndoComplete, Forgotten
    <3> QED
      BY <1>1, <1>6, <3>2
  <2> QED
    BY <1>1, <2>1, <2>2 DEF Effects
<1>10. OnlyTornRowsMissing'
  <2> SUFFICES ASSUME NEW k \in Key, NEW b \in Effects(k, t), b \notin torn'
               PROVE  b \in rows[k]
    BY <1>1, <1>2, <1>3, <1>4 DEF OnlyTornRowsMissing
  <2>1. b \notin torn
    BY <1>1, <1>3, <1>5
  <2>2. b \in Effects(k, Tip)
    BY <1>1 DEF Effects
  <2> QED
    BY <2>1, <2>2, Zenon DEF IInv, DataInv, OnlyTornRowsMissing
<1>11. UndoComplete'
  <2> SUFFICES ASSUME NEW h \in (floor + 1)..t, NEW k \in Touched(headers[h]),
                      ~\E e \in undo : e.blk = h /\ e.key = k
               PROVE  Forgotten(h, k)'
    BY <1>1, <1>2, <1>3 DEF UndoComplete, Touched
  <2>1. Forgotten(h, k) /\ h \in 1..t /\ Len(headers[h]) = h
    BY <1>1 DEF IInv, DataInv, UndoComplete, Heights
  <2> QED
    BY <1>1, <1>2, <1>3, <2>1 DEF Forgotten
<1> QED
  BY <1>2, <1>7, <1>8, <1>9, <1>10, <1>11 DEF DataInv
-----------------------------------------------------------------------------
(* The commit of a batch. *)

\* The atomic commit of write_parsed_batch keeps the data sound: every block of
\* the batch is folded into its rows and leaves a pre-image of each.
LEMMA CommitKeepsData ==
    ASSUME IInv, CommitBatch
    PROVE  DataInv' /\ headers' \in Seq(Block) /\ Tip <= Tip'
<1>0. PICK T \in Nat, n \in Nat : T = Tip /\ n = Len(inflight)
  BY LenProperties, Zenon DEF IInv, TypeOK, Tip
<1>1. /\ floor \in Nat /\ floor <= T
      /\ inflight \in Seq(Block) /\ headers \in Seq(Block)
      /\ \A i \in 1..n : Len(inflight[i]) = T + i
  BY <1>0 DEF CommitBatch, IInv, TypeOK, DataInv, BatchFollowsTip
<1>2. /\ headers' \in Seq(Block) /\ Tip' = T + n
      /\ \A i \in 1..T : headers'[i] = headers[i]
      /\ \A i \in 1..n : headers'[T + i] = inflight[i]
  <2>1. headers' = headers \o inflight
    BY Zenon DEF CommitBatch
  <2> QED
    BY <1>0, <1>1, <2>1, ConcatProperties DEF Tip
<1>3. /\ rows' = [k \in Key |-> rows[k] \cup BatchEffects(k, n + 1)]
      /\ undo' = (undo \ Pruned) \cup PreImages
      /\ floor' = NextFloor /\ torn' = torn
  BY <1>0 DEF CommitBatch
<1>4. NextFloor \in floor..T
  BY <1>0, <1>1, ConstantsAssumption DEF NextFloor, Max2
<1>5. ASSUME NEW k, NEW h \in 0..T PROVE Effects(k, h)' = Effects(k, h)
  <2>1. h \in Nat /\ \A i \in 1..h : headers'[i] = headers[i]
    BY <1>2
  <2> QED
    BY <2>1, EffectsOfPrefix
<1>6. \A i \in 1..n : Touched(headers[T + i])' = Touched(inflight[i])
  BY <1>2, Zenon DEF Touched
<1>7. ASSUME NEW k, NEW i \in 1..(n + 1)
      PROVE  Effects(k, T + i - 1)' = Effects(k, T) \cup BatchEffects(k, i)
  <2>0. PICK h \in Nat : h = T + i - 1 /\ h >= T /\ h <= T + n
    OBVIOUS
  <2>1. Effects(k, h)' = {headers'[j] : j \in {m \in 1..h : k \in Touched(headers[m])'}}
    BY DEF Effects
  <2>2. ASSUME NEW b \in Effects(k, h)' PROVE b \in Effects(k, T) \cup BatchEffects(k, i)
    <3>1. PICK j \in 1..h : k \in Touched(headers[j])' /\ b = headers'[j]
      BY <2>1, Zenon
    <3>2. CASE j <= T
      BY <1>2, <3>1, <3>2 DEF Effects, Touched
    <3>3. CASE j > T
      <4>1. j - T \in 1..(i - 1) /\ j - T \in 1..n /\ j = T + (j - T)
        BY <2>0, <3>1, <3>3
      <4> QED
        BY <1>2, <1>6, <3>1, <4>1, ZenonT(60) DEF BatchEffects
    <3> QED
      BY <2>0, <3>2, <3>3
  <2>3. ASSUME NEW b \in Effects(k, T) PROVE b \in Effects(k, h)'
    <3>1. PICK j \in 1..T : k \in Touched(headers[j]) /\ b = headers[j]
      BY DEF Effects
    <3>2. j \in 1..h
      BY <2>0, <3>1
    <3>3. headers'[j] = headers[j]
      BY <1>2, <3>1
    <3>4. k \in Touched(headers[j])'
      BY <3>1, <3>3, Zenon DEF Touched
    <3> QED
      BY <2>1, <3>1, <3>2, <3>3, <3>4
  <2>4. ASSUME NEW b \in BatchEffects(k, i) PROVE b \in Effects(k, h)'
    <3>1. PICK j \in 1..(i - 1) : k \in Touched(inflight[j]) /\ b = inflight[j]
      BY DEF BatchEffects
    <3>2. j \in 1..n /\ T + j \in 1..h
      BY <2>0, <3>1
    <3> QED
      BY <1>2, <1>6, <2>1, <3>1, <3>2, Zenon
  <2> QED
    BY <2>0, <2>2, <2>3, <2>4, Zenon
<1>8. ASSUME NEW k, NEW i \in 1..(n + 1), NEW b \in BatchEffects(k, i)
      PROVE  Len(b) > T
  BY <1>1 DEF BatchEffects
<1>9. (floor <= Tip)' /\ Heights'
  <2>1. ASSUME NEW h \in 1..(T + n) PROVE Len(headers'[h]) = h
    <3>1. CASE h <= T
      BY <1>0, <1>2, <3>1 DEF IInv, DataInv, Heights
    <3>2. CASE h > T
      <4>1. h - T \in 1..n /\ h = T + (h - T)
        BY <3>2
      <4> QED
        BY <1>1, <1>2, <4>1, ZenonT(60)
    <3> QED
      BY <3>1, <3>2
  <2> QED
    BY <1>1, <1>2, <1>3, <1>4, <2>1 DEF Heights
<1>10. ASSUME NEW e \in PreImages
       PROVE  \E i \in 1..n : \E k \in Touched(inflight[i]) :
                e = [blk |-> T + i, key |-> k, prev |-> rows[k] \cup BatchEffects(k, i)]
  BY <1>0 DEF PreImages
<1>11. ASSUME NEW i \in 1..n PROVE Touched(inflight[i]) \subseteq Key
  <2>1. inflight[i] \in Block /\ Len(inflight[i]) > 0
    BY <1>0, <1>1, ElementOfSeq
  <2> QED
    BY <2>1, TouchedKeys
<1>12. UndoSound'
  <2>1. ASSUME NEW e \in undo
        PROVE  /\ e.blk \in 1..Tip' /\ e.key \in Touched(headers[e.blk])'
               /\ e.prev \subseteq Effects(e.key, e.blk - 1)'
               /\ Effects(e.key, e.blk - 1)' \ torn' \subseteq e.prev
    <3>1. e.blk \in 1..T /\ e.blk - 1 \in 0..T
      BY <1>0 DEF IInv, DataInv, UndoSound
    <3>2. Effects(e.key, e.blk - 1)' = Effects(e.key, e.blk - 1)
      BY <1>5, <3>1, Zenon
    <3>3. Touched(headers[e.blk])' = Touched(headers[e.blk])
      BY <1>2, <3>1, ZenonT(60) DEF Touched
    <3> QED
      BY <1>2, <1>3, <3>1, <3>2, <3>3 DEF IInv, DataInv, UndoSound
  <2>2. ASSUME NEW e \in PreImages
        PROVE  /\ e.blk \in 1..Tip' /\ e.key \in Touched(headers[e.blk])'
               /\ e.prev \subseteq Effects(e.key, e.blk - 1)'
               /\ Effects(e.key, e.blk - 1)' \ torn' \subseteq e.prev
    <3>1. PICK i \in 1..n : \E k \in Touched(inflight[i]) :
            e = [blk |-> T + i, key |-> k, prev |-> rows[k] \cup BatchEffects(k, i)]
      BY <1>10, Zenon
    <3>2. PICK k \in Touched(inflight[i]) :
            e = [blk |-> T + i, key |-> k, prev |-> rows[k] \cup BatchEffects(k, i)]
      BY <3>1, ZenonT(60)
    <3>3. e.blk = T + i /\ e.key = k /\ e.prev = rows[k] \cup BatchEffects(k, i) /\ k \in Key
      BY <3>2, <1>11
    <3>4. Effects(k, T + i - 1)' = Effects(k, T) \cup BatchEffects(k, i)
      BY <1>7
    <3>5. rows[k] \subseteq Effects(k, T) /\ Effects(k, T) \ torn \subseteq rows[k]
      BY <1>0, <3>3 DEF IInv, DataInv, NoOrphanRows, OnlyTornRowsMissing
    <3>6. e.blk \in 1..Tip' /\ e.key \in Touched(headers[e.blk])'
      BY <1>2, <1>6, <3>2, <3>3
    <3> QED
      BY <1>3, <3>3, <3>4, <3>5, <3>6
  <2> QED
    BY <1>3, <2>1, <2>2, ZenonT(60) DEF UndoSound
<1>13. ASSUME NEW k \in Key
       PROVE  /\ rows'[k] = rows[k] \cup BatchEffects(k, n + 1)
              /\ Effects(k, Tip)' = Effects(k, T) \cup BatchEffects(k, n + 1)
              /\ rows[k] \subseteq Effects(k, T)
              /\ Effects(k, T) \ torn \subseteq rows[k]
  <2>1. Effects(k, T + (n + 1) - 1)' = Effects(k, T) \cup BatchEffects(k, n + 1)
    BY <1>7
  <2>2. Effects(k, Tip)' = Effects(k, T + (n + 1) - 1)'
    BY <1>2 DEF Effects
  <2> QED
    BY <1>0, <1>3, <2>1, <2>2, Zenon DEF IInv, DataInv, NoOrphanRows, OnlyTornRowsMissing
<1>14. NoOrphanRows' /\ OnlyTornRowsMissing'
  BY <1>3, <1>13, ZenonT(60) DEF NoOrphanRows, OnlyTornRowsMissing
<1>15. UndoComplete'
  <2> SUFFICES ASSUME NEW h \in (floor' + 1)..(T + n), NEW k \in Touched(headers[h])'
               PROVE  (\E e \in undo' : e.blk = h /\ e.key = k) \/ Forgotten(h, k)'
    BY <1>2, Zenon DEF UndoComplete, Touched
  <2>1. CASE h > T
    <3>1. h - T \in 1..n /\ h = T + (h - T) /\ k \in Touched(inflight[h - T])
      BY <1>1, <1>3, <1>4, <1>6, <2>1
    <3>2. PICK i \in 1..n : i = h - T
      BY <3>1
    <3> DEFINE e == [blk |-> T + i, key |-> k, prev |-> rows[k] \cup BatchEffects(k, i)]
    <3>3. k \in Touched(inflight[i])
      BY <3>1, <3>2
    <3>4. e \in PreImages
      <4> DEFINE OfBlock(j) == {[blk |-> Tip + j, key |-> l,
                                 prev |-> rows[l] \cup BatchEffects(l, j)] :
                                   l \in Touched(inflight[j])}
      <4>1. PreImages = UNION {OfBlock(j) : j \in 1..n}
        BY <1>0 DEF PreImages
      <4>2. e \in OfBlock(i)
        BY <1>0, <3>3, ZenonT(60)
      <4> HIDE DEF OfBlock, e
      <4> QED
        BY <4>1, <4>2
    <3>5. e.blk = h /\ e.key = k
      BY <3>1, <3>2
    <3> QED
      BY <1>3, <3>4, <3>5
  <2>2. CASE h <= T
    <3>1. h \in (floor + 1)..T /\ h \in 1..T /\ headers'[h] = headers[h]
      BY <1>1, <1>2, <1>3, <1>4, <2>2
    <3>2. k \in Touched(headers[h])
      BY <3>1, Zenon DEF Touched
    <3>3. CASE \E e \in undo : e.blk = h /\ e.key = k
      <4>1. PICK e \in undo : e.blk = h /\ e.key = k
        BY <3>3, ZenonT(60)
      <4>2. e \notin Pruned
        BY <1>1, <1>3, <1>4, <4>1 DEF Pruned
      <4> QED
        BY <1>3, <4>1, <4>2, Zenon
    <3>4. CASE Forgotten(h, k)
      <4>0. k \in Key
        <5>1. headers[h] \in Block /\ Len(headers[h]) > 0
          BY <1>0, <1>1, <3>1, ElementOfSeq DEF IInv, DataInv, Heights, Tip
        <5> QED
          BY <3>2, <5>1, TouchedKeys, ZenonT(60)
      <4>1. Len(headers[h]) <= T
        BY <1>0, <3>1 DEF IInv, DataInv, Heights
      <4>2. \A i \in 1..(n + 1) : headers[h] \notin BatchEffects(k, i)
        BY <1>8, <4>1
      <4>3. headers[h] \notin rows'[k]
        BY <1>13, <3>4, <4>0, <4>2 DEF Forgotten
      <4>4. ASSUME NEW e \in undo', e.key = k PROVE headers[h] \notin e.prev
        <5>1. CASE e \in undo
          BY <3>4, <4>4, <5>1, Zenon DEF Forgotten
        <5>2. CASE e \in PreImages
          <6>1. PICK i \in 1..n : \E j \in Touched(inflight[i]) :
                  e = [blk |-> T + i, key |-> j, prev |-> rows[j] \cup BatchEffects(j, i)]
            BY <1>10, <5>2, Zenon
          <6>2. e.prev = rows[k] \cup BatchEffects(k, i)
            BY <4>4, <6>1
          <6> QED
            BY <3>4, <4>2, <6>2 DEF Forgotten
        <5> QED
          BY <1>3, <5>1, <5>2, Zenon
      <4> QED
        BY <1>3, <3>1, <3>4, <4>3, <4>4, Zenon DEF Forgotten
    <3> QED
      BY <1>0, <3>1, <3>2, <3>3, <3>4, Zenon DEF IInv, DataInv, UndoComplete
  <2> QED
    BY <1>1, <1>3, <1>4, <2>1, <2>2
<1> QED
  BY <1>0, <1>2, <1>9, <1>12, <1>14, <1>15 DEF DataInv
-----------------------------------------------------------------------------
(* The theorem. *)

\* A store handed over by bulk build satisfies the invariant.
LEMMA InitInvariant == Init => IInv
<1> SUFFICES ASSUME Init PROVE IInv
  BY Zenon
<1>1. node \in Seq(Label) /\ Len(node) \in Nat
  BY ChainsAreSequences, LenProperties DEF Init
<1>2. \A h \in 1..Len(node) : /\ SubSeq(node, 1, h) \in Block
                              /\ Len(SubSeq(node, 1, h)) = h
  BY <1>1, ChainBlockHeight DEF ChainBlock
<1>3. headers \in Seq(Block) /\ Tip = Len(node)
  <2>1. headers \in [1..Len(node) -> Block]
    BY <1>2 DEF Init
  <2>2. headers \in Seq(Block)
    BY <1>1, <2>1, SeqDef, Zenon
  <2> QED
    BY <1>1, <2>1, <2>2, LenProperties DEF Tip
<1>4. Heights
  BY <1>2, <1>3, Zenon DEF Heights, Init
<1>5. \A k, h : h \in 0..Tip => Effects(k, h) \subseteq Block
  <2>1. \A i \in 1..Tip : headers[i] \in Block
    BY <1>3, ElementOfSeq DEF Tip
  <2>2. Tip \in Nat
    BY <1>1, <1>3, Zenon
  <2> QED
    BY <2>1, <2>2 DEF Effects
<1>6. \A h \in 0..Tip : HeaderAt(h) \in Block
  BY <1>1, <1>2, <1>3, EmptySeq DEF HeaderAt, Genesis, Block, Init
<1>7. ForkFloor \in 0..Tip
  BY <1>1, <1>3, ConstantsAssumption DEF ForkFloor
<1>8. rows \in [Key -> SUBSET Block] /\ \A k \in Key : rows[k] = Effects(k, Tip)
  BY <1>1, <1>3, <1>5 DEF Init
<1>9. hist \subseteq Block /\ current \subseteq Block
  BY <1>1, <1>3, <1>6, <1>7 DEF Init, TipBlock
<1>10. TypeOK
  BY <1>1, <1>3, <1>8, <1>9, EmptySeq, ZenonT(60) DEF Init, TypeOK, NoJob, NoFails
<1>11. UndoSound /\ UndoComplete /\ floor <= Tip
  BY <1>1, <1>3 DEF Init, UndoSound, UndoComplete
<1>12. NoOrphanRows /\ OnlyTornRowsMissing
  BY <1>8 DEF NoOrphanRows, OnlyTornRowsMissing
<1>13. BatchFollowsTip /\ JobInRange
  BY EmptySeq DEF Init, BatchFollowsTip, JobInRange
<1> QED
  BY <1>4, <1>10, <1>11, <1>12, <1>13 DEF IInv, DataInv
\* Every step of the node, of the pipeline and of startup keeps the invariant.
LEMMA NextInvariant == IInv /\ [Next]_vars => IInv'
<1> SUFFICES ASSUME IInv, [Next]_vars PROVE IInv'
  BY Zenon
<1>0. /\ TypeOK /\ DataInv /\ Heights /\ BatchFollowsTip /\ JobInRange
      /\ Tip \in Nat /\ floor \in Nat /\ Len(inflight) \in Nat
  BY LenProperties, Zenon DEF IInv, TypeOK, Tip, DataInv
<1>1. CASE UNCHANGED vars
  <2>1. DataInv'
    BY <1>0, <1>1, DataUntouched, Zenon DEF vars, domain
  <2>2. TypeOK'
    BY <1>0, <1>1 DEF TypeOK, vars, domain, process
  <2>3. BatchFollowsTip' /\ JobInRange'
    BY <1>0, <1>1, Zenon DEF BatchFollowsTip, JobInRange, Pending, TipBlock, HeaderAt, Tip,
                      Extends, vars, domain, process
  <2> QED
    BY <2>1, <2>2, <2>3 DEF IInv
<1>2. CASE NodeExtend \/ NodeSwitch
  <2>0. UNCHANGED <<domain, process, faults, torn>>
    BY <1>2 DEF NodeExtend, NodeSwitch
  <2>1. node' \in Seq(Label) /\ switches' \in Nat
    <3>1. CASE NodeExtend
      BY <1>0, <3>1, AppendProperties DEF NodeExtend, TypeOK
    <3>2. CASE NodeSwitch
      BY <1>0, <3>2, ChainsAreSequences DEF NodeSwitch, TypeOK
    <3> QED
      BY <1>2, <3>1, <3>2, Zenon
  <2>2. DataInv'
    BY <1>0, <2>0, DataUntouched, Zenon DEF domain
  <2>3. TypeOK'
    BY <1>0, <2>0, <2>1 DEF TypeOK, domain, process
  <2>4. BatchFollowsTip' /\ JobInRange'
    BY <1>0, <2>0, Zenon DEF BatchFollowsTip, JobInRange, Pending, TipBlock, HeaderAt, Tip,
                      Extends, domain, process
  <2> QED
    BY <2>2, <2>3, <2>4 DEF IInv
<1>3. CASE FetchBlock
  <2>1. PICK h \in 1..Len(node) : /\ h = Tip + Len(inflight) + 1
                                  /\ inflight' = Append(inflight, ChainBlock(h))
    BY <1>0, <1>3 DEF FetchBlock
  <2>2. ChainBlock(h) \in Block /\ Len(ChainBlock(h)) = h
    BY <1>0, ChainBlockHeight, Zenon DEF TypeOK
  <2>3. /\ inflight' \in Seq(Block) /\ Len(inflight') = Len(inflight) + 1
        /\ \A i \in 1..Len(inflight) : inflight'[i] = inflight[i]
        /\ inflight'[Len(inflight) + 1] = ChainBlock(h)
    BY <1>0, <2>1, <2>2, AppendProperties DEF TypeOK
  <2>4. DataInv'
    BY <1>0, <1>3, DataUntouched, Zenon DEF FetchBlock, domain
  <2>5. TypeOK'
    BY <1>0, <1>3, <2>3, Zenon DEF FetchBlock, TypeOK, domain
  <2>6. pc = "idle" /\ pc' = "idle" /\ Tip' = Tip
    BY <1>3 DEF FetchBlock, Tip, domain
  <2>7. BatchFollowsTip' /\ JobInRange'
    BY <1>0, <2>1, <2>2, <2>3, <2>6 DEF BatchFollowsTip, JobInRange
  <2> QED
    BY <2>4, <2>5, <2>7, Zenon DEF IInv
<1>4. CASE NodeReadFails \/ RollbackRefused \/ Crash
  <2>1. \E reason \in {"node", "crash", "reorg_history", "cleanup_history"} : Stop(reason)
    BY <1>4 DEF NodeReadFails, RollbackRefused, Crash
  <2>2. UNCHANGED <<node, switches, domain, torn>>
    BY <1>4 DEF NodeReadFails, RollbackRefused, Crash
  <2>3. faults' \in [crashes : Nat, writes : Nat]
    BY <1>0, <1>4 DEF NodeReadFails, RollbackRefused, Crash, TypeOK
  <2> QED
    BY <1>0, <2>1, <2>2, <2>3, StopKeepsInvariant DEF TypeOK, domain
<1>5. CASE CheckPasses
  <2>1. DataInv'
    BY <1>0, <1>5, DataUntouched, Zenon DEF CheckPasses, domain
  <2>2. UNCHANGED <<node, switches, domain, fails, exit, faults, torn>> /\ Tip' = Tip
    BY <1>5 DEF CheckPasses, Tip, domain
  <2>3. CASE Extends(inflight[1], TipBlock)
    <3>1. pc = "idle" /\ pc' = "write" /\ UNCHANGED <<job, inflight>> /\ inflight # <<>>
      BY <1>5, <2>3, Zenon DEF CheckPasses
    <3>2. TypeOK'
      BY <1>0, <2>2, <3>1, Zenon DEF TypeOK, domain
    <3>3. BatchFollowsTip' /\ JobInRange'
      BY <1>0, <2>2, <2>3, <3>1, Zenon DEF BatchFollowsTip, JobInRange, TipBlock, HeaderAt,
                                    Extends, domain
    <3> QED
      BY <2>1, <3>2, <3>3 DEF IInv
  <2>4. CASE ~Extends(inflight[1], TipBlock)
    <3>1. pc' = "idle" /\ job' = NoJob /\ inflight' = <<>>
      BY <1>5, <2>4, Zenon DEF CheckPasses, BackToIdle
    <3>2. TypeOK'
      BY <1>0, <2>2, <3>1, EmptySeq, Zenon DEF TypeOK, NoJob, domain
    <3>3. BatchFollowsTip' /\ JobInRange'
      BY <3>1, EmptySeq DEF BatchFollowsTip, JobInRange
    <3> QED
      BY <2>1, <3>2, <3>3 DEF IInv
  <2> QED
    BY <2>3, <2>4
<1>6. CASE DetectReorg \/ ProbePasses
  <2>1. DataInv'
    BY <1>0, <1>6, DataUntouched, ZenonT(60) DEF DetectReorg, ProbePasses, domain
  <2>2. TypeOK'
    BY <1>0, <1>6 DEF DetectReorg, ProbePasses, TypeOK, domain
  <2>3. BatchFollowsTip' /\ JobInRange'
    BY <1>0, <1>6, Zenon DEF DetectReorg, ProbePasses, BatchFollowsTip, JobInRange, Tip, domain
  <2> QED
    BY <2>1, <2>2, <2>3 DEF IInv
<1>7. CASE RecordDeepFork
  <2>1. DataInv'
    BY <1>0, <1>7, DataUntouched DEF RecordDeepFork
  <2>2. TypeOK'
    BY <1>0, <1>7, EmptySeq, Zenon DEF RecordDeepFork, NoJob, TypeOK
  <2>3. BatchFollowsTip' /\ JobInRange'
    BY <1>7 DEF RecordDeepFork, BatchFollowsTip, JobInRange
  <2> QED
    BY <2>1, <2>2, <2>3 DEF IInv
<1>8. CASE FindForkPoint
  <2>1. CASE job.target > ForkFloor
    <3>0. ForkFloor \in Nat /\ job.target - 1 \in Nat
      BY <1>0, <2>1, ConstantsAssumption DEF ForkFloor, TypeOK
    <3>1. DataInv'
      BY <1>0, <1>8, DataUntouched DEF FindForkPoint, domain
    <3>2. TypeOK'
      BY <1>0, <1>8, <2>1, <3>0, Zenon DEF FindForkPoint, TypeOK, domain
    <3>3. BatchFollowsTip' /\ JobInRange'
      BY <1>0, <1>8, <2>1 DEF FindForkPoint, BatchFollowsTip, JobInRange, Tip, domain
    <3> QED
      BY <3>1, <3>2, <3>3 DEF IInv
  <2>2. CASE ~(job.target > ForkFloor)
    BY <1>0, <1>8, <2>2, StopKeepsInvariant DEF FindForkPoint, TypeOK, domain
  <2> QED
    BY <2>1, <2>2, Zenon
<1>9. CASE ExecuteReorg
  <2>1. CASE ReorgRefusal(job.target) = "none"
    <3>0. job.target \in floor..Tip
      BY <1>0, <2>1 DEF ReorgRefusal, TypeOK
    <3>1. DataInv'
      BY <1>0, <1>9, DataUntouched, Zenon DEF ExecuteReorg, domain
    <3>2. TypeOK'
      BY <1>0, <1>9, <2>1, Zenon DEF ExecuteReorg, TypeOK, domain
    <3>3. BatchFollowsTip' /\ JobInRange'
      BY <1>0, <1>9, <2>1, <3>0, Zenon DEF ExecuteReorg, BatchFollowsTip, JobInRange, Tip, domain
    <3> QED
      BY <3>1, <3>2, <3>3 DEF IInv
  <2>2. CASE ReorgRefusal(job.target) # "none"
    <3>1. ReorgRefusal(job.target) \in {"precheck", "coverage"}
      BY <2>2 DEF ReorgRefusal
    <3>2. Stop(ReorgRefusal(job.target)) /\ UNCHANGED <<node, switches, domain, faults, torn>>
      BY <1>9, <2>2 DEF ExecuteReorg
    <3> QED
      BY <1>0, <3>1, <3>2, StopKeepsInvariant, Zenon DEF TypeOK, domain
  <2> QED
    BY <2>1, <2>2, Zenon
<1>10. CASE ReplayUndo
  <2>1. DataInv'
    BY <1>10, ReplayKeepsData, Zenon
  <2>2. PICK e \in undo : /\ rows' = [rows EXCEPT ![e.key] = e.prev]
                          /\ undo' = undo \ {e}
                          /\ torn' = torn \cup {HeaderAt(e.blk)}
    BY <1>10, ZenonT(60) DEF ReplayUndo, Pending
  <2>3. HeaderAt(e.blk) \in Block
    BY <1>0, StoredBlock DEF DataInv, UndoSound
  <2>4. TypeOK'
    BY <1>0, <1>10, <2>2, <2>3 DEF ReplayUndo, TypeOK, process
  <2>5. BatchFollowsTip' /\ JobInRange'
    BY <1>0, <1>10, Zenon DEF ReplayUndo, BatchFollowsTip, JobInRange, Tip, process
  <2> QED
    BY <2>1, <2>4, <2>5 DEF IInv
<1>11. CASE WithdrawSummary
  <2>1. DataInv'
    BY <1>0, <1>11, DataUntouched, Zenon DEF WithdrawSummary
  <2>2. TypeOK'
    BY <1>0, <1>11, Zenon DEF WithdrawSummary, WithdrawCurrent, TypeOK
  <2>3. BatchFollowsTip' /\ JobInRange'
    BY <1>0, <1>11 DEF WithdrawSummary, BatchFollowsTip, JobInRange, Pending, Tip
  <2> QED
    BY <2>1, <2>2, <2>3 DEF IInv
<1>12. CASE CommitRollback
  <2>1. DataInv' /\ headers' \in Seq(Block)
    BY <1>12, RollbackKeepsData, Zenon
  <2>2. HeaderAt(job.target) \in Block
    BY <1>0, <1>12, StoredBlock DEF CommitRollback, JobInRange
  <2>3. TypeOK'
    BY <1>0, <1>12, <2>1, <2>2, Zenon DEF CommitRollback, KeptHist, TypeOK
  <2>4. BatchFollowsTip' /\ JobInRange'
    BY <1>12 DEF CommitRollback, BatchFollowsTip, JobInRange
  <2> QED
    BY <2>1, <2>3, <2>4 DEF IInv
<1>13. CASE RecordReorgEvent \/ FinishBatch
  <2>1. DataInv'
    BY <1>0, <1>13, DataUntouched DEF RecordReorgEvent, FinishBatch, domain
  <2>2. TypeOK'
    <3>1. CASE RecordReorgEvent
      BY <1>0, <3>1, EmptySeq, ZenonT(60) DEF RecordReorgEvent, BackToIdle, NoJob, TypeOK
    <3>2. CASE FinishBatch
      BY <1>0, <3>2, EmptySeq DEF FinishBatch, BackToIdle, NoJob, NoFails, TypeOK, domain
    <3> QED
      BY <1>13, <3>1, <3>2
  <2>3. BatchFollowsTip' /\ JobInRange'
    BY <1>13, EmptySeq DEF RecordReorgEvent, FinishBatch, BackToIdle,
                           BatchFollowsTip, JobInRange
  <2> QED
    BY <2>1, <2>2, <2>3 DEF IInv
<1>14. CASE CommitBatch
  <2>1. DataInv' /\ headers' \in Seq(Block) /\ Tip <= Tip'
    BY <1>14, CommitKeepsData, Zenon
  <2>2. inflight # <<>> /\ inflight \in Seq(Block) /\ \A i \in 1..Len(inflight) : inflight[i] \in Block
    BY <1>0, <1>14, ElementOfSeq, Zenon DEF CommitBatch, BatchFollowsTip, TypeOK
  <2>3. inflight[Len(inflight)] \in Block
    BY <1>0, <2>2, EmptySeq
  <2>4. NextHist \subseteq Block
    BY <1>0, <2>2 DEF NextHist, TypeOK
  <2>5. rows' \in [Key -> SUBSET Block]
    BY <1>0, <1>14, <2>2 DEF CommitBatch, BatchEffects, TypeOK
  <2>6. undo' \subseteq [blk : Nat, key : Key, prev : SUBSET Block]
    <3>1. ASSUME NEW e \in PreImages PROVE e \in [blk : Nat, key : Key, prev : SUBSET Block]
      <4>1. PICK i \in 1..Len(inflight) : \E k \in Touched(inflight[i]) :
              e = [blk |-> Tip + i, key |-> k, prev |-> rows[k] \cup BatchEffects(k, i)]
        BY ZenonT(60) DEF PreImages
      <4>2. Len(inflight[i]) = Tip + i
        BY <1>0, <1>14 DEF CommitBatch, BatchFollowsTip
      <4>3. Touched(inflight[i]) \subseteq Key
        BY <1>0, <2>2, <4>2, TouchedKeys
      <4>4. \A k \in Key : rows[k] \cup BatchEffects(k, i) \subseteq Block
        BY <1>0, <2>2 DEF BatchEffects, TypeOK
      <4> QED
        BY <1>0, <4>1, <4>3, <4>4
    <3> QED
      BY <1>0, <1>14, <3>1, Zenon DEF CommitBatch, TypeOK
  <2>7. floor' \in Nat
    BY <1>0, <1>14, ConstantsAssumption DEF CommitBatch, NextFloor, Max2
  <2>8. TypeOK'
    <3>1. /\ hist' \subseteq Block /\ current' \subseteq Block
          /\ job' \in [kind : {"none", "reorg", "cleanup"}, target : Nat]
      BY <1>0, <1>14, <2>3, <2>4, Zenon DEF CommitBatch
    <3>2. /\ pc' = "committed"
          /\ UNCHANGED <<node, switches, marker, deepFork, inflight, fails, exit,
                         faults, torn>>
      BY <1>14, ZenonT(60) DEF CommitBatch
    <3> QED
      BY <1>0, <2>1, <2>5, <2>6, <2>7, <3>1, <3>2, Zenon DEF TypeOK
  <2>9. BatchFollowsTip' /\ JobInRange'
    BY <1>14, <2>1 DEF CommitBatch, BatchFollowsTip, JobInRange
  <2> QED
    BY <2>1, <2>8, <2>9 DEF IInv
<1>15. CASE RejectBatch \/ WriteFails
  <2>1. \E target \in 0..Tip : CleanupBatchRange(target)
    BY <1>0, <1>15 DEF RejectBatch, WriteFails, JobInRange, TypeOK
  <2>2. UNCHANGED <<node, switches, domain, torn>> /\ faults' \in [crashes : Nat, writes : Nat]
    BY <1>0, <1>15 DEF RejectBatch, WriteFails, TypeOK
  <2> QED
    BY <2>1, <2>2, CleanupKeepsInvariant
<1>16. CASE FinishCleanup
  <2>1. CASE fails.count >= MaxBatchFailures
    BY <1>0, <1>16, <2>1, StopKeepsInvariant, Zenon DEF FinishCleanup, TypeOK, domain
  <2>2. CASE ~(fails.count >= MaxBatchFailures)
    <3>1. DataInv'
      BY <1>0, <1>16, DataUntouched, ZenonT(60) DEF FinishCleanup, domain
    <3>2. TypeOK'
      BY <1>0, <1>16, <2>2, EmptySeq DEF FinishCleanup, BackToIdle, NoJob, TypeOK, domain
    <3>3. BatchFollowsTip' /\ JobInRange'
      BY <1>16, <2>2, EmptySeq DEF FinishCleanup, BackToIdle, BatchFollowsTip, JobInRange
    <3> QED
      BY <3>1, <3>2, <3>3 DEF IInv
  <2> QED
    BY <2>1, <2>2, Zenon
<1>17. CASE Restart
  <2>1. DataInv'
    BY <1>0, <1>17, DataUntouched DEF Restart
  <2>2. TipBlock \in Block
    BY <1>0, StoredBlock DEF TipBlock
  <2>3. TypeOK'
    BY <1>0, <1>17, <2>2, ZenonT(60) DEF Restart, TypeOK
  <2>4. BatchFollowsTip' /\ JobInRange'
    BY <1>0, <1>17 DEF Restart, BatchFollowsTip, JobInRange, Tip
  <2> QED
    BY <2>1, <2>3, <2>4 DEF IInv
<1> QED
  BY <1>1, <1>2, <1>3, <1>4, <1>5, <1>6, <1>7, <1>8, <1>9, <1>10, <1>11, <1>12,
     <1>13, <1>14, <1>15, <1>16, <1>17 DEF Next

\* The variables keep their types, for every value of the constants.
THEOREM TypeCorrect == Spec => []TypeOK
<1>1. IInv => TypeOK
  BY DEF IInv
<1> QED
  BY <1>1, InitInvariant, NextInvariant, PTL DEF Spec

\* Whatever a crash, a branch switch or a failed write interrupts, no row
\* contains the effects of a block the store does not have.
THEOREM RowsHaveNoOrphans == Spec => []NoOrphanRows
<1>1. IInv => NoOrphanRows
  BY DEF IInv, DataInv
<1> QED
  BY <1>1, InitInvariant, NextInvariant, PTL DEF Spec

\* A stored block is missing from one of its rows only when a rollback that did
\* not finish has replayed one of that block's undo entries.
THEOREM OnlyTornBlocksMissing == Spec => []OnlyTornRowsMissing
<1>1. IInv => OnlyTornRowsMissing
  BY DEF IInv, DataInv
<1> QED
  BY <1>1, InitInvariant, NextInvariant, PTL DEF Spec

\* Pruning never removes a pre-image a rollback down to the floor would need.
THEOREM WindowIsCovered == Spec => []UndoCoversWindow
<1>1. IInv => UndoCoversWindow
  BY DEF IInv, DataInv, UndoComplete, Forgotten, UndoCoversWindow
<1> QED
  BY <1>1, InitInvariant, NextInvariant, PTL DEF Spec

-----------------------------------------------------------------------------
(* Headers and summary: the inductive invariant, on top of IInv. *)

\* The cleanup marker lives from the withdrawal to the rollback's commit, or to
\* the restart after a crash in between; a deep fork stops the writer.
MarkerInv ==
    /\ marker => pc \in {"marked", "down"} /\ ~deepFork
    /\ pc = "marked" => marker /\ HeaderAt(job.target) \in hist
    /\ deepFork => pc \in {"paused", "down"}

SInv == HeadersLinked /\ SummaryTracksTip /\ MarkerInv

\* The variables the invariant and the view are about.
shownVars == <<headers, hist, current, marker, deepFork>>

\* A step that leaves the headers and the summary alone keeps the invariant,
\* provided the writer does not leave a rollback or a deep fork behind.
LEMMA SummaryUntouched ==
    ASSUME SInv, UNCHANGED shownVars,
           marker => pc' \in {"marked", "down"},
           pc' = "marked" => pc = "marked" /\ job' = job,
           deepFork => pc' \in {"paused", "down"}
    PROVE  SInv'
<1>1. Tip' = Tip /\ (\A h : HeaderAt(h)' = HeaderAt(h)) /\ TipBlock' = TipBlock
  BY DEF shownVars, Tip, HeaderAt, TipBlock
<1>2. HeadersLinked'
  BY <1>1 DEF SInv, HeadersLinked, Extends
<1>3. SummaryTracksTip'
  BY <1>1 DEF SInv, SummaryTracksTip, shownVars
<1>4. MarkerInv'
  BY <1>1 DEF SInv, MarkerInv, shownVars
<1> QED
  BY <1>2, <1>3, <1>4 DEF SInv

\* A store handed over by bulk build satisfies the invariant.
LEMMA InitSummary == Init => SInv
<1> SUFFICES ASSUME Init PROVE SInv
  OBVIOUS
<1>1. node \in Seq(Label) /\ Len(node) \in Nat /\ Tip = Len(node) /\ Tip \in Nat
  <2>1. IInv
    BY InitInvariant
  <2>2. node \in Seq(Label) /\ Len(node) \in Nat
    BY <2>1, LenProperties DEF IInv, TypeOK
  <2>3. headers \in Seq(Block) /\ headers = [i \in 1..Len(node) |-> SubSeq(node, 1, i)]
    BY <2>1 DEF IInv, TypeOK, Init
  <2> QED
    BY <2>2, <2>3, LenProperties DEF Tip
<1>2. \A h \in 0..Tip : HeaderAt(h) = SubSeq(node, 1, h)
  BY <1>1 DEF Init, HeaderAt, Genesis
<1>3. HeadersLinked
  <2> SUFFICES ASSUME NEW h \in 1..Tip PROVE Extends(HeaderAt(h), HeaderAt(h - 1))
    BY DEF HeadersLinked
  <2>1. /\ HeaderAt(h) = SubSeq(node, 1, h) /\ HeaderAt(h - 1) = SubSeq(node, 1, h - 1)
        /\ h \in Nat /\ h - 1 \in Nat
    BY <1>1, <1>2
  <2>2. \A i \in 1..Len(node) : node[i] \in Label
    BY <1>1, ElementOfSeq
  <2> QED
    BY <1>1, <2>1, <2>2 DEF Extends
<1>4. SummaryTracksTip
  <2>1. ForkFloor \in 0..Tip
    BY <1>1, ConstantsAssumption DEF ForkFloor
  <2> QED
    BY <1>1, <2>1 DEF Init, SummaryTracksTip, TipBlock
<1>5. MarkerInv
  BY DEF Init, MarkerInv
<1> QED
  BY <1>3, <1>4, <1>5 DEF SInv

-----------------------------------------------------------------------------
(* The two commits that change the headers. *)

\* The canonical rollback: what is left is linked, and its tip has a summary.
LEMMA RollbackKeepsSummary ==
    ASSUME IInv, SInv, CommitRollback
    PROVE  SInv'
<1>0. PICK t \in Nat : t = job.target
  BY DEF IInv, TypeOK
<1>1. t \in 0..Tip /\ Tip \in Nat /\ Tip' = t /\ pc = "marked"
  <2>1. pc = "marked" /\ headers' = SubSeq(headers, 1, job.target)
    BY Zenon DEF CommitRollback
  <2> QED
    BY <1>0, <2>1, LenProperties DEF IInv, TypeOK, Tip, JobInRange
<1>2. ASSUME NEW h \in 0..t PROVE HeaderAt(h)' = HeaderAt(h)
  <2>1. headers' = SubSeq(headers, 1, t) /\ headers \in Seq(Block)
    BY <1>0 DEF CommitRollback, IInv, TypeOK
  <2>2. \A i \in 1..t : headers'[i] = headers[i]
    BY <1>1, <2>1 DEF Tip
  <2> QED
    BY <1>1, <2>2 DEF HeaderAt
<1>3. HeadersLinked'
  <2> SUFFICES ASSUME NEW h \in 1..t PROVE Extends(HeaderAt(h), HeaderAt(h - 1))'
    BY <1>1 DEF HeadersLinked
  <2>1. h \in 0..t /\ h - 1 \in 0..t /\ h \in 1..Tip
    BY <1>1
  <2>2. HeaderAt(h)' = HeaderAt(h) /\ HeaderAt(h - 1)' = HeaderAt(h - 1)
    BY <1>2, <2>1
  <2> QED
    BY <2>1, <2>2 DEF SInv, HeadersLinked, Extends
<1>4. TipBlock' = HeaderAt(t)
  <2>1. TipBlock' = HeaderAt(Tip)'
    BY DEF TipBlock
  <2>2. HeaderAt(Tip)' = HeaderAt(t)'
    BY <1>1 DEF HeaderAt
  <2> QED
    BY <1>1, <1>2, <2>1, <2>2
<1>5. /\ marker' = FALSE /\ UNCHANGED deepFork /\ ~deepFork
      /\ current' = {HeaderAt(t)} /\ hist' = {b \in hist : Len(b) <= t}
      /\ HeaderAt(t) \in hist /\ pc' \in {"event", "cleaned"}
  BY <1>0, <1>1 DEF CommitRollback, KeptHist, SInv, MarkerInv
<1>6. \A h \in 0..Tip : Len(HeaderAt(h)) = h
  BY StoredBlock DEF IInv, DataInv
<1>7. ASSUME NEW b \in hist' PROVE \E h \in 0..t : b = HeaderAt(h)'
  <2>1. PICK h \in 0..Tip : b = HeaderAt(h)
    BY <1>5 DEF SInv, SummaryTracksTip
  <2>2. h \in 0..t
    BY <1>1, <1>5, <1>6, <2>1
  <2> QED
    BY <1>2, <2>1, <2>2
<1>8. SummaryTracksTip'
  <2>1. hist' \subseteq {HeaderAt(h)' : h \in 0..t}
    BY <1>7
  <2>2. HeaderAt(t) \in hist'
    BY <1>1, <1>5, <1>6
  <2> QED
    BY <1>1, <1>4, <1>5, <2>1, <2>2 DEF SummaryTracksTip
<1>9. MarkerInv'
  BY <1>5 DEF MarkerInv
<1> QED
  BY <1>3, <1>8, <1>9 DEF SInv

\* The commit of a batch: its blocks are linked to the tip and to each other,
\* and the last one's summary replaces the tip's.
LEMMA CommitKeepsSummary ==
    ASSUME IInv, SInv, CommitBatch
    PROVE  /\ SInv'
           /\ Tip' > Tip /\ SubSeq(headers', 1, Tip) = headers
<1>0. PICK T \in Nat, n \in Nat : T = Tip /\ n = Len(inflight)
  BY LenProperties DEF IInv, TypeOK, Tip
<1>1. /\ inflight \in Seq(Block) /\ headers \in Seq(Block) /\ n > 0
      /\ Extends(inflight[1], TipBlock) /\ Linked(inflight)
      /\ \A i \in 1..n : Len(inflight[i]) = T + i
  BY <1>0, EmptySeq DEF CommitBatch, BatchAcceptable, IInv, TypeOK, BatchFollowsTip
<1>2. /\ headers' = headers \o inflight /\ Tip' = T + n
      /\ \A i \in 1..T : headers'[i] = headers[i]
      /\ \A i \in 1..n : headers'[T + i] = inflight[i]
  <2>1. headers' = headers \o inflight
    BY Zenon DEF CommitBatch
  <2> QED
    BY <1>0, <1>1, <2>1, ConcatProperties DEF Tip
<1>3. ASSUME NEW h \in 0..T PROVE HeaderAt(h)' = HeaderAt(h)
  <2>1. CASE h = 0
    BY <2>1 DEF HeaderAt
  <2>2. CASE h # 0
    <3>0. h \in 1..T
      BY <1>0, <2>2
    <3>1. headers'[h] = headers[h]
      BY <1>2, <3>0, Zenon
    <3> QED
      BY <2>2, <3>1 DEF HeaderAt
  <2> QED
    BY <2>1, <2>2
<1>4. ASSUME NEW i \in 1..n PROVE HeaderAt(T + i)' = inflight[i]
  <2>1. headers'[T + i] = inflight[i]
    BY <1>2, Zenon
  <2>2. T + i # 0
    BY <1>0
  <2> QED
    BY <2>1, <2>2 DEF HeaderAt
<1>5. HeadersLinked'
  <2> SUFFICES ASSUME NEW h \in 1..(T + n) PROVE Extends(HeaderAt(h), HeaderAt(h - 1))'
    BY <1>2 DEF HeadersLinked
  <2>1. CASE h <= T
    <3>1. HeaderAt(h)' = HeaderAt(h) /\ HeaderAt(h - 1)' = HeaderAt(h - 1) /\ h \in 1..Tip
      BY <1>0, <1>3, <2>1
    <3> QED
      BY <3>1 DEF SInv, HeadersLinked, Extends
  <2>2. CASE h = T + 1
    <3>1. HeaderAt(h)' = inflight[1]
      BY <1>1, <1>4, <2>2
    <3>2. HeaderAt(h - 1)' = TipBlock
      BY <1>0, <1>3, <2>2 DEF TipBlock
    <3> QED
      BY <1>1, <3>1, <3>2, Zenon DEF Extends
  <2>3. CASE h > T + 1
    <3>1. PICK i \in 2..n : h = T + i /\ h - 1 = T + (i - 1) /\ i - 1 \in 1..n /\ i \in 1..n
      <4>1. h - T \in 2..n /\ h = T + (h - T)
        BY <2>3
      <4> QED
        BY <4>1
    <3>2. HeaderAt(h)' = inflight[i] /\ HeaderAt(h - 1)' = inflight[i - 1]
      BY <1>4, <3>1
    <3> QED
      BY <1>0, <1>1, <3>1, <3>2 DEF Linked, Extends
  <2> QED
    BY <2>1, <2>2, <2>3
<1>6. TipBlock' = inflight[n]
  <2>1. TipBlock' = HeaderAt(Tip)'
    BY DEF TipBlock
  <2>2. HeaderAt(Tip)' = HeaderAt(T + n)'
    BY <1>2 DEF HeaderAt
  <2> QED
    BY <1>1, <1>4, <2>1, <2>2
<1>7. /\ current' = {inflight[n]} /\ hist' = NextHist
      /\ UNCHANGED <<marker, deepFork>> /\ ~marker /\ ~deepFork /\ pc' = "committed"
  <2>1. /\ current' = {inflight[Len(inflight)]} /\ hist' = NextHist
        /\ UNCHANGED <<marker, deepFork>> /\ pc = "write" /\ pc' = "committed"
    BY Zenon DEF CommitBatch
  <2>2. ~marker /\ ~deepFork
    BY <2>1, ZenonT(60) DEF SInv, MarkerInv
  <2> QED
    BY <1>0, <2>1, <2>2, Zenon
<1>8. inflight[n] \in NextHist
  <2>1. ~Expired(Tip + n)
    BY <1>0, <1>1, ConstantsAssumption DEF Expired
  <2> QED
    BY <1>0, <1>1, <2>1 DEF NextHist
<1>9. ASSUME NEW b \in NextHist PROVE \E h \in 0..(T + n) : b = HeaderAt(h)'
  <2>1. CASE b \in hist
    <3>1. PICK h \in 0..T : b = HeaderAt(h)
      BY <1>0, <2>1 DEF SInv, SummaryTracksTip
    <3> QED
      BY <1>3, <3>1
  <2>2. CASE b \notin hist
    <3>1. PICK i \in 1..n : b = inflight[i]
      BY <1>0, <2>2 DEF NextHist
    <3>2. T + i \in 0..(T + n)
      BY <3>1
    <3> QED
      BY <1>4, <3>1, <3>2
  <2> QED
    BY <2>1, <2>2
<1>10. SummaryTracksTip'
  <2>1. NextHist \subseteq {HeaderAt(h)' : h \in 0..(T + n)}
    BY <1>9
  <2> QED
    BY <1>2, <1>6, <1>7, <1>8, <2>1 DEF SummaryTracksTip
<1>11. MarkerInv'
  BY <1>7 DEF MarkerInv
<1>12. SubSeq(headers', 1, Tip) = headers
  BY <1>0, <1>1, <1>2 DEF Tip
<1> QED
  BY <1>0, <1>1, <1>2, <1>5, <1>10, <1>11, <1>12 DEF SInv

-----------------------------------------------------------------------------
(* Every step is one of six kinds. *)

\* A step that readers of the store cannot see.
Quiet ==
    /\ UNCHANGED shownVars
    /\ marker => pc' \in {"marked", "down"}
    /\ pc' = "marked" => pc = "marked" /\ job' = job
    /\ deepFork => pc' \in {"paused", "down"}

\* A restart that finds the marker of an interrupted rollback.
RestoreSummary == Restart /\ marker

\* Only the deep-fork record, the withdrawal, the two commits and a startup
\* that restores the summary are visible; every other handler is quiet.
LEMMA StepKinds ==
    ASSUME IInv, SInv, [Next]_vars
    PROVE  \/ Quiet \/ RecordDeepFork \/ WithdrawSummary
           \/ CommitRollback \/ CommitBatch \/ RestoreSummary
<1>0. MarkerInv
  BY DEF SInv
<1> USE <1>0 DEF MarkerInv, Quiet, shownVars, domain
<1>1. CASE UNCHANGED vars
  BY <1>1 DEF vars, process
<1>2. CASE NodeExtend \/ NodeSwitch
  BY <1>2 DEF NodeExtend, NodeSwitch, process
<1>3. CASE FetchBlock
  BY <1>3 DEF FetchBlock
<1>4. CASE NodeReadFails
  BY <1>4 DEF NodeReadFails, Stop
<1>5. CASE CheckPasses
  BY <1>5 DEF CheckPasses, BackToIdle
<1>6. CASE DetectReorg
  BY <1>6 DEF DetectReorg
<1>7. CASE ProbePasses
  BY <1>7 DEF ProbePasses
<1>8. CASE FindForkPoint
  BY <1>8 DEF FindForkPoint, Stop
<1>9. CASE ExecuteReorg
  BY <1>9 DEF ExecuteReorg, Stop
<1>10. CASE ReplayUndo
  BY <1>10 DEF ReplayUndo, process
<1>11. CASE RollbackRefused
  BY <1>11 DEF RollbackRefused, Stop
<1>12. CASE RecordReorgEvent
  BY <1>12, Zenon DEF RecordReorgEvent, BackToIdle, IInv, TypeOK
<1>13. CASE FinishBatch
  BY <1>13 DEF FinishBatch, BackToIdle
<1>14. CASE RejectBatch
  BY <1>14 DEF RejectBatch, CleanupBatchRange, Stop
<1>15. CASE WriteFails
  BY <1>15 DEF WriteFails, CleanupBatchRange, Stop
<1>16. CASE FinishCleanup
  BY <1>16 DEF FinishCleanup, BackToIdle, Stop
<1>17. CASE Crash
  BY <1>17 DEF Crash, Stop
<1>18. CASE Restart
  BY <1>18 DEF Restart, RestoreSummary, MustRestoreSummary
<1> QED
  BY <1>1, <1>2, <1>3, <1>4, <1>5, <1>6, <1>7, <1>8, <1>9, <1>10, <1>11, <1>12,
     <1>13, <1>14, <1>15, <1>16, <1>17, <1>18, ZenonT(60) DEF Next

\* Every step keeps the headers linked and the summary true of the tip.
LEMMA NextSummary == IInv /\ SInv /\ [Next]_vars => SInv'
<1> SUFFICES ASSUME IInv, SInv, [Next]_vars PROVE SInv'
  OBVIOUS
<1>0. ASSUME UNCHANGED headers
      PROVE  /\ Tip' = Tip /\ TipBlock' = TipBlock /\ HeadersLinked'
             /\ {HeaderAt(h) : h \in 0..Tip}' = {HeaderAt(h) : h \in 0..Tip}
  <2>1. Tip' = Tip /\ (\A h : HeaderAt(h)' = HeaderAt(h)) /\ TipBlock' = TipBlock
    BY <1>0 DEF Tip, HeaderAt, TipBlock
  <2> QED
    BY <2>1 DEF SInv, HeadersLinked, Extends
<1>1. CASE Quiet
  BY <1>1, SummaryUntouched DEF Quiet
<1>2. CASE RecordDeepFork
  <2>1. /\ UNCHANGED <<headers, hist, marker>> /\ current' = {} /\ deepFork'
        /\ pc' = "paused" /\ ~marker
    BY <1>2 DEF RecordDeepFork, SInv, MarkerInv
  <2> QED
    BY <1>0, <2>1 DEF SInv, SummaryTracksTip, MarkerInv
<1>3. CASE WithdrawSummary
  <2>1. /\ UNCHANGED <<headers, hist, deepFork, job>> /\ current' = {} /\ marker'
        /\ pc' = "marked" /\ ~deepFork /\ HeaderAt(job.target) \in hist
    BY <1>3 DEF WithdrawSummary, WithdrawCurrent, SummaryPlanHolds, SInv, MarkerInv
  <2>2. HeaderAt(job.target)' = HeaderAt(job.target)
    BY <2>1 DEF HeaderAt
  <2> QED
    BY <1>0, <2>1, <2>2, ZenonT(60) DEF SInv, SummaryTracksTip, MarkerInv
<1>4. CASE CommitRollback
  BY <1>4, RollbackKeepsSummary
<1>5. CASE CommitBatch
  BY <1>5, CommitKeepsSummary
<1>6. CASE RestoreSummary
  <2>1. /\ UNCHANGED <<headers, hist, deepFork>> /\ current' = {TipBlock} /\ ~marker'
        /\ ~deepFork /\ pc' = "idle"
    BY <1>6 DEF RestoreSummary, Restart, MustRestoreSummary, SInv, MarkerInv
  <2> QED
    BY <1>0, <2>1 DEF SInv, SummaryTracksTip, MarkerInv
<1> QED
  BY <1>1, <1>2, <1>3, <1>4, <1>5, <1>6, StepKinds

-----------------------------------------------------------------------------
(* The refinement. *)

\* The view's words for a chain are the store's.
LEMMA SameWords ==
    /\ View!TipOf(headers) = TipBlock
    /\ View!LinkedChain(headers) <=> HeadersLinked
    /\ View!TipOf(headers') = TipBlock'
    /\ View!LinkedChain(headers') <=> HeadersLinked'
<1>1. \A h : /\ View!BlockAt(headers, h) = HeaderAt(h)
            /\ View!BlockAt(headers', h) = HeaderAt(h)'
  BY DEF View!BlockAt, HeaderAt, Genesis
<1>2. \A b, c : View!Follows(b, c) <=> Extends(b, c)
  BY DEF View!Follows, Extends
<1> QED
  BY <1>1, <1>2 DEF View!TipOf, View!LinkedChain, TipBlock, HeadersLinked, Tip

\* A store handed over by bulk build shows its tip.
LEMMA InitView == Init => View!Init
<1> SUFFICES ASSUME Init PROVE View!Init
  OBVIOUS
<1>1. HeadersLinked
  BY InitSummary DEF SInv
<1> QED
  BY <1>1, SameWords DEF Init, View!Init

\* Each of the six kinds of step is a step of the view, or invisible in it.
LEMMA NextView ==
    ASSUME IInv, SInv, SInv', [Next]_vars
    PROVE  [View!Next]_(View!view)
<1>0. /\ View!TipOf(headers) = TipBlock /\ View!TipOf(headers') = TipBlock'
      /\ View!LinkedChain(headers')
      /\ current = IF marker \/ deepFork THEN {} ELSE {TipBlock}
      /\ current' = IF marker' \/ deepFork' THEN {} ELSE {TipBlock'}
  BY SameWords DEF SInv, SummaryTracksTip
<1>1. CASE Quiet
  BY <1>1 DEF Quiet, shownVars, View!view
<1>2. CASE RecordDeepFork
  <2>1. View!Freeze
    BY <1>0, <1>2 DEF RecordDeepFork, SInv, MarkerInv, View!Freeze
  <2> QED
    BY <2>1, ZenonT(60) DEF View!Next
<1>3. CASE WithdrawSummary
  <2>1. View!Withdraw
    BY <1>0, <1>3 DEF WithdrawSummary, WithdrawCurrent, SInv, MarkerInv, View!Withdraw
  <2> QED
    BY <2>1 DEF View!Next
<1>4. CASE CommitRollback
  <2>1. /\ job.target \in 0..Len(headers) /\ headers' = SubSeq(headers, 1, job.target)
        /\ marker /\ ~marker' /\ ~deepFork /\ UNCHANGED deepFork
    <3>1. /\ pc = "marked" /\ headers' = SubSeq(headers, 1, job.target)
          /\ ~marker' /\ UNCHANGED deepFork
      BY <1>4, Zenon DEF CommitRollback
    <3>2. marker /\ ~deepFork
      BY <3>1, ZenonT(60) DEF SInv, MarkerInv
    <3>3. job.target \in 0..Len(headers)
      BY <3>1, LenProperties DEF IInv, TypeOK, JobInRange, Tip
    <3> QED
      BY <3>1, <3>2, <3>3, Zenon
  <2>2. View!Retract
    BY <1>0, <2>1 DEF View!Retract
  <2> QED
    BY <2>2, ZenonT(60) DEF View!Next
<1>5. CASE CommitBatch
  <2>1. Len(headers') > Len(headers) /\ SubSeq(headers', 1, Len(headers)) = headers
    BY <1>5, CommitKeepsSummary, ZenonT(60) DEF Tip
  <2>2. ~deepFork /\ ~marker /\ UNCHANGED <<deepFork, marker>>
    <3>1. pc = "write" /\ UNCHANGED <<deepFork, marker>>
      BY <1>5, Zenon DEF CommitBatch
    <3> QED
      BY <3>1, Zenon DEF SInv, MarkerInv
  <2>3. View!Advance
    BY <1>0, <2>1, <2>2, Zenon DEF View!Advance
  <2> QED
    BY <2>3 DEF View!Next
<1>6. CASE RestoreSummary
  <2>1. marker /\ ~marker' /\ ~deepFork /\ UNCHANGED <<deepFork, headers>>
    BY <1>6 DEF RestoreSummary, Restart, MustRestoreSummary, SInv, MarkerInv
  <2>2. headers \in Seq(Block) /\ Len(headers) \in Nat
    BY LenProperties DEF IInv, TypeOK
  <2>3. headers' = SubSeq(headers, 1, Len(headers))
    BY <2>1, <2>2
  <2>4. View!Retract
    BY <1>0, <2>1, <2>2, <2>3 DEF View!Retract
  <2> QED
    BY <2>4 DEF View!Next
<1> QED
  BY <1>1, <1>2, <1>3, <1>4, <1>5, <1>6, StepKinds, ZenonT(60)

\* After a deep fork only the node moves, and the process crashes and restarts.
LEMMA NextFrozen ==
    ASSUME IInv, SInv, [Next]_vars, deepFork
    PROVE  UNCHANGED <<headers, rows, undo, floor, hist, current>>
<1>0. pc \in {"paused", "down"} /\ ~marker
  BY DEF SInv, MarkerInv
<1>1. CASE UNCHANGED vars \/ NodeExtend \/ NodeSwitch \/ Crash \/ Restart
  BY <1>0, <1>1, Zenon DEF vars, domain, NodeExtend, NodeSwitch, Crash, Restart,
                    MustRestoreSummary
<1>2. CASE \/ FetchBlock \/ NodeReadFails \/ CheckPasses \/ DetectReorg
           \/ RecordDeepFork \/ ProbePasses \/ FindForkPoint
  BY <1>0, <1>2 DEF FetchBlock, NodeReadFails, Checking, CheckPasses, DetectReorg,
                    RecordDeepFork, ProbePasses, FindForkPoint
<1>3. CASE \/ ExecuteReorg \/ ReplayUndo \/ RollbackRefused \/ WithdrawSummary
           \/ CommitRollback \/ RecordReorgEvent
  BY <1>0, <1>3, Zenon DEF ExecuteReorg, ReplayUndo, RollbackRefused, WithdrawSummary,
                    CommitRollback, RecordReorgEvent
<1>4. CASE CommitBatch \/ FinishBatch \/ RejectBatch \/ WriteFails \/ FinishCleanup
  BY <1>0, <1>4, Zenon DEF CommitBatch, FinishBatch, RejectBatch, WriteFails, FinishCleanup
<1> QED
  BY <1>1, <1>2, <1>3, <1>4 DEF Next

-----------------------------------------------------------------------------
(* The theorems. *)

\* Both invariants hold of every reachable state.
LEMMA Invariants == Spec => [](IInv /\ SInv)
BY InitInvariant, NextInvariant, InitSummary, NextSummary, PTL DEF Spec

\* The stored headers are one chain although a batch is fetched block by block
\* from a node that may switch branch in the middle.
THEOREM HeadersStayLinked == Spec => []HeadersLinked
<1>1. SInv => HeadersLinked
  BY DEF SInv
<1> QED
  BY <1>1, Invariants, PTL

\* The served live-cell summary is the tip's, or withdrawn for a reason.
THEOREM SummaryIsTheTips == Spec => []SummaryTracksTip
<1>1. SInv => SummaryTracksTip
  BY DEF SInv
<1> QED
  BY <1>1, Invariants, PTL

\* Startup finds no undo entry above the tip and can restore the summary.
THEOREM EveryStopRestarts == Spec => []StartupRecovers
<1>1. IInv /\ SInv => StartupRecovers
  <2> SUFFICES ASSUME IInv, SInv PROVE StartupRecovers
    OBVIOUS
  <2>1. \A e \in undo : e.blk \in 1..Tip /\ Tip \in Nat
    BY LenProperties DEF IInv, DataInv, UndoSound, TypeOK, Tip
  <2> QED
    BY <2>1 DEF StartupRecovers, HasPartialData, SInv, SummaryTracksTip
<1> QED
  BY <1>1, Invariants, PTL

\* A recorded deep fork freezes the stored data, restarts included.
THEOREM DeepForkIsFinal == Spec => DeepForkFreezesStore
<1>1. IInv /\ SInv /\ [Next]_vars
        => [deepFork => UNCHANGED <<headers, rows, undo, floor, hist, current>>]_vars
  BY NextFrozen
<1> QED
  BY <1>1, Invariants, PTL DEF Spec, DeepForkFreezesStore

\* Every behaviour of the store, seen by its readers, is one of TipView.
THEOREM StoreImplementsView == Spec => ImplementsTipView
<1>1. IInv /\ SInv /\ SInv' /\ [Next]_vars => [View!Next]_(View!view)
  BY NextView
<1> QED
  BY <1>1, InitView, Invariants, PTL DEF Spec, ImplementsTipView, View!Spec

-----------------------------------------------------------------------------
(* Exact rows. *)

\* No rollback is cut short between its first replay and its commit: neither by
\* a crash, nor by a refusal of the plan that is made after the replay.
CutShort == pc \in {"undo", "marked"} /\ pc' = "down"
RollbacksFinish == [][~CutShort]_vars

\* Then blocks are torn only while a rollback runs, and it removes all of them.
TornInv ==
    /\ pc \notin {"undo", "marked"} => torn = {}
    /\ pc \in {"undo", "marked"} => \A b \in torn : Len(b) > job.target

\* A step of a store whose rollbacks finish leaves no torn block behind.
LEMMA NextTorn ==
    ASSUME IInv, TornInv, [Next]_vars, [~CutShort]_vars
    PROVE  TornInv'
<1>1. CASE UNCHANGED <<pc, job, torn>>
  BY <1>1, Zenon DEF TornInv
<1>2. CASE ReplayUndo
  <2>1. PICK e \in Pending : torn' = torn \cup {HeaderAt(e.blk)}
    BY <1>2, Zenon DEF ReplayUndo
  <2>2. e \in undo /\ e.blk > job.target
    BY <2>1 DEF Pending
  <2>3. e.blk \in 0..Tip
    BY <2>2 DEF IInv, DataInv, UndoSound
  <2>4. Len(HeaderAt(e.blk)) = e.blk
    BY <2>3, StoredBlock, Zenon DEF IInv, DataInv
  <2>5. pc = "undo" /\ UNCHANGED <<pc, job>>
    BY <1>2, Zenon DEF ReplayUndo, process
  <2>6. \A b \in torn' : Len(b) > job.target
    <3>1. \A b \in torn : Len(b) > job.target
      BY <2>5, Zenon DEF TornInv
    <3>2. Len(HeaderAt(e.blk)) > job.target
      BY <2>2, <2>4
    <3> QED
      BY <2>1, <3>1, <3>2, Zenon
  <2> QED
    BY <2>5, <2>6, Zenon DEF TornInv
<1>3. CASE CommitRollback
  <2>1. /\ pc = "marked" /\ torn' = {b \in torn : Len(b) <= job.target}
        /\ pc' \in {"event", "cleaned"}
    BY <1>3 DEF CommitRollback
  <2>2. \A b \in torn : Len(b) > job.target /\ Len(b) \in Nat /\ job.target \in Nat
    <3>1. \A b \in torn : b \in Seq(Label)
      BY DEF IInv, TypeOK, Block
    <3>2. \A b \in torn : Len(b) \in Nat
      BY <3>1, LenProperties, Zenon
    <3>3. job.target \in Nat
      BY DEF IInv, TypeOK
    <3> QED
      BY <2>1, <3>2, <3>3, Zenon DEF TornInv
  <2>3. torn' = {}
    BY <2>1, <2>2
  <2> QED
    BY <2>1, <2>3, Zenon DEF TornInv
<1>4. CASE /\ UNCHANGED torn /\ pc \in {"undo", "marked"}
           /\ pc' \in {"undo", "marked"} /\ UNCHANGED job
  BY <1>4, Zenon DEF TornInv
<1>5. CASE UNCHANGED torn /\ pc \notin {"undo", "marked"}
  BY <1>5, Zenon DEF TornInv
<1>6. CASE WithdrawSummary
  BY <1>4, <1>6 DEF WithdrawSummary
<1>7. CASE RollbackRefused
  BY <1>7, Zenon DEF RollbackRefused, Stop, CutShort, vars, process
<1>8. CASE Crash
  <2>1. pc' = "down" /\ pc # "down" /\ UNCHANGED torn
    BY <1>8, Zenon DEF Crash, Stop
  <2>2. pc \notin {"undo", "marked"}
    BY <2>1, Zenon DEF CutShort, vars, process
  <2> QED
    BY <1>5, <2>1, <2>2, Zenon
<1>9. CASE UNCHANGED vars \/ NodeExtend \/ NodeSwitch
  BY <1>1, <1>9, Zenon DEF vars, NodeExtend, NodeSwitch, process
<1>10. CASE \/ FetchBlock \/ NodeReadFails \/ CheckPasses \/ DetectReorg
            \/ RecordDeepFork \/ ProbePasses \/ FindForkPoint \/ ExecuteReorg
  BY <1>5, <1>10, ZenonT(60) DEF FetchBlock, NodeReadFails, Checking, CheckPasses, DetectReorg,
     RecordDeepFork, ProbePasses, FindForkPoint, ExecuteReorg
<1>11. CASE \/ RecordReorgEvent \/ CommitBatch \/ FinishBatch \/ RejectBatch
            \/ WriteFails \/ FinishCleanup \/ Restart
  BY <1>5, <1>11, ZenonT(60) DEF RecordReorgEvent, CommitBatch, FinishBatch, RejectBatch,
     WriteFails, FinishCleanup, Restart
<1> QED
  BY <1>2, <1>3, <1>6, <1>7, <1>8, <1>9, <1>10, <1>11, ZenonT(60) DEF Next

\* write_parsed_batch, execute_reorg and cleanup_batch_range leave every row with
\* exactly the effects of the stored chain, for any sequence of switches, failed
\* writes and retries, as long as no rollback is cut short after its first replay.
THEOREM RowsStayExact == Spec /\ RollbacksFinish => []RowsExact
<1>1. Init => TornInv
  BY DEF Init, TornInv
<1>2. IInv /\ TornInv => RowsExact
  BY Zenon DEF IInv, DataInv, NoOrphanRows, OnlyTornRowsMissing, TornInv, RowsExact
<1>3. IInv /\ TornInv /\ [Next]_vars /\ [~CutShort]_vars => TornInv'
  BY NextTorn
<1> QED
  BY <1>1, <1>2, <1>3, Invariants, PTL DEF Spec, RollbacksFinish

-----------------------------------------------------------------------------
(* Where rollbacks finish. *)

\* A chain no longer than the window of summaries: every stored block has one.
Fetched == {"idle", "probe", "search", "write", "down"}
WindowInv ==
    /\ Len(node) <= MaxHeight /\ Tip <= MaxHeight
    /\ pc \in Fetched => Tip + Len(inflight) <= MaxHeight
    /\ \A h \in 0..Tip : HeaderAt(h) \in hist

\* A step that leaves headers and summaries alone and fetches nothing.
LEMMA WindowUntouched ==
    ASSUME IInv, WindowInv, UNCHANGED <<headers, hist>>, Len(node') <= MaxHeight,
           \/ inflight' = <<>> \/ pc' \notin Fetched
           \/ UNCHANGED inflight /\ (pc' \in Fetched => pc \in Fetched)
    PROVE  WindowInv'
<1>1. Tip' = Tip /\ (\A h : HeaderAt(h)' = HeaderAt(h)) /\ Tip \in Nat
  BY LenProperties DEF Tip, HeaderAt, IInv, TypeOK
<1>2. \A h \in 0..Tip' : HeaderAt(h)' \in hist'
  BY <1>1, Zenon DEF WindowInv
<1>3. pc' \in Fetched => Tip' + Len(inflight') <= MaxHeight
  <2>1. CASE inflight' = <<>>
    BY <1>1, <2>1 DEF WindowInv
  <2>2. CASE UNCHANGED inflight /\ (pc' \in Fetched => pc \in Fetched)
    BY <1>1, <2>2, Zenon DEF WindowInv
  <2> QED
    BY <2>1, <2>2, Zenon
<1> QED
  BY <1>1, <1>2, <1>3, Zenon DEF WindowInv

\* The chains of the node are bounded.
LEMMA NodeBounded ==
    ASSUME IInv, WindowInv, NodeExtend \/ NodeSwitch
    PROVE  Len(node') <= MaxHeight
<1>1. CASE NodeExtend
  <2>1. PICK l \in Label : node' = Append(node, l)
    BY <1>1, Zenon DEF NodeExtend
  <2>2. Len(node') = Len(node) + 1 /\ Len(node) \in Nat
    BY <2>1, LenProperties, AppendProperties DEF IInv, TypeOK
  <2> QED
    BY <1>1, <2>2, ConstantsAssumption DEF NodeExtend
<1>2. CASE NodeSwitch
  <2>1. PICK n \in 0..MaxHeight : node' \in [1..n -> Label]
    BY <1>2, Zenon DEF NodeSwitch, Chains
  <2>2. n \in Nat /\ Len(node') = n
    BY <2>1, ConstantsAssumption
  <2> QED
    BY <2>1, <2>2
<1> QED
  BY <1>1, <1>2

\* The commit of a batch lets no summary expire.
LEMMA CommitKeepsWindow ==
    ASSUME MaxHeight <= DeepForkDepth, IInv, WindowInv, CommitBatch
    PROVE  WindowInv'
<1>0. PICK T \in Nat, n \in Nat : T = Tip /\ n = Len(inflight)
  BY LenProperties DEF IInv, TypeOK, Tip
<1>1. /\ inflight \in Seq(Block) /\ headers \in Seq(Block) /\ T + n <= MaxHeight
      /\ MaxHeight \in Nat /\ DeepForkDepth \in Nat
  <2>1. pc = "write"
    BY Zenon DEF CommitBatch
  <2>2. pc \in Fetched
    BY <2>1, Zenon DEF Fetched
  <2>3. Tip + Len(inflight) <= MaxHeight
    BY <2>2, Zenon DEF WindowInv
  <2>4. inflight \in Seq(Block) /\ headers \in Seq(Block)
    BY Zenon DEF IInv, TypeOK
  <2> QED
    BY <1>0, <2>3, <2>4, ConstantsAssumption
<1>2. \A h \in Nat : ~Expired(h)
  BY <1>0, <1>1 DEF Expired
<1>3. /\ Tip' = T + n
      /\ \A i \in 1..T : headers'[i] = headers[i]
      /\ \A i \in 1..n : headers'[T + i] = inflight[i]
  <2>1. headers' = headers \o inflight
    BY Zenon DEF CommitBatch
  <2> QED
    BY <1>0, <1>1, <2>1, ConcatProperties DEF Tip
<1>4. ASSUME NEW h \in 0..T PROVE HeaderAt(h)' \in hist'
  <2>1. HeaderAt(h)' = HeaderAt(h)
    <3>1. h # 0 => headers'[h] = headers[h]
      BY <1>0, <1>3
    <3> QED
      BY <3>1, Zenon DEF HeaderAt
  <2>2. HeaderAt(h) \in hist /\ Len(HeaderAt(h)) = h
    BY <1>0, StoredBlock, Zenon DEF WindowInv, IInv, DataInv
  <2>3. HeaderAt(h) \in NextHist
    <3>1. h \in Nat /\ h <= Tip
      BY <1>0
    <3> QED
      BY <1>2, <2>2, <3>1, Zenon DEF NextHist
  <2> QED
    BY <2>1, <2>3, Zenon DEF CommitBatch
<1>5. ASSUME NEW i \in 1..n PROVE HeaderAt(T + i)' \in hist'
  <2>1. T + i # 0 /\ T + i \in Nat
    BY <1>0
  <2>2. HeaderAt(T + i)' = inflight[i]
    BY <1>3, <2>1, Zenon DEF HeaderAt
  <2>3. ~Expired(Tip + i)
    BY <1>0, <1>2, <2>1, Zenon
  <2>4. inflight[i] \in NextHist
    BY <1>0, <2>3, Zenon DEF NextHist
  <2> QED
    BY <2>2, <2>4, Zenon DEF CommitBatch
<1>6. \A h \in 0..Tip' : HeaderAt(h)' \in hist'
  <2> TAKE h \in 0..Tip'
  <2>1. CASE h <= T
    BY <1>3, <1>4, <2>1
  <2>2. CASE ~(h <= T)
    <3>1. h - T \in 1..n /\ T + (h - T) = h
      BY <1>3, <2>2
    <3>2. HeaderAt(T + (h - T))' \in hist'
      BY <1>5, <3>1, Zenon
    <3> QED
      BY <3>1, <3>2, Zenon
  <2> QED
    BY <2>1, <2>2
<1>7. Len(node') <= MaxHeight /\ pc' \notin Fetched
  <2>1. pc' = "committed" /\ node' = node
    BY Zenon DEF CommitBatch
  <2> QED
    BY <2>1 DEF WindowInv, Fetched
<1> QED
  BY <1>1, <1>3, <1>6, <1>7 DEF WindowInv

\* The canonical rollback drops no summary of a block that stays.
LEMMA RollbackKeepsWindow ==
    ASSUME IInv, WindowInv, CommitRollback
    PROVE  WindowInv'
<1>1. /\ job.target \in 0..Tip /\ Tip \in Nat /\ headers \in Seq(Block)
      /\ headers' = SubSeq(headers, 1, job.target) /\ hist' = {b \in hist : Len(b) <= job.target}
  <2>1. pc = "marked" /\ headers' = SubSeq(headers, 1, job.target)
        /\ hist' = {b \in hist : Len(b) <= job.target}
    BY Zenon DEF CommitRollback, KeptHist
  <2> QED
    BY <2>1, LenProperties DEF IInv, TypeOK, Tip, JobInRange
<1>2. Tip' = job.target /\ \A i \in 1..job.target : headers'[i] = headers[i]
  BY <1>1 DEF Tip
<1>3. ASSUME NEW h \in 0..Tip' PROVE HeaderAt(h)' \in hist'
  <2>1. h \in 0..Tip /\ h <= job.target /\ (h # 0 => h \in 1..job.target)
    BY <1>1, <1>2
  <2>2. HeaderAt(h)' = HeaderAt(h)
    BY <1>2, <2>1, Zenon DEF HeaderAt
  <2>3. HeaderAt(h) \in hist /\ Len(HeaderAt(h)) = h
    BY <2>1, StoredBlock, Zenon DEF WindowInv, IInv, DataInv
  <2> QED
    BY <1>1, <2>1, <2>2, <2>3, Zenon
<1>4. Tip' <= MaxHeight /\ Len(node') <= MaxHeight /\ pc' \notin Fetched
  <2>1. pc' \in {"event", "cleaned"} /\ node' = node
    BY Zenon DEF CommitRollback
  <2>2. Tip <= MaxHeight /\ Len(node) <= MaxHeight
    BY Zenon DEF WindowInv
  <2>3. Tip' <= MaxHeight
    BY <1>1, <1>2, <2>2, ConstantsAssumption
  <2>4. pc' \notin Fetched
    BY <2>1 DEF Fetched
  <2> QED
    BY <2>1, <2>2, <2>3, <2>4, Zenon
<1> QED
  BY <1>3, <1>4, Zenon DEF WindowInv

\* Every step keeps a summary for every stored block.
LEMMA NextWindow ==
    ASSUME MaxHeight <= DeepForkDepth, IInv, WindowInv, [Next]_vars
    PROVE  WindowInv'
<1>0. Len(node) <= MaxHeight
  BY Zenon DEF WindowInv
<1>1. CASE UNCHANGED vars
  BY <1>0, <1>1, WindowUntouched, Zenon DEF vars, domain, process
<1>2. CASE NodeExtend \/ NodeSwitch
  <2>1. UNCHANGED <<headers, hist, inflight, pc>>
    BY <1>2, Zenon DEF NodeExtend, NodeSwitch, domain, process
  <2> QED
    BY <1>2, <2>1, NodeBounded, WindowUntouched, Zenon
<1>3. CASE FetchBlock
  <2>1. PICK h : h = Tip + Len(inflight) + 1 /\ h <= Len(node)
                 /\ inflight' = Append(inflight, ChainBlock(h))
    BY <1>3, Zenon DEF FetchBlock
  <2>2. /\ inflight \in Seq(Block) /\ Len(inflight) \in Nat /\ Tip \in Nat
        /\ node \in Seq(Label) /\ Len(node) \in Nat
    BY LenProperties DEF IInv, TypeOK, Tip
  <2>3. h \in 1..Len(node)
    BY <2>1, <2>2
  <2>4. Len(inflight') = Len(inflight) + 1
    BY <2>1, <2>2, <2>3, ChainBlockHeight, AppendProperties
  <2>5. UNCHANGED <<headers, hist, node>>
    BY <1>3, Zenon DEF FetchBlock, domain
  <2>6. Tip' = Tip /\ (\A i : HeaderAt(i)' = HeaderAt(i))
    BY <2>5, Zenon DEF Tip, HeaderAt
  <2>7. \A i \in 0..Tip' : HeaderAt(i)' \in hist'
    BY <2>5, <2>6, Zenon DEF WindowInv
  <2>8. Tip' + Len(inflight') <= MaxHeight /\ Tip' <= MaxHeight
    BY <1>0, <2>1, <2>2, <2>4, <2>6, ConstantsAssumption DEF WindowInv
  <2> QED
    BY <1>0, <2>5, <2>7, <2>8, Zenon DEF WindowInv
<1>4. CASE NodeReadFails \/ RollbackRefused \/ Crash
  BY <1>0, <1>4, WindowUntouched, Zenon DEF NodeReadFails, RollbackRefused, Crash, Stop, domain
<1>5. CASE CheckPasses
  <2>1. UNCHANGED <<headers, hist, node>> /\ (UNCHANGED inflight \/ inflight' = <<>>)
        /\ pc \in Fetched
    BY <1>5, Zenon DEF CheckPasses, BackToIdle, domain, Fetched
  <2> QED
    BY <1>0, <2>1, WindowUntouched, Zenon
<1>6. CASE DetectReorg \/ ProbePasses
  BY <1>0, <1>6, WindowUntouched, Zenon DEF DetectReorg, ProbePasses, domain, Fetched
<1>7. CASE RecordDeepFork
  BY <1>0, <1>7, WindowUntouched, Zenon DEF RecordDeepFork
<1>8. CASE FindForkPoint \/ ExecuteReorg
  <2>1. UNCHANGED <<headers, hist, node>> /\ (UNCHANGED inflight \/ inflight' = <<>>)
        /\ pc \in Fetched
    BY <1>8, Zenon DEF FindForkPoint, ExecuteReorg, Stop, domain, Fetched
  <2> QED
    BY <1>0, <2>1, WindowUntouched, Zenon
<1>9. CASE ReplayUndo \/ WithdrawSummary
  <2>1. UNCHANGED <<headers, hist, node>> /\ pc' \notin Fetched
    BY <1>9 DEF ReplayUndo, WithdrawSummary, process, Fetched
  <2> QED
    BY <1>0, <2>1, WindowUntouched, Zenon
<1>10. CASE CommitRollback
  BY <1>10, RollbackKeepsWindow
<1>11. CASE CommitBatch
  BY <1>11, CommitKeepsWindow
<1>12. CASE RecordReorgEvent \/ FinishBatch \/ FinishCleanup
  <2>1. UNCHANGED <<headers, hist, node>> /\ inflight' = <<>>
    BY <1>12, Zenon DEF RecordReorgEvent, FinishBatch, FinishCleanup, BackToIdle, Stop, domain
  <2> QED
    BY <1>0, <2>1, WindowUntouched, Zenon
<1>13. CASE RejectBatch \/ WriteFails
  <2>1. UNCHANGED <<headers, hist, node>> /\ inflight' = <<>>
    BY <1>13, Zenon DEF RejectBatch, WriteFails, CleanupBatchRange, Stop, domain
  <2> QED
    BY <1>0, <2>1, WindowUntouched, Zenon
<1>14. CASE Restart
  <2>1. UNCHANGED <<headers, hist, node, inflight>> /\ pc \in Fetched
    BY <1>14, Zenon DEF Restart, Fetched
  <2> QED
    BY <1>0, <2>1, WindowUntouched, Zenon
<1> QED
  BY <1>1, <1>2, <1>3, <1>4, <1>5, <1>6, <1>7, <1>8, <1>9, <1>10, <1>11, <1>12,
     <1>13, <1>14, ZenonT(60) DEF Next

\* A store handed over by bulk build has all its summaries.
LEMMA InitWindow ==
    ASSUME MaxHeight <= DeepForkDepth, Init
    PROVE  WindowInv
<1>1. PICK n \in 0..MaxHeight : node \in [1..n -> Label]
  BY Zenon DEF Init, Chains
<1>2. n \in Nat /\ Len(node) = n
  BY <1>1, ConstantsAssumption
<1>3. Tip = n
  <2>1. headers = [i \in 1..n |-> SubSeq(node, 1, i)]
    BY <1>2, Zenon DEF Init
  <2> QED
    BY <1>2, <2>1 DEF Tip
<1>4. ForkFloor = 0
  BY <1>1, <1>2, <1>3, ConstantsAssumption DEF ForkFloor
<1>5. \A h \in 0..Tip : HeaderAt(h) \in hist
  BY <1>4, Zenon DEF Init
<1>6. Tip + Len(inflight) <= MaxHeight
  <2>1. inflight = <<>>
    BY Zenon DEF Init
  <2>2. Len(inflight) = 0
    BY <2>1
  <2> QED
    BY <1>1, <1>2, <1>3, <2>2, ConstantsAssumption
<1> QED
  BY <1>1, <1>2, <1>3, <1>5, <1>6, ConstantsAssumption DEF WindowInv

\* With every summary at hand no plan is refused, and without crashes nothing
\* else ends a rollback early.
LEMMA StepFinishes ==
    ASSUME MaxCrashes = 0, MaxHeight <= DeepForkDepth, IInv, SInv, WindowInv, [Next]_vars
    PROVE  ~CutShort
<1> SUFFICES ASSUME pc \in {"undo", "marked"}, pc' = "down" PROVE FALSE
  BY Zenon DEF CutShort
<1>1. CASE Crash
  BY <1>1 DEF Crash, IInv, TypeOK
<1>2. CASE RollbackRefused
  <2>1. pc = "undo" /\ ~SummaryPlanHolds(job.target)
    BY <1>2, Zenon DEF RollbackRefused
  <2>2. ~deepFork /\ ~marker
    BY <2>1 DEF SInv, MarkerInv
  <2>3. TipBlock \in hist /\ current = {TipBlock}
    BY <2>2, Zenon DEF SInv, SummaryTracksTip
  <2>4. job.target \in 0..Tip /\ Tip \in Nat /\ job.target \in Nat
    BY <2>1, LenProperties DEF IInv, TypeOK, JobInRange, Tip
  <2>5. HeaderAt(job.target) \in hist
    BY <2>4, Zenon DEF WindowInv
  <2>6. Tip - job.target <= DeepForkDepth
    BY <2>4, ConstantsAssumption DEF WindowInv
  <2> QED
    BY <2>1, <2>3, <2>5, <2>6, Zenon DEF SummaryPlanHolds
<1>3. CASE ReplayUndo \/ WithdrawSummary \/ CommitRollback
  BY <1>3 DEF ReplayUndo, WithdrawSummary, CommitRollback, process
<1>4. CASE UNCHANGED vars \/ NodeExtend \/ NodeSwitch
  BY <1>4 DEF vars, NodeExtend, NodeSwitch, process
<1>5. CASE \/ FetchBlock \/ NodeReadFails \/ CheckPasses \/ DetectReorg
           \/ RecordDeepFork \/ ProbePasses \/ FindForkPoint \/ ExecuteReorg
  BY <1>5 DEF FetchBlock, NodeReadFails, Checking, CheckPasses, DetectReorg,
     RecordDeepFork, ProbePasses, FindForkPoint, ExecuteReorg
<1>6. CASE \/ RecordReorgEvent \/ CommitBatch \/ FinishBatch \/ RejectBatch
           \/ WriteFails \/ FinishCleanup \/ Restart
  BY <1>6 DEF RecordReorgEvent, CommitBatch, FinishBatch, RejectBatch,
     WriteFails, FinishCleanup, Restart
<1> QED
  BY <1>1, <1>2, <1>3, <1>4, <1>5, <1>6, ZenonT(60) DEF Next

\* Without crashes, and while the window of live-cell summaries is as long as the
\* chain, every reorg and every cleanup that began is finished, so the rows are
\* exact between any two batches.
THEOREM UncutRowsExact ==
    ASSUME MaxCrashes = 0, MaxHeight <= DeepForkDepth
    PROVE  Spec => []RowsExact
<1>1. Init => WindowInv
  BY InitWindow
<1>2. IInv /\ WindowInv /\ [Next]_vars => WindowInv'
  BY NextWindow
<1>3. IInv /\ SInv /\ WindowInv /\ [Next]_vars => [~CutShort]_vars
  BY StepFinishes
<1>4. Spec => RollbacksFinish
  BY <1>1, <1>2, <1>3, Invariants, PTL DEF Spec, RollbacksFinish
<1> QED
  BY <1>4, RowsStayExact, PTL

=============================================================================
