---------------------------- MODULE DeriveProofs ----------------------------
(***************************************************************************)
(* What derived aggregates hold, for any number of aggregates, rows,       *)
(* rollbacks and crashes: served rows equal a derivation from scratch, a   *)
(* rebuild accounts for every contribution, a reset aggregate is empty.    *)
(***************************************************************************)
EXTENDS Derive, FiniteSetTheorems, SequenceTheorems, TLAPS

\* An undo entry is of a stored block and of the row the block touches, and a
\* block has at most one for an aggregate.
UndoInv ==
    /\ \A e \in undo : e.blk \in 1..Tip /\ e.row = chain[e.blk]
    /\ \A e, f \in undo : e.agg = f.agg /\ e.blk = f.blk => e = f

\* What each state of an aggregate promises.
StateInv(a) ==
    /\ torn[a] \subseteq 1..Tip
    /\ meta[a].state = "not_started" => value[a] = NoRows
    /\ meta[a].state \in {"not_started", "folding", "validating"} => torn[a] = {}
    /\ meta[a].state = "validating" => value[a] = Source(chain)
    /\ meta[a].state = "complete" => meta[a].at <= Tip
    /\ meta[a].state = "failed" => pc = "down"

\* Once the rollback has reset what it would corrupt, only complete aggregates
\* have entries to replay, and a rebuild that goes on loses no block.
ReplayInv ==
    pc = "replay" =>
        /\ target <= Tip
        /\ \A a \in Agg :
             /\ meta[a].state \in {"folding", "validating"} => target = Tip
             /\ meta[a].state = "complete" => meta[a].at <= target
        /\ \A e \in undo : e.blk > target => meta[e.agg].state = "complete"

\* Replaying the undo log down to height k restores row r of aggregate a: the
\* lowest pre-image above k, or the row itself when there is none.
Above(a, r, k) == {e \in undo : e.agg = a /\ e.row = r /\ e.blk > k}
Restores(a, r, k) ==
    /\ Above(a, r, k) = {} => value[a][r] = Source(Upto(chain, k))[r]
    /\ \A e \in Above(a, r, k) :
         (\A f \in Above(a, r, k) : e.blk <= f.blk) => e.prev = Source(Upto(chain, k))[r]

\* So does every height since the completion with no torn block at or below it.
Restorable(a) ==
    meta[a].state = "complete" =>
        \A k \in meta[a].at..Tip :
            (\A h \in torn[a] : h > k) => \A r \in Row : Restores(a, r, k)

IInv ==
    /\ TypeOK /\ UndoInv /\ ReplayInv /\ FoldingAccounts
    /\ \A a \in Agg : StateInv(a) /\ Restorable(a)

\* A leaf that cites no prover goes to SMT, for at most a minute.
USE SMTT(60)

-----------------------------------------------------------------------------
(* Chains and source rows. *)

\* A prefix of a stored chain: its type, length and blocks.
LEMMA UptoType ==
    ASSUME NEW ch \in Seq(Row), NEW h \in 0..Len(ch)
    PROVE  /\ Upto(ch, h) \in Seq(Row) /\ Len(Upto(ch, h)) = h
           /\ \A i \in 1..h : Upto(ch, h)[i] = ch[i]
<1>1. Len(ch) \in Nat /\ h \in Int /\ 1 \in Int
  BY LenProperties
<1>2. \A i \in 1..h : ch[i] \in Row
  BY <1>1, ElementOfSeq
<1>3. /\ SubSeq(ch, 1, h) \in Seq(Row) /\ Len(SubSeq(ch, 1, h)) = IF 1 <= h THEN h - 1 + 1 ELSE 0
      /\ \A i \in 1..(h - 1 + 1) : SubSeq(ch, 1, h)[i] = ch[1 + i - 1]
  BY <1>1, <1>2, SubSeqProperties
<1> QED
  BY <1>1, <1>3 DEF Upto

\* Chains that agree up to a height have the same prefix of that height.
LEMMA UptoAgree ==
    ASSUME NEW c \in Seq(Row), NEW d \in Seq(Row), NEW k \in Nat,
           k <= Len(c), k <= Len(d), \A i \in 1..k : c[i] = d[i]
    PROVE  Upto(c, k) = Upto(d, k)
<1>1. k \in 0..Len(c) /\ k \in 0..Len(d)
  BY LenProperties
<1>2. /\ Upto(c, k) \in Seq(Row) /\ Len(Upto(c, k)) = k
      /\ Upto(d, k) \in Seq(Row) /\ Len(Upto(d, k)) = k
      /\ \A i \in 1..k : Upto(c, k)[i] = c[i] /\ Upto(d, k)[i] = d[i]
  BY <1>1, UptoType
<1> QED
  BY <1>2, SeqEqual

\* A chain is its own longest prefix.
LEMMA UptoFull ==
    ASSUME NEW ch \in Seq(Row)
    PROVE  Upto(ch, Len(ch)) = ch
BY SubSeqFull DEF Upto

\* A prefix of a prefix is a prefix of the chain.
LEMMA UptoUpto ==
    ASSUME NEW ch \in Seq(Row), NEW h \in 0..Len(ch), NEW k \in 0..h
    PROVE  Upto(Upto(ch, h), k) = Upto(ch, k)
<1>1. /\ Upto(ch, h) \in Seq(Row) /\ Len(Upto(ch, h)) = h
      /\ \A i \in 1..h : Upto(ch, h)[i] = ch[i]
  BY UptoType
<1>2. k \in Nat /\ k <= h /\ k <= Len(ch)
  BY LenProperties
<1>3. \A i \in 1..k : Upto(ch, h)[i] = ch[i]
  BY <1>1, <1>2
<1> QED
  BY <1>1, <1>2, <1>3, UptoAgree

\* A source row is present or not.
LEMMA SourceType ==
    ASSUME NEW ch \in Seq(Row)
    PROVE  Source(ch) \in [Row -> {0, 1}]
<1>1. DOMAIN ch = 1..Len(ch) /\ Len(ch) \in Nat
  BY LenProperties
<1>2. ASSUME NEW r \in Row
      PROVE  Cardinality({i \in DOMAIN ch : ch[i] = r}) % 2 \in {0, 1}
  <2>1. IsFiniteSet(1..Len(ch))
    BY <1>1, FS_Interval
  <2>2. IsFiniteSet({i \in DOMAIN ch : ch[i] = r})
    BY <1>1, <2>1, FS_Subset
  <2>3. Cardinality({i \in DOMAIN ch : ch[i] = r}) \in Nat
    BY <2>2, FS_CardinalityType
  <2> QED
    BY <2>3
<1> QED
  BY <1>2 DEF Source

\* Blocks that do not touch a row leave it as it is.
LEMMA SourceUntouched ==
    ASSUME NEW ch \in Seq(Row), NEW h \in 0..Len(ch), NEW k \in 0..h, NEW r \in Row,
           \A i \in (k + 1)..h : ch[i] # r
    PROVE  Source(Upto(ch, h))[r] = Source(Upto(ch, k))[r]
<1>1. Len(ch) \in Nat /\ h \in Nat /\ k \in Nat /\ k <= h /\ k \in 0..Len(ch)
  BY LenProperties
<1>2. /\ Upto(ch, h) \in Seq(Row) /\ Len(Upto(ch, h)) = h
      /\ \A i \in 1..h : Upto(ch, h)[i] = ch[i]
  BY UptoType
<1>3. /\ Upto(ch, k) \in Seq(Row) /\ Len(Upto(ch, k)) = k
      /\ \A i \in 1..k : Upto(ch, k)[i] = ch[i]
  BY <1>1, UptoType
<1>4. DOMAIN Upto(ch, h) = 1..h /\ DOMAIN Upto(ch, k) = 1..k
  BY <1>2, <1>3, LenProperties
<1>5. {i \in 1..h : Upto(ch, h)[i] = r} = {i \in 1..k : Upto(ch, k)[i] = r}
  <2>1. ASSUME NEW i \in 1..h, ch[i] = r PROVE i \in 1..k
    BY <1>1, <2>1
  <2>2. \A i \in 1..k : i \in 1..h
    BY <1>1
  <2> QED
    BY <1>2, <1>3, <2>1, <2>2
<1> QED
  BY <1>4, <1>5, Zenon DEF Source

-----------------------------------------------------------------------------
(* Aggregates a step leaves alone, and aggregates it resets. *)

\* The types the steps below work with.
LEMMA Types ==
    ASSUME TypeOK
    PROVE  /\ chain \in Seq(Row) /\ Tip \in Nat /\ DOMAIN chain = 1..Tip
           /\ Source(chain) \in [Row -> {0, 1}] /\ Source(chain) \in [Row -> Int]
           /\ NoRows \in [Row -> {0, 1}] /\ NoRows \in [Row -> Int]
           /\ Rows \in Nat /\ Aggregates \in Nat
<1>1. chain \in Seq(Row)
  BY DEF TypeOK
<1>2. Source(chain) \in [Row -> {0, 1}]
  BY <1>1, SourceType
<1> QED
  BY <1>1, <1>2, LenProperties, DeriveAssumption DEF Tip, NoRows

\* An aggregate whose metadata, rows and entries a step keeps keeps its promises.
LEMMA AggregateUntouched ==
    ASSUME NEW a \in Agg, StateInv(a), Restorable(a), chain' = chain,
           meta'[a] = meta[a], value'[a] = value[a], torn'[a] = torn[a],
           meta[a].state = "failed" => pc' = "down",
           meta[a].state = "complete" =>
             \A e : e \in undo' /\ e.agg = a <=> e \in undo /\ e.agg = a
    PROVE  (StateInv(a) /\ Restorable(a))'
<1>1. StateInv(a)'
  BY DEF StateInv, Tip
<1>2. ASSUME meta[a].state = "complete", NEW r, NEW k
      PROVE  Above(a, r, k)' = Above(a, r, k)
  BY <1>2 DEF Above
<1>3. ASSUME meta[a].state = "complete", NEW r, NEW k, Restores(a, r, k)
      PROVE  Restores(a, r, k)'
  BY <1>2, <1>3 DEF Restores
<1>4. Restorable(a)'
  BY <1>3 DEF Restorable, Tip
<1> QED
  BY <1>1, <1>4

\* A reset aggregate promises nothing but to be empty.
LEMMA AggregateReset ==
    ASSUME NEW a \in Agg, meta'[a] = NotStarted, value'[a] = NoRows, torn'[a] = {}
    PROVE  (StateInv(a) /\ Restorable(a))'
BY DEF StateInv, Restorable, NotStarted, NoRows

-----------------------------------------------------------------------------
(* The scheduler. *)

\* The rebuild starts on an empty aggregate, from a snapshot of the source.
LEMMA StartStep ==
    ASSUME IInv, Start
    PROVE  IInv'
<1>0. /\ chain \in Seq(Row) /\ Tip \in Nat /\ Source(chain) \in [Row -> {0, 1}]
      /\ NoRows \in [Row -> Int] /\ Rows \in Nat /\ Aggregates \in Nat
  BY Types DEF IInv
<1>1. PICK a \in Agg :
        /\ meta' = [meta EXCEPT ![a] = [state |-> "folding", at |-> 0]]
        /\ value' = [value EXCEPT ![a] = NoRows]
        /\ active' = [agg |-> a, snapshot |-> Source(chain), cursor |-> 0]
        /\ torn' = [torn EXCEPT ![a] = {}]
  BY Zenon DEF Start
<1>2. pc = "idle" /\ UNCHANGED <<chain, undo, pc, target, faults>> /\ Tip' = Tip
  BY DEF Start, Tip
<1>3. /\ meta'[a] = [state |-> "folding", at |-> 0] /\ value'[a] = NoRows /\ torn'[a] = {}
      /\ \A x \in Agg \ {a} : meta'[x] = meta[x] /\ value'[x] = value[x] /\ torn'[x] = torn[x]
  BY <1>1 DEF IInv, TypeOK
<1>4. TypeOK'
  BY <1>0, <1>1, <1>2 DEF IInv, TypeOK, Agg
<1>5. UndoInv' /\ ReplayInv'
  BY <1>2 DEF IInv, UndoInv, ReplayInv
<1>6. FoldingAccounts'
  <2> SUFFICES ASSUME NEW r \in Row
               PROVE  value'[a][r] = Source(chain)[r] - (IF r > 0 THEN Source(chain)[r] ELSE 0)
    BY <1>1, <1>2 DEF FoldingAccounts
  <2> QED
    BY <1>0, <1>3 DEF NoRows, Row
<1>7. ASSUME NEW x \in Agg PROVE (StateInv(x) /\ Restorable(x))'
  <2>1. CASE x = a
    BY <1>3, <2>1 DEF StateInv, Restorable
  <2>2. CASE x # a
    BY <1>2, <1>3, <2>2, AggregateUntouched, Zenon DEF IInv, StateInv
  <2> QED
    BY <2>1, <2>2
<1> QED
  BY <1>4, <1>5, <1>6, <1>7 DEF IInv

\* A chunk adds the snapshot's rows between the old cursor and the new one.
LEMMA ChunkStep ==
    ASSUME IInv, Chunk
    PROVE  IInv'
<1>0. /\ chain \in Seq(Row) /\ Tip \in Nat /\ Source(chain) \in [Row -> Int]
      /\ Source(chain) \in [Row -> {0, 1}] /\ Rows \in Nat /\ Aggregates \in Nat
  BY Types DEF IInv
<1>1. PICK a \in Agg, end \in ChunkEnd :
        /\ active.agg = a /\ meta[a].state = "folding"
        /\ value' = [value EXCEPT ![a] =
                       [r \in Row |-> IF active.cursor < r /\ r <= end
                                        THEN @[r] + active.snapshot[r] ELSE @[r]]]
        /\ active' = [active EXCEPT !.cursor = end]
        /\ meta' = [meta EXCEPT ![a].state = IF end >= Rows THEN "validating" ELSE "folding"]
  BY Zenon DEF Chunk, Continues
<1>2. pc = "idle" /\ UNCHANGED <<chain, undo, pc, target, faults, torn>> /\ Tip' = Tip
  BY DEF Chunk, Tip
<1>3. /\ active \in [agg : 0..Aggregates, snapshot : [Row -> {0, 1}], cursor : 0..Rows]
      /\ active.cursor \in 0..Rows /\ end \in (active.cursor + 1)..Rows
      /\ active.snapshot \in [Row -> {0, 1}] /\ value[a] \in [Row -> Int]
  BY <1>1 DEF IInv, TypeOK, ChunkEnd
<1>4. PICK v \in [Row -> Int] :
        /\ v = [r \in Row |-> IF active.cursor < r /\ r <= end
                                THEN value[a][r] + active.snapshot[r] ELSE value[a][r]]
        /\ value' = [value EXCEPT ![a] = v]
  <2>1. ASSUME NEW r \in Row
        PROVE  (IF active.cursor < r /\ r <= end
                  THEN value[a][r] + active.snapshot[r] ELSE value[a][r]) \in Int
    <3>1. value[a][r] \in Int /\ active.snapshot[r] \in {0, 1}
      BY <1>3
    <3> QED
      BY <3>1
  <2> QED
    BY <1>1, <2>1, Zenon
<1>5. /\ meta'[a].state = (IF end >= Rows THEN "validating" ELSE "folding") /\ value'[a] = v
      /\ \A x \in Agg \ {a} : meta'[x] = meta[x] /\ value'[x] = value[x]
  BY <1>1, <1>4 DEF IInv, TypeOK
<1>6. active'.agg = a /\ active'.cursor = end /\ active'.snapshot = active.snapshot
  BY <1>1, <1>3
<1>7. TypeOK'
  <2>1. end \in 0..Rows
    BY <1>0, <1>3
  <2>2. active' \in [agg : 0..Aggregates, snapshot : [Row -> {0, 1}], cursor : 0..Rows]
    BY <1>1, <1>3, <2>1
  <2>3. value' \in [Agg -> [Row -> Int]]
    BY <1>4 DEF IInv, TypeOK
  <2>4. PICK st \in {"folding", "validating"} : meta' = [meta EXCEPT ![a].state = st]
    BY <1>1, Zenon
  <2>5. meta' \in [Agg -> [state : {"not_started", "folding", "validating", "complete", "failed"},
                           at : Nat]]
    BY <2>4, ZenonT(60) DEF IInv, TypeOK
  <2> QED
    BY <1>2, <2>2, <2>3, <2>5 DEF IInv, TypeOK
<1>8. UndoInv' /\ ReplayInv'
  BY <1>2 DEF IInv, UndoInv, ReplayInv
<1>9. \A r \in Row : v[r] = Source(chain)[r] - (IF r > end THEN active.snapshot[r] ELSE 0)
  <2> SUFFICES ASSUME NEW r \in Row
               PROVE  v[r] = Source(chain)[r] - (IF r > end THEN active.snapshot[r] ELSE 0)
    OBVIOUS
  <2>1. value[a][r] = Source(chain)[r] - (IF r > active.cursor THEN active.snapshot[r] ELSE 0)
    BY <1>1 DEF IInv, FoldingAccounts
  <2>2. /\ value[a][r] \in Int /\ Source(chain)[r] \in Int /\ active.snapshot[r] \in Int
        /\ r \in Int /\ end \in Int /\ active.cursor \in Int /\ active.cursor < end
    BY <1>0, <1>3 DEF Row
  <2> QED
    BY <1>4, <2>1, <2>2
<1>10. FoldingAccounts'
  BY <1>2, <1>5, <1>6, <1>9 DEF FoldingAccounts
<1>11. end >= Rows => v = Source(chain)
  <2> SUFFICES ASSUME end >= Rows, NEW r \in Row PROVE v[r] = Source(chain)[r]
    BY <1>0, <1>4
  <2>1. ~(r > end) /\ Source(chain)[r] \in Int
    BY <1>0, <1>3 DEF Row
  <2> QED
    BY <1>9, <2>1
<1>12. ASSUME NEW x \in Agg PROVE (StateInv(x) /\ Restorable(x))'
  <2>1. CASE x = a
    BY <1>1, <1>2, <1>5, <1>11, <2>1 DEF IInv, StateInv, Restorable
  <2>2. CASE x # a
    BY <1>2, <1>5, <2>2, AggregateUntouched, Zenon DEF IInv, StateInv
  <2> QED
    BY <2>1, <2>2, Zenon
<1> QED
  BY <1>7, <1>8, <1>10, <1>12, Zenon DEF IInv

\* The aggregate becomes complete at the tip: there is nothing to roll back yet.
LEMMA CompleteStep ==
    ASSUME IInv, Complete
    PROVE  IInv'
<1>0. chain \in Seq(Row) /\ Tip \in Nat /\ NoRows \in [Row -> {0, 1}] /\ Rows \in Nat
      /\ Aggregates \in Nat
  BY Types DEF IInv
<1>1. PICK a \in Agg :
        /\ meta[a].state = "validating"
        /\ meta' = [meta EXCEPT ![a] = [state |-> "complete", at |-> Tip]]
  BY Zenon DEF Complete
<1>2. /\ pc = "idle" /\ active' = Idle /\ Tip' = Tip
      /\ UNCHANGED <<chain, value, undo, pc, target, faults, torn>>
  BY DEF Complete, Tip
<1>3. /\ meta'[a] = [state |-> "complete", at |-> Tip]
      /\ \A x \in Agg \ {a} : meta'[x] = meta[x]
  BY <1>1 DEF IInv, TypeOK
<1>4. TypeOK'
  BY <1>0, <1>1, <1>2 DEF IInv, TypeOK, Idle
<1>5. UndoInv' /\ ReplayInv' /\ FoldingAccounts'
  BY <1>2 DEF IInv, UndoInv, ReplayInv, FoldingAccounts, Idle, Agg
<1>6. torn[a] = {} /\ value[a] = Source(chain)
  BY <1>1 DEF IInv, StateInv
<1>7. Restorable(a)'
  <2> SUFFICES ASSUME NEW r \in Row PROVE Restores(a, r, Tip)'
    BY <1>0, <1>2, <1>3 DEF Restorable
  <2>1. Above(a, r, Tip) = {}
    BY <1>0 DEF IInv, UndoInv, Above
  <2>2. Above(a, r, Tip)' = {}
    BY <1>2, <2>1 DEF Above
  <2>3. Upto(chain, Tip) = chain
    BY <1>0, UptoFull DEF Tip
  <2> QED
    BY <1>2, <1>6, <2>2, <2>3, Zenon DEF Restores
<1>8. StateInv(a)'
  BY <1>0, <1>2, <1>3, <1>6 DEF StateInv
<1>9. ASSUME NEW x \in Agg PROVE (StateInv(x) /\ Restorable(x))'
  <2>1. CASE x = a
    BY <1>7, <1>8, <2>1, Zenon
  <2>2. CASE x # a
    BY <1>2, <1>3, <2>2, AggregateUntouched, Zenon DEF IInv, StateInv
  <2> QED
    BY <2>1, <2>2
<1> QED
  BY <1>4, <1>5, <1>9 DEF IInv

-----------------------------------------------------------------------------
(* Rollbacks, crashes and restarts. *)

\* Aggregates the rollback would corrupt are reset, and only the pre-images of
\* complete aggregates stay above the target.
LEMMA InvalidateStep ==
    ASSUME IInv, InvalidateForRollback
    PROVE  IInv'
<1>0. chain \in Seq(Row) /\ Tip \in Nat /\ NoRows \in [Row -> Int] /\ Rows \in Nat
  BY Types DEF IInv
<1>1. PICK to \in 0..Tip :
        /\ target' = to
        /\ meta' = [a \in Agg |-> IF Corrupted(a, to) THEN NotStarted ELSE meta[a]]
        /\ value' = [a \in Agg |-> IF Corrupted(a, to) THEN NoRows ELSE value[a]]
        /\ torn' = [a \in Agg |-> IF Corrupted(a, to) THEN {} ELSE torn[a]]
        /\ undo' = undo \ DroppedEntries(to)
  BY DEF InvalidateForRollback
<1>2. /\ pc = "idle" /\ pc' = "replay" /\ UNCHANGED <<chain, active>> /\ Tip' = Tip
      /\ faults' = [faults EXCEPT !.rollbacks = @ + 1]
  BY DEF InvalidateForRollback, Tip
<1>3. \A a \in Agg :
        /\ Corrupted(a, to) => meta'[a] = NotStarted /\ value'[a] = NoRows /\ torn'[a] = {}
        /\ ~Corrupted(a, to) => meta'[a] = meta[a] /\ value'[a] = value[a] /\ torn'[a] = torn[a]
  BY <1>1
<1>4. TypeOK'
  <2>1. meta' \in [Agg -> [state : {"not_started", "folding", "validating", "complete", "failed"},
                           at : Nat]]
    <3>1. NotStarted \in [state : {"not_started", "folding", "validating", "complete", "failed"},
                          at : Nat]
      BY DEF NotStarted
    <3> QED
      BY <1>1, <3>1 DEF IInv, TypeOK
  <2>2. value' \in [Agg -> [Row -> Int]]
    BY <1>0, <1>1 DEF IInv, TypeOK
  <2>3. torn' \in [Agg -> SUBSET Nat] /\ undo' \subseteq undo /\ target' \in Nat
    BY <1>0, <1>1 DEF IInv, TypeOK
  <2>4. faults' \in [rollbacks : Nat, crashes : Nat]
    <3>1. faults \in [rollbacks : Nat, crashes : Nat]
      BY DEF IInv, TypeOK
    <3> QED
      BY <1>2, <3>1
  <2> QED
    BY <1>2, <2>1, <2>2, <2>3, <2>4 DEF IInv, TypeOK
<1>5. UndoInv'
  BY <1>1, <1>2 DEF IInv, UndoInv
<1>6. ReplayInv'
  <2>1. ASSUME NEW a \in Agg
        PROVE  /\ meta'[a].state \in {"folding", "validating"} => to = Tip
               /\ meta'[a].state = "complete" => meta'[a].at <= to
    <3>1. CASE Corrupted(a, to)
      BY <1>3, <3>1 DEF NotStarted
    <3>2. CASE ~Corrupted(a, to)
      <4>1. meta[a].at \in Nat
        BY DEF IInv, TypeOK
      <4> QED
        BY <1>0, <1>3, <3>2, <4>1 DEF Corrupted
    <3> QED
      BY <3>1, <3>2, Zenon
  <2>2. ASSUME NEW e \in undo', e.blk > to
        PROVE  meta'[e.agg].state = "complete"
    <3>1. e \in undo /\ e.agg \in Agg
      BY <1>1, <2>2, Zenon DEF IInv, TypeOK
    <3>2. meta[e.agg].state = "complete" /\ to >= meta[e.agg].at /\ meta[e.agg].at \in Nat
      BY <1>1, <2>2, <3>1 DEF DroppedEntries, IInv, TypeOK
    <3>3. ~Corrupted(e.agg, to)
      BY <1>0, <3>2 DEF Corrupted
    <3> QED
      BY <1>3, <3>1, <3>2, <3>3, Zenon
  <2> QED
    BY <1>1, <1>2, <2>1, <2>2 DEF ReplayInv
<1>7. FoldingAccounts'
  BY <1>2, <1>3 DEF IInv, FoldingAccounts, NotStarted
<1>8. ASSUME NEW a \in Agg PROVE (StateInv(a) /\ Restorable(a))'
  <2>1. CASE Corrupted(a, to)
    BY <1>3, <2>1, AggregateReset
  <2>2. CASE ~Corrupted(a, to)
    <3>1. meta[a].state = "complete" => to >= meta[a].at
      BY <1>0, <2>2 DEF Corrupted, IInv, TypeOK
    <3>2. meta[a].state = "complete" =>
            \A e : e \in undo' /\ e.agg = a <=> e \in undo /\ e.agg = a
      BY <1>1, <3>1 DEF DroppedEntries
    <3>3. meta[a].state # "failed"
      BY <1>2 DEF IInv, StateInv
    <3> QED
      BY <1>2, <1>3, <2>2, <3>2, <3>3, AggregateUntouched, ZenonT(60) DEF IInv
  <2> QED
    BY <2>1, <2>2
<1> QED
  BY <1>4, <1>5, <1>6, <1>7, <1>8 DEF IInv

\* The newest pre-image is written back: rolling back further gives what it gave.
LEMMA ReplayStep ==
    ASSUME IInv, ReplayUndo
    PROVE  IInv'
<1>0. chain \in Seq(Row) /\ Tip \in Nat /\ Rows \in Nat
  BY Types DEF IInv
<1>1. PICK e \in ToReplay :
        /\ \A f \in ToReplay : f.blk <= e.blk
        /\ value' = [value EXCEPT ![e.agg][e.row] = e.prev]
        /\ undo' = undo \ {e}
        /\ torn' = [torn EXCEPT ![e.agg] = @ \cup {e.blk}]
  BY Zenon DEF ReplayUndo
<1>2. pc = "replay" /\ UNCHANGED <<chain, meta, active, pc, target, faults>> /\ Tip' = Tip
  BY DEF ReplayUndo, Tip
<1>3. PICK a \in Agg : a = e.agg
  BY <1>1, Zenon DEF ToReplay, IInv, TypeOK
<1>4. /\ e \in undo /\ e.blk > target /\ e.blk \in 1..Tip /\ e.row \in Row /\ e.prev \in Int
      /\ target \in Nat /\ meta[a].state = "complete"
  BY <1>1, <1>2, <1>3 DEF ToReplay, IInv, TypeOK, UndoInv, ReplayInv
<1>5. /\ value'[a] = [value[a] EXCEPT ![e.row] = e.prev] /\ torn'[a] = torn[a] \cup {e.blk}
      /\ \A x \in Agg \ {a} : value'[x] = value[x] /\ torn'[x] = torn[x]
  BY <1>1, <1>3, Zenon DEF IInv, TypeOK
<1>6. TypeOK'
  <2>1. value' \in [Agg -> [Row -> Int]]
    BY <1>1, <1>3, <1>4, Zenon DEF IInv, TypeOK
  <2>2. torn' \in [Agg -> SUBSET Nat]
    BY <1>0, <1>1, <1>3, <1>4 DEF IInv, TypeOK
  <2> QED
    BY <1>1, <1>2, <2>1, <2>2, Zenon DEF IInv, TypeOK
<1>7. UndoInv' /\ ReplayInv'
  BY <1>1, <1>2, ZenonT(60) DEF IInv, UndoInv, ReplayInv
<1>8. FoldingAccounts'
  BY <1>2, <1>4, <1>5 DEF IInv, FoldingAccounts
<1>9. StateInv(a)'
  BY <1>2, <1>4, <1>5, Zenon DEF IInv, StateInv
<1>10. Restorable(a)'
  <2> SUFFICES ASSUME NEW k \in meta[a].at..Tip, \A h \in torn'[a] : h > k, NEW r \in Row
               PROVE  Restores(a, r, k)'
    BY <1>2, Zenon DEF Restorable
  <2>1. e.blk > k /\ k \in Int
    BY <1>4, <1>5 DEF IInv, TypeOK
  <2>2. Restores(a, r, k)
    BY <1>4, <1>5, Zenon DEF IInv, Restorable
  <2>3. CASE r # e.row
    <3>1. Above(a, r, k)' = Above(a, r, k)
      BY <1>1, <2>3, Zenon DEF Above
    <3>2. value'[a][r] = value[a][r]
      BY <1>5, <2>3 DEF IInv, TypeOK
    <3> QED
      BY <1>2, <2>2, <3>1, <3>2, Zenon DEF Restores
  <2>4. CASE r = e.row
    <3>1. e \in Above(a, r, k) /\ Above(a, r, k)' = Above(a, r, k) \ {e}
      BY <1>1, <1>3, <1>4, <2>1, <2>4, ZenonT(60) DEF Above
    <3>2. \A f \in Above(a, r, k) \ {e} : f.blk < e.blk /\ f.blk \in Int
      <4> SUFFICES ASSUME NEW f \in Above(a, r, k) \ {e} PROVE f.blk < e.blk /\ f.blk \in Int
        BY Zenon
      <4>1. f \in undo /\ f.agg = e.agg /\ f.blk \in 1..Tip
        BY <1>3, Zenon DEF Above, IInv, UndoInv
      <4>2. f.blk # e.blk
        BY <1>4, <4>1, Zenon DEF IInv, UndoInv
      <4>3. f.blk > target => f.blk <= e.blk
        BY <1>1, <4>1, Zenon DEF ToReplay
      <4> QED
        BY <1>0, <1>4, <4>1, <4>2, <4>3
    <3>3. CASE Above(a, r, k) \ {e} = {}
      <4>1. e.prev = Source(Upto(chain, k))[r]
        BY <1>4, <2>2, <3>1, <3>3 DEF Restores
      <4>2. value'[a][r] = e.prev
        BY <1>5, <2>4, Zenon DEF IInv, TypeOK
      <4> QED
        BY <1>2, <3>1, <3>3, <4>1, <4>2, ZenonT(60) DEF Restores
    <3>4. CASE Above(a, r, k) \ {e} # {}
      <4> SUFFICES ASSUME NEW f \in Above(a, r, k) \ {e},
                          \A g \in Above(a, r, k) \ {e} : f.blk <= g.blk
                   PROVE  f.prev = Source(Upto(chain, k))[r]
        BY <1>2, <3>1, <3>4, Zenon DEF Restores
      <4>1. \A g \in Above(a, r, k) : f.blk <= g.blk
        BY <1>4, <3>2
      <4> QED
        BY <2>2, <4>1, Zenon DEF Restores
    <3> QED
      BY <3>3, <3>4, Zenon
  <2> QED
    BY <2>3, <2>4, Zenon
<1>11. ASSUME NEW x \in Agg PROVE (StateInv(x) /\ Restorable(x))'
  <2>1. CASE x = a
    BY <1>9, <1>10, <2>1, Zenon
  <2>2. CASE x # a
    <3>1. \A f : f \in undo' /\ f.agg = x <=> f \in undo /\ f.agg = x
      BY <1>1, <1>3, <2>2, ZenonT(60)
    <3>2. meta[x].state # "failed"
      BY <1>2 DEF IInv, StateInv
    <3> QED
      BY <1>2, <1>5, <2>2, <3>1, <3>2, AggregateUntouched, ZenonT(60) DEF IInv
  <2> QED
    BY <2>1, <2>2
<1> QED
  BY <1>6, <1>7, <1>8, <1>11, Zenon DEF IInv

\* The blocks above the target go, and with them their torn marks.
LEMMA CommitRollbackStep ==
    ASSUME IInv, CommitRollback
    PROVE  IInv'
<1>0. chain \in Seq(Row) /\ Tip \in Nat
  BY Types DEF IInv
<1>1. /\ pc = "replay" /\ pc' = "idle" /\ chain' = Upto(chain, target)
      /\ torn' = [a \in Agg |-> {h \in torn[a] : h <= target}]
      /\ UNCHANGED <<meta, value, undo, active, target, faults>>
  BY DEF CommitRollback
<1>2. target \in 0..Tip
  BY <1>0, <1>1 DEF IInv, TypeOK, ReplayInv
<1>3. /\ chain' \in Seq(Row) /\ Tip' = target
      /\ \A i \in 1..target : chain'[i] = chain[i]
  BY <1>0, <1>1, <1>2, UptoType, Zenon DEF Tip
<1>4. \A e \in undo : e.blk \in 1..target
  <2> SUFFICES ASSUME NEW e \in undo PROVE e.blk \in 1..target
    OBVIOUS
  <2>1. e.blk \in 1..Tip
    BY DEF IInv, UndoInv
  <2>2. ~(e.blk > target)
    BY Zenon DEF CommitRollback, ToReplay
  <2> QED
    BY <1>0, <1>2, <2>1, <2>2
<1>5. TypeOK'
  BY <1>1, <1>3, Zenon DEF IInv, TypeOK
<1>6. UndoInv' /\ ReplayInv'
  BY <1>1, <1>3, <1>4, Zenon DEF IInv, UndoInv, ReplayInv
<1>7. target = Tip => chain' = chain
  BY <1>0, <1>1, UptoFull, Zenon DEF Tip
<1>8. FoldingAccounts'
  <2> SUFFICES ASSUME NEW a \in Agg, meta[a].state = "folding", active.agg = a
               PROVE  \A r \in Row : value[a][r] = Source(chain)[r]
                                       - (IF r > active.cursor THEN active.snapshot[r] ELSE 0)
                      /\ chain' = chain
    BY <1>1, Zenon DEF FoldingAccounts
  <2> QED
    BY <1>1, <1>7, Zenon DEF IInv, FoldingAccounts, ReplayInv
<1>9. ASSUME NEW a \in Agg PROVE StateInv(a)'
  <2>1. torn'[a] = {h \in torn[a] : h <= target} /\ torn[a] \subseteq 1..Tip
    BY <1>1 DEF IInv, StateInv
  <2>2. torn'[a] \subseteq 1..target
    BY <1>0, <1>2, <2>1
  <2>3. meta[a].state = "validating" => chain' = chain
    BY <1>1, <1>7, Zenon DEF IInv, ReplayInv
  <2>4. meta[a].state = "complete" => meta[a].at <= target
    BY <1>1, Zenon DEF IInv, ReplayInv
  <2>5. meta[a].state # "failed"
    BY <1>1, Zenon DEF IInv, StateInv
  <2> QED
    BY <1>1, <1>3, <2>1, <2>2, <2>3, <2>4, <2>5, ZenonT(60) DEF IInv, StateInv
<1>10. ASSUME NEW a \in Agg PROVE Restorable(a)'
  <2> SUFFICES ASSUME meta[a].state = "complete", NEW k \in meta[a].at..target,
                      \A h \in torn'[a] : h > k, NEW r \in Row
               PROVE  Restores(a, r, k)'
    BY <1>1, <1>3, Zenon DEF Restorable
  <2>0. meta[a].at \in Nat
    BY Zenon DEF IInv, TypeOK
  <2>1. k \in 0..target /\ k \in meta[a].at..Tip
    BY <1>0, <1>2, <2>0
  <2>2. \A h \in torn[a] : h > k
    BY <1>0, <1>1, <1>2, <2>1 DEF IInv, StateInv
  <2>3. Restores(a, r, k)
    BY <2>1, <2>2, Zenon DEF IInv, Restorable
  <2>4. Upto(chain', k) = Upto(chain, k)
    BY <1>0, <1>1, <1>2, <2>1, UptoUpto, ZenonT(60) DEF Tip
  <2>5. Above(a, r, k)' = Above(a, r, k)
    BY <1>1 DEF Above
  <2> QED
    BY <1>1, <2>3, <2>4, <2>5, Zenon DEF Restores
<1> QED
  BY <1>5, <1>6, <1>8, <1>9, <1>10, Zenon DEF IInv

\* A crash loses the rebuild in memory and nothing else.
LEMMA CrashStep ==
    ASSUME IInv, Crash
    PROVE  IInv'
<1>0. NoRows \in [Row -> {0, 1}] /\ Rows \in Nat /\ Aggregates \in Nat
  BY Types DEF IInv
<1>1. /\ pc' = "down" /\ active' = Idle /\ UNCHANGED <<chain, meta, value, undo, target, torn>>
      /\ faults' = [faults EXCEPT !.crashes = @ + 1]
  BY DEF Crash
<1>2. TypeOK'
  <2>1. faults' \in [rollbacks : Nat, crashes : Nat]
    <3>1. faults \in [rollbacks : Nat, crashes : Nat]
      BY DEF IInv, TypeOK
    <3> QED
      BY <1>1, <3>1
  <2>2. active' \in [agg : 0..Aggregates, snapshot : [Row -> {0, 1}], cursor : 0..Rows]
    BY <1>0, <1>1 DEF Idle
  <2> QED
    BY <1>1, <2>1, <2>2 DEF IInv, TypeOK
<1>3. UndoInv' /\ ReplayInv' /\ FoldingAccounts'
  BY <1>1 DEF IInv, UndoInv, ReplayInv, FoldingAccounts, Idle, Agg, Tip
<1>4. ASSUME NEW a \in Agg PROVE (StateInv(a) /\ Restorable(a))'
  BY <1>1, AggregateUntouched DEF IInv
<1> QED
  BY <1>2, <1>3, <1>4, Zenon DEF IInv

\* Startup keeps the complete aggregates and resets the others.
LEMMA NormalizeStep ==
    ASSUME IInv, NormalizeOnStartup
    PROVE  IInv'
<1>0. NoRows \in [Row -> Int]
  BY Types, Zenon DEF IInv
<1>1. /\ pc = "down" /\ pc' = "idle" /\ UNCHANGED <<chain, undo, active, target, faults>>
      /\ meta' = [a \in Agg |-> IF Keeps(a) THEN meta[a] ELSE NotStarted]
      /\ value' = [a \in Agg |-> IF Keeps(a) THEN value[a] ELSE NoRows]
      /\ torn' = [a \in Agg |-> IF Keeps(a) THEN torn[a] ELSE {}]
  BY Zenon DEF NormalizeOnStartup
<1>2. TypeOK'
  <2>1. NotStarted \in [state : {"not_started", "folding", "validating", "complete", "failed"},
                        at : Nat]
    BY DEF NotStarted
  <2>2. meta' \in [Agg -> [state : {"not_started", "folding", "validating", "complete", "failed"},
                           at : Nat]]
    BY <1>1, <2>1, Zenon DEF IInv, TypeOK
  <2>3. value' \in [Agg -> [Row -> Int]]
    BY <1>0, <1>1, Zenon DEF IInv, TypeOK
  <2>4. torn' \in [Agg -> SUBSET Nat]
    BY <1>1, Zenon DEF IInv, TypeOK
  <2> QED
    BY <1>1, <2>2, <2>3, <2>4, Zenon DEF IInv, TypeOK
<1>3. UndoInv' /\ ReplayInv'
  BY <1>1, Zenon DEF IInv, UndoInv, ReplayInv, Tip
<1>4. FoldingAccounts'
  BY <1>1 DEF FoldingAccounts, Keeps, NotStarted
<1>5. ASSUME NEW a \in Agg PROVE (StateInv(a) /\ Restorable(a))'
  <2>1. CASE Keeps(a)
    BY <1>1, <2>1, AggregateUntouched, Zenon DEF IInv, Keeps
  <2>2. CASE ~Keeps(a)
    BY <1>1, <2>2, AggregateReset
  <2> QED
    BY <2>1, <2>2, Zenon
<1> QED
  BY <1>2, <1>3, <1>4, <1>5, Zenon DEF IInv

-----------------------------------------------------------------------------
(* Live batches. *)

\* A broken row only marks its aggregate, and stops the process.
LEMMA FailLiveBatchStep ==
    ASSUME IInv, FailLiveBatch
    PROVE  IInv'
<1>0. NoRows \in [Row -> {0, 1}] /\ Rows \in Nat /\ Aggregates \in Nat
  BY Types DEF IInv
<1>1. PICK a \in Agg : meta' = [meta EXCEPT ![a].state = "failed"]
  BY Zenon DEF FailLiveBatch
<1>2. /\ pc' = "down" /\ active' = Idle /\ Tip' = Tip
      /\ UNCHANGED <<chain, value, undo, target, faults, torn>>
  BY DEF FailLiveBatch, Tip
<1>3. /\ meta'[a].state = "failed" /\ \A x \in Agg \ {a} : meta'[x] = meta[x]
  BY <1>1 DEF IInv, TypeOK
<1>4. TypeOK'
  <2>1. active' \in [agg : 0..Aggregates, snapshot : [Row -> {0, 1}], cursor : 0..Rows]
    BY <1>0, <1>2 DEF Idle
  <2>2. meta' \in [Agg -> [state : {"not_started", "folding", "validating", "complete", "failed"},
                           at : Nat]]
    BY <1>1, ZenonT(60) DEF IInv, TypeOK
  <2> QED
    BY <1>2, <2>1, <2>2 DEF IInv, TypeOK
<1>5. UndoInv' /\ ReplayInv' /\ FoldingAccounts'
  BY <1>2 DEF IInv, UndoInv, ReplayInv, FoldingAccounts, Idle, Agg
<1>6. ASSUME NEW x \in Agg PROVE (StateInv(x) /\ Restorable(x))'
  <2>1. CASE x = a
    BY <1>2, <1>3, <2>1, Zenon DEF IInv, StateInv, Restorable
  <2>2. CASE x # a
    BY <1>2, <1>3, <2>2, AggregateUntouched, Zenon DEF IInv
  <2> QED
    BY <2>1, <2>2
<1> QED
  BY <1>4, <1>5, <1>6 DEF IInv

\* A batch extends the stored chain.
LEMMA BatchExtends ==
    ASSUME TypeOK, NEW b \in Batches, NEW ch, ch = chain \o b
    PROVE  /\ ch \in Seq(Row) /\ Len(ch) \in Nat /\ Tip < Len(ch) /\ Tip \in 0..Len(ch)
           /\ \A i \in 1..Tip : ch[i] = chain[i]
           /\ \A k \in 0..Tip : Upto(ch, k) = Upto(chain, k)
           /\ Upto(ch, Tip) = chain
<1>0. chain \in Seq(Row) /\ Tip \in Nat
  BY Types, Zenon
<1>1. PICK n \in 1..MaxBatch : b \in [1..n -> Row]
  BY DEF Batches
<1>2. n \in Nat /\ MaxBatch \in Nat
  BY DeriveAssumption
<1>3. b \in Seq(Row) /\ Len(b) = n
  <2>1. b \in Seq(Row)
    BY <1>1, <1>2, SeqDef
  <2>2. DOMAIN b = 1..n /\ DOMAIN b = 1..Len(b) /\ Len(b) \in Nat
    BY <1>1, <2>1, LenProperties
  <2> QED
    BY <1>2, <2>1, <2>2
<1>4. /\ ch \in Seq(Row) /\ Len(ch) = Tip + n
      /\ \A i \in 1..(Tip + n) : ch[i] = IF i <= Tip THEN chain[i] ELSE b[i - Tip]
  BY <1>0, <1>3, ConcatProperties, Zenon DEF Tip
<1>5. /\ Len(ch) \in Nat /\ Tip < Len(ch) /\ Tip \in 0..Len(ch)
      /\ \A i \in 1..Tip : ch[i] = chain[i]
  BY <1>0, <1>2, <1>4
<1>6. ASSUME NEW k \in 0..Tip PROVE Upto(ch, k) = Upto(chain, k)
  <2>1. k \in Nat /\ k <= Len(ch) /\ k <= Len(chain) /\ \A i \in 1..k : ch[i] = chain[i]
    BY <1>0, <1>5 DEF Tip
  <2> QED
    BY <1>0, <1>4, <2>1, UptoAgree, Zenon
<1>7. Upto(ch, Tip) = chain
  BY <1>0, <1>6, UptoFull DEF Tip
<1> QED
  BY <1>4, <1>5, <1>6, <1>7, Zenon

\* What the blocks above the tip add to a row, and what they leave when none of
\* them touches it.
LEMMA AppliedRow ==
    ASSUME TypeOK, NEW ch \in Seq(Row), Upto(ch, Tip) = chain, NEW a \in Agg,
           NEW h \in Tip..Len(ch), NEW r \in Row
    PROVE  /\ Applied(a, ch, h)[r] = value[a][r] + Source(Upto(ch, h))[r] - Source(chain)[r]
           /\ Applied(a, ch, h)[r] \in Int
           /\ value[a][r] \in Int /\ Source(Upto(ch, h))[r] \in Int /\ Source(chain)[r] \in Int
           /\ (\A i \in (Tip + 1)..h : ch[i] # r) => Applied(a, ch, h)[r] = value[a][r]
<1>0. Tip \in Nat /\ Source(chain) \in [Row -> Int] /\ Len(ch) \in Nat
  BY Types, LenProperties
<1>1. h \in 0..Len(ch) /\ Tip \in 0..h
  BY <1>0
<1>2. Upto(ch, h) \in Seq(Row)
  BY <1>1, UptoType, Zenon
<1>3. Source(Upto(ch, h)) \in [Row -> {0, 1}]
  BY <1>2, SourceType, Zenon
<1>4. Source(Upto(ch, h))[r] \in Int /\ Source(chain)[r] \in Int /\ value[a][r] \in Int
  BY <1>0, <1>3 DEF TypeOK
<1>5. Applied(a, ch, h)[r] = value[a][r] + Source(Upto(ch, h))[r] - Source(chain)[r]
  BY Zenon DEF Applied
<1>6. ASSUME \A i \in (Tip + 1)..h : ch[i] # r
      PROVE  Source(Upto(ch, h))[r] = Source(chain)[r]
  BY <1>1, <1>6, SourceUntouched, ZenonT(60)
<1>7. ASSUME \A i \in (Tip + 1)..h : ch[i] # r
      PROVE  Applied(a, ch, h)[r] = value[a][r]
  BY <1>4, <1>5, <1>6, <1>7
<1> QED
  BY <1>4, <1>5, <1>7

\* One pre-image per block, of its row.
LEMMA PreImageFacts ==
    ASSUME NEW ch, NEW a
    PROVE  /\ \A e \in PreImages(a, ch) :
                /\ e.blk \in (Tip + 1)..Len(ch) /\ e.agg = a /\ e.row = ch[e.blk]
                /\ e.prev = Applied(a, ch, e.blk - 1)[ch[e.blk]]
                /\ e = [blk |-> e.blk, agg |-> e.agg, row |-> e.row, prev |-> e.prev]
           /\ \A h \in (Tip + 1)..Len(ch) : \E e \in PreImages(a, ch) : e.blk = h
<1>1. ASSUME NEW e \in PreImages(a, ch)
      PROVE  /\ e.blk \in (Tip + 1)..Len(ch) /\ e.agg = a /\ e.row = ch[e.blk]
             /\ e.prev = Applied(a, ch, e.blk - 1)[ch[e.blk]]
             /\ e = [blk |-> e.blk, agg |-> e.agg, row |-> e.row, prev |-> e.prev]
  <2>1. PICK h \in (Tip + 1)..Len(ch) :
          e = [blk |-> h, agg |-> a, row |-> ch[h], prev |-> Applied(a, ch, h - 1)[ch[h]]]
    BY DEF PreImages
  <2> QED
    BY <2>1, Zenon
<1>2. ASSUME NEW h \in (Tip + 1)..Len(ch)
      PROVE  \E e \in PreImages(a, ch) : e.blk = h
  <2>1. PICK e : e = [blk |-> h, agg |-> a, row |-> ch[h],
                      prev |-> Applied(a, ch, h - 1)[ch[h]]]
    BY Zenon
  <2>2. e \in PreImages(a, ch)
    BY <2>1, ZenonT(60) DEF PreImages
  <2> QED
    BY <2>1, <2>2
<1> QED
  BY <1>1, <1>2, Zenon

\* The pre-images a batch adds for row r above height k, and what the entries in
\* es restore once the batch is applied.
Added(a, ch, r, k) == {e \in PreImages(a, ch) : e.row = r /\ e.blk > k}
RestoresWith(es, a, r, ch, k) ==
    /\ es = {} => Applied(a, ch, Len(ch))[r] = Source(Upto(ch, k))[r]
    /\ \A e \in es : (\A f \in es : e.blk <= f.blk) => e.prev = Source(Upto(ch, k))[r]

\* The pre-images of a batch let a complete aggregate be rolled back to every
\* height of the longer chain.
LEMMA BatchRestores ==
    ASSUME IInv, NEW ch \in Seq(Row), Upto(ch, Tip) = chain, Tip < Len(ch), NEW a \in Agg,
           meta[a].state = "complete", NEW k \in meta[a].at..Len(ch),
           \A h \in torn[a] : h > k, NEW r \in Row
    PROVE  RestoresWith(Above(a, r, k) \cup Added(a, ch, r, k), a, r, ch, k)
<1> DEFINE new == Added(a, ch, r, k)
<1> SUFFICES /\ Above(a, r, k) \cup new = {}
                => Applied(a, ch, Len(ch))[r] = Source(Upto(ch, k))[r]
             /\ \A e \in Above(a, r, k) \cup new :
                (\A f \in Above(a, r, k) \cup new : e.blk <= f.blk)
                  => e.prev = Source(Upto(ch, k))[r]
  BY ZenonT(60) DEF RestoresWith
<1>a. new = {e \in PreImages(a, ch) : e.row = r /\ e.blk > k}
  BY DEF Added
<1> HIDE DEF new
<1>0. /\ TypeOK /\ chain \in Seq(Row) /\ Tip \in Nat /\ meta[a].at \in Nat /\ meta[a].at <= Tip
      /\ torn[a] \subseteq 1..Tip /\ Restorable(a)
  BY Types, Zenon DEF IInv, TypeOK, StateInv
<1>1. Len(ch) \in Nat /\ Tip \in 0..Len(ch) /\ \A i \in 0..Tip : Upto(ch, i) = Upto(chain, i)
  BY <1>0, LenProperties, UptoUpto
<1>2. k \in Nat /\ k <= Len(ch)
  BY <1>0, <1>1
<1>3. \A e \in Above(a, r, k) : e.blk \in 1..Tip
  BY DEF IInv, UndoInv, Above
<1>4. ASSUME NEW e \in new
      PROVE  \E h \in (Tip + 1)..Len(ch) :
                /\ e.blk = h /\ h > k /\ ch[h] = r /\ e.prev = Applied(a, ch, h - 1)[r]
  BY <1>a, PreImageFacts
<1>5. ASSUME NEW h \in (Tip + 1)..Len(ch), h > k, ch[h] = r
      PROVE  \E e \in new : e.blk = h
  <2>1. PICK e \in PreImages(a, ch) : e.blk = h
    BY PreImageFacts
  <2>2. e.row = r
    BY <1>5, <2>1, PreImageFacts
  <2> QED
    BY <1>a, <1>5, <2>1, <2>2, Zenon
<1>6. CASE k <= Tip
  <2>1. k \in meta[a].at..Tip /\ k \in 0..Tip
    BY <1>0, <1>2, <1>6
  <2>2. Restores(a, r, k) /\ Upto(ch, k) = Upto(chain, k)
    BY <1>0, <1>1, <2>1, Zenon DEF Restorable
  <2>3. CASE Above(a, r, k) # {}
    <3> SUFFICES ASSUME NEW e \in Above(a, r, k) \cup new,
                        \A f \in Above(a, r, k) \cup new : e.blk <= f.blk
                 PROVE  e.prev = Source(Upto(chain, k))[r]
      BY <2>2, <2>3, Zenon
    <3>1. PICK f \in Above(a, r, k) : e.blk <= f.blk
      BY <2>3, ZenonT(60)
    <3>2. e \notin new
      BY <1>0, <1>1, <1>3, <1>4, <3>1
    <3> QED
      BY <2>2, <3>2, Zenon DEF Restores
  <2>4. CASE Above(a, r, k) = {}
    <3>1. value[a][r] = Source(Upto(ch, k))[r]
      BY <2>2, <2>4, ZenonT(60) DEF Restores
    <3>2. ASSUME new = {} PROVE Applied(a, ch, Len(ch))[r] = value[a][r]
      <4>1. \A i \in (Tip + 1)..Len(ch) : ch[i] # r
        BY <1>0, <1>1, <1>2, <1>5, <1>6, <3>2
      <4>2. Len(ch) \in Tip..Len(ch)
        BY <1>0, <1>1
      <4> QED
        BY <1>0, <4>1, <4>2, AppliedRow
    <3>3. ASSUME NEW e \in new, \A f \in new : e.blk <= f.blk
          PROVE  e.prev = value[a][r]
      <4>1. PICK h \in (Tip + 1)..Len(ch) :
              /\ e.blk = h /\ h > k /\ ch[h] = r /\ e.prev = Applied(a, ch, h - 1)[r]
        BY <1>4, Zenon
      <4>2. \A i \in (Tip + 1)..(h - 1) : ch[i] # r
        <5> SUFFICES ASSUME NEW i \in (Tip + 1)..(h - 1), ch[i] = r PROVE FALSE
          BY Zenon
        <5>1. i \in (Tip + 1)..Len(ch) /\ i > k /\ i < h
          BY <1>0, <1>1, <1>2, <1>6, <4>1
        <5> QED
          BY <1>5, <3>3, <4>1, <5>1
      <4>3. h - 1 \in Tip..Len(ch)
        BY <1>0, <1>1
      <4> QED
        BY <1>0, <4>1, <4>2, <4>3, AppliedRow
    <3> QED
      BY <2>4, <3>1, <3>2, <3>3, Zenon
  <2> QED
    BY <2>3, <2>4, Zenon
<1>7. CASE k > Tip
  <2>1. torn[a] = {} /\ Above(a, r, Tip) = {} /\ Above(a, r, k) = {}
    BY <1>0, <1>2, <1>7 DEF IInv, UndoInv, Above
  <2>2. Tip \in meta[a].at..Tip
    BY <1>0
  <2>3. Restores(a, r, Tip)
    BY <1>0, <2>1, <2>2, Zenon DEF Restorable
  <2>4. value[a][r] = Source(chain)[r]
    BY <1>0, <2>1, <2>3, UptoFull, ZenonT(60) DEF Restores, Tip
  <2>5. ASSUME NEW h \in k..Len(ch), \A i \in (k + 1)..h : ch[i] # r
        PROVE  Applied(a, ch, h)[r] = Source(Upto(ch, k))[r]
    <3>1. h \in Tip..Len(ch) /\ h \in 0..Len(ch) /\ k \in 0..h
      BY <1>0, <1>1, <1>2, <1>7
    <3>2. Source(Upto(ch, h))[r] = Source(Upto(ch, k))[r]
      BY <1>1, <2>5, <3>1, SourceUntouched, ZenonT(60)
    <3>3. /\ Applied(a, ch, h)[r] = value[a][r] + Source(Upto(ch, h))[r] - Source(chain)[r]
          /\ Source(Upto(ch, h))[r] \in Int /\ Source(chain)[r] \in Int
      BY <1>0, <3>1, AppliedRow
    <3> QED
      BY <2>4, <3>2, <3>3
  <2>6. ASSUME new = {} PROVE Applied(a, ch, Len(ch))[r] = Source(Upto(ch, k))[r]
    <3>1. Len(ch) \in k..Len(ch) /\ \A i \in (k + 1)..Len(ch) : ch[i] # r
      BY <1>0, <1>1, <1>2, <1>5, <1>7, <2>6
    <3> QED
      BY <2>5, <3>1, ZenonT(60)
  <2>7. ASSUME NEW e \in new, \A f \in new : e.blk <= f.blk
        PROVE  e.prev = Source(Upto(ch, k))[r]
    <3>1. PICK h \in (Tip + 1)..Len(ch) :
            /\ e.blk = h /\ h > k /\ ch[h] = r /\ e.prev = Applied(a, ch, h - 1)[r]
      BY <1>4
    <3>2. \A i \in (k + 1)..(h - 1) : ch[i] # r
      <4> SUFFICES ASSUME NEW i \in (k + 1)..(h - 1), ch[i] = r PROVE FALSE
        BY Zenon
      <4>1. i \in (Tip + 1)..Len(ch) /\ i > k /\ i < h
        BY <1>0, <1>1, <1>2, <1>7, <3>1
      <4> QED
        BY <1>5, <2>7, <3>1, <4>1
    <3>3. h - 1 \in k..Len(ch)
      BY <1>0, <1>1, <1>2, <3>1
    <3> QED
      BY <2>5, <3>1, <3>2, <3>3, ZenonT(60)
  <2> QED
    BY <2>1, <2>6, <2>7, ZenonT(60)
<1>8. k <= Tip \/ k > Tip
  BY <1>0, <1>2
<1> QED
  BY <1>6, <1>7, <1>8, Zenon

\* Every maintained aggregate gets the deltas of the batch, with a pre-image for
\* each of its blocks.
LEMMA ApplyLiveBatchStep ==
    ASSUME IInv, ApplyLiveBatch
    PROVE  IInv'
<1>0. /\ TypeOK /\ chain \in Seq(Row) /\ Tip \in Nat /\ Source(chain) \in [Row -> Int]
      /\ Rows \in Nat
  BY Types, Zenon DEF IInv
<1>1. PICK b \in Batches :
        /\ chain' = chain \o b
        /\ value' = [a \in Agg |-> IF Maintained(a) THEN Applied(a, chain', Len(chain')) ELSE value[a]]
        /\ undo' = undo \cup UNION {PreImages(a, chain') : a \in {x \in Agg : Maintained(x)}}
  BY DEF ApplyLiveBatch
<1>2. pc = "idle" /\ UNCHANGED <<meta, active, pc, target, faults, torn>> /\ Tip' = Len(chain')
  BY DEF ApplyLiveBatch, Tip
<1>3. PICK ch \in Seq(Row) :
        /\ ch = chain' /\ Len(ch) \in Nat /\ Tip < Len(ch) /\ Tip' = Len(ch)
        /\ \A i \in 1..Tip : ch[i] = chain[i]
        /\ Upto(ch, Tip) = chain /\ Upto(ch, Len(ch)) = ch
  BY <1>0, <1>1, <1>2, BatchExtends, UptoFull, ZenonT(60)
<1>4. ASSUME NEW a \in Agg, NEW h \in Tip..Len(ch), NEW r \in Row
      PROVE  /\ Applied(a, ch, h)[r] = value[a][r] + Source(Upto(ch, h))[r] - Source(chain)[r]
             /\ Applied(a, ch, h)[r] \in Int
             /\ value[a][r] \in Int /\ Source(Upto(ch, h))[r] \in Int /\ Source(chain)[r] \in Int
  BY <1>0, <1>3, AppliedRow
<1>5. Len(ch) \in Tip..Len(ch)
  BY <1>0, <1>3
<1>6. ASSUME NEW a \in Agg
      PROVE  /\ Maintained(a) => /\ value'[a] = Applied(a, ch, Len(ch))
                                 /\ \A r \in Row :
                                      /\ value'[a][r] = value[a][r] + Source(ch)[r] - Source(chain)[r]
                                      /\ value[a][r] \in Int /\ Source(ch)[r] \in Int
                                      /\ Source(chain)[r] \in Int
             /\ ~Maintained(a) => value'[a] = value[a]
  <2>1. /\ Maintained(a) => value'[a] = Applied(a, ch, Len(ch))
        /\ ~Maintained(a) => value'[a] = value[a]
    BY <1>1, <1>3, ZenonT(60)
  <2>2. ASSUME NEW r \in Row
        PROVE  /\ Applied(a, ch, Len(ch))[r] = value[a][r] + Source(ch)[r] - Source(chain)[r]
               /\ value[a][r] \in Int /\ Source(ch)[r] \in Int /\ Source(chain)[r] \in Int
    BY <1>3, <1>4, <1>5
  <2> QED
    BY <2>1, <2>2, Zenon
<1>7. \A e : e \in undo' <=> \/ e \in undo
                             \/ \E a \in Agg : Maintained(a) /\ e \in PreImages(a, ch)
  BY <1>1, <1>3, ZenonT(60)
<1>8. ASSUME NEW e \in undo', e \notin undo
      PROVE  /\ e \in PreImages(e.agg, ch) /\ e.agg \in Agg /\ Maintained(e.agg)
             /\ e.blk \in (Tip + 1)..Len(ch) /\ e.row = ch[e.blk]
             /\ e.prev = Applied(e.agg, ch, e.blk - 1)[ch[e.blk]]
             /\ e = [blk |-> e.blk, agg |-> e.agg, row |-> e.row, prev |-> e.prev]
  <2>1. PICK a \in Agg : Maintained(a) /\ e \in PreImages(a, ch)
    BY <1>7, <1>8
  <2> QED
    BY <2>1, PreImageFacts
<1>9. TypeOK'
  <2>1. value' \in [Agg -> [Row -> Int]]
    <3>1. ASSUME NEW a \in Agg
          PROVE  (IF Maintained(a) THEN Applied(a, ch, Len(ch)) ELSE value[a]) \in [Row -> Int]
      <4>1. Applied(a, ch, Len(ch)) \in [Row -> Int]
        <5>1. \A r \in Row : Applied(a, ch, Len(ch))[r] \in Int
          BY <1>4, <1>5, Zenon
        <5> QED
          BY <5>1, Zenon DEF Applied
      <4> QED
        BY <1>0, <4>1, Zenon DEF TypeOK
    <3> QED
      BY <1>1, <1>3, <3>1, Zenon
  <2>2. undo' \subseteq [blk : Nat, agg : Agg, row : Row, prev : Int]
    <3> SUFFICES ASSUME NEW e \in undo' PROVE e \in [blk : Nat, agg : Agg, row : Row, prev : Int]
      OBVIOUS
    <3>1. CASE e \in undo
      BY <1>0, <3>1, Zenon DEF TypeOK
    <3>2. CASE e \notin undo
      <4>1. e.blk \in 1..Len(ch) /\ e.blk - 1 \in Tip..Len(ch) /\ e.blk \in Nat
        BY <1>0, <1>3, <1>8, <3>2
      <4>2. ch[e.blk] \in Row
        BY <4>1, ElementOfSeq, ZenonT(60)
      <4>3. e.row \in Row /\ e.prev \in Int /\ e.agg \in Agg
        BY <1>4, <1>8, <3>2, <4>1, <4>2
      <4>4. e = [blk |-> e.blk, agg |-> e.agg, row |-> e.row, prev |-> e.prev]
        BY <1>8, <3>2, Zenon
      <4> QED
        BY <4>1, <4>3, <4>4, ZenonT(60)
    <3> QED
      BY <3>1, <3>2, Zenon
  <2> QED
    BY <1>0, <1>2, <1>3, <2>1, <2>2, ZenonT(60) DEF TypeOK
<1>10. UndoInv'
  <2>1. ASSUME NEW e \in undo' PROVE e.blk \in 1..Len(ch) /\ e.row = ch[e.blk]
    <3>1. CASE e \in undo
      BY <1>0, <1>3, <3>1 DEF IInv, UndoInv
    <3>2. CASE e \notin undo
      BY <1>0, <1>3, <1>8, <3>2
    <3> QED
      BY <3>1, <3>2, ZenonT(60)
  <2>2. ASSUME NEW e \in undo', NEW f \in undo', e.agg = f.agg, e.blk = f.blk
        PROVE  e = f
    <3>1. CASE e \in undo /\ f \in undo
      BY <2>2, <3>1, Zenon DEF IInv, UndoInv
    <3>2. CASE e \notin undo /\ f \notin undo
      <4>1. /\ e = [blk |-> e.blk, agg |-> e.agg, row |-> e.row, prev |-> e.prev]
            /\ f = [blk |-> f.blk, agg |-> f.agg, row |-> f.row, prev |-> f.prev]
            /\ e.row = ch[e.blk] /\ f.row = ch[f.blk]
        BY <1>8, <3>2, Zenon
      <4>2. e.prev = f.prev
        BY <1>8, <2>2, <3>2, ZenonT(60)
      <4>3. e.row = f.row
        BY <2>2, <4>1, Zenon
      <4> QED
        BY <2>2, <4>1, <4>2, <4>3, Zenon
    <3>3. ASSUME NEW x \in undo, NEW y \in undo', y \notin undo PROVE x.blk # y.blk
      <4>1. x.blk \in 1..Tip
        BY DEF IInv, UndoInv
      <4>2. y.blk \in (Tip + 1)..Len(ch)
        BY <1>8, <3>3, Zenon
      <4> QED
        BY <1>0, <4>1, <4>2
    <3> QED
      BY <2>2, <3>1, <3>2, <3>3
  <2> QED
    BY <1>3, <2>1, <2>2, Zenon DEF UndoInv
<1>11. ReplayInv'
  BY <1>2 DEF ReplayInv
<1>12. FoldingAccounts'
  <2> SUFFICES ASSUME NEW a \in Agg, meta[a].state = "folding", active.agg = a, NEW r \in Row
               PROVE  value'[a][r] = Source(ch)[r]
                                       - (IF r > active.cursor THEN active.snapshot[r] ELSE 0)
    BY <1>2, <1>3, Zenon DEF FoldingAccounts
  <2>1. value[a][r] = Source(chain)[r] - (IF r > active.cursor THEN active.snapshot[r] ELSE 0)
    BY Zenon DEF IInv, FoldingAccounts
  <2>2. PICK x \in Int : x = IF r > active.cursor THEN active.snapshot[r] ELSE 0
    <3>1. active.snapshot[r] \in {0, 1}
      BY <1>0, ZenonT(60) DEF TypeOK
    <3> QED
      BY <3>1
  <2>3. /\ value'[a][r] = value[a][r] + Source(ch)[r] - Source(chain)[r]
        /\ value[a][r] \in Int /\ Source(ch)[r] \in Int /\ Source(chain)[r] \in Int
    BY <1>6 DEF Maintained
  <2>4. value[a][r] = Source(chain)[r] - x
    BY <2>1, <2>2, ZenonT(60)
  <2>5. value'[a][r] = Source(ch)[r] - x
    BY <2>2, <2>3, <2>4
  <2> QED
    BY <2>2, <2>5, Zenon
<1>13. ASSUME NEW a \in Agg PROVE StateInv(a)'
  <2>1. torn[a] \subseteq 1..Len(ch)
    BY <1>0, <1>3 DEF IInv, StateInv
  <2>2. meta[a].state = "validating" => value'[a] = Source(ch)
    <3> SUFFICES ASSUME meta[a].state = "validating" PROVE value'[a] = Source(ch)
      BY Zenon
    <3>1. value[a] = Source(chain)
      BY Zenon DEF IInv, StateInv
    <3>2. \A r \in Row : value'[a][r] = Source(ch)[r]
      <4> SUFFICES ASSUME NEW r \in Row PROVE value'[a][r] = Source(ch)[r]
        BY Zenon
      <4>1. /\ value'[a][r] = value[a][r] + Source(ch)[r] - Source(chain)[r]
            /\ value[a][r] \in Int /\ Source(ch)[r] \in Int /\ Source(chain)[r] \in Int
        BY <1>6, Zenon DEF Maintained
      <4> QED
        BY <3>1, <4>1
    <3>3. value'[a] \in [Row -> Int] /\ Source(ch) \in [Row -> {0, 1}]
      BY <1>9, SourceType, Zenon DEF TypeOK
    <3> QED
      BY <3>2, <3>3
  <2>3. meta[a].state = "not_started" => value'[a] = value[a]
    BY <1>6, ZenonT(60) DEF Maintained
  <2>4. meta[a].state = "complete" => meta[a].at <= Len(ch)
    BY <1>0, <1>3 DEF IInv, StateInv, TypeOK
  <2> QED
    BY <1>2, <1>3, <2>1, <2>2, <2>3, <2>4 DEF IInv, StateInv
<1>14. ASSUME NEW a \in Agg PROVE Restorable(a)'
  <2> SUFFICES ASSUME meta[a].state = "complete", NEW k \in meta[a].at..Len(ch),
                      \A h \in torn[a] : h > k, NEW r \in Row
               PROVE  Restores(a, r, k)'
    BY <1>2, <1>3, Zenon DEF Restorable
  <2>2. Above(a, r, k)' = Above(a, r, k) \cup Added(a, ch, r, k)
    <3>1. ASSUME NEW e PROVE e \in Above(a, r, k)' <=> e \in Above(a, r, k) \cup Added(a, ch, r, k)
      <4>1. Maintained(a)
        BY DEF Maintained
      <4>2. e \in PreImages(a, ch) => e \in undo' /\ e.agg = a
        BY <1>7, <4>1, PreImageFacts
      <4>3. e \in undo' /\ e.agg = a => e \in undo \/ e \in PreImages(a, ch)
        BY <1>8, Zenon
      <4> QED
        BY <1>7, <4>2, <4>3, ZenonT(60) DEF Above, Added
    <3> QED
      BY <3>1, Zenon
  <2>3. value'[a] = Applied(a, ch, Len(ch))
    BY <1>6, Zenon DEF Maintained
  <2>4. RestoresWith(Above(a, r, k) \cup Added(a, ch, r, k), a, r, ch, k)
    BY <1>3, BatchRestores, Zenon
  <2> QED
    BY <1>3, <2>2, <2>3, <2>4, Zenon DEF Restores, RestoresWith
<1> QED
  BY <1>9, <1>10, <1>11, <1>12, <1>13, <1>14, ZenonT(60) DEF IInv

-----------------------------------------------------------------------------
(* The invariant and the theorems. *)

\* A store handed over by bulk build has no derived rows and no undo entries.
LEMMA InitInvariant == Init => IInv
<1> SUFFICES ASSUME Init PROVE IInv
  OBVIOUS
<1>1. chain \in Seq(Row)
  <2>1. PICK n \in 0..MaxHandoff : chain \in [1..n -> Row]
    BY DEF Init
  <2>2. n \in Nat
    BY <2>1, DeriveAssumption
  <2> QED
    BY <2>1, <2>2, SeqDef
<1>2. NoRows \in [Row -> {0, 1}] /\ NoRows \in [Row -> Int]
  BY DEF NoRows
<1>3. TypeOK
  <2>1. Idle \in [agg : 0..Aggregates, snapshot : [Row -> {0, 1}], cursor : 0..Rows]
    BY <1>2, DeriveAssumption DEF Idle
  <2>2. NotStarted \in [state : {"not_started", "folding", "validating", "complete", "failed"},
                        at : Nat]
    BY Zenon DEF NotStarted
  <2>3. faults \in [rollbacks : Nat, crashes : Nat]
    BY ZenonT(60) DEF Init
  <2> QED
    BY <1>1, <1>2, <2>1, <2>2, <2>3, ZenonT(60) DEF Init, TypeOK
<1>4. UndoInv /\ ReplayInv /\ FoldingAccounts
  BY DEF Init, UndoInv, ReplayInv, FoldingAccounts, Idle, Agg
<1>5. \A a \in Agg : StateInv(a) /\ Restorable(a)
  BY DEF Init, StateInv, Restorable, NotStarted
<1> QED
  BY <1>3, <1>4, <1>5, Zenon DEF IInv

\* Every step preserves the invariant.
LEMMA NextInvariant == IInv /\ [Next]_vars => IInv'
<1> SUFFICES ASSUME IInv, [Next]_vars PROVE IInv'
  OBVIOUS
<1>1. CASE UNCHANGED vars
  <2>1. TypeOK' /\ UndoInv' /\ ReplayInv' /\ FoldingAccounts'
    BY <1>1 DEF IInv, vars, TypeOK, UndoInv, ReplayInv, FoldingAccounts, Tip
  <2>2. ASSUME NEW a \in Agg PROVE (StateInv(a) /\ Restorable(a))'
    BY <1>1, AggregateUntouched, Zenon DEF IInv, vars, StateInv
  <2> QED
    BY <2>1, <2>2, ZenonT(60) DEF IInv
<1>2. CASE Next
  BY <1>2, ApplyLiveBatchStep, FailLiveBatchStep, StartStep, ChunkStep, CompleteStep,
     InvalidateStep, ReplayStep, CommitRollbackStep, CrashStep, NormalizeStep, ZenonT(60) DEF Next
<1> QED
  BY <1>1, <1>2

\* The invariant holds throughout.
LEMMA Invariant == Spec => []IInv
BY InitInvariant, NextInvariant, PTL DEF Spec

\* Metadata, rows, undo entries and the rebuild in memory have their types.
THEOREM TypeCorrect == Spec => []TypeOK
<1>1. IInv => TypeOK
  BY DEF IInv
<1> QED
  BY <1>1, Invariant, PTL

\* A rebuild (DeriveScheduler::step) counts every live delta and every folded
\* snapshot row exactly once.
THEOREM RebuildsAccount == Spec => []FoldingAccounts
<1>1. IInv => FoldingAccounts
  BY DEF IInv
<1> QED
  BY <1>1, Invariant, PTL

\* Rows served, or about to be, equal a derivation from scratch at the tip, as
\* long as no rollback that was cut short undid some of their blocks.
THEOREM ServedRowsExact == Spec => []ServedUnlessTorn
<1>1. ASSUME IInv PROVE ServedUnlessTorn
  <2> SUFFICES ASSUME NEW a \in Agg, ChecksRows(a), torn[a] = {}
               PROVE  value[a] = Source(chain)
    BY Zenon DEF ServedUnlessTorn
  <2>0. /\ chain \in Seq(Row) /\ Tip \in Nat /\ Source(chain) \in [Row -> Int]
        /\ value[a] \in [Row -> Int]
    BY <1>1, Types, Zenon DEF IInv, TypeOK
  <2>1. CASE meta[a].state = "validating"
    BY <1>1, <2>1, ZenonT(60) DEF IInv, StateInv
  <2>2. CASE meta[a].state = "complete"
    <3> SUFFICES ASSUME NEW r \in Row PROVE value[a][r] = Source(chain)[r]
      BY <2>0
    <3>1. Tip \in meta[a].at..Tip
      BY <1>1, <2>0, <2>2 DEF IInv, StateInv, TypeOK
    <3>2. Restores(a, r, Tip)
      BY <1>1, <2>2, <3>1, ZenonT(60) DEF IInv, Restorable
    <3>3. Above(a, r, Tip) = {}
      <4>1. \A e \in undo : e.blk \in 1..Tip
        BY <1>1, Zenon DEF IInv, UndoInv
      <4>2. \A e \in undo : ~(e.blk > Tip)
        <5> SUFFICES ASSUME NEW e \in undo PROVE ~(e.blk > Tip)
          BY Zenon
        <5>1. PICK t, b : t = Tip /\ b = e.blk
          BY Zenon
        <5>2. t \in Nat /\ b \in 1..t
          BY <2>0, <4>1, <5>1, Zenon
        <5>3. ~(b > t)
          BY <5>2
        <5> QED
          BY <5>1, <5>3, Zenon
      <4> QED
        BY <4>2, Zenon DEF Above
    <3> QED
      BY <2>0, <3>2, <3>3, UptoFull, ZenonT(60) DEF Restores, Tip
  <2> QED
    BY <2>1, <2>2, Zenon DEF ChecksRows
<1> QED
  BY <1>1, Invariant, PTL

\* A reset aggregate is empty: no rollback replays a pre-image into it, wherever
\* it was cut short (invalidate_for_rollback).
THEOREM ResetLeavesNothing == Spec => []ResetIsEmpty
<1>1. IInv => ResetIsEmpty
  BY ZenonT(60) DEF IInv, StateInv, ResetIsEmpty
<1> QED
  BY <1>1, Invariant, PTL

\* Startup (normalize_on_startup) never finds a completion above the tip.
THEOREM StartupNeverRefuses == Spec => []StartupAccepts
<1>1. IInv => StartupAccepts
  BY ZenonT(60) DEF IInv, StateInv, StartupAccepts
<1> QED
  BY <1>1, Invariant, PTL

=============================================================================
