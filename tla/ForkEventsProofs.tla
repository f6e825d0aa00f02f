-------------------------- MODULE ForkEventsProofs --------------------------
(***************************************************************************)
(* For every set of difficulties, every height, batch size and number of   *)
(* switches and faults: the domain chain always has its payloads, on disk  *)
(* too, the marker names the newest event and is never refused, and the    *)
(* links between events agree and are true.                                *)
(***************************************************************************)
EXTENDS ForkEvents, SequenceTheorems, TLAPS

Chain == Seq(Nat)

Event == [fork : Nat, old : Chain, new : Chain, reverted : Nat, reverses : SUBSET Nat,
          superseded : Chain, interrupted : BOOLEAN]

Store == [chain : Chain, events : Seq(Event), pending : Nat]

\* MarkerIsNewest of a store in use or on disk.
Marked(d) ==
  /\ d.pending \in 0..Len(d.events)
  /\ d.pending # 0 => d.pending = Len(d.events) /\ ~d.events[d.pending].interrupted

\* LinksAgree of such a store, and no link to an event that is not there.
Linked(d) ==
  /\ \A i \in DOMAIN d.events : /\ d.events[i].reverted \in 0..Len(d.events)
                                /\ d.events[i].reverses \subseteq DOMAIN d.events
  /\ \A i, j \in DOMAIN d.events :
       /\ d.events[i].reverted = j <=> i \in d.events[j].reverses
       /\ d.events[i].reverted = j => i < j /\ d.events[j].fork < Len(d.events[i].old)

Good(d) == d \in Store /\ Marked(d) /\ Linked(d)

Steps == {"idle", "cells", "domain", "reconcile", "cleanup", "undo", "search", "tip",
          "hash", "begin", "rollback", "flush", "record"}

\* The writer's place is known, and it never cuts above the stored tip.
WriterInv ==
  /\ node \in Chain /\ pc \in Steps
  /\ job \in [fork : Nat, old : Chain, new : Chain]
  /\ pc \in Steps \ {"idle", "flush", "record"} => job.fork <= Len(db.chain)
  /\ pc \in {"cells", "domain"} => job.fork <= Len(job.new)
  /\ pc = "domain" => Blocks(job.new) \subseteq synced

\* Every block of either chain has its payloads on disk.
PayloadInv ==
  /\ Blocks(db.chain) \subseteq synced
  /\ Blocks(disk.chain) \subseteq synced
  /\ synced \subseteq cells

IInv == Good(db) /\ Good(disk) /\ node \in Chains /\ WriterInv /\ PayloadInv

\* A leaf that cites no prover goes to SMT, for at most a minute.
USE SMTT(60)

-----------------------------------------------------------------------------
(* Chains. *)

\* A prefix of a chain is a chain of that length.
LEMMA AtType ==
  ASSUME NEW c \in Chain, NEW h \in 0..Len(c)
  PROVE  At(c, h) \in Chain /\ Len(At(c, h)) = h
<1>1. Len(c) \in Nat /\ h \in Int /\ 1 \in Int
  BY LenProperties DEF Chain
<1>2. \A i \in 1..h : c[i] \in Nat
  BY <1>1, ElementOfSeq DEF Chain
<1> QED
  BY <1>1, <1>2, SubSeqProperties DEF At, Chain

\* The blocks of a prefix are blocks of the chain: a rollback needs no payload
\* that the chain did not have.
LEMMA AtBlocks ==
  ASSUME NEW c \in Chain, NEW h \in 0..Len(c)
  PROVE  Blocks(At(c, h)) \subseteq Blocks(c)
<1> SUFFICES ASSUME NEW k \in 1..Len(At(c, h)) PROVE At(At(c, h), k) \in Blocks(c)
  BY DEF Blocks
<1>1. Len(c) \in Nat /\ Len(At(c, h)) = h
  BY AtType, LenProperties, Zenon DEF Chain
<1>2. 1 \in 1..Len(c) /\ h \in 1..Len(c) /\ 1 \in 1..(h - 1 + 1) /\ k \in 1..(h - 1 + 1)
  BY <1>1
<1>3. SubSeq(SubSeq(c, 1, h), 1, k) = SubSeq(c, 1 + 1 - 1, 1 + k - 1)
  BY <1>2, SubSeqOfSubSeq DEF Chain
<1>4. At(At(c, h), k) = At(c, k)
  BY <1>3, <1>2 DEF At
<1> QED
  BY <1>1, <1>2, <1>4 DEF Blocks

\* The node's chains are chains.
LEMMA ChainsAreChains == Chains \subseteq Chain
<1> SUFFICES ASSUME NEW c \in Chains PROVE c \in Chain
  OBVIOUS
<1>1. PICK m \in 0..MaxHeight : c \in [1..m -> Difficulties]
  BY DEF Chains
<1>2. m \in Nat /\ Difficulties \subseteq Nat
  BY <1>1, ForkEventsAssumption
<1>3. c \in [1..m -> Nat]
  BY <1>1, <1>2, Zenon
<1> QED
  BY <1>2, <1>3 DEF Chain

-----------------------------------------------------------------------------
(* Stores: what every write of the domain store keeps. *)

\* A batch or a rollback replaces the chain alone.
LEMMA ChainWrite ==
  ASSUME NEW d, Good(d), NEW c \in Chain
  PROVE  Good([d EXCEPT !.chain = c]) /\ [d EXCEPT !.chain = c].chain = c
<1> DEFINE e == [d EXCEPT !.chain = c]
<1>1. e \in Store /\ e.chain = c /\ e.events = d.events /\ e.pending = d.pending
  BY DEF Good, Store
<1>2. Marked(e) /\ Linked(e)
  BY <1>1 DEF Good, Marked, Linked
<1> QED
  BY <1>1, <1>2 DEF Good

\* begin_rollback marks the pending event and deletes its marker.
LEMMA InterruptWrite ==
  ASSUME NEW d, Good(d), d.pending # 0
  PROVE  Good(Interrupt(d)) /\ Interrupt(d).chain = d.chain
<1> DEFINE e == Interrupt(d)
           E == [d.events EXCEPT ![d.pending].interrupted = TRUE]
<1>1. /\ d \in Store /\ d.events \in Seq(Event) /\ Len(d.events) \in Nat
      /\ d.pending \in 1..Len(d.events) /\ DOMAIN d.events = 1..Len(d.events)
  BY LenProperties DEF Good, Store, Marked
<1>2. /\ E \in Seq(Event) /\ Len(E) = Len(d.events) /\ DOMAIN E = DOMAIN d.events
      /\ \A i \in DOMAIN E : /\ E[i].reverted = d.events[i].reverted
                             /\ E[i].reverses = d.events[i].reverses
                             /\ E[i].fork = d.events[i].fork
                             /\ E[i].old = d.events[i].old
  <2>1. \A i \in 1..Len(d.events) : d.events[i] \in Event
    BY <1>1, ElementOfSeq
  <2>2. [d.events[d.pending] EXCEPT !.interrupted = TRUE] \in Event
    BY <1>1, <2>1, ZenonT(60) DEF Event
  <2>3. E \in Seq(Event) /\ Len(E) = Len(d.events)
    BY <1>1, <2>2, ExceptSeq
  <2> QED
    BY <1>1, <2>1, <2>3, Zenon DEF Event
<1>3. e = [d EXCEPT !.events = E, !.pending = 0]
  BY <1>1 DEF Interrupt
<1> HIDE DEF e, E
<1>4. e \in Store /\ e.chain = d.chain /\ e.events = E /\ e.pending = 0
  BY <1>1, <1>2, <1>3, Zenon DEF Store
<1>5. Marked(e)
  BY <1>1, <1>2, <1>4 DEF Marked
<1>6. Linked(e)
  BY <1>1, <1>2, <1>4, ZenonT(60) DEF Linked, Good
<1> QED
  BY <1>4, <1>5, <1>6 DEF Good, e

\* begin_rollback keeps the event list and its links, and leaves no marker of an
\* event it interrupted.
LEMMA BeginRollbackWrite ==
  ASSUME NEW d, Good(d), NEW isCleanup, NEW target
  PROVE  Good(BeginRollback(d, isCleanup, target)) /\ BeginRollback(d, isCleanup, target).chain = d.chain
BY InterruptWrite DEF BeginRollback

\* What reconciliation writes to each event, and nothing else.
LEMMA ReconciledEvents ==
  ASSUME NEW d, Good(d), Due(d)
  PROVE  LET R == Reconciled(d) IN
         /\ R \in Store /\ R.chain = d.chain /\ R.pending \in {0, d.pending}
         /\ Len(R.events) = Len(d.events) /\ DOMAIN R.events = DOMAIN d.events
         /\ \A i \in DOMAIN d.events :
              /\ R.events[i].fork = d.events[i].fork /\ R.events[i].old = d.events[i].old
              /\ R.events[i].interrupted = d.events[i].interrupted
              /\ R.events[i].reverted = IF i \in Restored(d) THEN d.pending ELSE d.events[i].reverted
              /\ R.events[i].reverses = IF i = d.pending THEN Reverses(d) ELSE d.events[i].reverses
<1>1. /\ d \in Store /\ d.events \in Seq(Event) /\ Len(d.events) \in Nat
      /\ d.pending \in 1..Len(d.events) /\ DOMAIN d.events = 1..Len(d.events)
      /\ d.chain \in Chain
  BY LenProperties DEF Good, Store, Marked, Due
<1>2. \A i \in 1..Len(d.events) : d.events[i] \in Event
  BY <1>1, ElementOfSeq
<1> DEFINE cur == d.events[d.pending]
           winning == At(d.chain, Len(cur.new))
           last == [cur EXCEPT !.superseded = IF winning # cur.new THEN winning ELSE @,
                               !.reverses = Reverses(d)]
           link(i) == [d.events[i] EXCEPT !.reverted = d.pending]
           E == [i \in DOMAIN d.events |->
                   IF i = d.pending THEN last
                   ELSE IF i \in Restored(d) THEN link(i) ELSE d.events[i]]
           p == IF \A i \in Candidates(d) : Reached(d, i) THEN 0 ELSE d.pending
<1>3. Reconciled(d) = [d EXCEPT !.events = E, !.pending = p]
  BY <1>1 DEF Reconciled, Store
<1>4. cur \in Event /\ cur.new \in Chain /\ Len(cur.new) \in 0..Len(d.chain)
  <2>1. cur \in Event /\ cur.new \in Chain
    BY <1>1, <1>2, Zenon DEF Event
  <2>2. Len(cur.new) \in Nat /\ Len(d.chain) \in Nat /\ Len(d.chain) >= Len(cur.new)
    BY <1>1, <2>1, LenProperties DEF Due, Chain
  <2> QED
    BY <2>1, <2>2
<1>5. winning \in Chain
  BY <1>1, <1>4, AtType
<1>6. Restored(d) \subseteq DOMAIN d.events \ {d.pending}
  BY DEF Restored, Candidates
<1>7. Reverses(d) \in SUBSET Nat
  BY <1>1, <1>4, <1>6 DEF Reverses, Event
<1>8. /\ last \in Event /\ last.fork = cur.fork /\ last.old = cur.old
      /\ last.interrupted = cur.interrupted /\ last.reverted = cur.reverted
      /\ last.reverses = Reverses(d)
  <2> HIDE DEF cur, winning
  <2>1. last \in Event
    BY <1>4, <1>5, <1>7, Zenon DEF Event
  <2> QED
    BY <1>4, <2>1 DEF Event
<1>9. \A i \in DOMAIN d.events :
        /\ link(i) \in Event /\ link(i).fork = d.events[i].fork /\ link(i).old = d.events[i].old
        /\ link(i).interrupted = d.events[i].interrupted /\ link(i).reverted = d.pending
        /\ link(i).reverses = d.events[i].reverses
  <2> SUFFICES ASSUME NEW i \in DOMAIN d.events
               PROVE  /\ link(i) \in Event /\ link(i).fork = d.events[i].fork
                      /\ link(i).old = d.events[i].old
                      /\ link(i).interrupted = d.events[i].interrupted
                      /\ link(i).reverted = d.pending
                      /\ link(i).reverses = d.events[i].reverses
    OBVIOUS
  <2>1. PICK e \in Event : e = d.events[i]
    BY <1>1, <1>2
  <2>2. link(i) = [e EXCEPT !.reverted = d.pending]
    BY <2>1
  <2>3. d.pending \in Nat
    BY <1>1
  <2> QED
    BY <2>1, <2>2, <2>3 DEF Event
<1>10. p \in {0, d.pending} /\ p \in Nat
  BY <1>1
<1> HIDE DEF last, link, p
<1>11. E \in [1..Len(d.events) -> Event]
  BY <1>1, <1>2, <1>8, <1>9
<1>12. E \in Seq(Event) /\ Len(E) = Len(d.events) /\ DOMAIN E = DOMAIN d.events
  BY <1>1, <1>11, LenProperties, SeqDef
<1>13. \A i \in DOMAIN d.events :
        /\ E[i].fork = d.events[i].fork /\ E[i].old = d.events[i].old
        /\ E[i].interrupted = d.events[i].interrupted
        /\ E[i].reverted = IF i \in Restored(d) THEN d.pending ELSE d.events[i].reverted
        /\ E[i].reverses = IF i = d.pending THEN Reverses(d) ELSE d.events[i].reverses
  BY <1>6, <1>8, <1>9
<1> HIDE DEF E
<1>14. /\ Reconciled(d) \in Store /\ Reconciled(d).chain = d.chain
       /\ Reconciled(d).events = E /\ Reconciled(d).pending = p
  BY <1>1, <1>3, <1>10, <1>12, ZenonT(60) DEF Store
<1> QED
  BY <1>10, <1>12, <1>13, <1>14

\* Reconciliation keeps the marker on the newest event and adds both ends of
\* every link in one write.
LEMMA ReconciledWrite ==
  ASSUME NEW d, Good(d), Due(d)
  PROVE  Good(Reconciled(d)) /\ Reconciled(d).chain = d.chain
<1>1. PICK R : R = Reconciled(d)
  BY Zenon
<1>2. /\ R \in Store /\ R.chain = d.chain /\ R.pending \in {0, d.pending}
      /\ Len(R.events) = Len(d.events) /\ DOMAIN R.events = DOMAIN d.events
      /\ \A i \in DOMAIN d.events :
           /\ R.events[i].fork = d.events[i].fork /\ R.events[i].old = d.events[i].old
           /\ R.events[i].interrupted = d.events[i].interrupted
           /\ R.events[i].reverted = IF i \in Restored(d) THEN d.pending ELSE d.events[i].reverted
           /\ R.events[i].reverses = IF i = d.pending THEN Reverses(d) ELSE d.events[i].reverses
  BY <1>1, ReconciledEvents
<1>3. /\ Len(d.events) \in Nat /\ DOMAIN d.events = 1..Len(d.events)
      /\ d.pending = Len(d.events) /\ d.pending \in DOMAIN d.events
  BY LenProperties DEF Good, Store, Marked, Due
<1>4. Marked(R)
  BY <1>2, <1>3 DEF Marked, Good
<1>5. \A i \in Restored(d) : /\ i \in DOMAIN d.events /\ i # d.pending /\ i < d.pending
                             /\ d.events[i].reverted = 0
                             /\ d.events[d.pending].fork < Len(d.events[i].old)
  <2> SUFFICES ASSUME NEW i \in Restored(d)
               PROVE  /\ i \in DOMAIN d.events /\ i # d.pending /\ i < d.pending
                      /\ d.events[i].reverted = 0
                      /\ d.events[d.pending].fork < Len(d.events[i].old)
    BY Zenon
  <2>1. /\ i \in DOMAIN d.events /\ i # d.pending /\ d.events[i].reverted = 0
        /\ Len(d.events[i].old) > d.events[d.pending].fork
    BY Zenon DEF Restored, Candidates
  <2>2. d.events[i].old \in Chain /\ d.events[d.pending].fork \in Nat
    <3>1. d.events[i] \in Event /\ d.events[d.pending] \in Event
      BY <1>3, <2>1, ElementOfSeq DEF Good, Store
    <3> QED
      BY <3>1, Zenon DEF Event
  <2>3. Len(d.events[i].old) \in Nat
    BY <2>2 DEF Chain
  <2> QED
    BY <1>3, <2>1, <2>2, <2>3
<1>6. Reverses(d) = d.events[d.pending].reverses \cup Restored(d)
  BY Zenon DEF Reverses
<1>7. Linked(R)
  <2>1. \A i \in DOMAIN R.events : /\ R.events[i].reverted \in 0..Len(R.events)
                                   /\ R.events[i].reverses \subseteq DOMAIN R.events
    BY <1>2, <1>3, <1>5, <1>6 DEF Good, Linked
  <2>2. ASSUME NEW i \in DOMAIN R.events, NEW j \in DOMAIN R.events
        PROVE  /\ R.events[i].reverted = j <=> i \in R.events[j].reverses
               /\ R.events[i].reverted = j => i < j /\ R.events[j].fork < Len(R.events[i].old)
    <3>1. /\ d.events[i].reverted = j <=> i \in d.events[j].reverses
          /\ d.events[i].reverted = j => i < j /\ d.events[j].fork < Len(d.events[i].old)
      BY <1>2, <2>2 DEF Good, Linked
    <3>2. CASE i \in Restored(d)
      BY <1>2, <1>3, <1>5, <1>6, <2>2, <3>1, <3>2
    <3>3. CASE i \notin Restored(d)
      BY <1>2, <1>3, <1>6, <2>2, <3>1, <3>3
    <3> QED
      BY <3>2, <3>3, Zenon
  <2> QED
    BY <2>1, <2>2 DEF Linked
<1> QED
  BY <1>1, <1>2, <1>4, <1>7 DEF Good

\* The store after RecordEvent.
Recorded(d, fork, old, new) ==
  [d EXCEPT !.events = Append(@, NewEvent(fork, old, new)), !.pending = Len(d.events) + 1]

\* record_reorg_event appends the event and points the marker at it.
LEMMA RecordWrite ==
  ASSUME NEW d, Good(d), NEW fork \in Nat, NEW old \in Chain, NEW new \in Chain
  PROVE  Good(Recorded(d, fork, old, new)) /\ Recorded(d, fork, old, new).chain = d.chain
<1> DEFINE n == NewEvent(fork, old, new)
           E == Append(d.events, n)
           R == [d EXCEPT !.events = E, !.pending = Len(d.events) + 1]
<1>1. /\ d \in Store /\ d.events \in Seq(Event) /\ Len(d.events) \in Nat
      /\ DOMAIN d.events = 1..Len(d.events)
  BY LenProperties, Zenon DEF Good, Store
<1>2. /\ n \in Event /\ n.reverted = 0 /\ n.reverses = {} /\ ~n.interrupted
  <2>1. NoHash \in Chain
    BY DEF NoHash, Chain
  <2> QED
    BY <2>1, Zenon DEF NewEvent, Event
<1> HIDE DEF n
<1>3. /\ E \in Seq(Event) /\ Len(E) = Len(d.events) + 1 /\ DOMAIN E = 1..(Len(d.events) + 1)
      /\ \A i \in 1..Len(d.events) : E[i] = d.events[i]
      /\ E[Len(d.events) + 1] = n
  <2>1. E \in Seq(Event) /\ Len(E) = Len(d.events) + 1
    BY <1>1, <1>2, AppendProperties
  <2> QED
    BY <1>1, <1>2, <2>1, AppendProperties, LenProperties
<1> HIDE DEF E
<1>4. /\ R \in Store /\ R.chain = d.chain /\ R.events = E /\ R.pending = Len(d.events) + 1
  <2>1. PICK p \in Nat : p = Len(d.events) + 1
    BY <1>1
  <2>2. PICK F \in Seq(Event) : F = E
    BY <1>3, Zenon
  <2>3. R = [d EXCEPT !.events = F, !.pending = p]
    BY <2>1, <2>2
  <2>4. R \in Store /\ R.chain = d.chain /\ R.events = F /\ R.pending = p
    BY <1>1, <2>3, ZenonT(60) DEF Store
  <2> QED
    BY <2>1, <2>2, <2>4, Zenon
<1> HIDE DEF R
<1>5. Marked(R)
  <2>1. R.pending \in 0..Len(R.events) /\ R.pending = Len(R.events)
    BY <1>1, <1>3, <1>4
  <2>2. R.events[R.pending] = n
    BY <1>3, <1>4
  <2> QED
    BY <1>2, <2>1, <2>2 DEF Marked
<1>6. \A i \in 1..Len(d.events) : /\ d.events[i].reverted \in 0..Len(d.events)
                                  /\ d.events[i].reverses \subseteq 1..Len(d.events)
  BY <1>1, Zenon DEF Good, Linked
<1>7. \A i \in DOMAIN E : E[i].reverted \in 0..Len(E) /\ E[i].reverses \subseteq DOMAIN E
  <2> TAKE i \in DOMAIN E
  <2>1. CASE i \in 1..Len(d.events)
    BY <1>1, <1>3, <1>6, <2>1
  <2>2. CASE i = Len(d.events) + 1
    BY <1>1, <1>2, <1>3, <2>2
  <2> QED
    BY <1>1, <1>3, <2>1, <2>2
<1>8. \A i, j \in DOMAIN E :
        /\ E[i].reverted = j <=> i \in E[j].reverses
        /\ E[i].reverted = j => i < j /\ E[j].fork < Len(E[i].old)
  <2> TAKE i, j \in DOMAIN E
  <2>1. CASE i \in 1..Len(d.events) /\ j \in 1..Len(d.events)
    <3>1. E[i] = d.events[i] /\ E[j] = d.events[j]
      BY <1>3, <2>1, Zenon
    <3> QED
      BY <1>1, <2>1, <3>1 DEF Good, Linked
  <2>2. CASE i = Len(d.events) + 1
    <3>1. E[i].reverted = 0 /\ j # 0
      BY <1>1, <1>2, <1>3, <2>2
    <3>2. i \notin E[j].reverses
      BY <1>1, <1>2, <1>3, <1>6, <2>2
    <3> QED
      BY <3>1, <3>2
  <2>3. CASE i \in 1..Len(d.events) /\ j = Len(d.events) + 1
    <3>1. E[i].reverted # j
      BY <1>1, <1>3, <1>6, <2>3
    <3>2. E[j].reverses = {}
      BY <1>2, <1>3, <2>3
    <3> QED
      BY <3>1, <3>2
  <2> QED
    BY <1>1, <1>3, <2>1, <2>2, <2>3
<1>9. Linked(R)
  BY <1>4, <1>7, <1>8 DEF Linked
<1> QED
  BY <1>4, <1>5, <1>9 DEF Good, Recorded, R, E, n

-----------------------------------------------------------------------------
(* The invariant. *)

\* A store at genesis satisfies it.
LEMMA InitInvariant == Init => IInv
<1> SUFFICES ASSUME Init PROVE IInv
  BY Zenon
<1>1. <<>> \in Chain /\ <<>> \in Seq(Event)
  BY DEF Chain
<1>2. db \in Store /\ db.chain = <<>> /\ db.events = <<>> /\ db.pending = 0
  BY <1>1, Zenon DEF Init, Store
<1>3. Good(db) /\ Good(disk)
  BY <1>2 DEF Init, Good, Marked, Linked
<1>4. Blocks(<<>>) = {}
  BY DEF Blocks
<1>5. PayloadInv
  BY <1>2, <1>4 DEF PayloadInv, Init
<1>6. node \in Chains
  <2>1. 0 \in 0..MaxHeight /\ <<>> \in [1..0 -> Difficulties]
    BY ForkEventsAssumption
  <2> QED
    BY <2>1, Zenon DEF Init, Chains
<1>7. WriterInv
  BY <1>1, Zenon DEF WriterInv, Init, NoJob, NoHash, Steps
<1> QED
  BY <1>3, <1>5, <1>6, <1>7, Zenon DEF IInv

\* A step that writes to neither store.
LEMMA StoresUntouched ==
  ASSUME IInv, UNCHANGED <<db, disk, cells, synced>>, node' \in Chains, WriterInv'
  PROVE  IInv'
BY Zenon DEF IInv, PayloadInv

\* The writer goes back to idle, after a step or a crash.
LEMMA WriterIdle ==
  ASSUME WriterInv, node' = node, pc' = "idle", job' = NoJob
  PROVE  WriterInv'
<1>1. <<>> \in Chain
  BY DEF Chain
<1> QED
  BY <1>1, Zenon DEF WriterInv, NoJob, NoHash, Steps

\* The node's steps and the steps of the writer that only read.
LEMMA ReadingSteps ==
  ASSUME IInv,
         \/ NodeGrows \/ NodeSwitches \/ StartBatch \/ WriteFails \/ DetectReorg
         \/ QueryFails \/ FindForkPoint \/ ReadTip \/ ReadTipHash
         \/ NothingOrphaned \/ Crash
  PROVE  IInv'
<1>1. /\ node \in Chains /\ node \in Chain /\ Len(node) \in Nat
      /\ db.chain \in Chain /\ Len(db.chain) \in Nat
      /\ job.fork \in Nat /\ job.old \in Chain /\ job.new \in Chain
  BY ChainsAreChains, LenProperties DEF IInv, Good, Store, WriterInv, Chain
<1>2. WriterInv
  BY DEF IInv
<1>3. CASE NodeGrows \/ NodeSwitches
  <2>1. node' \in Chains
    <3>1. CASE NodeGrows
      <4>1. PICK d \in Difficulties : node' = Append(node, d) /\ Len(node) < MaxHeight
        BY <3>1, Zenon DEF NodeGrows
      <4>2. PICK m \in 0..MaxHeight : node \in [1..m -> Difficulties]
        BY <1>1, Zenon DEF Chains
      <4>3. m \in Nat /\ MaxHeight \in Nat /\ Len(node) = m
        BY <1>1, <4>2, ForkEventsAssumption, LenProperties
      <4>4. node \in Seq(Difficulties)
        BY <4>2, <4>3
      <4>5. Append(node, d) \in Seq(Difficulties) /\ Len(Append(node, d)) = m + 1
        BY <4>1, <4>3, <4>4, AppendProperties
      <4>6. Append(node, d) \in [1..(m + 1) -> Difficulties] /\ m + 1 \in 0..MaxHeight
        <5>1. PICK a \in Seq(Difficulties) : a = Append(node, d)
          BY <4>5, Zenon
        <5>2. a \in [1..Len(a) -> Difficulties] /\ Len(a) = m + 1
          BY <4>5, <5>1, LenProperties, Zenon
        <5>3. m + 1 \in 0..MaxHeight
          BY <4>1, <4>3
        <5> QED
          BY <5>1, <5>2, <5>3
      <4> QED
        BY <4>1, <4>6 DEF Chains
    <3>2. CASE NodeSwitches
      <4>1. node' \in Heavier[node]
        BY <3>2, Zenon DEF NodeSwitches
      <4>2. Heavier[node] \subseteq Chains
        BY <1>1, Zenon DEF Heavier
      <4> QED
        BY <4>1, <4>2
    <3> QED
      BY <1>3, <3>1, <3>2
  <2>2. UNCHANGED <<db, disk, cells, synced, pc, job>>
    BY <1>3, Zenon DEF NodeGrows, NodeSwitches
  <2>3. WriterInv'
    BY <1>2, <2>1, <2>2, ChainsAreChains DEF WriterInv
  <2> QED
    BY <2>1, <2>2, <2>3, StoresUntouched
<1>4. CASE StartBatch
  <2>1. PICK n \in 1..MaxBatch :
          /\ Len(db.chain) + n <= Len(node)
          /\ job' = [NoJob EXCEPT !.fork = Len(db.chain), !.new = At(node, Len(db.chain) + n)]
    BY <1>4, Zenon DEF StartBatch
  <2>2. PICK h \in 0..Len(node) : h = Len(db.chain) + n /\ h >= Len(db.chain)
    <3>1. MaxBatch \in Nat
      BY ForkEventsAssumption, Zenon
    <3>2. n \in Nat
      BY <2>1, <3>1
    <3> QED
      BY <1>1, <2>1, <3>2
  <2>3. At(node, h) \in Chain /\ Len(At(node, h)) = h
    BY <1>1, AtType
  <2>4. job' = [fork |-> Len(db.chain), old |-> <<>>, new |-> At(node, h)]
    BY <2>1, <2>2, ZenonT(60) DEF NoJob, NoHash
  <2>5. <<>> \in Chain
    BY DEF Chain
  <2>6. pc' = "cells" /\ UNCHANGED <<node, db, disk, cells, synced>>
    BY <1>4, Zenon DEF StartBatch
  <2>7. WriterInv'
    BY <1>1, <2>2, <2>3, <2>4, <2>5, <2>6 DEF WriterInv, Steps
  <2> QED
    BY <1>1, <2>6, <2>7, StoresUntouched
<1>5. CASE WriteFails
  <2>1. WriterInv' /\ UNCHANGED <<node, db, disk, cells, synced>>
    BY <1>2, <1>5 DEF WriteFails, WriterInv, Steps
  <2> QED
    BY <1>1, <2>1, StoresUntouched
<1>6. CASE DetectReorg
  <2>1. job' = [fork |-> Len(db.chain), old |-> db.chain, new |-> <<>>]
    BY <1>6, ZenonT(60) DEF DetectReorg, NoJob, NoHash
  <2>2. <<>> \in Chain
    BY DEF Chain
  <2>3. pc' = "search" /\ UNCHANGED <<node, db, disk, cells, synced>>
    BY <1>6 DEF DetectReorg
  <2>4. WriterInv'
    BY <1>1, <2>1, <2>2, <2>3 DEF WriterInv, Steps
  <2> QED
    BY <1>1, <2>3, <2>4, StoresUntouched
<1>7. CASE QueryFails \/ NothingOrphaned \/ Crash
  <2>1. pc' = "idle" /\ job' = NoJob /\ UNCHANGED <<node, db, disk, cells, synced>>
    BY <1>7, Zenon DEF QueryFails, NothingOrphaned, Crash
  <2> QED
    BY <1>1, <1>2, <2>1, WriterIdle, StoresUntouched
<1>8. CASE FindForkPoint
  <2>1. pc = "search" /\ UNCHANGED <<node, db, disk, cells, synced>>
    BY <1>8, Zenon DEF FindForkPoint
  <2>2. job \in [fork : Nat, old : Chain, new : Chain] /\ job.fork <= Len(db.chain)
    BY <1>2, <2>1, Zenon DEF WriterInv, Steps
  <2>3. CASE At(node, job.fork) = At(db.chain, job.fork)
    <3>1. pc' = "tip" /\ job' = job
      BY <1>8, <2>3 DEF FindForkPoint
    <3>2. WriterInv'
      BY <1>2, <2>1, <2>2, <3>1 DEF WriterInv, Steps
    <3> QED
      BY <1>1, <2>1, <3>2, StoresUntouched
  <2>4. CASE At(node, job.fork) # At(db.chain, job.fork)
    <3>1. pc' = "search" /\ job' = [job EXCEPT !.fork = @ - 1]
      BY <1>8, <2>1, <2>4 DEF FindForkPoint
    <3>2. job.fork # 0
      <4>1. SubSeq(node, 1, 0) = <<>> /\ SubSeq(db.chain, 1, 0) = <<>>
        BY SubSeqEmpty
      <4> QED
        BY <2>4, <4>1 DEF At
    <3>3. PICK f \in Nat : f = job.fork - 1 /\ f <= Len(db.chain)
      BY <1>1, <2>2, <3>2
    <3>4. job' \in [fork : Nat, old : Chain, new : Chain] /\ job'.fork = f
      BY <2>2, <3>1, <3>3
    <3>5. WriterInv'
      BY <1>2, <2>1, <3>1, <3>3, <3>4 DEF WriterInv, Steps
    <3> QED
      BY <1>1, <2>1, <3>5, StoresUntouched
  <2> QED
    BY <2>3, <2>4
<1>9. CASE ReadTip
  <2>1. pc = "tip" /\ pc' = "hash" /\ UNCHANGED <<node, db, disk, cells, synced>>
    BY <1>9, Zenon DEF ReadTip
  <2>2. job' \in [fork : Nat, old : Chain, new : Chain] /\ job'.fork = job.fork
    BY <1>1, <1>2, <1>9 DEF ReadTip, WriterInv
  <2>3. WriterInv'
    BY <1>2, <2>1, <2>2 DEF WriterInv, Steps
  <2> QED
    BY <1>1, <2>1, <2>3, StoresUntouched
<1>10. CASE ReadTipHash
  <2>1. pc = "hash" /\ pc' = "begin" /\ UNCHANGED <<node, db, disk, cells, synced>>
    BY <1>10, Zenon DEF ReadTipHash
  <2>2. Len(job.new) \in 0..Len(node)
    BY <1>1, <1>10, LenProperties DEF ReadTipHash, Chain
  <2>3. At(node, Len(job.new)) \in Chain
    BY <1>1, <2>2, AtType, Zenon
  <2>4. job' \in [fork : Nat, old : Chain, new : Chain] /\ job'.fork = job.fork
    BY <1>1, <1>2, <1>10, <2>3 DEF ReadTipHash, WriterInv
  <2>5. WriterInv'
    BY <1>2, <2>1, <2>4 DEF WriterInv, Steps
  <2> QED
    BY <1>1, <2>1, <2>5, StoresUntouched
<1> QED
  BY <1>3, <1>4, <1>5, <1>6, <1>7, <1>8, <1>9, <1>10

\* The steps that write to a store: a live batch, its cleanup, a switch, and a
\* power loss, which is why both chains need their payloads on disk.
LEMMA WritingSteps ==
  ASSUME IInv,
         \/ CommitCells \/ CommitDomain \/ Reconcile \/ CleanupBatch \/ CleanupRollback
         \/ BeginReorg \/ Rollback \/ Flush \/ RecordEvent \/ DomainSync \/ PowerLoss
  PROVE  IInv'
<1>1. /\ Good(db) /\ Good(disk) /\ node \in Chains /\ WriterInv /\ PayloadInv
      /\ db.chain \in Chain /\ Len(db.chain) \in Nat
      /\ job.fork \in Nat /\ job.old \in Chain /\ job.new \in Chain
      /\ job \in [fork : Nat, old : Chain, new : Chain]
  BY LenProperties DEF IInv, Good, Store, WriterInv, Chain
<1>2. CASE CommitCells
  <2>1. /\ pc = "cells" /\ pc' = "domain" /\ UNCHANGED <<node, db, disk, job>>
        /\ cells' = cells \cup Blocks(job.new) /\ synced' = cells'
    BY <1>2, Zenon DEF CommitCells, CommitSynced
  <2>2. PayloadInv'
    BY <1>1, <2>1 DEF PayloadInv
  <2>3. WriterInv'
    BY <1>1, <2>1 DEF WriterInv, Steps
  <2> QED
    BY <1>1, <2>1, <2>2, <2>3 DEF IInv
<1>3. CASE CommitDomain
  <2>1. /\ pc = "domain" /\ pc' = "reconcile" /\ UNCHANGED <<node, disk, cells, synced, job>>
        /\ db' = [db EXCEPT !.chain = job.new]
    BY <1>3, Zenon DEF CommitDomain
  <2>2. Good(db') /\ db'.chain = job.new
    BY <1>1, <2>1, ChainWrite
  <2>3. PayloadInv'
    BY <1>1, <2>1, <2>2 DEF PayloadInv, WriterInv
  <2>4. WriterInv'
    BY <1>1, <2>1, <2>2 DEF WriterInv, Steps
  <2> QED
    BY <1>1, <2>1, <2>2, <2>3, <2>4 DEF IInv
<1>4. CASE Reconcile
  <2>1. /\ pc' = "idle" /\ job' = NoJob /\ UNCHANGED <<node, disk, cells, synced>>
        /\ db' = IF Due(db) THEN Reconciled(db) ELSE db
    BY <1>4, Zenon DEF Reconcile
  <2>2. Good(db') /\ db'.chain = db.chain
    BY <1>1, <2>1, ReconciledWrite
  <2>3. PayloadInv'
    BY <1>1, <2>1, <2>2 DEF PayloadInv
  <2> QED
    BY <1>1, <2>1, <2>2, <2>3, WriterIdle DEF IInv
<1>5. CASE CleanupBatch \/ BeginReorg
  <2>1. /\ pc \in {"cleanup", "begin"} /\ pc' \in {"undo", "rollback"}
        /\ UNCHANGED <<node, disk, cells, synced, job>>
        /\ \E isCleanup \in BOOLEAN : db' = BeginRollback(db, isCleanup, job.fork)
    BY <1>5, ZenonT(60) DEF CleanupBatch, BeginReorg
  <2>2. Good(db') /\ db'.chain = db.chain
    BY <1>1, <2>1, BeginRollbackWrite
  <2>3. PayloadInv'
    BY <1>1, <2>1, <2>2 DEF PayloadInv
  <2>4. WriterInv'
    BY <1>1, <2>1, <2>2 DEF WriterInv, Steps
  <2> QED
    BY <1>1, <2>1, <2>2, <2>3, <2>4 DEF IInv
<1>6. CASE CleanupRollback \/ Rollback
  <2>1. /\ pc \in {"undo", "rollback"} /\ UNCHANGED <<node, disk, cells, synced>>
        /\ \/ pc' = "idle" /\ job' = NoJob
           \/ pc' = "flush" /\ job' = job
        /\ db' = [db EXCEPT !.chain = At(db.chain, job.fork)]
    BY <1>6, Zenon DEF CleanupRollback, Rollback
  <2>2. job.fork \in 0..Len(db.chain)
    BY <1>1, <2>1 DEF WriterInv, Steps
  <2>3. At(db.chain, job.fork) \in Chain /\ Blocks(At(db.chain, job.fork)) \subseteq Blocks(db.chain)
    BY <1>1, <2>2, AtType, AtBlocks, Zenon
  <2>4. Good(db') /\ db'.chain = At(db.chain, job.fork)
    BY <1>1, <2>1, <2>3, ChainWrite
  <2>5. PayloadInv'
    BY <1>1, <2>1, <2>3, <2>4 DEF PayloadInv
  <2>6. WriterInv'
    <3>1. CASE pc' = "idle" /\ job' = NoJob
      BY <1>1, <2>1, <3>1, WriterIdle
    <3>2. CASE pc' = "flush" /\ job' = job
      BY <1>1, <2>1, <3>2 DEF WriterInv, Steps
    <3> QED
      BY <2>1, <3>1, <3>2
  <2> QED
    BY <1>1, <2>1, <2>4, <2>5, <2>6 DEF IInv
<1>7. CASE Flush
  <2>1. /\ pc' = "record" /\ UNCHANGED <<node, db, cells, job>>
        /\ disk' = db /\ synced' = cells
    BY <1>7 DEF Flush
  <2>2. PayloadInv'
    BY <1>1, <2>1 DEF PayloadInv
  <2>3. WriterInv'
    BY <1>1, <2>1, Zenon DEF WriterInv, Steps
  <2> QED
    BY <1>1, <2>1, <2>2, <2>3 DEF IInv
<1>8. CASE RecordEvent
  <2>1. /\ pc' = "idle" /\ job' = NoJob /\ UNCHANGED <<node, disk, cells, synced>>
        /\ db' = Recorded(db, job.fork, job.old, job.new)
    BY <1>8 DEF RecordEvent, Recorded
  <2>2. Good(db') /\ db'.chain = db.chain
    BY <1>1, <2>1, RecordWrite, ZenonT(60)
  <2>3. PayloadInv'
    BY <1>1, <2>1, <2>2 DEF PayloadInv
  <2> QED
    BY <1>1, <2>1, <2>2, <2>3, WriterIdle DEF IInv
<1>9. CASE DomainSync
  <2>1. disk' = db /\ UNCHANGED <<node, db, cells, synced, pc, job>>
    BY <1>9 DEF DomainSync
  <2>2. PayloadInv' /\ WriterInv'
    BY <1>1, <2>1, Zenon DEF PayloadInv, WriterInv
  <2> QED
    BY <1>1, <2>1, <2>2 DEF IInv
<1>10. CASE PowerLoss
  <2>1. /\ db' = disk /\ cells' = synced /\ pc' = "idle" /\ job' = NoJob
        /\ UNCHANGED <<node, disk, synced>>
    BY <1>10, Zenon DEF PowerLoss
  <2>2. PayloadInv'
    BY <1>1, <2>1, Zenon DEF PayloadInv
  <2> QED
    BY <1>1, <2>1, <2>2, WriterIdle DEF IInv
<1> QED
  BY <1>2, <1>3, <1>4, <1>5, <1>6, <1>7, <1>8, <1>9, <1>10

\* Every step keeps the invariant.
LEMMA NextInvariant == IInv /\ [Next]_vars => IInv'
<1> SUFFICES ASSUME IInv, [Next]_vars PROVE IInv'
  OBVIOUS
<1>1. CASE UNCHANGED vars \/ Rest
  <2>1. UNCHANGED vars
    BY <1>1, Zenon DEF Rest
  <2>2. IInv'
    BY <2>1, Zenon DEF vars, IInv, WriterInv, PayloadInv
  <2> QED
    BY <2>2
<1>2. CASE Next /\ ~Rest
  BY <1>2, ReadingSteps, WritingSteps DEF Next, Writer
<1> QED
  BY <1>1, <1>2

\* The invariant holds throughout.
LEMMA Invariant == Spec => []IInv
BY InitInvariant, NextInvariant, PTL DEF Spec

-----------------------------------------------------------------------------
(* The theorems. *)

\* The order of the two commits of a live batch, payloads with an fsync first,
\* keeps every block of the domain chain covered by payloads, before and after
\* any number of crashes and power losses (batch.rs, the commit of a batch).
THEOREM TipHasPayloads == Spec => []TipImpliesPayloads
<1>1. IInv => TipImpliesPayloads
  BY DEF IInv, PayloadInv, TipImpliesPayloads
<1> QED
  BY <1>1, Invariant, PTL

\* begin_rollback, the record of an event and its reconciliation leave the
\* marker on the newest event, and never on an interrupted one.
THEOREM MarkerNamesNewest == Spec => []MarkerIsNewest
<1>1. IInv => MarkerIsNewest
  BY Zenon DEF IInv, Good, Marked, MarkerIsNewest
<1> QED
  BY <1>1, Invariant, PTL

\* reconcile_reorg_events writes both ends of a link, from an earlier to a later
\* event that forks below the earlier one's abandoned tip.
THEOREM LinksAlwaysAgree == Spec => []LinksAgree
<1>1. IInv => LinksAgree
  BY DEF IInv, Good, Linked, LinksAgree
<1> QED
  BY <1>1, Invariant, PTL

-----------------------------------------------------------------------------
(* The marker: the strict checks of reconcile_reorg_events never fail. *)

PendingOf(d) == d.events[d.pending]

\* The chain c holds the fork point of event e, and what replaced its new tip.
HoldsFork(e, c) == e.fork <= Len(e.old) /\ e.fork <= Len(c) /\ At(c, e.fork) = At(e.old, e.fork)
HoldsTip(e, c) ==
  e.superseded # NoHash =>
    Len(e.new) <= Len(c) /\ e.superseded = At(c, Len(e.new)) /\ e.superseded # e.new

Intact(d) == d.pending # 0 => HoldsFork(PendingOf(d), d.chain) /\ HoldsTip(PendingOf(d), d.chain)

\* A batch extends the chain, and cutting it off leaves what the marker needs; a
\* switch cuts at a block of the old branch, after the marker is gone.
JobInv ==
  /\ pc \in {"cells", "domain"} => job.fork = Len(db.chain) /\ At(job.new, job.fork) = db.chain
  /\ pc \in {"cells", "domain", "reconcile", "cleanup", "undo"} /\ db.pending # 0
       => (PendingOf(db).superseded # NoHash => Len(PendingOf(db).new) <= job.fork)
  /\ pc = "undo" /\ db.pending # 0 => PendingOf(db).fork <= job.fork
  /\ pc \in {"search", "tip", "hash", "begin", "rollback"} => job.old = db.chain
  /\ pc \in {"rollback", "flush", "record"} => db.pending = 0
  /\ pc \in {"flush", "record"} => job.fork <= Len(job.old) /\ db.chain = At(job.old, job.fork)

MInv == Intact(db) /\ Intact(disk) /\ JobInv

-----------------------------------------------------------------------------
(* Chains and events. *)

\* A prefix of a prefix is a prefix, and a chain is its own longest one.
LEMMA AtAt ==
  ASSUME NEW c \in Chain, NEW h \in 0..Len(c), NEW k \in 0..h
  PROVE  At(At(c, h), k) = At(c, k) /\ At(c, Len(c)) = c
<1>1. Len(c) \in Nat /\ h \in Nat /\ k \in Nat /\ h <= Len(c) /\ k <= h
  BY LenProperties DEF Chain
<1>2. At(c, Len(c)) = c
  BY <1>1, SubSeqProperties, SeqEqual, LenProperties, ElementOfSeq DEF At, Chain
<1>3. CASE k = 0
  BY <1>3, SubSeqEmpty, <1>2 DEF At
<1>4. CASE k # 0
  <2>1. 1 \in 1..Len(c) /\ h \in 1..Len(c) /\ 1 \in 1..(h - 1 + 1) /\ k \in 1..(h - 1 + 1)
    BY <1>1, <1>4
  <2>2. SubSeq(SubSeq(c, 1, h), 1, k) = SubSeq(c, 1 + 1 - 1, 1 + k - 1)
    BY <2>1, SubSeqOfSubSeq DEF Chain
  <2> QED
    BY <1>1, <1>2, <2>1, <2>2 DEF At
<1> QED
  BY <1>3, <1>4

\* The pending event of a good store has its type.
LEMMA PendingType ==
  ASSUME NEW d, Good(d), d.pending # 0
  PROVE  /\ d.pending \in DOMAIN d.events /\ PendingOf(d) \in Event
         /\ PendingOf(d).fork \in Nat
         /\ PendingOf(d).old \in Chain /\ Len(PendingOf(d).old) \in Nat
         /\ PendingOf(d).new \in Chain /\ Len(PendingOf(d).new) \in Nat
<1>1. /\ d.events \in Seq(Event) /\ d.pending \in 1..Len(d.events)
      /\ DOMAIN d.events = 1..Len(d.events)
  BY LenProperties DEF Good, Store, Marked
<1>2. PendingOf(d) \in Event
  BY <1>1, ElementOfSeq, Zenon DEF PendingOf
<1> QED
  BY <1>1, <1>2, LenProperties, Zenon DEF Event, Chain

\* A write of the chain that keeps its first h blocks, where h is no lower than
\* the pending event needs, keeps the event's blocks.
LEMMA IntactWrite ==
  ASSUME NEW d, Good(d), Intact(d), NEW c \in Chain, NEW h \in 0..Len(d.chain),
         h <= Len(c), At(c, h) = At(d.chain, h),
         d.pending # 0 =>
           /\ PendingOf(d).fork <= h
           /\ PendingOf(d).superseded # NoHash => Len(PendingOf(d).new) <= h
  PROVE  Intact([d EXCEPT !.chain = c])
<1>1. PICK e : e = [d EXCEPT !.chain = c]
  BY ZenonT(60)
<1>2. /\ e.chain = c /\ e.events = d.events /\ e.pending = d.pending
      /\ d.chain \in Chain /\ Len(d.chain) \in Nat /\ Len(c) \in Nat /\ h \in Nat
  BY <1>1, LenProperties DEF Good, Store, Chain
<1>3. ASSUME NEW k \in Nat, k <= h PROVE At(c, k) = At(d.chain, k)
  <2>1. k \in 0..h /\ h \in 0..Len(c)
    BY <1>2, <1>3
  <2>2. At(At(c, h), k) = At(c, k)
    BY <2>1, AtAt
  <2>3. At(At(d.chain, h), k) = At(d.chain, k)
    BY <1>2, <2>1, AtAt
  <2> QED
    BY <2>2, <2>3
<1>4. SUFFICES ASSUME d.pending # 0 PROVE HoldsFork(PendingOf(d), c) /\ HoldsTip(PendingOf(d), c)
  BY <1>1, <1>2, Zenon DEF Intact, PendingOf
<1>5. PICK p : p = PendingOf(d)
  OBVIOUS
<1>6. /\ p.fork \in Nat /\ Len(p.old) \in Nat /\ Len(p.new) \in Nat /\ p.fork <= h
      /\ p.superseded # NoHash => Len(p.new) <= h
      /\ HoldsFork(p, d.chain) /\ HoldsTip(p, d.chain)
  BY <1>4, <1>5, PendingType DEF Intact
<1>7. HoldsFork(p, c)
  BY <1>2, <1>3, <1>6 DEF HoldsFork
<1>8. HoldsTip(p, c)
  BY <1>2, <1>3, <1>6 DEF HoldsTip
<1> QED
  BY <1>5, <1>7, <1>8, Zenon

\* An interrupted event needs nothing any more.
LEMMA BeginRollbackIntact ==
  ASSUME NEW d, Good(d), Intact(d), NEW isCleanup \in BOOLEAN, NEW target \in Nat,
         NEW b, b = BeginRollback(d, isCleanup, target)
  PROVE  /\ Intact(b)
         /\ b.pending # 0 => isCleanup /\ b = d /\ PendingOf(d).fork <= target
<1>1. CASE d.pending = 0 \/ (isCleanup /\ target >= d.events[d.pending].fork)
  <2>1. b = d
    BY <1>1 DEF BeginRollback
  <2>2. d.pending # 0 => PendingOf(d).fork \in Nat
    BY PendingType
  <2> QED
    BY <1>1, <2>1, <2>2 DEF PendingOf
<1>2. CASE ~(d.pending = 0 \/ (isCleanup /\ target >= d.events[d.pending].fork))
  <2>1. b = Interrupt(d)
    BY <1>2 DEF BeginRollback
  <2>2. b.pending = 0
    <3>1. PICK E : E = [d.events EXCEPT ![d.pending].interrupted = TRUE]
      BY Zenon
    <3>2. d \in Store
      BY DEF Good
    <3>3. b = [d EXCEPT !.events = E, !.pending = 0]
      BY <2>1, <3>1, <3>2 DEF Interrupt
    <3> QED
      BY <3>2, <3>3 DEF Store
  <2> QED
    BY <2>2 DEF Intact
<1> QED
  BY <1>1, <1>2, Zenon

\* Reconciliation records what replaced the new tip of the event it keeps.
LEMMA ReconciledIntact ==
  ASSUME NEW d, Good(d), Intact(d), Due(d), ReconcileAccepts(d)
  PROVE  Intact(Reconciled(d))
<1>1. d.pending # 0
  BY DEF Due
<1>2. PICK cur \in Event : cur = PendingOf(d)
  BY <1>1, PendingType, Zenon
<1>3. PICK winning : winning = At(d.chain, Len(cur.new))
  BY Zenon
<1>4. /\ d \in Store /\ d.pending \in DOMAIN d.events /\ d.chain \in Chain
      /\ Len(cur.new) \in Nat /\ Len(d.chain) \in Nat /\ Len(cur.new) <= Len(d.chain)
  BY <1>1, <1>2, PendingType, LenProperties DEF Good, Store, Due, PendingOf, Chain
<1>5. winning \in Chain
  BY <1>3, <1>4, AtType
<1>6. PICK sup \in Chain : sup = IF winning # cur.new THEN winning ELSE cur.superseded
  BY <1>5, Zenon DEF Event
<1>7. PICK rev \in SUBSET Nat : rev = Reverses(d)
  <2>1. Restored(d) \subseteq DOMAIN d.events
    BY DEF Restored, Candidates
  <2>2. DOMAIN d.events \subseteq Nat
    BY <1>4, LenProperties DEF Store
  <2> QED
    BY <1>2, <2>1, <2>2, ZenonT(60) DEF Reverses, Event, PendingOf
<1>8. PICK last : last = [cur EXCEPT !.superseded = sup, !.reverses = rev]
  OBVIOUS
<1>9. /\ last.fork = cur.fork /\ last.old = cur.old /\ last.new = cur.new
      /\ last.superseded = sup
  BY <1>8 DEF Event
<1> DEFINE E == [i \in DOMAIN d.events |->
                   IF i = d.pending THEN last
                   ELSE IF i \in Restored(d) THEN [d.events[i] EXCEPT !.reverted = d.pending]
                   ELSE d.events[i]]
           p == IF \A i \in Candidates(d) : Reached(d, i) THEN 0 ELSE d.pending
<1>10. Reconciled(d) = [d EXCEPT !.events = E, !.pending = p]
  BY <1>2, <1>3, <1>4, <1>6, <1>7, <1>8 DEF Reconciled, Store, PendingOf
<1>11. E[d.pending] = last
  BY <1>4
<1>12. p \in {0, d.pending}
  OBVIOUS
<1> HIDE DEF E, p
<1>13. PICK R : /\ R = Reconciled(d) /\ R.chain = d.chain /\ R.events = E /\ R.pending = p
  BY <1>4, <1>10, ZenonT(60) DEF Store
<1>14. HoldsFork(last, d.chain)
  BY <1>1, <1>2, <1>9 DEF Intact, HoldsFork
<1>15. HoldsTip(last, d.chain)
  <2>1. cur.superseded # NoHash => cur.superseded = winning /\ winning # cur.new
    BY <1>2, <1>3, ZenonT(60) DEF ReconcileAccepts, PendingOf
  <2> QED
    BY <1>3, <1>4, <1>6, <1>9, <2>1 DEF HoldsTip
<1> QED
  BY <1>11, <1>12, <1>13, <1>14, <1>15 DEF Intact, PendingOf

\* A new event finds its fork point at the tip.
LEMMA RecordIntact ==
  ASSUME NEW d, Good(d), NEW old \in Chain, NEW fork \in 0..Len(old), NEW new \in Chain,
         d.chain = At(old, fork)
  PROVE  Intact(Recorded(d, fork, old, new))
<1>1. PICK n : n = NewEvent(fork, old, new)
  OBVIOUS
<1>2. n.fork = fork /\ n.old = old /\ n.superseded = NoHash
  BY <1>1, Zenon DEF NewEvent
<1>3. d \in Store /\ d.events \in Seq(Event) /\ Len(d.events) \in Nat
  BY LenProperties, Zenon DEF Good, Store
<1>4. n \in Event
  <2>1. NoHash \in Chain /\ fork \in Nat
    BY DEF NoHash, Chain
  <2> QED
    BY <1>1, <2>1 DEF NewEvent, Event
<1>5. PICK E : E = Append(d.events, n) /\ E[Len(d.events) + 1] = n
  BY <1>3, <1>4, AppendProperties, ZenonT(60)
<1>6. PICK R : R = Recorded(d, fork, old, new)
  OBVIOUS
<1>7. R.chain = d.chain /\ R.events = E /\ R.pending = Len(d.events) + 1
  <2>1. R = [d EXCEPT !.events = E, !.pending = Len(d.events) + 1]
    BY <1>1, <1>3, <1>5, <1>6 DEF Recorded, Store
  <2> QED
    BY <1>3, <2>1 DEF Store
<1>8. fork \in Nat /\ Len(d.chain) = fork /\ At(d.chain, fork) = At(old, fork)
  <2>1. fork \in 0..fork /\ fork \in Nat
    OBVIOUS
  <2> QED
    BY <2>1, AtType, AtAt
<1>9. HoldsFork(n, d.chain) /\ HoldsTip(n, d.chain)
  BY <1>2, <1>8 DEF HoldsFork, HoldsTip
<1> QED
  BY <1>5, <1>6, <1>7, <1>9 DEF Intact, PendingOf

-----------------------------------------------------------------------------
(* The invariant. *)

\* An idle writer has no job.
LEMMA IdleJob ==
  ASSUME pc' = "idle"
  PROVE  JobInv'
BY DEF JobInv

\* The node's steps and the steps of the writer that only read.
LEMMA ReadingKeeps ==
  ASSUME IInv, MInv,
         \/ NodeGrows \/ NodeSwitches \/ StartBatch \/ WriteFails \/ DetectReorg
         \/ QueryFails \/ FindForkPoint \/ ReadTip \/ ReadTipHash
         \/ NothingOrphaned \/ Crash \/ CommitCells
  PROVE  MInv'
<1>1. /\ Good(db) /\ db.chain \in Chain /\ Len(db.chain) \in Nat
      /\ node \in Chain /\ Len(node) \in Nat /\ job \in [fork : Nat, old : Chain, new : Chain]
  BY LenProperties DEF IInv, Good, Store, WriterInv, Chain
<1>2. UNCHANGED <<db, disk>>
  BY Zenon DEF NodeGrows, NodeSwitches, StartBatch, WriteFails, DetectReorg, QueryFails,
         FindForkPoint, ReadTip, ReadTipHash, NothingOrphaned, Crash, CommitCells
<1>3. Intact(db)' /\ Intact(disk)'
  BY <1>2, ZenonT(60) DEF MInv
<1>4. CASE NodeGrows \/ NodeSwitches
  BY <1>2, <1>3, <1>4 DEF MInv, JobInv, NodeGrows, NodeSwitches
<1>5. CASE QueryFails \/ NothingOrphaned \/ Crash
  BY <1>3, <1>5, IdleJob DEF MInv, QueryFails, NothingOrphaned, Crash
<1>6. CASE WriteFails
  <2>1. pc' = "cleanup" /\ pc \in {"cells", "domain", "reconcile"} /\ job' = job
    BY <1>6, Zenon DEF WriteFails
  <2> QED
    BY <1>2, <1>3, <2>1 DEF MInv, JobInv
<1>7. CASE CommitCells
  <2>1. pc' = "domain" /\ pc = "cells" /\ job' = job
    BY <1>7, Zenon DEF CommitCells
  <2> QED
    BY <1>2, <1>3, <2>1 DEF MInv, JobInv
<1>8. CASE StartBatch
  <2>1. PICK n \in 1..MaxBatch :
          /\ Len(db.chain) + n <= Len(node)
          /\ job' = [NoJob EXCEPT !.fork = Len(db.chain), !.new = At(node, Len(db.chain) + n)]
    BY <1>8, Zenon DEF StartBatch
  <2>2. PICK h \in 0..Len(node) : h = Len(db.chain) + n /\ Len(db.chain) \in 0..h
    BY <1>1, <2>1
  <2>3. job'.fork = Len(db.chain) /\ job'.new = At(node, h) /\ pc' = "cells"
    BY <1>8, <2>1, <2>2, ZenonT(60) DEF StartBatch, NoJob
  <2>4. At(node, Len(db.chain)) = db.chain
    <3>1. IsPrefix(db.chain, node)
      BY <1>8, Zenon DEF StartBatch, IsStrictPrefix
    <3>2. At(db.chain, Len(db.chain)) = db.chain
      BY <1>1, AtAt
    <3> QED
      BY <3>1, <3>2 DEF IsPrefix, At
  <2>5. At(At(node, h), Len(db.chain)) = db.chain
    BY <1>1, <2>2, <2>4, AtAt, Zenon
  <2>6. db.pending # 0 /\ PendingOf(db).superseded # NoHash
          => Len(PendingOf(db).new) <= Len(db.chain)
    BY DEF MInv, Intact, HoldsTip
  <2> QED
    BY <1>2, <1>3, <2>3, <2>5, <2>6 DEF MInv, JobInv
<1>9. CASE DetectReorg
  <2>1. pc' = "search" /\ job'.old = db.chain
    BY <1>9, Zenon DEF DetectReorg, NoJob
  <2> QED
    BY <1>2, <1>3, <2>1 DEF MInv, JobInv
<1>10. CASE FindForkPoint \/ ReadTip \/ ReadTipHash
  <2>1. /\ pc \in {"search", "tip", "hash"} /\ pc' \in {"search", "tip", "hash", "begin"}
        /\ job'.old = job.old
    BY <1>1, <1>10 DEF FindForkPoint, ReadTip, ReadTipHash
  <2> QED
    BY <1>2, <1>3, <2>1, Zenon DEF MInv, JobInv
<1> QED
  BY <1>4, <1>5, <1>6, <1>7, <1>8, <1>9, <1>10

\* While the marker is intact, the strict checks accept it.
LEMMA IntactAccepts ==
  ASSUME NEW d, Intact(d), Due(d)
  PROVE  ReconcileAccepts(d)
BY DEF Intact, HoldsFork, HoldsTip, PendingOf, Due, ReconcileAccepts

\* The steps that write the store or flush it, and the loss of what was not.
LEMMA WritingKeeps ==
  ASSUME IInv, MInv,
         \/ CommitDomain \/ Reconcile \/ CleanupBatch \/ CleanupRollback
         \/ BeginReorg \/ Rollback \/ Flush \/ RecordEvent \/ DomainSync \/ PowerLoss
  PROVE  MInv'
<1>1. /\ Good(db) /\ WriterInv /\ Intact(db) /\ Intact(disk) /\ JobInv
      /\ db.chain \in Chain /\ Len(db.chain) \in Nat
      /\ job.fork \in Nat /\ job.old \in Chain /\ job.new \in Chain
      /\ job \in [fork : Nat, old : Chain, new : Chain]
      /\ db \in Store
  BY LenProperties, Zenon DEF IInv, MInv, Good, Store, WriterInv, Chain
<1>2. At(db.chain, Len(db.chain)) = db.chain
  BY <1>1, AtAt
<1>3. CASE CommitDomain
  <2>1. /\ pc = "domain" /\ pc' = "reconcile" /\ disk' = disk /\ job' = job
        /\ db' = [db EXCEPT !.chain = job.new]
    BY <1>3, Zenon DEF CommitDomain
  <2>2. /\ job.fork = Len(db.chain) /\ At(job.new, job.fork) = db.chain
        /\ db.pending # 0 /\ PendingOf(db).superseded # NoHash
             => Len(PendingOf(db).new) <= job.fork
    BY <1>1, <2>1 DEF JobInv
  <2>3. job.fork <= Len(job.new)
    BY <1>1, <2>1 DEF WriterInv, Steps
  <2>4. db.pending # 0 => PendingOf(db).fork <= job.fork
    BY <1>1, <2>2, Zenon DEF Intact, HoldsFork
  <2>5. job.fork \in 0..Len(db.chain) /\ At(job.new, job.fork) = At(db.chain, job.fork)
    BY <1>1, <1>2, <2>2
  <2>6. Intact([db EXCEPT !.chain = job.new])
    BY <1>1, <2>2, <2>3, <2>4, <2>5, IntactWrite, Zenon
  <2>7. db'.pending = db.pending /\ PendingOf(db)' = PendingOf(db)
    BY <1>1, <2>1, Zenon DEF PendingOf, Store
  <2>8. JobInv'
    BY <2>1, <2>2, <2>7 DEF JobInv
  <2> QED
    BY <1>1, <2>1, <2>6, <2>8, Zenon DEF MInv
<1>4. CASE Reconcile
  <2>1. pc' = "idle" /\ disk' = disk /\ db' = IF Due(db) THEN Reconciled(db) ELSE db
    BY <1>4, Zenon DEF Reconcile
  <2>2. Intact(db')
    <3>1. CASE Due(db)
      BY <1>1, <2>1, <3>1, IntactAccepts, ReconciledIntact
    <3>2. CASE ~Due(db)
      BY <1>1, <2>1, <3>2
    <3> QED
      BY <3>1, <3>2, Zenon
  <2> QED
    BY <1>1, <2>1, <2>2, IdleJob DEF MInv
<1>5. CASE CleanupBatch
  <2>1. /\ pc = "cleanup" /\ pc' = "undo" /\ disk' = disk /\ job' = job
        /\ db' = BeginRollback(db, TRUE, job.fork)
    BY <1>5 DEF CleanupBatch
  <2>2. Intact(db') /\ (db'.pending # 0 => db' = db /\ PendingOf(db).fork <= job.fork)
    BY <1>1, <2>1, BeginRollbackIntact, ZenonT(60)
  <2>3. JobInv'
    <3>1. CASE db'.pending = 0
      BY <2>1, <3>1, Zenon DEF JobInv
    <3>2. CASE db'.pending # 0
      BY <1>1, <2>1, <2>2, <3>2, Zenon DEF JobInv
    <3> QED
      BY <3>1, <3>2
  <2> QED
    BY <1>1, <2>1, <2>2, <2>3, Zenon DEF MInv
<1>6. CASE CleanupRollback
  <2>1. /\ pc = "undo" /\ pc' = "idle" /\ disk' = disk
        /\ db' = [db EXCEPT !.chain = At(db.chain, job.fork)]
    BY <1>6, Zenon DEF CleanupRollback
  <2>2. job.fork \in 0..Len(db.chain)
    BY <1>1, <2>1 DEF WriterInv, Steps
  <2>3. db.pending # 0 =>
          /\ PendingOf(db).fork <= job.fork
          /\ PendingOf(db).superseded # NoHash => Len(PendingOf(db).new) <= job.fork
    BY <1>1, <2>1, Zenon DEF JobInv
  <2>4. PICK c \in Chain : c = At(db.chain, job.fork) /\ Len(c) = job.fork
    BY <1>1, <2>2, AtType
  <2>5. job.fork \in 0..job.fork
    BY <1>1
  <2>6. At(c, job.fork) = At(db.chain, job.fork)
    BY <1>1, <2>2, <2>4, <2>5, AtAt
  <2>7. job.fork <= Len(c)
    BY <1>1, <2>4
  <2>8. Intact([db EXCEPT !.chain = c])
    BY <1>1, <2>2, <2>3, <2>6, <2>7, IntactWrite
  <2> QED
    BY <1>1, <2>1, <2>4, <2>8, IdleJob DEF MInv
<1>7. CASE BeginReorg
  <2>1. /\ pc = "begin" /\ pc' = "rollback" /\ disk' = disk /\ job' = job
        /\ db' = BeginRollback(db, FALSE, job.fork)
    BY <1>7 DEF BeginReorg
  <2>2. Intact(db') /\ db'.pending = 0
    BY <1>1, <2>1, BeginRollbackIntact, ZenonT(60)
  <2>3. db'.chain = db.chain
    BY <1>1, <2>1, BeginRollbackWrite, ZenonT(60)
  <2>4. job.old = db.chain
    BY <1>1, <2>1 DEF JobInv
  <2>5. JobInv'
    BY <2>1, <2>2, <2>3, <2>4, ZenonT(60) DEF JobInv
  <2> QED
    BY <1>1, <2>1, <2>2, <2>5, Zenon DEF MInv
<1>8. CASE Rollback
  <2>1. /\ pc = "rollback" /\ pc' = "flush" /\ disk' = disk /\ job' = job
        /\ db' = [db EXCEPT !.chain = At(db.chain, job.fork)]
    BY <1>8, Zenon DEF Rollback
  <2>2. db.pending = 0 /\ job.old = db.chain
    BY <1>1, <2>1 DEF JobInv
  <2>3. job.fork <= Len(db.chain)
    BY <1>1, <2>1 DEF WriterInv, Steps
  <2>4. db'.pending = 0 /\ db'.chain = At(job.old, job.fork)
    BY <1>1, <2>1, <2>2 DEF Store
  <2>5. Intact(db') /\ JobInv'
    BY <2>1, <2>2, <2>3, <2>4 DEF Intact, JobInv
  <2> QED
    BY <1>1, <2>1, <2>5 DEF MInv
<1>9. CASE Flush
  <2>1. pc = "flush" /\ pc' = "record" /\ disk' = db /\ UNCHANGED <<db, job>>
    BY <1>9, Zenon DEF Flush
  <2>2. JobInv'
    BY <1>1, <2>1 DEF JobInv
  <2> QED
    BY <1>1, <2>1, <2>2 DEF MInv
<1>10. CASE RecordEvent
  <2>1. /\ pc = "record" /\ pc' = "idle" /\ disk' = disk
        /\ db' = Recorded(db, job.fork, job.old, job.new)
    BY <1>10, Zenon DEF RecordEvent, Recorded
  <2>2. job.fork <= Len(job.old) /\ db.chain = At(job.old, job.fork)
    BY <1>1, <2>1 DEF JobInv
  <2>3. job.fork \in 0..Len(job.old)
    BY <1>1, <2>2, LenProperties DEF Chain
  <2>4. Intact(db')
    BY <1>1, <2>1, <2>2, <2>3, RecordIntact, Zenon
  <2> QED
    BY <1>1, <2>1, <2>4, IdleJob DEF MInv
<1>11. CASE DomainSync
  <2>1. disk' = db /\ UNCHANGED <<db, pc, job>>
    BY <1>11, Zenon DEF DomainSync
  <2> QED
    BY <1>1, <2>1 DEF MInv, JobInv
<1>12. CASE PowerLoss
  <2>1. db' = disk /\ disk' = disk /\ pc' = "idle"
    BY <1>12 DEF PowerLoss
  <2> QED
    BY <1>1, <2>1, IdleJob DEF MInv
<1> QED
  BY <1>3, <1>4, <1>5, <1>6, <1>7, <1>8, <1>9, <1>10, <1>11, <1>12

\* MInv is inductive relative to IInv.
LEMMA MarkerInvariant == Spec => []MInv
<1>1. Init => MInv
  <2> SUFFICES ASSUME Init PROVE MInv
    OBVIOUS
  <2>1. db.pending = 0 /\ disk.pending = 0 /\ pc = "idle"
    BY DEF Init
  <2> QED
    BY <2>1 DEF MInv, Intact, JobInv
<1>2. IInv /\ MInv /\ [Next]_vars => MInv'
  <2> SUFFICES ASSUME IInv, MInv, [Next]_vars PROVE MInv'
    BY Zenon
  <2>1. CASE UNCHANGED vars \/ Rest
    <3>1. UNCHANGED vars
      BY <2>1, Zenon DEF Rest
    <3> QED
      BY <3>1, Zenon DEF vars, MInv, JobInv
  <2>2. CASE Next /\ ~Rest
    BY <2>2, ReadingKeeps, WritingKeeps DEF Next, Writer
  <2> QED
    BY <2>1, <2>2
<1> QED
  BY <1>1, <1>2, Invariant, PTL DEF Spec

\* The strict checks of reconcile_reorg_events never fail: whenever an event is
\* due, the chain holds its fork point and the block recorded as the successor
\* of its new tip, however batches, switches, failures and losses interleave.
THEOREM MarkerAlwaysAccepted == Spec => []MarkerOutlivesNothing
<1>1. MInv => MarkerOutlivesNothing
  BY IntactAccepts DEF MInv, MarkerOutlivesNothing
<1> QED
  BY <1>1, MarkerInvariant, PTL

-----------------------------------------------------------------------------
(* Links are true, and a power loss brings none back. *)

\* Store e has the events of store d, with their links, and new links only of
\* events whose abandoned tip the chain of d holds.
Keeps(d, e) ==
  /\ Len(d.events) <= Len(e.events)
  /\ \A i \in DOMAIN d.events :
       \/ e.events[i].reverted = d.events[i].reverted
       \/ d.events[i].reverted = 0 /\ IsPrefix(d.events[i].old, d.chain)

\* The store in use has every link of the store on disk.
HistoryInv ==
  /\ Len(disk.events) <= Len(db.events)
  /\ \A i \in DOMAIN disk.events :
       disk.events[i].reverted # 0 => db.events[i].reverted = disk.events[i].reverted

\* A write that leaves the events alone.
LEMMA EventsKept ==
  ASSUME NEW d, Good(d), NEW e, e.events = d.events
  PROVE  Keeps(d, e)
BY LenProperties DEF Good, Store, Keeps

\* begin_rollback changes no link.
LEMMA BeginRollbackKeeps ==
  ASSUME NEW d, Good(d), NEW isCleanup, NEW target
  PROVE  Keeps(d, BeginRollback(d, isCleanup, target))
<1>1. CASE BeginRollback(d, isCleanup, target) = d
  BY <1>1, EventsKept
<1>2. CASE d.pending # 0 /\ BeginRollback(d, isCleanup, target) = Interrupt(d)
  <2> DEFINE E == [d.events EXCEPT ![d.pending].interrupted = TRUE]
  <2>1. /\ d \in Store /\ d.events \in Seq(Event) /\ Len(d.events) \in Nat
        /\ d.pending \in 1..Len(d.events) /\ DOMAIN d.events = 1..Len(d.events)
    BY <1>2, LenProperties DEF Good, Store, Marked
  <2>2. \A i \in 1..Len(d.events) : d.events[i] \in Event
    BY <2>1, ElementOfSeq
  <2>3. [d.events[d.pending] EXCEPT !.interrupted = TRUE] \in Event
    BY <2>1, <2>2, ZenonT(60) DEF Event
  <2>4. Len(E) = Len(d.events)
    BY <2>1, <2>3, ExceptSeq
  <2>5. \A i \in DOMAIN d.events : E[i].reverted = d.events[i].reverted
    BY <2>1, <2>2, Zenon DEF Event
  <2>6. Interrupt(d).events = E
    BY <2>1 DEF Interrupt, Store
  <2> QED
    BY <1>2, <2>1, <2>4, <2>5, <2>6 DEF Keeps
<1> QED
  BY <1>1, <1>2, Zenon DEF BeginRollback

\* reconcile_reorg_events links an event only once, and only when its old tip is
\* an ancestor of the stored tip.
LEMMA ReconciledKeeps ==
  ASSUME NEW d, Good(d), Due(d)
  PROVE  Keeps(d, Reconciled(d))
<1>1. PICK R : R = Reconciled(d)
  BY Zenon
<1>2. /\ Len(R.events) = Len(d.events)
      /\ \A i \in DOMAIN d.events :
           R.events[i].reverted = IF i \in Restored(d) THEN d.pending ELSE d.events[i].reverted
  BY <1>1, ReconciledEvents
<1>3. \A i \in Restored(d) : d.events[i].reverted = 0 /\ IsPrefix(d.events[i].old, d.chain)
  BY Zenon DEF Restored, Candidates
<1>4. Len(d.events) \in Nat
  BY LenProperties DEF Good, Store
<1>5. Len(d.events) <= Len(R.events)
  BY <1>2, <1>4
<1> QED
  BY <1>1, <1>2, <1>3, <1>5, Zenon DEF Keeps

\* record_reorg_event appends.
LEMMA RecordKeeps ==
  ASSUME NEW d, Good(d), NEW fork \in Nat, NEW old \in Chain, NEW new \in Chain
  PROVE  Keeps(d, Recorded(d, fork, old, new))
<1>1. /\ d \in Store /\ d.events \in Seq(Event) /\ Len(d.events) \in Nat
      /\ DOMAIN d.events = 1..Len(d.events)
  BY LenProperties, Zenon DEF Good, Store
<1>2. PICK n \in Event : n = NewEvent(fork, old, new)
  <2>1. NoHash \in Chain
    BY DEF NoHash, Chain
  <2> QED
    BY <2>1, Zenon DEF NewEvent, Event
<1>3. PICK E : E = Append(d.events, n)
  BY Zenon
<1>4. Len(E) = Len(d.events) + 1 /\ \A i \in 1..Len(d.events) : E[i] = d.events[i]
  BY <1>1, <1>2, <1>3, AppendProperties
<1>5. Recorded(d, fork, old, new).events = E
  BY <1>1, <1>2, <1>3, Zenon DEF Recorded, Store
<1> QED
  BY <1>1, <1>4, <1>5 DEF Keeps

\* A step keeps the events and their links and moves the disk to the store in
\* use or not at all, or it is a power loss.
LEMMA StepKeeps ==
  ASSUME IInv, [Next]_vars
  PROVE  \/ db' = disk /\ disk' = disk
         \/ Keeps(db, db') /\ disk' = disk
         \/ db' = db /\ disk' = db
<1>1. /\ Good(db) /\ db \in Store /\ job.fork \in Nat /\ job.old \in Chain /\ job.new \in Chain
  BY DEF IInv, Good, WriterInv
<1>2. CASE UNCHANGED <<db, disk>>
  BY <1>1, <1>2, EventsKept, Zenon
<1>3. CASE CommitDomain \/ CleanupRollback \/ Rollback
  <2>1. disk' = disk /\ \E c : db' = [db EXCEPT !.chain = c]
    BY <1>3, Zenon DEF CommitDomain, CleanupRollback, Rollback
  <2>2. db'.events = db.events
    BY <1>1, <2>1, Zenon DEF Store
  <2> QED
    BY <1>1, <2>1, <2>2, EventsKept, Zenon
<1>4. CASE Reconcile
  <2>1. disk' = disk /\ db' = IF Due(db) THEN Reconciled(db) ELSE db
    BY <1>4, Zenon DEF Reconcile
  <2> QED
    BY <1>1, <1>2, <2>1, ReconciledKeeps, Zenon
<1>5. CASE CleanupBatch \/ BeginReorg
  <2>1. disk' = disk /\ \E isCleanup : db' = BeginRollback(db, isCleanup, job.fork)
    BY <1>5, Zenon DEF CleanupBatch, BeginReorg
  <2> QED
    BY <1>1, <2>1, BeginRollbackKeeps, Zenon
<1>6. CASE Flush \/ DomainSync
  BY <1>6, Zenon DEF Flush, DomainSync
<1>7. CASE RecordEvent
  <2>1. disk' = disk /\ db' = Recorded(db, job.fork, job.old, job.new)
    BY <1>7, Zenon DEF RecordEvent, Recorded
  <2> QED
    BY <1>1, <2>1, RecordKeeps, Zenon
<1>8. CASE PowerLoss
  BY <1>8, Zenon DEF PowerLoss
<1>9. CASE \/ UNCHANGED vars \/ Rest \/ NodeGrows \/ NodeSwitches \/ StartBatch \/ CommitCells
           \/ WriteFails \/ DetectReorg \/ QueryFails
  BY <1>2, <1>9, Zenon DEF vars, Rest, NodeGrows, NodeSwitches, StartBatch, CommitCells,
     WriteFails, DetectReorg, QueryFails
<1>10. CASE \/ FindForkPoint \/ ReadTip \/ ReadTipHash \/ NothingOrphaned \/ Crash
  BY <1>2, <1>10, Zenon DEF FindForkPoint, ReadTip, ReadTipHash, NothingOrphaned, Crash
<1> QED
  BY <1>3, <1>4, <1>5, <1>6, <1>7, <1>8, <1>9, <1>10, ZenonT(60) DEF Next, Writer

\* No link of the disk is lost in the store, and none is replaced.
LEMMA HistoryKept ==
  ASSUME IInv, HistoryInv, [Next]_vars
  PROVE  HistoryInv'
<1>1. /\ db.events \in Seq(Event) /\ disk.events \in Seq(Event)
      /\ Len(db.events) \in Nat /\ Len(disk.events) \in Nat
      /\ DOMAIN db.events = 1..Len(db.events) /\ DOMAIN disk.events = 1..Len(disk.events)
  BY LenProperties DEF IInv, Good, Store
<1>2. CASE db' = disk /\ disk' = disk
  BY <1>1, <1>2 DEF HistoryInv
<1>3. CASE db' = db /\ disk' = db
  BY <1>1, <1>3 DEF HistoryInv
<1>4. CASE Keeps(db, db') /\ disk' = disk
  <2>1. Len(db'.events) \in Nat
    <3>1. Good(db')
      BY NextInvariant DEF IInv
    <3> QED
      BY <3>1, LenProperties DEF Good, Store
  <2>2. Len(disk'.events) <= Len(db'.events)
    BY <1>1, <1>4, <2>1 DEF HistoryInv, Keeps
  <2>3. ASSUME NEW i \in DOMAIN disk.events, disk.events[i].reverted # 0
        PROVE  db'.events[i].reverted = disk.events[i].reverted
    <3>1. i \in DOMAIN db.events
      BY <1>1, <2>3 DEF HistoryInv
    <3>2. db.events[i].reverted = disk.events[i].reverted
      BY <2>3, Zenon DEF HistoryInv
    <3> QED
      BY <1>4, <2>3, <3>1, <3>2, Zenon DEF Keeps
  <2> QED
    BY <1>4, <2>2, <2>3, Zenon DEF HistoryInv
<1> QED
  BY <1>2, <1>3, <1>4, StepKeeps, Zenon

\* reconcile_reorg_events adds a link only while the abandoned tip is canonical
\* again; no crash, power loss or later switch makes a link appear or change.
THEOREM LinksAlwaysTrue == Spec => LinksAreTrue
<1>1. Init => HistoryInv
  BY DEF Init, HistoryInv
<1>2. IInv /\ HistoryInv /\ [Next]_vars => HistoryInv'
  BY HistoryKept
<1>3. IInv /\ HistoryInv /\ [Next]_vars =>
        [\A i \in DOMAIN db.events :
           i \in DOMAIN db'.events /\ db'.events[i].reverted # db.events[i].reverted
             /\ db'.events[i].reverted # 0
           => IsPrefix(db.events[i].old, db.chain)]_vars
  <2> SUFFICES ASSUME IInv, HistoryInv, [Next]_vars, NEW i \in DOMAIN db.events,
                      i \in DOMAIN db'.events, db'.events[i].reverted # db.events[i].reverted,
                      db'.events[i].reverted # 0
               PROVE  IsPrefix(db.events[i].old, db.chain)
    BY Zenon
  <2>1. CASE db' = disk
    BY <2>1, Zenon DEF HistoryInv
  <2>2. CASE Keeps(db, db')
    BY <2>2, Zenon DEF Keeps
  <2> QED
    BY <2>1, <2>2, StepKeeps, Zenon
<1> QED
  BY <1>1, <1>2, <1>3, Invariant, PTL DEF Spec, LinksAreTrue

=============================================================================
