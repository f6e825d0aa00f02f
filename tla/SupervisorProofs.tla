-------------------------- MODULE SupervisorProofs --------------------------
(***************************************************************************)
(* What the supervisor's three tasks keep, for any number of children,     *)
(* networks, exits and ticks: the mutex, the stopped list, the gate of the *)
(* sequencer and the limits on respawns.                                   *)
(***************************************************************************)
EXTENDS SupervisorMonitorProofs

\* A leaf that cites no prover goes to SMT, for at most a minute.
USE SMTT(60)

-----------------------------------------------------------------------------
(* The sequencer. *)

SeqType == [pc : {"poll", "gate", "check", "spawn", "list", "stop", "gone", "failed"},
            i : Nat, past : BOOLEAN, tries : Nat]

\* The sequencer's steps up to the spawn, and its returns: it moves on with the
\* gate it has seen open, and it holds no child.
LEMMA SequencerWaits ==
  ASSUME TInv, GateInv,
         SeqReturns \/ SeqPoll \/ SeqGate \/ SeqCheck \/ SeqSpawnFails
  PROVE  /\ seq' \in SeqType /\ seq'.i >= 2 /\ held = <<>>
         /\ seq'.pc \in {"gate", "check", "spawn", "list", "stop"} => seq'.i <= Networks
         /\ seq'.pc = "gate" /\ seq'.past => seq'.i - 1 \in past
         /\ seq'.pc \in {"check", "spawn", "list", "stop"} => seq'.i - 1 \in past
<1>1. seq \in SeqType /\ seq.i >= 2 /\ Networks \in Nat
  BY Numbers DEF TInv, SeqInv, SeqType
<1>2. PICK i \in Nat, t \in Nat : i = seq.i /\ t = seq.tries
  BY <1>1, Zenon DEF SeqType
<1>3. held = <<>>
  BY ZenonT(60) DEF TInv, SeqInv, SeqReturns, SeqPoll, SeqGate, SeqCheck, SeqSpawnFails
<1>4. CASE SeqReturns
  <2>1. seq' = [pc |-> "gone", i |-> i, past |-> FALSE, tries |-> 0]
    BY <1>2, <1>4, Zenon DEF SeqReturns, SeqGone
  <2> QED
    BY <1>1, <1>2, <1>3, <2>1, Zenon DEF SeqType
<1>5. CASE SeqPoll
  <2>1. PICK sample \in Samples : seq' = [seq EXCEPT !.pc = "gate", !.past = sample]
    BY <1>5, Zenon DEF SeqPoll
  <2>2. sample \in BOOLEAN /\ (sample => seq.i - 1 \in past)
    <3>1. sample = (seq.i - 1 \in past) \/ sample = FALSE
      BY <2>1, Zenon DEF Samples
    <3>2. (seq.i - 1 \in past) \in BOOLEAN /\ FALSE \in BOOLEAN
      OBVIOUS
    <3> QED
      BY <3>1, <3>2, Zenon
  <2>3. seq' = [pc |-> "gate", i |-> i, past |-> sample, tries |-> t]
    BY <1>1, <1>2, <2>1, ZenonT(60) DEF SeqType
  <2>4. seq.i <= Networks
    BY <1>5, Zenon DEF SeqPoll
  <2>5. seq' \in SeqType /\ seq'.pc = "gate" /\ seq'.i = i
    BY <2>2, <2>3, Zenon DEF SeqType
  <2>6. seq'.past => sample
    BY <2>2, <2>3, Zenon
  <2> QED
    BY <1>1, <1>2, <1>3, <2>2, <2>4, <2>5, <2>6
<1>6. CASE SeqGate
  <2>1. PICK p \in {"check", "poll"} :
          /\ p = IF seq.past /\ ~children[Slot(seq.i - 1)].blocked THEN "check" ELSE "poll"
    OBVIOUS
  <2>2. seq' = [seq EXCEPT !.past = FALSE, !.pc = p]
    BY <1>6, <2>1 DEF SeqGate
  <2>3. seq' = [pc |-> p, i |-> i, past |-> FALSE, tries |-> t]
    BY <1>1, <1>2, <2>2, Zenon DEF SeqType
  <2>4. seq.i <= Networks /\ (p = "check" => seq.i - 1 \in past)
    BY <1>6, <2>1 DEF SeqGate, TInv, SeqInv, GateInv
  <2> QED
    BY <1>1, <1>2, <1>3, <2>1, <2>3, <2>4 DEF SeqType
<1>7. CASE SeqCheck
  <2>1. seq.i <= Networks /\ seq.i - 1 \in past
    BY <1>7 DEF SeqCheck, TInv, SeqInv, GateInv
  <2>2. CASE requested
    <3>1. \/ seq' = [pc |-> "gone", i |-> i, past |-> FALSE, tries |-> 0]
          \/ seq' = [pc |-> "poll", i |-> i + 1, past |-> FALSE, tries |-> 0]
      BY <1>2, <1>7, <2>2, Zenon DEF SeqCheck, SeqNext, SeqGone
    <3>2. seq' \in SeqType /\ seq'.pc \in {"gone", "poll"} /\ seq'.i >= 2
      <4>1. CASE seq' = [pc |-> "gone", i |-> i, past |-> FALSE, tries |-> 0]
        BY <1>1, <1>2, <4>1, Zenon DEF SeqType
      <4>2. CASE seq' = [pc |-> "poll", i |-> i + 1, past |-> FALSE, tries |-> 0]
        BY <1>1, <1>2, <4>2 DEF SeqType
      <4> QED
        BY <3>1, <4>1, <4>2, Zenon
    <3> QED
      BY <1>3, <3>2, Zenon
  <2>3. CASE ~requested
    <3>1. PICK p \in {"spawn", "failed"} : p = IF InOrder THEN "spawn" ELSE "failed"
      OBVIOUS
    <3>2. seq' = [seq EXCEPT !.pc = p]
      BY <1>7, <2>3, <3>1, Zenon DEF SeqCheck, SeqAt
    <3>3. seq' \in SeqType /\ seq'.pc = p /\ seq'.i = i
      BY <1>1, <1>2, <3>1, <3>2, ZenonT(60) DEF SeqType
    <3> QED
      BY <1>1, <1>2, <1>3, <2>1, <3>1, <3>3, ZenonT(60)
  <2> QED
    BY <2>2, <2>3
<1>8. CASE SeqSpawnFails
  <2>1. seq.i <= Networks /\ seq.i - 1 \in past /\ seq.pc = "spawn"
    BY <1>8 DEF SeqSpawnFails, TInv, SeqInv, GateInv
  <2>2. \/ seq' = [seq EXCEPT !.tries = t + 1]
        \/ seq' = [seq EXCEPT !.pc = "poll", !.tries = 0]
    BY <1>2, <1>8, Zenon DEF SeqSpawnFails, Parked
  <2>3. seq' \in SeqType /\ seq'.pc \in {"spawn", "poll"} /\ seq'.i = i
    <3>1. CASE seq' = [seq EXCEPT !.tries = t + 1]
      <4>1. seq' = [pc |-> "spawn", i |-> i, past |-> seq.past, tries |-> t + 1]
        BY <1>1, <1>2, <2>1, <3>1, ZenonT(60) DEF SeqType
      <4> QED
        BY <1>1, <1>2, <4>1 DEF SeqType
    <3>2. CASE seq' = [seq EXCEPT !.pc = "poll", !.tries = 0]
      BY <1>1, <1>2, <3>2, Zenon DEF SeqType
    <3> QED
      BY <2>2, <3>1, <3>2, Zenon
  <2> QED
    BY <1>1, <1>2, <1>3, <2>1, <2>3
<1> QED
  BY <1>4, <1>5, <1>6, <1>7, <1>8

\* The steps with a spawned child in hand.
LEMMA SequencerHolds ==
  ASSUME TInv, GateInv, SeqSpawns \/ SeqList \/ SeqStop
  PROVE  /\ seq' \in SeqType /\ seq'.i >= 2 /\ HeldOK' /\ seq.i <= Networks
         /\ seq'.pc \in {"list", "stop", "gone", "failed", "poll"}
         /\ seq'.pc \in {"list", "stop"} => seq'.i = seq.i
         /\ held' # <<>> => /\ seq'.i = seq.i /\ seq'.pc \in {"list", "stop"}
                            /\ held'[1].restarts = <<>> /\ held'[1].handoffs = <<>>
         /\ seq.i - 1 \in past
<1>1. seq \in SeqType /\ seq.i >= 2 /\ Networks \in Nat
  BY Numbers, Zenon DEF TInv, SeqInv, SeqType
<1>2. PICK i \in Nat, t \in Nat : i = seq.i /\ t = seq.tries
  BY <1>1, Zenon DEF SeqType
<1>3. seq.i <= Networks /\ seq.i - 1 \in past
  BY Zenon DEF SeqSpawns, SeqList, SeqStop, TInv, SeqInv, GateInv
<1>4. CASE SeqSpawns
  <2>1. Spawned \in Child /\ Spawned.restarts = <<>> /\ Spawned.handoffs = <<>>
    BY SpawnedType DEF TInv, OthersOK
  <2>2. held' = <<Spawned>>
    BY <1>4, Zenon DEF SeqSpawns
  <2>3. HeldOK' /\ held'[1] = Spawned
    BY <2>1, <2>2 DEF HeldOK
  <2>4. seq' = [seq EXCEPT !.pc = "list", !.tries = 0]
    BY <1>4 DEF SeqSpawns
  <2>5. seq' \in SeqType /\ seq'.pc = "list" /\ seq'.i = i
    BY <1>1, <1>2, <2>4, Zenon DEF SeqType
  <2> QED
    BY <1>1, <1>2, <1>3, <2>1, <2>3, <2>5
<1>5. CASE SeqList /\ (requested \/ ~InOrder)
  <2>1. seq' = [seq EXCEPT !.pc = "stop"] /\ held' = held
    BY <1>5 DEF SeqList, SeqAt
  <2>2. seq' \in SeqType /\ seq'.pc = "stop" /\ seq'.i = i
    BY <1>1, <1>2, <2>1, Zenon DEF SeqType
  <2>3. HeldOK' /\ (held' # <<>> => held'[1].restarts = <<>> /\ held'[1].handoffs = <<>>)
    BY <2>1 DEF TInv, HeldOK, SeqInv
  <2> QED
    BY <1>1, <1>2, <1>3, <2>2, <2>3
<1>6. CASE SeqStop \/ (SeqList /\ ~(requested \/ ~InOrder))
  <2>1. held' = <<>> /\ (seq' = SeqNext \/ seq' = [seq EXCEPT !.pc = "failed"])
    BY <1>6 DEF SeqStop, SeqList, SeqAt
  <2>2. HeldOK'
    BY <2>1, EmptySeq DEF HeldOK
  <2>3. CASE seq' = SeqNext
    <3>1. \/ seq' = [pc |-> "gone", i |-> i, past |-> FALSE, tries |-> 0]
          \/ seq' = [pc |-> "poll", i |-> i + 1, past |-> FALSE, tries |-> 0]
      BY <1>2, <2>3, Zenon DEF SeqNext, SeqGone
    <3>2. seq' \in SeqType /\ seq'.pc \in {"gone", "poll"} /\ seq'.i >= 2
      <4>1. CASE seq' = [pc |-> "gone", i |-> i, past |-> FALSE, tries |-> 0]
        BY <1>1, <1>2, <4>1, Zenon DEF SeqType
      <4>2. CASE seq' = [pc |-> "poll", i |-> i + 1, past |-> FALSE, tries |-> 0]
        BY <1>1, <1>2, <4>2 DEF SeqType
      <4> QED
        BY <3>1, <4>1, <4>2, ZenonT(60)
    <3> QED
      BY <1>3, <2>1, <2>2, <3>2, ZenonT(60)
  <2>4. CASE seq' = [seq EXCEPT !.pc = "failed"]
    <3>1. seq' \in SeqType /\ seq'.pc = "failed" /\ seq'.i = i
      BY <1>1, <1>2, <2>4, ZenonT(60) DEF SeqType
    <3> QED
      BY <1>1, <1>2, <1>3, <2>1, <2>2, <3>1, ZenonT(60)
  <2> QED
    BY <2>1, <2>3, <2>4, ZenonT(60)
<1> QED
  BY <1>4, <1>5, <1>6

\* The list grows by the held child only, in order, and not during a shutdown.
LEMMA SequencerLists ==
  ASSUME TInv, RatesInv, GateInv, SeqList, ~(requested \/ ~InOrder)
  PROVE  /\ ChildrenOK' /\ RatesInv' /\ MonInv'
         /\ \A n \in 2..Networks : Slot(n) <= Len(children') => n - 1 \in past
<1>1. children' = children \o held /\ UNCHANGED <<mon, now, log>> /\ seq.pc = "list"
  BY Zenon DEF SeqList, outside
<1>2. /\ children \in Seq(Child) /\ held \in Seq(Child) /\ Len(children) \in Nat /\ Len(held) \in Nat
      /\ Len(held) <= 1 /\ Len(children) = Immediate + seq.i - 1
      /\ seq.i \in Nat /\ seq.i <= Networks /\ seq.i - 1 \in past
  <2>1. InOrder
    BY Zenon
  <2>2. Len(children) = Immediate + seq.i - 1
    <3>1. Immediate \in Int /\ seq.i \in Int
      BY Numbers DEF TInv, SeqInv
    <3> QED
      BY <2>1, <3>1 DEF InOrder, Slot
  <2> QED
    BY <1>1, <2>2, LenProperties, ZenonT(60) DEF TInv, ChildrenOK, HeldOK, SeqInv, GateInv
<1>3. /\ children' \in Seq(Child) /\ Len(children') = Len(children) + Len(held)
      /\ \A j \in 1..(Len(children) + Len(held)) :
           children'[j] = IF j <= Len(children) THEN children[j] ELSE held[j - Len(children)]
  BY <1>1, <1>2, ConcatProperties, ZenonT(60)
<1>4. \A j \in 1..Len(children) : children'[j] = children[j]
  BY <1>2, <1>3
<1>5. ChildrenOK'
  BY <1>2, <1>3, Numbers DEF ChildrenOK
<1>6. MonInv'
  <2>1. mon.pc = "backoff" => mon.i \in 1..Len(children)
    BY <1>2 DEF TInv, MonInv
  <2>2. Len(children) <= Len(children')
    BY <1>2, <1>3
  <2>3. mon.pc \in {"scan", "backoff"} => mon.len <= Len(children')
    BY <1>2, <1>3, <2>2 DEF TInv, MonInv
  <2> QED
    BY <1>1, <1>4, <2>1, <2>3, Zenon DEF TInv, MonInv
<1>7. ASSUME NEW n \in 2..Networks, Slot(n) <= Len(children') PROVE n - 1 \in past
  <2>1. n <= seq.i
    BY <1>2, <1>3, <1>7, Numbers DEF Slot
  <2>2. CASE n = seq.i
    BY <1>2, <2>2
  <2>3. CASE n < seq.i
    <3>1. Slot(n) <= Len(children)
      BY <1>2, <2>3, Numbers DEF Slot
    <3> QED
      BY <3>1, Zenon DEF GateInv
  <2> QED
    BY <1>2, <2>1, <2>2, <2>3
<1>8. ASSUME NEW i \in Slots PROVE RateInv(i)'
  <2>1. RateInv(i) /\ i \in Nat
    BY Numbers DEF RatesInv, Slots
  <2>2. CASE i <= Len(children)
    <3>1. children'[i] = children[i] /\ i <= Len(children')
      BY <1>2, <1>3, <1>4, <2>1, <2>2 DEF Slots
    <3> QED
      BY <1>1, <1>2, <1>3, <2>1, <2>2, <3>1 DEF RateInv
  <2>3. CASE i > Len(children')
    <3>1. i > Len(children) /\ ~(i <= Len(children'))
      BY <1>2, <1>3, <2>1, <2>3
    <3> QED
      BY <1>1, <2>1, <3>1, ZenonT(60) DEF RateInv
  <2>4. CASE i > Len(children) /\ i <= Len(children')
    <3>1. i - Len(children) = 1 /\ Len(held) = 1
      <4>1. PICK c \in Nat, h \in Nat : c = Len(children) /\ h = Len(held) /\ h <= 1
        BY <1>2, Zenon
      <4>2. Len(children') = c + h
        BY <1>3, <4>1, Zenon
      <4> QED
        BY <2>1, <2>4, <4>1, <4>2
    <3>2. children'[i] = held[1]
      BY <1>2, <1>3, <2>1, <2>4, <3>1 DEF Slots
    <3>3. held[1].restarts = <<>> /\ held[1].handoffs = <<>>
      BY <3>1, EmptySeq DEF TInv, SeqInv
    <3>4. log[i].restarts = <<>> /\ log[i].handoffs = <<>>
      BY <2>1, <2>4 DEF RateInv
    <3>5. ~(i > Len(children'))
      BY <1>2, <1>3, <2>1, <2>4
    <3> QED
      BY <1>1, <3>2, <3>3, <3>4, <3>5, TracksEmpty DEF RateInv
  <2> QED
    BY <1>2, <1>3, <2>1, <2>2, <2>3, <2>4
<1> QED
  BY <1>5, <1>6, <1>7, <1>8, ZenonT(60) DEF RatesInv

\* A step of the sequencer keeps every part of the invariant but StopInv.
LEMMA SequencerKeeps ==
  ASSUME TInv, RatesInv, GateInv, SeqStep
  PROVE  /\ TInv' /\ RatesInv' /\ GateInv'
         /\ main' = main /\ (requested => children' = children)
<1>1. /\ UNCHANGED <<requested, lock, signal, main, mon, past, now, exits, log>>
  BY ZenonT(60) DEF SeqStep, SeqReturns, SeqPoll, SeqGate, SeqCheck, SeqSpawns, SeqSpawnFails, SeqList,
         SeqStop, shared, outside
<1>2. OthersOK' /\ LockInv'
  BY <1>1 DEF TInv, OthersOK, LockInv
<1>3. SeqType = [pc : {"poll", "gate", "check", "spawn", "list", "stop", "gone", "failed"},
                 i : Nat, past : BOOLEAN, tries : Nat]
  BY Zenon DEF SeqType
<1>4. CASE SeqReturns \/ SeqPoll \/ SeqGate \/ SeqCheck \/ SeqSpawnFails
  <2>1. UNCHANGED <<children, held>>
    BY <1>4, ZenonT(60) DEF SeqReturns, SeqPoll, SeqGate, SeqCheck, SeqSpawnFails, shared
  <2>2. ChildrenOK' /\ HeldOK' /\ MonInv' /\ RatesInv'
    BY <1>1, <2>1, ZenonT(60) DEF TInv, ChildrenOK, HeldOK, MonInv, RatesInv, RateInv
  <2>3. SeqInv' /\ GateInv'
    BY <1>1, <1>3, <1>4, <2>1, SequencerWaits DEF SeqInv, GateInv
  <2> QED
    BY <1>1, <1>2, <2>1, <2>2, <2>3 DEF TInv
<1>5. CASE SeqSpawns \/ SeqList \/ SeqStop
  <2>1. SeqInv' /\ HeldOK'
    BY <1>3, <1>5, SequencerHolds, ZenonT(60) DEF SeqInv
  <2>2. /\ seq'.pc # "gate"
        /\ seq'.pc \in {"check", "spawn", "list", "stop"} => seq'.i - 1 \in past'
        /\ held' # <<>> => seq'.i - 1 \in past'
    BY <1>1, <1>5, SequencerHolds, ZenonT(60)
  <2>3. CASE SeqList /\ ~(requested \/ ~InOrder)
    <3>1. ChildrenOK' /\ MonInv' /\ RatesInv'
      BY <2>3, SequencerLists, Zenon
    <3>2. \A n \in 2..Networks : Slot(n) <= Len(children') => n - 1 \in past'
      BY <1>1, <2>3, SequencerLists, ZenonT(60)
    <3>3. GateInv'
      BY <2>2, <3>2, Zenon DEF GateInv, Slot
    <3> QED
      BY <1>1, <1>2, <2>1, <2>3, <3>1, <3>3 DEF TInv
  <2>4. CASE ~(SeqList /\ ~(requested \/ ~InOrder))
    <3>1. children' = children
      BY <1>5, <2>4, ZenonT(60) DEF SeqSpawns, SeqList, SeqStop, shared
    <3>2. ChildrenOK' /\ MonInv' /\ RatesInv'
      BY <1>1, <3>1, ZenonT(60) DEF TInv, ChildrenOK, MonInv, RatesInv, RateInv
    <3>3. GateInv'
      BY <1>1, <2>2, <3>1, ZenonT(60) DEF GateInv, Slot
    <3> QED
      BY <1>1, <1>2, <2>1, <3>1, <3>2, <3>3 DEF TInv
  <2> QED
    BY <2>3, <2>4, Zenon
<1> QED
  BY <1>4, <1>5, Zenon DEF SeqStep

\* A step of the monitor, likewise.
LEMMA MonitorGates ==
  ASSUME TInv, RatesInv, GateInv, MonitorStep
  PROVE  /\ TInv' /\ RatesInv' /\ GateInv'
         /\ main' = main /\ (requested => children' = children)
<1>1. MonitorKeeps
  BY MonitorMoves, MonitorBlocks, MonitorHandsOff, MonitorRespawns, MonitorBacksOff, ZenonT(60)
  DEF MonitorStep
<1>2. UNCHANGED <<requested, main, seq, held, past>>
  BY Zenon DEF MonitorStep, MonitorReturns, BeginScan, EndScan, BlockChild, Handoff, HandoffBlocked,
         Halt, BeginBackoff, Restart, RestartFails, shared, outside
<1>3. GateInv'
  BY <1>1, <1>2, Zenon DEF MonitorKeeps, GateInv, Slot
<1> QED
  BY <1>1, <1>2, <1>3, Zenon DEF MonitorKeeps

\* The list that was stopped is left alone by the two other tasks.
LEMMA StopKept ==
  ASSUME TInv, StopInv, main' = main, requested => children' = children
  PROVE  StopInv'
<1>1. CASE main.pc \in {"stop", "abort", "done"}
  <2>1. children' = children
    BY <1>1, Zenon DEF TInv, LockInv
  <2> QED
    BY <2>1 DEF StopInv, ListedChildrenStayStopped
<1>2. CASE main.pc \notin {"stop", "abort", "done"}
  BY <1>2, Zenon DEF StopInv, ListedChildrenStayStopped
<1> QED
  BY <1>1, <1>2, ZenonT(60)

-----------------------------------------------------------------------------
(* The children, the clock and the main task. *)

\* A child that exits does not run, a later clock and a network past bulk sync
\* take nothing back.
LEMMA OutsideKeeps ==
  ASSUME IInv,
         \/ \E code \in ExitCodes : HeldExits(code) \/ \E i \in DOMAIN children : ChildExits(i, code)
         \/ \E n \in 1..Networks : PassBulk(n)
         \/ Tick
  PROVE  IInv'
<1> USE DEF IInv
<1>1. TInv' /\ UNCHANGED <<main, mon, seq, log>> /\ past \subseteq past'
  <2>1. TInv'
    BY OutsideTypes, Zenon
  <2> QED
    BY <2>1, Zenon DEF HeldExits, ChildExits, PassBulk, Tick, shared
<1>2. CASE \E code \in ExitCodes : \E i \in DOMAIN children : ChildExits(i, code)
  <2>1. PICK code \in ExitCodes, i \in 1..Len(children) : ChildExits(i, code)
    BY <1>2, Listing, ZenonT(60) DEF TInv
  <2>2. children[i] \in Child /\ code \in Processes /\ code # "up"
    BY Listing, SupervisorAssumption DEF TInv, Processes
  <2>3. PICK c : c = [children[i] EXCEPT !.proc = code]
    BY ZenonT(60)
  <2>4. /\ c \in Child /\ c.restarts = children[i].restarts /\ c.handoffs = children[i].handoffs
        /\ c.proc = code
    BY <2>2, <2>3 DEF Child
  <2>5. children' = [children EXCEPT ![i] = c] /\ now' = now /\ held' = held
    BY <2>1, <2>3 DEF ChildExits
  <2>6. /\ Len(children') = Len(children) /\ children'[i] = c
        /\ \A j \in 1..Len(children) : j # i => children'[j] = children[j]
    BY <2>4, <2>5, Replaced DEF TInv
  <2>7. RatesInv'
    BY <1>1, <2>4, <2>5, <2>6, RatesKept
  <2>8. GateInv'
    BY <1>1, <2>5, <2>6, ZenonT(60) DEF GateInv, Slot
  <2>9. DOMAIN children' = 1..Len(children) /\ DOMAIN children = 1..Len(children)
    BY <1>1, <2>6, Listing DEF TInv, ChildrenOK
  <2>10. StopInv'
    BY <1>1, <2>2, <2>4, <2>6, <2>9 DEF StopInv, ListedChildrenStayStopped
  <2> QED
    BY <1>1, <2>7, <2>8, <2>10
<1>3. CASE \E code \in ExitCodes : HeldExits(code)
  <2>1. children' = children /\ now' = now /\ held # <<>> /\ past' = past
    BY <1>3 DEF HeldExits, shared
  <2>2. RatesInv' /\ GateInv' /\ StopInv'
    BY <1>1, <2>1, ZenonT(60) DEF RatesInv, RateInv, GateInv, Slot, StopInv, ListedChildrenStayStopped
  <2> QED
    BY <1>1, <2>2, Zenon
<1>4. CASE \E n \in 1..Networks : PassBulk(n)
  <2>1. children' = children /\ now' = now /\ held' = held
    BY <1>4, Zenon DEF PassBulk, shared
  <2>2. RatesInv' /\ GateInv' /\ StopInv'
    BY <1>1, <2>1, ZenonT(60) DEF RatesInv, RateInv, GateInv, Slot, StopInv, ListedChildrenStayStopped
  <2> QED
    BY <1>1, <2>2
<1>5. CASE Tick
  <2>1. children' = children /\ now' = now + 1 /\ held' = held
    BY <1>5, Zenon DEF Tick, shared
  <2>2. GateInv' /\ StopInv'
    BY <1>1, <2>1, Zenon DEF GateInv, Slot, StopInv, ListedChildrenStayStopped
  <2>3. ASSUME NEW i \in Slots PROVE RateInv(i)'
    <3>1. RateInv(i) /\ now \in Nat /\ i \in Nat \ {0}
      BY Numbers DEF RatesInv, TInv, OthersOK, Slots
    <3>2. log[i].restarts \in Times /\ log[i].handoffs \in Times
      BY Zenon DEF TInv, OthersOK
    <3>3. CASE i <= Len(children)
      <4>1. children[i] \in Child
        BY <3>1, <3>3, Listing DEF TInv
      <4>2. children[i].restarts \in Times /\ children[i].handoffs \in Times
        BY <4>1, ZenonT(60) DEF Child
      <4>3. /\ Tracks(now + 1, log[i].restarts, children[i].restarts, RestartWindow, RateLimit)
            /\ Tracks(now + 1, log[i].handoffs, children[i].handoffs, HandoffWindow, MaxHandoffs)
        BY <3>1, <3>2, <3>3, <4>2, TracksLater, Numbers DEF RateInv
      <4>4. ~(i > Len(children))
        BY <3>1, <3>3, Listing DEF TInv
      <4> QED
        BY <1>1, <2>1, <4>3, <4>4, ZenonT(60) DEF RateInv
    <3>4. CASE ~(i <= Len(children))
      BY <1>1, <2>1, <3>1, <3>4, ZenonT(60) DEF RateInv
    <3> QED
      BY <3>3, <3>4, ZenonT(60)
  <2> QED
    BY <1>1, <2>2, <2>3, ZenonT(60) DEF RatesInv
<1> QED
  BY <1>2, <1>3, <1>4, <1>5

\* One child after the other is stopped; the mutex keeps the list as it is.
LEMMA StopsOne ==
  ASSUME IInv, StopChild
  PROVE  IInv'
<1> USE DEF IInv
<1>1. /\ main.pc = "stop" /\ main.i \in Nat /\ main.i <= Len(children)
      /\ UNCHANGED <<requested, lock, signal, mon, seq, held, past, now, exits, log>>
  BY Zenon DEF StopChild, outside, TInv, OthersOK
<1>2. PICK k \in Nat : k = main.i
  BY <1>1, Zenon
<1>3. main' = [pc |-> "stop", i |-> k + 1]
  BY <1>1, <1>2, Zenon DEF StopChild, TInv, OthersOK
<1>4. Len(children) \in Nat /\ DOMAIN children = 1..Len(children)
  BY Listing, Zenon DEF TInv
<1>5. OthersOK' /\ LockInv' /\ SeqInv' /\ HeldOK'
  <2>1. main' \in [pc : {"wait", "signalled", "stop", "abort", "done"}, i : Nat]
    BY <1>3
  <2> QED
    BY <1>1, <1>3, <2>1, ZenonT(60) DEF TInv, OthersOK, LockInv, SeqInv, HeldOK
<1>6. CASE k = 0
  <2>1. children' = children
    BY <1>1, <1>2, <1>4, <1>6 DEF StopChild, TInv, ChildrenOK
  <2>2. ChildrenOK' /\ MonInv' /\ RatesInv' /\ GateInv'
    BY <1>1, <2>1, ZenonT(60) DEF TInv, ChildrenOK, MonInv, RatesInv, RateInv, GateInv, Slot
  <2>3. StopInv'
    BY <1>3, <1>4, <1>6, <2>1 DEF StopInv, ListedChildrenStayStopped
  <2> QED
    BY <1>5, <2>2, <2>3, ZenonT(60) DEF TInv
<1>7. CASE k # 0
  <2>1. k \in 1..Len(children) /\ children[k] \in Child
    BY <1>1, <1>2, <1>4, <1>7, Listing DEF TInv
  <2>2. PICK p : p = IF children[k].proc = "up" THEN "stopped" ELSE children[k].proc
    BY Zenon
  <2>3. p \in Processes /\ p # "up"
    BY <2>1, <2>2 DEF Child, Processes
  <2>4. PICK c : c = [children[k] EXCEPT !.proc = p]
    BY Zenon
  <2>5. /\ c \in Child /\ c.restarts = children[k].restarts /\ c.handoffs = children[k].handoffs
        /\ c.proc = p
    BY <2>1, <2>3, <2>4 DEF Child
  <2>6. children' = [children EXCEPT ![k] = c]
    BY <1>2, <2>1, <2>2, <2>4 DEF StopChild
  <2>7. /\ ChildrenOK' /\ Len(children') = Len(children) /\ children'[k] = c
        /\ \A j \in 1..Len(children) : j # k => children'[j] = children[j]
    BY <2>1, <2>5, <2>6, Replaced, ZenonT(60) DEF TInv
  <2>8. RatesInv'
    BY <1>1, <2>5, <2>7, RatesKept
  <2>9. GateInv'
    BY <1>1, <2>7, ZenonT(60) DEF GateInv, Slot
  <2>10. MonInv'
    <3>1. mon.pc = "backoff" => mon.i \in 1..Len(children)
      BY <1>4 DEF TInv, MonInv
    <3>2. \A j \in 1..Len(children) : children'[j].restarts = children[j].restarts
      BY <2>5, <2>7, Zenon
    <3> QED
      BY <1>1, <2>7, <3>1, <3>2 DEF TInv, MonInv
  <2>11. StopInv'
    <3>1. DOMAIN children' = 1..Len(children)
      BY <2>7 DEF ChildrenOK
    <3>2. \A j \in 1..Len(children) : j < k + 1 => children'[j].proc # "up"
      BY <1>1, <1>2, <1>4, <2>3, <2>5, <2>7 DEF StopInv
    <3> QED
      BY <1>3, <3>1, <3>2, ZenonT(60) DEF StopInv, ListedChildrenStayStopped
  <2> QED
    BY <1>5, <2>7, <2>8, <2>9, <2>10, <2>11 DEF TInv
<1> QED
  BY <1>6, <1>7, Zenon

\* The other steps of the main task leave the list as it is.
LEMMA MainMoves ==
  ASSUME IInv, ShutdownSignal \/ BeginStop \/ EndStop \/ Return \/ KillDropped \/ UNCHANGED vars
  PROVE  IInv'
<1> USE DEF IInv
<1>1. UNCHANGED <<children, past, now, exits, log>>
  BY Zenon DEF ShutdownSignal, BeginStop, EndStop, Return, KillDropped, vars, shared, outside
<1>2. ChildrenOK' /\ RatesInv'
  BY <1>1, ZenonT(60) DEF TInv, ChildrenOK, RatesInv, RateInv
<1>3. Len(children) \in Nat /\ DOMAIN children = 1..Len(children)
  BY Listing, Zenon DEF TInv
<1>4. PICK k \in Nat : k = main.i
  BY DEF TInv, OthersOK
<1>5. CASE ShutdownSignal
  <2>1. /\ UNCHANGED <<requested, lock, mon, seq, held>> /\ signal' = TRUE
        /\ main.pc = "wait" /\ main' = [pc |-> "signalled", i |-> k]
    BY <1>4, <1>5, ZenonT(60) DEF ShutdownSignal, TInv, OthersOK
  <2>2. TInv'
    BY <1>1, <1>2, <2>1 DEF TInv, OthersOK, LockInv, MonInv, SeqInv, HeldOK
  <2>3. StopInv' /\ GateInv'
    BY <1>1, <2>1, Zenon DEF StopInv, ListedChildrenStayStopped, GateInv, Slot
  <2> QED
    BY <1>2, <2>2, <2>3, ZenonT(60)
<1>6. CASE BeginStop
  <2>1. /\ UNCHANGED <<signal, mon, seq, held>> /\ requested' = TRUE
        /\ lock = "free" /\ lock' = "main" /\ main' = [pc |-> "stop", i |-> 1]
    BY <1>6 DEF BeginStop
  <2>2. TInv'
    BY <1>1, <1>2, <2>1, ZenonT(60) DEF TInv, OthersOK, LockInv, MonInv, SeqInv, HeldOK
  <2>3. StopInv' /\ GateInv'
    BY <1>1, <1>3, <2>1 DEF StopInv, ListedChildrenStayStopped, GateInv, Slot
  <2> QED
    BY <1>2, <2>2, <2>3
<1>7. CASE EndStop
  <2>1. /\ UNCHANGED <<requested, signal, mon, seq, held>> /\ main.pc = "stop"
        /\ main.i > Len(children) /\ lock' = "free" /\ main' = [pc |-> "abort", i |-> 0]
    BY <1>7 DEF EndStop
  <2>2. TInv'
    BY <1>1, <1>2, <2>1, ZenonT(60) DEF TInv, OthersOK, LockInv, MonInv, SeqInv, HeldOK
  <2>3. \A j \in DOMAIN children : children[j].proc # "up"
    BY <1>3, <1>4, <2>1 DEF StopInv
  <2>4. StopInv' /\ GateInv'
    BY <1>1, <2>1, <2>3, ZenonT(60) DEF StopInv, ListedChildrenStayStopped, GateInv, Slot
  <2> QED
    BY <1>2, <2>2, <2>4
<1>8. CASE Return
  <2>1. PICK i \in Nat : i = seq.i /\ i >= 2
    BY DEF TInv, SeqInv
  <2>2. /\ UNCHANGED <<requested, signal, lock, held>> /\ main.pc = "abort"
        /\ main' = [pc |-> "done", i |-> k]
        /\ mon' = [pc |-> "gone", i |-> 0, len |-> 0, next |-> 0]
        /\ seq' = [pc |-> "gone", i |-> i, past |-> FALSE, tries |-> 0]
    BY <1>4, <1>8, <2>1, ZenonT(60) DEF Return, shared, MonAt, SeqGone, TInv, OthersOK
  <2>3. OthersOK' /\ LockInv' /\ MonInv' /\ HeldOK'
    BY <1>1, <2>2 DEF TInv, OthersOK, LockInv, MonInv, HeldOK
  <2>4. SeqInv' /\ GateInv'
    BY <1>1, <2>1, <2>2, ZenonT(60) DEF TInv, SeqInv, GateInv, Slot
  <2>5. StopInv'
    BY <1>1, <2>2, ZenonT(60) DEF StopInv, ListedChildrenStayStopped
  <2> QED
    BY <1>2, <2>3, <2>4, <2>5 DEF TInv
<1>9. CASE KillDropped
  <2>1. UNCHANGED <<requested, signal, lock, main, mon, seq>> /\ held' = <<>>
    BY <1>9, Zenon DEF KillDropped, shared
  <2>2. HeldOK'
    BY <2>1, EmptySeq DEF HeldOK
  <2>3. OthersOK' /\ LockInv' /\ MonInv' /\ SeqInv'
    BY <1>1, <2>1, ZenonT(60) DEF TInv, OthersOK, LockInv, MonInv, SeqInv
  <2>4. StopInv' /\ GateInv'
    BY <1>1, <2>1, Zenon DEF StopInv, ListedChildrenStayStopped, GateInv, Slot
  <2> QED
    BY <1>2, <2>2, <2>3, <2>4, ZenonT(60) DEF TInv
<1>10. CASE UNCHANGED vars
  <2>1. TInv'
    BY <1>2, <1>10 DEF vars, TInv, OthersOK, LockInv, MonInv, SeqInv, HeldOK
  <2>2. StopInv' /\ GateInv'
    BY <1>10, Zenon DEF vars, StopInv, ListedChildrenStayStopped, GateInv, Slot
  <2> QED
    BY <1>2, <2>1, <2>2
<1> QED
  BY <1>5, <1>6, <1>7, <1>8, <1>9, <1>10, ZenonT(60)

-----------------------------------------------------------------------------
(* The results. *)

\* The supervisor with its first children spawned.
LEMMA InitInv == Init => IInv
<1> SUFFICES ASSUME Init PROVE IInv
  BY ZenonT(60)
<1>1. now \in 0..MaxTime /\ Immediate \in Nat /\ Networks \in Nat \ {0}
  BY Numbers DEF Init
<1>2. Spawned \in Child /\ Spawned.restarts = <<>> /\ Spawned.handoffs = <<>>
  BY <1>1, SpawnedType, Zenon
<1>3. /\ children \in Seq(Child) /\ Len(children) = Immediate + 1
      /\ \A i \in 1..(Immediate + 1) : children[i] = Spawned
  <2>1. PICK n \in Nat : n = Immediate + 1
    BY <1>1
  <2>2. children \in [1..n -> Child] /\ \A i \in 1..n : children[i] = Spawned
    BY <1>2, <2>1, Zenon DEF Init
  <2>3. children \in Seq(Child)
    BY <2>2, SeqDef, Zenon
  <2>4. Len(children) \in Nat /\ 1..Len(children) = 1..n
    BY <2>2, <2>3, LenProperties, ZenonT(60)
  <2>5. Len(children) = n
    BY <2>4
  <2> QED
    BY <2>1, <2>2, <2>3, <2>5, ZenonT(60)
<1>4. ChildrenOK
  BY <1>1, <1>3 DEF ChildrenOK
<1>5. held = <<>> /\ HeldOK
  BY EmptySeq DEF Init, HeldOK
<1>6. OthersOK
  <2>1. <<>> \in Times
    BY EmptySeq, Zenon DEF Times
  <2>2. log \in [Slots -> [restarts : Times, handoffs : Times]]
    BY <2>1, Zenon DEF Init
  <2>3. main \in [pc : {"wait", "signalled", "stop", "abort", "done"}, i : Nat]
    BY Zenon DEF Init
  <2>4. past \subseteq 1..Networks /\ exits \in 0..MaxExits
    BY Numbers DEF Init
  <2>5. requested \in BOOLEAN /\ lock \in {"free", "monitor", "main"} /\ signal \in BOOLEAN
    BY ZenonT(60) DEF Init
  <2> QED
    BY <1>1, <2>2, <2>3, <2>4, <2>5 DEF OthersOK
<1>7. LockInv /\ MonInv
  <2>1. LockInv
    BY DEF Init, MonAt, LockInv
  <2>2. mon = [pc |-> "sleep", i |-> 0, len |-> 0, next |-> 0]
    BY ZenonT(60) DEF Init, MonAt
  <2> QED
    BY <2>1, <2>2 DEF MonInv
<1>8. SeqInv
  <2>1. seq = [pc |-> "poll", i |-> 2, past |-> FALSE, tries |-> 0]
    BY Zenon DEF Init
  <2> QED
    BY <1>5, <2>1 DEF SeqInv
<1>9. StopInv
  BY DEF Init, StopInv, ListedChildrenStayStopped
<1>10. GateInv
  <2>1. \A n \in 2..Networks : ~(Slot(n) <= Len(children))
    BY <1>1, <1>3 DEF Slot
  <2> QED
    BY <1>5, <2>1, ZenonT(60) DEF Init, GateInv
<1>11. ASSUME NEW i \in Slots PROVE RateInv(i)
  <2>1. log[i].restarts = <<>> /\ log[i].handoffs = <<>> /\ i \in Nat \ {0}
    BY <1>1, <1>11 DEF Init, Slots
  <2>2. i <= Len(children) => children[i] = Spawned
    BY <1>1, <1>3, <2>1
  <2> QED
    BY <1>2, <2>1, <2>2, TracksEmpty DEF RateInv
<1> QED
  BY <1>4, <1>5, <1>6, <1>7, <1>8, <1>9, <1>10, <1>11 DEF IInv, TInv, RatesInv

\* Every step of every task keeps the invariant.
LEMMA NextInv == IInv /\ [Next]_vars => IInv'
<1> SUFFICES ASSUME IInv, [Next]_vars PROVE IInv'
  BY Zenon
<1>1. CASE MonitorStep
  BY <1>1, MonitorGates, StopKept, ZenonT(60) DEF IInv
<1>2. CASE SeqStep
  BY <1>2, SequencerKeeps, StopKept, ZenonT(60) DEF IInv
<1>3. CASE StopChild
  BY <1>3, StopsOne, ZenonT(60)
<1>4. CASE \/ ShutdownSignal \/ BeginStop \/ EndStop \/ Return \/ KillDropped
           \/ Done \/ UNCHANGED vars
  BY <1>4, MainMoves, ZenonT(60) DEF Done
<1>5. CASE \/ \E code \in ExitCodes : \/ HeldExits(code)
                                      \/ \E i \in DOMAIN children : ChildExits(i, code)
           \/ \E n \in 1..Networks : PassBulk(n)
           \/ Tick
  BY <1>5, OutsideKeeps
<1> QED
  BY <1>1, <1>2, <1>3, <1>4, <1>5, ZenonT(60) DEF Next, MainStep

\* The mutex, the list, the gate and the histories fit together in every
\* reachable state.
LEMMA Invariant == Spec => []IInv
BY InitInv, NextInv, PTL DEF Spec

\* Every variable of the three tasks has its type, no more children are listed
\* than there are, and no restart is attempted beyond MAX_RESTART_ATTEMPTS.
THEOREM TypeCorrect == Spec => []TypeOK
<1>1. IInv => TypeOK
  <2> SUFFICES ASSUME IInv PROVE TypeOK
    BY Zenon
  <2>1. Cardinality(Slots) = Immediate + Networks
    <3>1. Immediate + Networks \in Int /\ 1 \in Int /\ ~(1 > Immediate + Networks)
      BY Numbers
    <3>2. Cardinality(1..(Immediate + Networks)) = (Immediate + Networks) - 1 + 1
      BY <3>1, FS_Interval, Zenon
    <3> QED
      BY <3>1, <3>2 DEF Slots
  <2>2. ChildrenOK /\ HeldOK /\ OthersOK /\ MonInv /\ SeqInv
    BY Zenon DEF IInv, TInv
  <2>3. main.pc \in {"wait", "signalled", "stop", "abort", "done"}
    BY <2>2, Zenon DEF OthersOK
  <2>4. /\ mon.pc \in {"sleep", "scan", "backoff", "gone"}
        /\ seq.pc \in {"poll", "gate", "check", "spawn", "list", "stop", "gone", "failed"}
    BY <2>2 DEF MonInv, SeqInv
  <2> QED
    BY <2>1, <2>2, <2>3, <2>4, ZenonT(60) DEF TypeOK, ChildrenOK, HeldOK, OthersOK, Child, Times
<1> QED
  BY <1>1, Invariant, PTL

\* monitor_children_multi: over any window of any execution a child is restarted
\* at most RESTART_RATE_LIMIT times and handed over at most MAX_HANDOFFS_IN_WINDOW
\* times, however exits, failed respawns and prunings of the histories interleave.
THEOREM RespawnsLimited == Spec => []RespawnsAreRateLimited
<1>1. IInv => RespawnsAreRateLimited
  <2> SUFFICES ASSUME IInv, NEW i \in Slots
               PROVE  /\ InWindow(log[i].restarts, RestartWindow, RateLimit)
                      /\ InWindow(log[i].handoffs, HandoffWindow, MaxHandoffs)
    BY Zenon DEF RespawnsAreRateLimited
  <2>1. RateInv(i) /\ i \in Nat /\ Len(children) \in Nat
    BY Numbers, Listing DEF IInv, TInv, RatesInv, Slots
  <2>2. CASE i <= Len(children)
    BY <2>1, <2>2, ZenonT(60) DEF RateInv, Tracks
  <2>3. CASE i > Len(children)
    <3>1. log[i].restarts = <<>> /\ log[i].handoffs = <<>>
      BY <2>1, <2>3, ZenonT(60) DEF RateInv
    <3> QED
      BY <3>1 DEF InWindow
  <2> QED
    BY <2>1, <2>2, <2>3
<1> QED
  BY <1>1, Invariant, PTL

\* sequence_indexers: a deferred network's indexer is listed, or spawned and not
\* yet listed, only if the network before it got past bulk sync.
THEOREM SequencerGated == Spec => []GateHolds
<1>1. IInv => GateHolds
  <2> SUFFICES ASSUME IInv, NEW n \in 2..Networks, Listed(Slot(n)) \/ (held # <<>> /\ seq.i = n)
               PROVE  n - 1 \in past
    BY Zenon DEF GateHolds
  <2>1. DOMAIN children = 1..Len(children) /\ Len(children) \in Nat
    BY Listing, Zenon DEF IInv, TInv
  <2>2. CASE Listed(Slot(n))
    <3>1. Slot(n) <= Len(children)
      BY <2>1, <2>2 DEF Listed
    <3> QED
      BY <3>1, Zenon DEF IInv, GateInv
  <2>3. CASE held # <<>> /\ seq.i = n
    BY <2>3, ZenonT(60) DEF IInv, GateInv
  <2> QED
    BY <2>2, <2>3, Zenon
<1> QED
  BY <1>1, Invariant, PTL

\* run_supervisor_inner_with_sequencer: when the list has been stopped no listed
\* child runs any more, whatever the monitor and the sequencer were about to do.
THEOREM StoppedStaysStopped == Spec => []ListedChildrenStayStopped
<1>1. IInv => ListedChildrenStayStopped
  BY DEF IInv, StopInv
<1> QED
  BY <1>1, Invariant, PTL

=============================================================================
