---------------------- MODULE SupervisorMonitorProofs -----------------------
(***************************************************************************)
(* The inductive invariant of the supervisor's three tasks, and the first  *)
(* of them: no step of the monitor breaks it.                              *)
(***************************************************************************)
EXTENDS Supervisor, FiniteSetTheorems, SequenceTheorems, WellFoundedInduction, TLAPS

Times == Seq(0..MaxTime)
Child == [proc : Processes, count : 0..MaxAttempts, started : 0..MaxTime,
          restarts : Times, handoffs : Times, blocked : BOOLEAN]

\* Who holds the mutex, and that a shutdown waits for the end of a scan.
LockInv ==
  /\ lock = "monitor" <=> mon.pc = "scan"
  /\ lock = "main" <=> main.pc = "stop"
  /\ requested <=> main.pc \in {"stop", "abort", "done"}
  /\ requested => mon.pc # "scan"

\* The monitor looks at listed children, and backs off for an allowed restart.
MonInv ==
  /\ mon \in [pc : {"sleep", "scan", "backoff", "gone"}, i : Nat, len : Nat, next : Nat]
  /\ mon.pc \in {"scan", "backoff"} =>
       mon.i # 0 /\ mon.i <= mon.len + 1 /\ mon.len <= Len(children)
  /\ mon.pc = "backoff" =>
       /\ mon.i <= mon.len /\ mon.next \in 1..MaxAttempts
       /\ Len(children[mon.i].restarts) < RateLimit

\* The sequencer holds a fresh child of the network it is at.
SeqInv ==
  /\ seq \in [pc : {"poll", "gate", "check", "spawn", "list", "stop", "gone", "failed"},
              i : Nat, past : BOOLEAN, tries : Nat]
  /\ seq.i >= 2
  /\ seq.pc \in {"gate", "check", "spawn", "list", "stop"} => seq.i <= Networks
  /\ held # <<>> => /\ seq.pc \in {"list", "stop", "gone"}
                    /\ held[1].restarts = <<>> /\ held[1].handoffs = <<>>

ChildrenOK == children \in Seq(Child) /\ Len(children) <= Immediate + Networks
HeldOK == held \in Seq(Child) /\ Len(held) <= 1
OthersOK ==
  /\ requested \in BOOLEAN /\ lock \in {"free", "monitor", "main"} /\ signal \in BOOLEAN
  /\ past \subseteq 1..Networks /\ now \in 0..MaxTime /\ exits \in 0..MaxExits
  /\ main \in [pc : {"wait", "signalled", "stop", "abort", "done"}, i : Nat]
  /\ log \in [Slots -> [restarts : Times, handoffs : Times]]

TInv == ChildrenOK /\ HeldOK /\ OthersOK /\ LockInv /\ MonInv /\ SeqInv

\* The main task stops the list from the front, under the mutex.
StopInv ==
  /\ main.pc = "stop" => \A j \in DOMAIN children : j < main.i => children[j].proc # "up"
  /\ ListedChildrenStayStopped

\* What the sequencer relies on after its poll does not change any more.
GateInv ==
  /\ seq.pc = "gate" /\ seq.past => seq.i - 1 \in past
  /\ seq.pc \in {"check", "spawn", "list", "stop"} => seq.i - 1 \in past
  /\ held # <<>> => seq.i - 1 \in past
  /\ \A n \in 2..Networks : Slot(n) <= Len(children) => n - 1 \in past

\* The mth last respawn, while it is in the window, is matched by the mth last
\* entry of the pruned history, which is at least as late.
Matched(time, all, kept, window) ==
  \A m \in 1..Len(all) :
    time - all[Len(all) + 1 - m] < window =>
      m <= Len(kept) /\ all[Len(all) + 1 - m] <= kept[Len(kept) + 1 - m]

Tracks(time, all, kept, window, bound) ==
  /\ \A j \in 1..Len(all) : all[j] <= time
  /\ \A j \in 1..Len(kept) : kept[j] <= time
  /\ \A j, k \in 1..Len(kept) : j <= k => kept[j] <= kept[k]
  /\ Matched(time, all, kept, window)
  /\ InWindow(all, window, bound)

RateInv(i) ==
  /\ i > Len(children) => log[i].restarts = <<>> /\ log[i].handoffs = <<>>
  /\ i <= Len(children) =>
       /\ Tracks(now, log[i].restarts, children[i].restarts, RestartWindow, RateLimit)
       /\ Tracks(now, log[i].handoffs, children[i].handoffs, HandoffWindow, MaxHandoffs)

RatesInv == \A i \in Slots : RateInv(i)

IInv == TInv /\ StopInv /\ GateInv /\ RatesInv

\* A leaf that cites no prover goes to SMT, for at most a minute.
USE SMTT(60)

-----------------------------------------------------------------------------
(* Numbers and sets. *)

\* A set of naturals that is not empty has a least element.
LEMMA LeastExists ==
  ASSUME NEW S \in SUBSET Nat, S # {}
  PROVE  \E i \in S : \A j \in S : i <= j
<1>1. PICK i \in S : \A j \in S : ~(<<j, i>> \in OpToRel(<, Nat))
  BY NatLessThanWellFounded, WFMin, Zenon
<1>2. \A j \in S : ~(j < i)
  BY <1>1, Zenon DEF OpToRel
<1> QED
  BY <1>2

\* A part of m..n has at most n - m + 1 elements.
LEMMA IntervalBound ==
  ASSUME NEW m \in Int, NEW n \in Int, m <= n + 1, NEW S \in SUBSET (m..n)
  PROVE  Cardinality(S) \in Nat /\ Cardinality(S) <= n - m + 1
<1>1. /\ IsFiniteSet(m..n)
      /\ Cardinality(m..n) = IF m > n THEN 0 ELSE n - m + 1
  BY FS_Interval
<1>2. /\ IsFiniteSet(S) /\ Cardinality(S) <= Cardinality(m..n)
  BY <1>1, FS_Subset, Zenon
<1>3. Cardinality(S) \in Nat
  BY <1>2, FS_CardinalityType
<1> QED
  BY <1>1, <1>2, <1>3

\* The scan goes on at a listed child or ends.
LEMMA NextExitedType ==
  ASSUME NEW from \in Nat, NEW len \in Nat, from <= len + 1
  PROVE  NextExited(from, len) \in from..(len + 1)
<1> DEFINE S == {j \in from..len : Exited(children[j])}
<1>1. \E j \in from..(len + 1) :
        /\ j <= len => Exited(children[j])
        /\ \A k \in from..(j - 1) : ~Exited(children[k])
  <2>1. CASE S = {}
    <3>1. len + 1 \in from..(len + 1) /\ (len + 1) - 1 = len /\ ~(len + 1 <= len)
      OBVIOUS
    <3>2. \A k \in from..len : ~Exited(children[k])
      BY <2>1
    <3> QED
      BY <3>1, <3>2
  <2>2. CASE S # {}
    <3>1. S \in SUBSET Nat
      OBVIOUS
    <3>2. PICK j \in S : \A k \in S : j <= k
      BY <2>2, <3>1, LeastExists, Zenon
    <3>3. j \in from..(len + 1) /\ Exited(children[j])
      OBVIOUS
    <3>4. \A k \in from..(j - 1) : ~Exited(children[k])
      BY <3>2
    <3> QED
      BY <3>3, <3>4
  <2> QED
    BY <2>1, <2>2
<1> QED
  BY <1>1, Zenon DEF NextExited

-----------------------------------------------------------------------------
(* The histories of respawns. *)

\* The entries that expired come first.
LEMMA RecentIsSuffix ==
  ASSUME now \in 0..MaxTime, NEW times \in Times, NEW window \in Nat,
         \A j, k \in 1..Len(times) : j <= k => times[j] <= times[k]
  PROVE  \E n \in 0..Len(times) :
           /\ Recent(times, window) \in Times
           /\ Len(Recent(times, window)) = Len(times) - n
           /\ \A j \in 1..(Len(times) - n) : Recent(times, window)[j] = times[j + n]
           /\ \A j \in 1..Len(times) : now - times[j] < window <=> j > n
<1>1. PICK len \in Nat : len = Len(times) /\ DOMAIN times = 1..len
  BY LenProperties DEF Times
<1>2. \A j \in 1..len : times[j] \in 0..MaxTime
  BY <1>1, ElementOfSeq, Zenon DEF Times
<1>3. MaxTime \in Nat /\ now \in Int
  BY SupervisorAssumption
<1> DEFINE old == {j \in 1..len : now - times[j] >= window}
           new == {j \in 1..(len + 1) : j <= len => now - times[j] < window}
<1>4. len + 1 \in new /\ new \in SUBSET Nat
  OBVIOUS
<1>5. PICK f \in new : \A j \in new : f <= j
  BY <1>4, LeastExists, Zenon
<1>6. PICK n \in 0..len : n = f - 1
  BY <1>4, <1>5
<1>7. \A j \in 1..len : now - times[j] < window <=> j > n
  <2> SUFFICES ASSUME NEW j \in 1..len PROVE now - times[j] < window <=> j > n
    OBVIOUS
  <2>1. ASSUME now - times[j] < window PROVE j > n
    <3>1. j \in new
      BY <2>1
    <3> QED
      BY <1>5, <1>6, <3>1
  <2>2. ASSUME j > n PROVE now - times[j] < window
    <3>1. f \in 1..len /\ f <= j
      BY <1>5, <1>6, <2>2
    <3>2. now - times[f] < window
      BY <1>5, <3>1
    <3>3. times[f] <= times[j] /\ times[f] \in Int /\ times[j] \in Int
      BY <1>1, <1>2, <1>3, <3>1
    <3> QED
      BY <1>3, <3>2, <3>3
  <2> QED
    BY <2>1, <2>2
<1>8. old = 1..n
  <2>1. \A j \in 1..len : now - times[j] >= window <=> ~(now - times[j] < window)
    BY <1>2, <1>3
  <2> QED
    BY <1>6, <1>7, <2>1
<1>9. Cardinality(old) = n
  <2>1. n \in Int /\ 1 \in Int /\ n >= 0
    BY <1>6
  <2>2. Cardinality(1..n) = IF 1 > n THEN 0 ELSE n - 1 + 1
    BY <2>1, FS_Interval
  <2>3. Cardinality(1..n) = n
    BY <2>1, <2>2
  <2> QED
    BY <1>8, <2>3, Zenon
<1>10. Recent(times, window) = SubSeq(times, n + 1, len)
  BY <1>1, <1>9, Zenon DEF Recent
<1>11. /\ SubSeq(times, n + 1, len) \in Seq(0..MaxTime)
       /\ Len(SubSeq(times, n + 1, len)) = IF n + 1 <= len THEN len - (n + 1) + 1 ELSE 0
       /\ \A j \in 1..(len - (n + 1) + 1) : SubSeq(times, n + 1, len)[j] = times[(n + 1) + j - 1]
  <2>1. \A j \in (n + 1)..len : times[j] \in 0..MaxTime
    BY <1>2, <1>6
  <2>2. n + 1 \in Int /\ len \in Int
    BY <1>6
  <2> QED
    BY <2>1, <2>2, SubSeqProperties
<1>12. /\ Recent(times, window) \in Times
       /\ Len(Recent(times, window)) = len - n
       /\ \A j \in 1..(len - n) : Recent(times, window)[j] = times[j + n]
  BY <1>6, <1>10, <1>11 DEF Times
<1> QED
  BY <1>1, <1>7, <1>12

\* Nothing recorded, nothing respawned.
LEMMA TracksEmpty ==
  ASSUME NEW time, NEW window, NEW bound
  PROVE  Tracks(time, <<>>, <<>>, window, bound)
BY EmptySeq DEF Tracks, Matched, InWindow

\* Time passes: what leaves the window need not be matched any more.
LEMMA TracksLater ==
  ASSUME NEW time \in Nat, NEW all \in Times, NEW kept \in Times, NEW window \in Nat, NEW bound,
         Tracks(time, all, kept, window, bound)
  PROVE  Tracks(time + 1, all, kept, window, bound)
<1>1. Len(all) \in Nat /\ Len(kept) \in Nat /\ MaxTime \in Nat
  BY LenProperties, SupervisorAssumption DEF Times
<1>2. (\A j \in 1..Len(all) : all[j] \in Nat) /\ \A j \in 1..Len(kept) : kept[j] \in Nat
  <2>1. (\A j \in 1..Len(all) : all[j] \in 0..MaxTime) /\ \A j \in 1..Len(kept) : kept[j] \in 0..MaxTime
    BY ElementOfSeq, Zenon DEF Times
  <2> QED
    BY <1>1, <2>1
<1>3. Matched(time + 1, all, kept, window)
  <2> SUFFICES ASSUME NEW m \in 1..Len(all), NEW x, x = all[Len(all) + 1 - m],
                      (time + 1) - x < window
               PROVE  m <= Len(kept) /\ x <= kept[Len(kept) + 1 - m]
    BY DEF Matched
  <2>1. Len(all) + 1 - m \in 1..Len(all)
    BY <1>1
  <2>2. x \in Nat
    BY <1>2, <2>1
  <2>3. time - x < window
    BY <2>2
  <2> QED
    BY <2>3 DEF Tracks, Matched
<1>4. \A j \in 1..Len(all) : all[j] <= time + 1
  BY <1>2 DEF Tracks
<1>5. \A j \in 1..Len(kept) : kept[j] <= time + 1
  BY <1>2 DEF Tracks
<1> QED
  BY <1>3, <1>4, <1>5 DEF Tracks

\* Pruning drops no entry that still matches a respawn of the window.
LEMMA TracksPruned ==
  ASSUME now \in 0..MaxTime, NEW all \in Times, NEW kept \in Times, NEW window \in Nat, NEW bound,
         Tracks(now, all, kept, window, bound)
  PROVE  /\ Recent(kept, window) \in Times
         /\ Tracks(now, all, Recent(kept, window), window, bound)
<1>1. MaxTime \in Nat /\ now \in Nat
  BY SupervisorAssumption
<1>2. PICK n \in 0..Len(kept), r \in Times :
        /\ r = Recent(kept, window) /\ Len(r) = Len(kept) - n
        /\ \A j \in 1..(Len(kept) - n) : r[j] = kept[j + n]
        /\ \A j \in 1..Len(kept) : now - kept[j] < window <=> j > n
  BY RecentIsSuffix, Zenon DEF Tracks
<1>3. PICK a \in Nat, k \in Nat : a = Len(all) /\ k = Len(kept)
  BY LenProperties DEF Times
<1>4. (\A j \in 1..a : all[j] \in Nat) /\ \A j \in 1..k : kept[j] \in Nat
  <2>1. (\A j \in 1..a : all[j] \in 0..MaxTime) /\ \A j \in 1..k : kept[j] \in 0..MaxTime
    BY <1>3, ElementOfSeq, Zenon DEF Times
  <2> QED
    BY <1>1, <2>1
<1>5. \A j \in 1..Len(r) : j + n \in 1..k /\ r[j] = kept[j + n]
  BY <1>2, <1>3
<1>6. \A j \in 1..Len(r) : r[j] <= now
  BY <1>3, <1>5 DEF Tracks
<1>7. \A i, j \in 1..Len(r) : i <= j => r[i] <= r[j]
  <2> SUFFICES ASSUME NEW i \in 1..Len(r), NEW j \in 1..Len(r), i <= j PROVE r[i] <= r[j]
    OBVIOUS
  <2>1. i + n \in 1..k /\ j + n \in 1..k /\ i + n <= j + n
    BY <1>2, <1>3, <1>5
  <2> QED
    BY <1>3, <1>5, <2>1 DEF Tracks
<1>8. Matched(now, all, r, window)
  <2> SUFFICES ASSUME NEW m \in 1..a, NEW x, x = all[a + 1 - m], now - x < window
               PROVE  m <= Len(r) /\ x <= r[Len(r) + 1 - m]
    BY <1>3, Zenon DEF Matched
  <2>1. m <= k /\ x <= kept[k + 1 - m]
    BY <1>3, Zenon DEF Tracks, Matched
  <2>2. a + 1 - m \in 1..a /\ k + 1 - m \in 1..k
    BY <2>1
  <2>3. PICK y \in Nat, z \in Nat : y = x /\ z = kept[k + 1 - m]
    BY <1>4, <2>2
  <2>4. now - z < window
    BY <1>1, <2>1, <2>3
  <2>5. k + 1 - m > n
    BY <1>2, <1>3, <2>2, <2>3, <2>4, Zenon
  <2>6. Len(r) = k - n /\ n \in 0..k
    BY <1>2, <1>3
  <2>7. m <= Len(r) /\ Len(r) + 1 - m \in 1..Len(r) /\ (Len(r) + 1 - m) + n = k + 1 - m
    BY <2>5, <2>6
  <2>8. r[Len(r) + 1 - m] = kept[k + 1 - m]
    BY <1>5, <2>7, Zenon
  <2> QED
    BY <2>1, <2>7, <2>8, Zenon
<1>9. Tracks(now, all, r, window, bound)
  BY <1>6, <1>7, <1>8 DEF Tracks
<1> QED
  BY <1>2, <1>9

\* What a respawn now adds to a history.
LEMMA Recorded ==
  ASSUME NEW time \in 0..MaxTime, NEW times \in Times, \A j \in 1..Len(times) : times[j] <= time
  PROVE  /\ Append(times, time) \in Times
         /\ Len(Append(times, time)) = Len(times) + 1
         /\ \A j \in 1..Len(times) : Append(times, time)[j] = times[j]
         /\ Append(times, time)[Len(times) + 1] = time
         /\ \A j \in 1..(Len(times) + 1) : Append(times, time)[j] <= time
<1>1. /\ Append(times, time) \in Times
      /\ Len(Append(times, time)) = Len(times) + 1
      /\ \A j \in 1..Len(times) : Append(times, time)[j] = times[j]
      /\ Append(times, time)[Len(times) + 1] = time
  BY AppendProperties DEF Times
<1>2. Len(times) \in Nat /\ MaxTime \in Nat
  BY LenProperties, SupervisorAssumption DEF Times
<1>3. ASSUME NEW j \in 1..(Len(times) + 1) PROVE Append(times, time)[j] <= time
  <2>1. j \in 1..Len(times) \/ j = Len(times) + 1
    BY <1>2
  <2> QED
    BY <1>1, <1>2, <2>1
<1> QED
  BY <1>1, <1>3

\* An ordered history stays ordered.
LEMMA RecordedOrder ==
  ASSUME NEW time \in 0..MaxTime, NEW times \in Times, \A j \in 1..Len(times) : times[j] <= time,
         \A j, k \in 1..Len(times) : j <= k => times[j] <= times[k]
  PROVE  \A j, k \in 1..(Len(times) + 1) :
           j <= k => Append(times, time)[j] <= Append(times, time)[k]
<1>1. Len(times) \in Nat
  BY LenProperties DEF Times
<1> SUFFICES ASSUME NEW j \in 1..(Len(times) + 1), NEW k \in 1..(Len(times) + 1), j <= k
             PROVE  Append(times, time)[j] <= Append(times, time)[k]
  OBVIOUS
<1>2. CASE k = Len(times) + 1
  BY <1>2, Recorded
<1>3. CASE k # Len(times) + 1
  <2>1. k \in 1..Len(times) /\ j \in 1..Len(times)
    BY <1>1, <1>3
  <2> QED
    BY <2>1, Recorded
<1> QED
  BY <1>2, <1>3

\* A respawn that fails is recorded and matches more than it has to.
LEMMA TracksFailed ==
  ASSUME NEW time \in 0..MaxTime, NEW all \in Times, NEW kept \in Times, NEW window, NEW bound,
         Tracks(time, all, kept, window, bound)
  PROVE  Tracks(time, all, Append(kept, time), window, bound)
<1>1. MaxTime \in Nat
  BY SupervisorAssumption
<1>2. PICK a \in Nat, k \in Nat : a = Len(all) /\ k = Len(kept)
  BY LenProperties DEF Times
<1>3. PICK r \in Times :
        /\ r = Append(kept, time) /\ Len(r) = k + 1 /\ r[k + 1] = time
        /\ \A j \in 1..k : r[j] = kept[j]
        /\ \A j \in 1..(k + 1) : r[j] <= time
        /\ \A i, j \in 1..(k + 1) : i <= j => r[i] <= r[j]
  <2>1. /\ \A j \in 1..Len(kept) : kept[j] <= time
        /\ \A i, j \in 1..Len(kept) : i <= j => kept[i] <= kept[j]
    BY DEF Tracks
  <2>2. PICK r : r = Append(kept, time)
    BY Zenon
  <2>3. /\ r \in Times /\ Len(r) = k + 1 /\ r[k + 1] = time
        /\ \A j \in 1..k : r[j] = kept[j]
        /\ \A j \in 1..(k + 1) : r[j] <= time
    BY <1>2, <2>1, <2>2, Recorded
  <2>4. \A i, j \in 1..(k + 1) : i <= j => r[i] <= r[j]
    BY <1>2, <2>1, <2>2, RecordedOrder, Zenon
  <2> QED
    BY <2>2, <2>3, <2>4, Zenon
<1>4. Matched(time, all, r, window)
  <2> SUFFICES ASSUME NEW m \in 1..a, NEW x, x = all[a + 1 - m], time - x < window
               PROVE  m <= k + 1 /\ x <= r[k + 2 - m]
    BY <1>2, <1>3 DEF Matched
  <2>1. a + 1 - m \in 1..a
    OBVIOUS
  <2>2. all[a + 1 - m] \in 0..MaxTime
    BY <1>2, <2>1, ElementOfSeq, Zenon DEF Times
  <2>3. x \in Nat /\ x <= time
    BY <1>1, <1>2, <2>1, <2>2 DEF Tracks
  <2>4. m <= k /\ x <= kept[k + 1 - m]
    BY <1>2 DEF Tracks, Matched
  <2>5. k + 1 - m \in 1..k /\ k + 2 - m \in 1..(k + 1) /\ k + 1 - m \in 1..(k + 1)
        /\ k + 1 - m <= k + 2 - m
    BY <2>4
  <2>6. PICK y \in Nat, z \in Nat : y = r[k + 1 - m] /\ z = r[k + 2 - m]
    <3>1. r[k + 1 - m] \in 0..MaxTime /\ r[k + 2 - m] \in 0..MaxTime
      BY <1>3, <2>5, ElementOfSeq, Zenon DEF Times
    <3> QED
      BY <1>1, <3>1
  <2>7. y = kept[k + 1 - m] /\ y <= z
    BY <1>3, <2>5, <2>6, ZenonT(60)
  <2> QED
    BY <2>3, <2>4, <2>6, <2>7
<1>5. Tracks(time, all, r, window, bound)
  BY <1>3, <1>4 DEF Tracks
<1> QED
  BY <1>3, <1>5

\* A respawn with room in the history keeps within the bound: every other
\* respawn of the window has an entry of its own.
LEMMA TracksRespawn ==
  ASSUME NEW time \in 0..MaxTime, NEW all \in Times, NEW kept \in Times,
         NEW window \in Nat \ {0}, NEW bound \in Nat,
         Tracks(time, all, kept, window, bound), Len(kept) < bound
  PROVE  Tracks(time, Append(all, time), Append(kept, time), window, bound)
<1>1. MaxTime \in Nat /\ time \in Nat
  BY SupervisorAssumption
<1>2. PICK a \in Nat, k \in Nat : a = Len(all) /\ k = Len(kept)
  BY LenProperties DEF Times
<1>3. PICK r \in Times :
        /\ r = Append(kept, time) /\ Len(r) = k + 1 /\ r[k + 1] = time
        /\ \A j \in 1..k : r[j] = kept[j]
        /\ \A j \in 1..(k + 1) : r[j] <= time
        /\ \A i, j \in 1..(k + 1) : i <= j => r[i] <= r[j]
  <2>1. /\ \A j \in 1..Len(kept) : kept[j] <= time
        /\ \A i, j \in 1..Len(kept) : i <= j => kept[i] <= kept[j]
    BY DEF Tracks
  <2>2. PICK r : r = Append(kept, time)
    BY Zenon
  <2>3. /\ r \in Times /\ Len(r) = k + 1 /\ r[k + 1] = time
        /\ \A j \in 1..k : r[j] = kept[j]
        /\ \A j \in 1..(k + 1) : r[j] <= time
    BY <1>2, <2>1, <2>2, Recorded
  <2>4. \A i, j \in 1..(k + 1) : i <= j => r[i] <= r[j]
    BY <1>2, <2>1, <2>2, RecordedOrder, Zenon
  <2> QED
    BY <2>2, <2>3, <2>4, Zenon
<1>4. PICK s \in Times :
        /\ s = Append(all, time) /\ Len(s) = a + 1 /\ s[a + 1] = time
        /\ \A j \in 1..a : s[j] = all[j]
        /\ \A j \in 1..(a + 1) : s[j] <= time
  BY <1>2, Recorded, ZenonT(60) DEF Tracks
<1>5. \A m \in 1..a : time - all[a + 1 - m] < window
                        => m <= k /\ all[a + 1 - m] <= kept[k + 1 - m]
  BY <1>2, Zenon DEF Tracks, Matched
<1>6. Matched(time, s, r, window)
  <2> SUFFICES ASSUME NEW m \in 1..(a + 1), NEW x, x = s[(a + 1) + 1 - m],
                      time - x < window
               PROVE  m <= k + 1 /\ x <= r[(k + 1) + 1 - m]
    BY <1>3, <1>4, ZenonT(60) DEF Matched
  <2>1. CASE m = 1
    <3>1. (a + 1) + 1 - m = a + 1 /\ (k + 1) + 1 - m = k + 1
      BY <2>1
    <3> QED
      BY <1>1, <1>3, <1>4, <2>1, <3>1
  <2>2. CASE m # 1
    <3>1. PICK l \in 1..a : l = m - 1 /\ (a + 1) + 1 - m = a + 1 - l /\ (k + 1) + 1 - m = k + 1 - l
      BY <2>2
    <3>2. x = all[a + 1 - l]
      BY <1>4, <3>1
    <3>3. l <= k /\ x <= kept[k + 1 - l]
      BY <1>5, <3>2
    <3>4. r[k + 1 - l] = kept[k + 1 - l]
      BY <1>3, <3>1, <3>3
    <3> QED
      BY <3>1, <3>3, <3>4
  <2> QED
    BY <2>1, <2>2
<1>7. InWindow(s, window, bound)
  <2> SUFFICES ASSUME NEW j \in 1..(a + 1)
               PROVE  Cardinality({i \in 1..j : s[j] - s[i] < window}) <= bound
    <3>1. DOMAIN s = 1..(a + 1)
      BY <1>4, LenProperties DEF Times
    <3> QED
      BY <3>1, Zenon DEF InWindow
  <2>1. CASE j \in 1..a
    <3>1. {i \in 1..j : s[j] - s[i] < window} = {i \in 1..j : all[j] - all[i] < window}
      <4>1. \A i \in 1..j : s[i] = all[i] /\ s[j] = all[j]
        BY <1>4, <2>1
      <4> QED
        BY <4>1
    <3>2. DOMAIN all = 1..a
      BY <1>2, LenProperties DEF Times
    <3> QED
      BY <2>1, <3>1, <3>2, ZenonT(60) DEF Tracks, InWindow
  <2>2. CASE j = a + 1
    <3> DEFINE S == {i \in 1..j : s[j] - s[i] < window}
    <3>1. S \subseteq (a + 1 - k)..(a + 1)
      <4> SUFFICES ASSUME NEW i \in S, i # a + 1 PROVE i \in (a + 1 - k)..(a + 1)
        BY <2>2
      <4>1. i \in 1..a
        BY <2>2
      <4>2. PICK m \in 1..a : m = a + 1 - i /\ a + 1 - m = i
        BY <4>1
      <4>3. time - all[a + 1 - m] < window
        BY <1>4, <2>2, <4>1, <4>2, ZenonT(60)
      <4>4. m <= k
        BY <1>5, <4>3, Zenon
      <4> QED
        BY <4>1, <4>2, <4>4
    <3>2. Cardinality(S) \in Nat /\ Cardinality(S) <= (a + 1) - (a + 1 - k) + 1
      <4> HIDE DEF S
      <4>1. a + 1 - k \in Int /\ a + 1 \in Int /\ a + 1 - k <= (a + 1) + 1
        OBVIOUS
      <4> QED
        BY <3>1, <4>1, IntervalBound, Zenon
    <3> HIDE DEF S
    <3>3. Cardinality(S) <= bound
      BY <1>2, <3>2
    <3> QED
      BY <3>3 DEF S
  <2> QED
    BY <2>1, <2>2
<1>8. Tracks(time, s, r, window, bound)
  BY <1>3, <1>4, <1>6, <1>7 DEF Tracks
<1> QED
  BY <1>3, <1>4, <1>8

-----------------------------------------------------------------------------
(* Types, the mutex and what each task looks at. *)

\* The constants are numbers.
LEMMA Numbers ==
  /\ Immediate \in Nat /\ MaxTime \in Nat /\ MaxExits \in Nat
  /\ Networks \in Nat \ {0} /\ MaxAttempts \in Nat \ {0} /\ RateLimit \in Nat \ {0}
  /\ RestartWindow \in Nat \ {0} /\ MaxHandoffs \in Nat \ {0} /\ HandoffWindow \in Nat \ {0}
BY SupervisorAssumption

\* A child just spawned.
LEMMA SpawnedType ==
  ASSUME now \in 0..MaxTime
  PROVE  /\ Spawned \in Child /\ Spawned.proc = "up"
         /\ Spawned.restarts = <<>> /\ Spawned.handoffs = <<>>
<1>1. <<>> \in Times
  BY EmptySeq DEF Times
<1>2. 0 \in 0..MaxAttempts
  BY Numbers
<1> QED
  BY <1>1, <1>2 DEF Spawned, Child, Processes

\* Pruning keeps the type, whatever the history.
LEMMA RecentType ==
  ASSUME now \in 0..MaxTime, NEW times \in Times, NEW window \in Nat
  PROVE  Recent(times, window) \in Times /\ Len(Recent(times, window)) \in Nat
<1>1. Len(times) \in Nat /\ DOMAIN times = 1..Len(times)
  BY LenProperties DEF Times
<1> DEFINE expired == {j \in DOMAIN times : now - times[j] >= window}
<1>2. Cardinality(expired) \in Nat
  <2>1. 1 \in Int /\ Len(times) \in Int /\ 1 <= Len(times) + 1 /\ expired \in SUBSET (1..Len(times))
    BY <1>1
  <2> HIDE DEF expired
  <2> QED
    BY <2>1, IntervalBound, Zenon
<1> HIDE DEF expired
<1>3. \A j \in (Cardinality(expired) + 1)..Len(times) : times[j] \in 0..MaxTime
  <2>1. \A j \in 1..Len(times) : times[j] \in 0..MaxTime
    BY ElementOfSeq, Zenon DEF Times
  <2> QED
    BY <1>1, <1>2, <2>1
<1>4. SubSeq(times, Cardinality(expired) + 1, Len(times)) \in Seq(0..MaxTime)
  <2>1. Cardinality(expired) + 1 \in Int /\ Len(times) \in Int
    BY <1>1, <1>2
  <2> QED
    BY <1>3, <2>1, SubSeqProperties
<1>5. Recent(times, window) \in Times
  BY <1>4 DEF Recent, expired, Times
<1> QED
  BY <1>5, LenProperties DEF Times

\* A slot is overwritten.
LEMMA Replaced ==
  ASSUME ChildrenOK, NEW i \in 1..Len(children), NEW c \in Child,
         children' = [children EXCEPT ![i] = c]
  PROVE  /\ ChildrenOK' /\ Len(children') = Len(children) /\ children'[i] = c
         /\ \A j \in 1..Len(children) : j # i => children'[j] = children[j]
<1>1. children \in Seq(Child)
  BY DEF ChildrenOK
<1>2. /\ children' \in Seq(Child) /\ Len(children') = Len(children)
      /\ \A j \in 1..Len(children) : children'[j] = IF j = i THEN c ELSE children[j]
  BY <1>1, ExceptSeq
<1> QED
  BY <1>2 DEF ChildrenOK

\* The listed children have their types.
LEMMA Listing ==
  ASSUME ChildrenOK
  PROVE  /\ Len(children) \in Nat /\ DOMAIN children = 1..Len(children)
         /\ \A j \in 1..Len(children) :
              /\ children[j] \in Child /\ children[j].restarts \in Times
              /\ children[j].handoffs \in Times /\ Len(children[j].restarts) \in Nat
<1>1. Len(children) \in Nat /\ DOMAIN children = 1..Len(children)
  BY LenProperties DEF ChildrenOK
<1>2. ASSUME NEW j \in 1..Len(children) PROVE children[j] \in Child
  BY ElementOfSeq DEF ChildrenOK
<1>3. ASSUME NEW j \in 1..Len(children)
      PROVE  /\ children[j].restarts \in Times /\ children[j].handoffs \in Times
             /\ Len(children[j].restarts) \in Nat
  <2>1. children[j].restarts \in Times /\ children[j].handoffs \in Times
    BY <1>2 DEF Child
  <2> QED
    BY <2>1, LenProperties, Zenon DEF Times
<1> QED
  BY <1>1, <1>2, <1>3, Zenon

\* The children and their networks.
LEMMA OutsideTypes ==
  ASSUME TInv,
         \/ \E code \in ExitCodes : HeldExits(code) \/ \E i \in DOMAIN children : ChildExits(i, code)
         \/ \E n \in 1..Networks : PassBulk(n)
         \/ Tick
  PROVE  TInv'
<1>1. CASE \E code \in ExitCodes : \E i \in DOMAIN children : ChildExits(i, code)
  <2>1. PICK code \in ExitCodes, i \in 1..Len(children) : ChildExits(i, code)
    BY <1>1, Listing DEF TInv
  <2>a. children[i] \in Child /\ code \in Processes
    BY Listing DEF TInv, Processes
  <2>b. PICK c : c = [children[i] EXCEPT !.proc = code]
    BY Zenon
  <2>2. c \in Child /\ c.restarts = children[i].restarts
    BY <2>a, <2>b DEF Child
  <2>3. children' = [children EXCEPT ![i] = c]
    BY <2>1, <2>b DEF ChildExits
  <2>4. /\ ChildrenOK' /\ Len(children') = Len(children)
        /\ \A j \in 1..Len(children) : children'[j].restarts = children[j].restarts
    BY <2>2, <2>3, Replaced, ZenonT(60) DEF TInv
  <2>5. UNCHANGED <<requested, lock, signal, main, mon, seq, held, past, now, log>>
        /\ exits < MaxExits /\ exits' = exits + 1
    BY <2>1 DEF ChildExits, Exits
  <2>6. exits' \in 0..MaxExits
    BY <2>5, Numbers DEF TInv, OthersOK
  <2>7. OthersOK' /\ HeldOK' /\ LockInv' /\ SeqInv'
    BY <2>5, <2>6 DEF TInv, OthersOK, HeldOK, LockInv, SeqInv
  <2>8. MonInv'
    <3>1. mon.pc = "backoff" => mon.i \in 1..Len(children)
      BY Listing DEF TInv, MonInv
    <3> QED
      BY <2>4, <2>5, <3>1, ZenonT(60) DEF TInv, MonInv
  <2> QED
    BY <2>4, <2>7, <2>8, ZenonT(60) DEF TInv
<1>2. CASE \E code \in ExitCodes : HeldExits(code)
  <2>1. PICK code \in ExitCodes : HeldExits(code)
    BY <1>2
  <2>2. held # <<>> /\ held \in Seq(Child) /\ 1 \in 1..Len(held)
    BY <2>1, EmptySeq DEF HeldExits, TInv, HeldOK
  <2>3. PICK h \in Child : h = held[1]
    BY <2>2, ElementOfSeq
  <2>a. code \in Processes
    BY DEF Processes
  <2>b. PICK c : c = [h EXCEPT !.proc = code]
    BY Zenon
  <2>4. c \in Child /\ c.restarts = h.restarts /\ c.handoffs = h.handoffs
    BY <2>a, <2>b DEF Child
  <2>5. held' = <<c>>
    BY <2>1, <2>3, <2>b DEF HeldExits
  <2>6. UNCHANGED <<children, requested, lock, signal, main, mon, seq, past, now, log>>
        /\ exits < MaxExits /\ exits' = exits + 1
    BY <2>1 DEF HeldExits, Exits, shared
  <2>7. exits' \in 0..MaxExits
    BY <2>6, Numbers DEF TInv, OthersOK
  <2>8. OthersOK' /\ LockInv' /\ MonInv' /\ ChildrenOK'
    BY <2>6, <2>7 DEF TInv, OthersOK, LockInv, MonInv, ChildrenOK
  <2>9. HeldOK' /\ held'[1] = c
    BY <2>4, <2>5 DEF HeldOK
  <2>10. SeqInv'
    BY <2>2, <2>3, <2>4, <2>6, <2>9, ZenonT(60) DEF TInv, SeqInv
  <2> QED
    BY <2>8, <2>9, <2>10, Zenon DEF TInv
<1>3. CASE Tick \/ \E n \in 1..Networks : PassBulk(n)
  <2>1. /\ UNCHANGED <<children, requested, lock, signal, main, mon, seq, held, exits, log>>
        /\ now' \in 0..MaxTime /\ past' \subseteq 1..Networks
    <3>1. CASE Tick
      BY <3>1, Numbers DEF Tick, shared, TInv, OthersOK
    <3>2. CASE \E n \in 1..Networks : PassBulk(n)
      BY <3>2 DEF PassBulk, shared, TInv, OthersOK
    <3> QED
      BY <1>3, <3>1, <3>2
  <2> QED
    BY <2>1 DEF TInv, OthersOK, HeldOK, LockInv, MonInv, SeqInv, ChildrenOK
<1> QED
  BY <1>1, <1>2, <1>3, Zenon

-----------------------------------------------------------------------------
(* The monitor. *)

\* The child that takes over after a clean exit carries both windows.
LEMMA HandoffChildType ==
  ASSUME now \in 0..MaxTime, NEW c \in Child
  PROVE  /\ HandoffChild(c) \in Child
         /\ HandoffChild(c).handoffs = Append(Recent(c.handoffs, HandoffWindow), now)
         /\ HandoffChild(c).restarts = c.restarts
         /\ Recent(c.handoffs, HandoffWindow) \in Times
         /\ Append(Recent(c.handoffs, HandoffWindow), now) \in Times
<1>1. c.handoffs \in Times /\ c.restarts \in Times
  BY DEF Child
<1>2. PICK t \in Times : t = Recent(c.handoffs, HandoffWindow)
  BY <1>1, RecentType, Numbers
<1>3. PICK u \in Times : u = Append(t, now)
  BY AppendProperties, Zenon DEF Times
<1>4. HandoffChild(c) = [Spawned EXCEPT !.handoffs = u, !.restarts = c.restarts]
  BY <1>2, <1>3 DEF HandoffChild
<1>5. Spawned \in Child
  BY SpawnedType
<1>6. /\ [Spawned EXCEPT !.handoffs = u, !.restarts = c.restarts] \in Child
      /\ [Spawned EXCEPT !.handoffs = u, !.restarts = c.restarts].handoffs = u
      /\ [Spawned EXCEPT !.handoffs = u, !.restarts = c.restarts].restarts = c.restarts
  BY <1>1, <1>5, Zenon DEF Child
<1> QED
  BY <1>2, <1>3, <1>4, <1>6, Zenon

\* So does the one respawned after a backoff.
LEMMA RestartChildType ==
  ASSUME now \in 0..MaxTime, NEW c \in Child, mon.next \in 1..MaxAttempts
  PROVE  /\ RestartChild(c) \in Child
         /\ RestartChild(c).restarts = Append(c.restarts, now)
         /\ RestartChild(c).handoffs = c.handoffs
         /\ FailedRestart(c) \in Child
         /\ FailedRestart(c).restarts = Append(c.restarts, now)
         /\ FailedRestart(c).handoffs = c.handoffs
         /\ Append(c.restarts, now) \in Times
<1>1. c.handoffs \in Times /\ c.restarts \in Times
  BY DEF Child
<1>2. PICK u \in Times : u = Append(c.restarts, now)
  BY <1>1, AppendProperties, Zenon DEF Times
<1>3. mon.next \in 0..MaxAttempts
  BY Numbers
<1>4. Spawned \in Child
  BY SpawnedType
<1>5. RestartChild(c) = [Spawned EXCEPT !.count = mon.next, !.restarts = u, !.handoffs = c.handoffs]
  BY <1>2 DEF RestartChild
<1>6. PICK r \in Child : r = RestartChild(c) /\ r.restarts = u /\ r.handoffs = c.handoffs
  BY <1>1, <1>3, <1>4, <1>5, Zenon DEF Child
<1>7. FailedRestart(c) = [c EXCEPT !.restarts = u]
  BY <1>2 DEF FailedRestart
<1>8. PICK f \in Child : f = FailedRestart(c) /\ f.restarts = u /\ f.handoffs = c.handoffs
  BY <1>7 DEF Child
<1> QED
  BY <1>2, <1>6, <1>8

\* A history that is pruned.
LEMMA PrunedType ==
  ASSUME now \in 0..MaxTime, NEW c \in Child
  PROVE  /\ Pruned(c) \in Child
         /\ Pruned(c).restarts = Recent(c.restarts, RestartWindow)
         /\ Pruned(c).handoffs = c.handoffs
         /\ Len(Recent(c.restarts, RestartWindow)) \in Nat
<1>1. c.restarts \in Times
  BY DEF Child
<1>2. PICK t \in Times : t = Recent(c.restarts, RestartWindow) /\ Len(t) \in Nat
  BY <1>1, RecentType, Numbers
<1>3. Pruned(c) = [c EXCEPT !.restarts = t]
  BY <1>2 DEF Pruned
<1>4. PICK f \in Child : f = Pruned(c) /\ f.restarts = t /\ f.handoffs = c.handoffs
  BY <1>3 DEF Child
<1> QED
  BY <1>2, <1>4

\* Histories, log and clock untouched.
LEMMA RatesKept ==
  ASSUME TInv, RatesInv, now' = now, log' = log, Len(children') = Len(children),
         \A j \in 1..Len(children) : /\ children'[j].restarts = children[j].restarts
                                     /\ children'[j].handoffs = children[j].handoffs
  PROVE  RatesInv'
<1> SUFFICES ASSUME NEW i \in Slots PROVE RateInv(i)'
  BY DEF RatesInv
<1>1. Len(children) \in Nat /\ i \in Nat \ {0}
  BY Listing, Numbers DEF TInv, Slots
<1>2. RateInv(i)
  BY ZenonT(60) DEF RatesInv
<1>3. CASE i > Len(children)
  BY <1>1, <1>2, <1>3 DEF RateInv
<1>4. CASE i <= Len(children)
  <2>1. i \in 1..Len(children)
    BY <1>1, <1>4
  <2> QED
    BY <1>1, <1>2, <2>1, ZenonT(60) DEF RateInv
<1> QED
  BY <1>1, <1>3, <1>4

\* One child's histories change.
LEMMA RatesReplaced ==
  ASSUME TInv, RatesInv, NEW i \in 1..Len(children), NEW c \in Child,
         children' = [children EXCEPT ![i] = c], now' = now,
         \A j \in Slots : j # i => log'[j] = log[j],
         Tracks(now, log'[i].restarts, c.restarts, RestartWindow, RateLimit),
         Tracks(now, log'[i].handoffs, c.handoffs, HandoffWindow, MaxHandoffs)
  PROVE  RatesInv'
<1> SUFFICES ASSUME NEW j \in Slots PROVE RateInv(j)'
  BY Zenon DEF RatesInv
<1>1. Len(children) \in Nat /\ j \in Nat \ {0}
  BY Listing, Numbers DEF TInv, Slots
<1>2. /\ Len(children') = Len(children) /\ children'[i] = c
      /\ \A k \in 1..Len(children) : k # i => children'[k] = children[k]
  BY Replaced, Zenon DEF TInv
<1>3. RateInv(j)
  BY Zenon DEF RatesInv
<1>4. CASE j = i
  BY <1>1, <1>2, <1>4 DEF RateInv
<1>5. CASE j # i
  <2>1. j <= Len(children) => children'[j] = children[j]
    BY <1>1, <1>2, <1>5
  <2>2. log'[j] = log[j]
    BY <1>5
  <2> QED
    BY <1>2, <1>3, <2>1, <2>2, ZenonT(60) DEF RateInv
<1> QED
  BY <1>4, <1>5, Zenon

\* The monitor has dealt with a child, under the mutex, and looks for the next.
LEMMA ScanGoesOn ==
  ASSUME TInv, mon.pc = "scan" \/ AfterBackoff, mon.i <= mon.len, NEW c \in Child,
         children' = [children EXCEPT ![mon.i] = c], mon' = Scanned, lock' = "monitor",
         log' \in [Slots -> [restarts : Times, handoffs : Times]],
         UNCHANGED <<requested, signal, main, seq, held, outside>>
  PROVE  /\ TInv' /\ Len(children') = Len(children) /\ ~requested'
<1>1. /\ mon \in [pc : {"sleep", "scan", "backoff", "gone"}, i : Nat, len : Nat, next : Nat]
      /\ mon.i # 0 /\ mon.len <= Len(children) /\ Len(children) \in Nat
  BY Listing DEF TInv, MonInv, AfterBackoff
<1>2. mon.i \in 1..Len(children)
  BY <1>1
<1>3. ChildrenOK' /\ Len(children') = Len(children)
  BY <1>2, Replaced, Zenon DEF TInv
<1>4. NextExited(mon.i + 1, mon.len) \in (mon.i + 1)..(mon.len + 1)
  <2>1. mon.i + 1 \in Nat /\ mon.len \in Nat /\ mon.i + 1 <= mon.len + 1
    BY <1>1
  <2> QED
    BY <2>1, NextExitedType, Zenon
<1>5. mon' = [mon EXCEPT !.pc = "scan", !.i = NextExited(mon.i + 1, mon.len), !.next = 0]
  BY DEF Scanned
<1>6. PICK n \in (mon.i + 1)..(mon.len + 1) : n = NextExited(mon.i + 1, mon.len)
  BY <1>4
<1>7. /\ mon' \in [pc : {"sleep", "scan", "backoff", "gone"}, i : Nat, len : Nat, next : Nat]
      /\ mon'.pc = "scan" /\ mon'.i = n /\ mon'.len = mon.len
  <2>1. n \in Nat
    BY <1>1, <1>6
  <2>2. mon' = [mon EXCEPT !.pc = "scan", !.i = n, !.next = 0]
    BY <1>5, <1>6
  <2>3. mon \in [pc : {"sleep", "scan", "backoff", "gone"}, i : Nat, len : Nat, next : Nat]
    BY <1>1
  <2>a. mon' = [pc |-> "scan", i |-> n, len |-> mon.len, next |-> 0] /\ mon.len \in Nat
    BY <2>2, <2>3, ZenonT(60)
  <2>4. mon' \in [pc : {"sleep", "scan", "backoff", "gone"}, i : Nat, len : Nat, next : Nat]
    BY <2>1, <2>a
  <2>5. mon'.pc = "scan" /\ mon'.i = n /\ mon'.len = mon.len
    BY <2>2, <2>3
  <2> QED
    BY <2>4, <2>5
<1>8. MonInv'
  <2>1. n # 0 /\ n <= mon.len + 1
    BY <1>1, <1>6
  <2> QED
    BY <1>1, <1>3, <1>7, <2>1 DEF MonInv
<1>9. ~requested /\ lock # "main"
  BY Zenon DEF TInv, LockInv, AfterBackoff
<1>10. LockInv'
  BY <1>7, <1>9, ZenonT(60) DEF TInv, LockInv
<1>11. OthersOK' /\ HeldOK' /\ SeqInv'
  BY DEF TInv, OthersOK, HeldOK, SeqInv, outside
<1> QED
  BY <1>3, <1>8, <1>9, <1>10, <1>11, ZenonT(60) DEF TInv

\* What the monitor does to the list: types and windows are kept, no child is
\* added, and during a shutdown nothing changes.
MonitorKeeps ==
  TInv' /\ RatesInv' /\ Len(children') = Len(children) /\ (requested' => children' = children)

\* A child it passes, or that a scan begins and ends with.
LEMMA MonitorMoves ==
  ASSUME TInv, RatesInv, MonitorReturns \/ BeginScan \/ EndScan
  PROVE  MonitorKeeps
<1>1. UNCHANGED <<children, requested, signal, main, seq, held, past, now, exits, log>>
  BY DEF MonitorReturns, BeginScan, EndScan, shared, outside
<1>2. RatesInv'
  BY <1>1, RatesKept, ZenonT(60)
<1>3. ChildrenOK' /\ HeldOK' /\ SeqInv'
  BY <1>1 DEF TInv, ChildrenOK, HeldOK, SeqInv
<1>4. Len(children) \in Nat
  BY Listing, Zenon DEF TInv
<1>5. /\ mon' \in [pc : {"sleep", "scan", "backoff", "gone"}, i : Nat, len : Nat, next : Nat]
      /\ mon'.pc \in {"sleep", "gone", "scan"}
      /\ mon'.pc = "scan" => /\ mon'.i # 0 /\ mon'.i <= mon'.len + 1
                             /\ mon'.len <= Len(children)
  <2>1. CASE BeginScan
    <3>1. PICK n \in 1..(Len(children) + 1) : n = NextExited(1, Len(children))
      <4>1. 1 \in Nat /\ 1 <= Len(children) + 1
        BY <1>4
      <4> QED
        BY <1>4, <4>1, NextExitedType, Zenon
    <3>2. mon' = [pc |-> "scan", i |-> n, len |-> Len(children), next |-> 0]
      BY <2>1, <3>1 DEF BeginScan
    <3>3. n \in Nat /\ n # 0 /\ n <= Len(children) + 1
      BY <1>4
    <3> QED
      BY <1>4, <3>2, <3>3
  <2>2. CASE MonitorReturns \/ EndScan
    BY <2>2 DEF MonitorReturns, EndScan, MonAt
  <2> QED
    BY <2>1, <2>2, ZenonT(60)
<1>6. MonInv'
  BY <1>1, <1>5, ZenonT(60) DEF MonInv
<1>7. LockInv' /\ lock' \in {"free", "monitor", "main"}
  BY <1>1 DEF TInv, LockInv, OthersOK, MonitorReturns, BeginScan, EndScan, MonAt, shared
<1>8. OthersOK'
  BY <1>1, <1>7, Zenon DEF TInv, OthersOK
<1> QED
  BY <1>1, <1>2, <1>3, <1>6, <1>7, <1>8 DEF TInv, MonitorKeeps

\* What holds of the child the monitor is at.
LEMMA AtChild ==
  ASSUME TInv, RatesInv, mon.pc \in {"scan", "backoff"}, mon.i <= mon.len
  PROVE  /\ mon.i \in 1..Len(children) /\ children[mon.i] \in Child /\ mon.i \in Slots
         /\ children[mon.i].restarts \in Times /\ children[mon.i].handoffs \in Times
         /\ log[mon.i].restarts \in Times /\ log[mon.i].handoffs \in Times
         /\ now \in 0..MaxTime /\ now \in Nat
         /\ Tracks(now, log[mon.i].restarts, children[mon.i].restarts, RestartWindow, RateLimit)
         /\ Tracks(now, log[mon.i].handoffs, children[mon.i].handoffs, HandoffWindow, MaxHandoffs)
<1>1. mon.i \in 1..Len(children) /\ Len(children) <= Immediate + Networks
  BY Listing DEF TInv, MonInv, ChildrenOK
<1>2. mon.i \in Slots /\ mon.i <= Len(children)
  BY <1>1, Listing, Numbers DEF TInv, Slots
<1>3. log[mon.i] \in [restarts : Times, handoffs : Times] /\ now \in 0..MaxTime /\ now \in Nat
  BY <1>2, Numbers DEF TInv, OthersOK
<1>4. RateInv(mon.i)
  BY <1>2 DEF RatesInv
<1> QED
  BY <1>1, <1>2, <1>3, <1>4, Listing, ZenonT(60) DEF TInv, RateInv

\* Blocked children are left alone; a history may be pruned first.
LEMMA MonitorBlocks ==
  ASSUME TInv, RatesInv, BlockChild \/ Halt \/ HandoffBlocked
  PROVE  MonitorKeeps
<1>1. /\ mon.pc = "scan" /\ mon.i <= mon.len /\ mon' = Scanned /\ lock' = lock /\ log' = log
      /\ UNCHANGED <<requested, signal, main, seq, held, outside>>
  BY ZenonT(60) DEF BlockChild, Halt, HandoffBlocked, ExitedAs
<1>2. PICK i \in 1..Len(children), old \in Child : i = mon.i /\ old = children[i] /\ i \in Slots
  BY <1>1, AtChild
<1>3. /\ now \in 0..MaxTime /\ log[i].restarts \in Times /\ log[i].handoffs \in Times
      /\ old.restarts \in Times /\ old.handoffs \in Times
      /\ Tracks(now, log[i].restarts, old.restarts, RestartWindow, RateLimit)
      /\ Tracks(now, log[i].handoffs, old.handoffs, HandoffWindow, MaxHandoffs)
  BY <1>1, <1>2, AtChild
<1>4. lock' = "monitor" /\ now' = now /\ log' \in [Slots -> [restarts : Times, handoffs : Times]]
  BY <1>1, ZenonT(60) DEF TInv, LockInv, OthersOK, outside
<1>5. PICK c \in Child :
        /\ children' = [children EXCEPT ![i] = c]
        /\ Tracks(now, log[i].restarts, c.restarts, RestartWindow, RateLimit)
        /\ Tracks(now, log[i].handoffs, c.handoffs, HandoffWindow, MaxHandoffs)
  <2>1. CASE BlockChild
    <3>1. PICK c : c = [old EXCEPT !.blocked = TRUE]
      BY Zenon
    <3>2. c \in Child /\ c.restarts = old.restarts /\ c.handoffs = old.handoffs
      BY <3>1, Zenon DEF Child
    <3>3. children' = [children EXCEPT ![i] = c]
      BY <1>2, <2>1, <3>1 DEF BlockChild
    <3> QED
      BY <1>3, <3>2, <3>3, Zenon
  <2>2. CASE Halt
    <3>1. PICK p \in Child : /\ p = Pruned(old) /\ p.handoffs = old.handoffs
                             /\ p.restarts = Recent(old.restarts, RestartWindow)
      BY <1>3, PrunedType
    <3>a. PICK c : c = [p EXCEPT !.blocked = TRUE]
      BY Zenon
    <3>2. c \in Child /\ c.restarts = p.restarts /\ c.handoffs = p.handoffs
      BY <3>a, Zenon DEF Child
    <3>3. children' = [children EXCEPT ![i] = c]
      BY <1>2, <2>2, <3>1, <3>a DEF Halt
    <3>4. Tracks(now, log[i].restarts, c.restarts, RestartWindow, RateLimit)
      BY <1>3, <3>1, <3>2, TracksPruned, Numbers
    <3> QED
      BY <1>3, <3>1, <3>2, <3>3, <3>4, ZenonT(60)
  <2>3. CASE HandoffBlocked
    <3>1. PICK t \in Times : /\ t = Recent(old.handoffs, HandoffWindow)
                             /\ Tracks(now, log[i].handoffs, t, HandoffWindow, MaxHandoffs)
      BY <1>3, TracksPruned, Numbers
    <3>2. PICK u \in Times : u = Append(t, now)
      BY <1>3, AppendProperties, ZenonT(60) DEF Times
    <3>3. Tracks(now, log[i].handoffs, u, HandoffWindow, MaxHandoffs)
      BY <1>3, <3>1, <3>2, TracksFailed
    <3>4. PICK v \in {t, u} : v = IF HandoffAllowed(children[mon.i]) THEN u ELSE t
      BY ZenonT(60)
    <3>5. children' = [children EXCEPT ![mon.i].blocked = TRUE, ![mon.i].handoffs = v]
      BY <1>2, <2>3, <3>1, <3>2, <3>4 DEF HandoffBlocked
    <3>a. PICK c : c = [old EXCEPT !.blocked = TRUE, !.handoffs = v]
      OBVIOUS
    <3>6. c \in Child /\ c.restarts = old.restarts /\ c.handoffs = v
      BY <3>a, Zenon DEF Child
    <3>7. children' = [children EXCEPT ![i] = c]
      BY <1>2, <3>5, <3>a, Listing, ZenonT(60) DEF TInv, Child
    <3> QED
      BY <1>3, <3>1, <3>3, <3>6, <3>7, ZenonT(60)
  <2> QED
    BY <2>1, <2>2, <2>3
<1>6. TInv' /\ Len(children') = Len(children) /\ ~requested'
  BY <1>1, <1>2, <1>4, <1>5, ScanGoesOn, ZenonT(60)
<1>7. RatesInv'
  BY <1>1, <1>2, <1>4, <1>5, RatesReplaced, ZenonT(60)
<1> QED
  BY <1>6, <1>7, Zenon DEF MonitorKeeps

\* A clean exit within its limit: both the log and the history get the handoff.
LEMMA MonitorHandsOff ==
  ASSUME TInv, RatesInv, Handoff
  PROVE  MonitorKeeps
<1>1. /\ mon.pc = "scan" /\ mon.i <= mon.len /\ mon' = Scanned /\ lock' = lock
      /\ UNCHANGED <<requested, signal, main, seq, held, outside>>
  BY DEF Handoff, ExitedAs
<1>2. PICK i \in 1..Len(children), old \in Child : i = mon.i /\ old = children[i] /\ i \in Slots
  BY <1>1, AtChild, Zenon
<1>3. /\ now \in 0..MaxTime /\ log[i].restarts \in Times /\ log[i].handoffs \in Times
      /\ old.restarts \in Times /\ old.handoffs \in Times
      /\ Tracks(now, log[i].restarts, old.restarts, RestartWindow, RateLimit)
      /\ Tracks(now, log[i].handoffs, old.handoffs, HandoffWindow, MaxHandoffs)
  BY <1>1, <1>2, AtChild, Zenon
<1>4. lock' = "monitor" /\ now' = now
  BY <1>1, Zenon DEF TInv, LockInv, outside
<1>5. PICK c \in Child : /\ c = HandoffChild(old) /\ c.restarts = old.restarts
                         /\ c.handoffs = Append(Recent(old.handoffs, HandoffWindow), now)
  BY <1>3, HandoffChildType, ZenonT(60)
<1>6. children' = [children EXCEPT ![i] = c]
  BY <1>2, <1>5 DEF Handoff
<1>7. PICK u \in Times : u = Append(log[i].handoffs, now)
  BY <1>3, AppendProperties, ZenonT(60) DEF Times
<1>8. log' = [log EXCEPT ![i] = [log[i] EXCEPT !.handoffs = u]]
  BY <1>2, <1>7 DEF Handoff
<1>9. PICK l : l = [log[i] EXCEPT !.handoffs = u]
  BY ZenonT(60)
<1>10. log \in [Slots -> [restarts : Times, handoffs : Times]]
  BY DEF TInv, OthersOK
<1>11. l \in [restarts : Times, handoffs : Times] /\ l.restarts = log[i].restarts /\ l.handoffs = u
  BY <1>2, <1>9, <1>10
<1>12. /\ log' \in [Slots -> [restarts : Times, handoffs : Times]]
       /\ log'[i] = l /\ \A j \in Slots : j # i => log'[j] = log[j]
  BY <1>2, <1>8, <1>9, <1>10, <1>11
<1>13. Tracks(now, log'[i].handoffs, c.handoffs, HandoffWindow, MaxHandoffs)
  <2>1. PICK t \in Times : /\ t = Recent(old.handoffs, HandoffWindow)
                           /\ Tracks(now, log[i].handoffs, t, HandoffWindow, MaxHandoffs)
    BY <1>3, TracksPruned, Numbers
  <2>2. Len(t) < MaxHandoffs
    BY <1>2, <2>1, ZenonT(60) DEF Handoff, HandoffAllowed
  <2>3. Tracks(now, Append(log[i].handoffs, now), Append(t, now), HandoffWindow, MaxHandoffs)
    BY <1>3, <2>1, <2>2, TracksRespawn, Numbers
  <2> QED
    BY <1>5, <1>7, <1>11, <1>12, <2>1, <2>3, ZenonT(60)
<1>14. Tracks(now, log'[i].restarts, c.restarts, RestartWindow, RateLimit)
  BY <1>3, <1>5, <1>11, <1>12
<1>15. TInv' /\ Len(children') = Len(children) /\ ~requested'
  BY <1>1, <1>2, <1>4, <1>6, <1>12, ScanGoesOn, ZenonT(60)
<1>16. RatesInv'
  BY <1>2, <1>4, <1>6, <1>12, <1>13, <1>14, RatesReplaced, ZenonT(60)
<1> QED
  BY <1>15, <1>16 DEF MonitorKeeps

\* After a backoff: the respawn that was allowed before it, or its failure.
LEMMA MonitorRespawns ==
  ASSUME TInv, RatesInv, Restart \/ RestartFails
  PROVE  MonitorKeeps
<1>1. /\ AfterBackoff /\ mon' = Scanned /\ lock' = "monitor"
      /\ UNCHANGED <<requested, signal, main, seq, held, outside>>
  BY Zenon DEF Restart, RestartFails
<1>2. /\ mon.pc = "backoff" /\ mon.i <= mon.len /\ mon.next \in 1..MaxAttempts
      /\ Len(children[mon.i].restarts) < RateLimit
  BY <1>1, Zenon DEF AfterBackoff, TInv, MonInv
<1>3. PICK i \in 1..Len(children), old \in Child : i = mon.i /\ old = children[i] /\ i \in Slots
  BY <1>2, AtChild, Zenon
<1>4. /\ now \in 0..MaxTime /\ log[i].restarts \in Times /\ log[i].handoffs \in Times
      /\ old.restarts \in Times /\ old.handoffs \in Times
      /\ Tracks(now, log[i].restarts, old.restarts, RestartWindow, RateLimit)
      /\ Tracks(now, log[i].handoffs, old.handoffs, HandoffWindow, MaxHandoffs)
  BY <1>2, <1>3, AtChild, Zenon
<1>5. now' = now /\ log \in [Slots -> [restarts : Times, handoffs : Times]]
  BY <1>1, Zenon DEF TInv, OthersOK, outside
<1>6. CASE Restart
  <2>1. PICK c \in Child : /\ c = RestartChild(old) /\ c.handoffs = old.handoffs
                           /\ c.restarts = Append(old.restarts, now)
    BY <1>2, <1>4, RestartChildType, ZenonT(60)
  <2>2. children' = [children EXCEPT ![i] = c]
    BY <1>3, <1>6, <2>1 DEF Restart
  <2>3. PICK u \in Times : u = Append(log[i].restarts, now)
    BY <1>4, AppendProperties, ZenonT(60) DEF Times
  <2>4. log' = [log EXCEPT ![i] = [log[i] EXCEPT !.restarts = u]]
    BY <1>3, <1>6, <2>3 DEF Restart
  <2>5. PICK l : l = [log[i] EXCEPT !.restarts = u]
    BY ZenonT(60)
  <2>6. l \in [restarts : Times, handoffs : Times] /\ l.handoffs = log[i].handoffs /\ l.restarts = u
    BY <1>3, <1>5, <2>5
  <2>7. /\ log' \in [Slots -> [restarts : Times, handoffs : Times]]
        /\ log'[i] = l /\ \A j \in Slots : j # i => log'[j] = log[j]
    BY <1>3, <1>5, <2>4, <2>5, <2>6
  <2>8. Tracks(now, Append(log[i].restarts, now), Append(old.restarts, now), RestartWindow, RateLimit)
    BY <1>2, <1>3, <1>4, TracksRespawn, Numbers
  <2>9. Tracks(now, log'[i].restarts, c.restarts, RestartWindow, RateLimit)
    BY <2>1, <2>3, <2>6, <2>7, <2>8, ZenonT(60)
  <2>10. Tracks(now, log'[i].handoffs, c.handoffs, HandoffWindow, MaxHandoffs)
    BY <1>4, <2>1, <2>6, <2>7
  <2>11. TInv' /\ Len(children') = Len(children) /\ ~requested'
    BY <1>1, <1>2, <1>3, <2>2, <2>7, ScanGoesOn, ZenonT(60)
  <2>12. RatesInv'
    BY <1>5, <2>2, <2>7, <2>9, <2>10, RatesReplaced, ZenonT(60)
  <2> QED
    BY <2>11, <2>12, Zenon DEF MonitorKeeps
<1>7. CASE RestartFails
  <2>1. PICK c \in Child : /\ c = FailedRestart(old) /\ c.handoffs = old.handoffs
                           /\ c.restarts = Append(old.restarts, now)
    BY <1>2, <1>4, RestartChildType
  <2>2. children' = [children EXCEPT ![i] = c] /\ log' = log
    BY <1>3, <1>7, <2>1, ZenonT(60) DEF RestartFails
  <2>3. Tracks(now, log[i].restarts, c.restarts, RestartWindow, RateLimit)
    BY <1>4, <2>1, TracksFailed, ZenonT(60)
  <2>4. Tracks(now, log[i].handoffs, c.handoffs, HandoffWindow, MaxHandoffs)
    BY <1>4, <2>1
  <2>5. TInv' /\ Len(children') = Len(children) /\ ~requested'
    BY <1>1, <1>2, <1>3, <1>5, <2>2, ScanGoesOn, ZenonT(60)
  <2>6. RatesInv'
    BY <1>5, <2>2, <2>3, <2>4, RatesReplaced, ZenonT(60)
  <2> QED
    BY <2>5, <2>6 DEF MonitorKeeps
<1> QED
  BY <1>6, <1>7

\* A restart within both limits: the mutex is dropped, and the history is pruned
\* to fewer entries than the limit.
LEMMA MonitorBacksOff ==
  ASSUME TInv, RatesInv, BeginBackoff
  PROVE  MonitorKeeps
<1>1. /\ mon.pc = "scan" /\ mon.i <= mon.len /\ lock' = "free" /\ log' = log
      /\ UNCHANGED <<requested, signal, main, seq, held, past, now, exits>>
  BY DEF BeginBackoff, ExitedAs, outside
<1>2. PICK i \in 1..Len(children), old \in Child : i = mon.i /\ old = children[i] /\ i \in Slots
  BY <1>1, AtChild
<1>3. /\ now \in 0..MaxTime /\ log[i].restarts \in Times /\ log[i].handoffs \in Times
      /\ old.restarts \in Times /\ old.handoffs \in Times
      /\ Tracks(now, log[i].restarts, old.restarts, RestartWindow, RateLimit)
      /\ Tracks(now, log[i].handoffs, old.handoffs, HandoffWindow, MaxHandoffs)
  BY <1>1, <1>2, AtChild, ZenonT(60)
<1>4. PICK c \in Child : /\ c = Pruned(old) /\ c.handoffs = old.handoffs
                         /\ c.restarts = Recent(old.restarts, RestartWindow)
                         /\ Len(c.restarts) \in Nat
  BY <1>3, PrunedType
<1>5. children' = [children EXCEPT ![i] = c]
  BY <1>2, <1>4 DEF BeginBackoff
<1>6. ChildrenOK' /\ Len(children') = Len(children) /\ children'[i] = c
  BY <1>2, <1>5, Replaced, ZenonT(60) DEF TInv
<1>7. Effective(old) \in 0..MaxAttempts /\ Effective(old) < MaxAttempts /\ Len(c.restarts) < RateLimit
  <2>1. Effective(old) \in 0..MaxAttempts
    BY Numbers DEF Effective, Child
  <2>2. ~Halts(old)
    BY <1>2 DEF BeginBackoff
  <2> QED
    BY <1>4, <2>1, <2>2, Numbers DEF Halts
<1>8. PICK n \in 1..MaxAttempts : n = Effective(old) + 1
  BY <1>7, Numbers
<1>9. mon' = [mon EXCEPT !.pc = "backoff", !.next = n]
  BY <1>2, <1>8 DEF BeginBackoff
<1>10. /\ mon \in [pc : {"sleep", "scan", "backoff", "gone"}, i : Nat, len : Nat, next : Nat]
       /\ mon.i # 0 /\ mon.len <= Len(children)
  BY <1>1 DEF TInv, MonInv
<1>11. mon' = [pc |-> "backoff", i |-> mon.i, len |-> mon.len, next |-> n]
  BY <1>9, <1>10, ZenonT(60)
<1>12. mon' \in [pc : {"sleep", "scan", "backoff", "gone"}, i : Nat, len : Nat, next : Nat]
  <2>1. n \in Nat /\ mon.i \in Nat /\ mon.len \in Nat
    BY <1>10, Numbers
  <2> QED
    BY <1>11, <2>1
<1>13. MonInv'
  <2>1. mon'.i = i /\ mon'.len = mon.len /\ mon'.next = n /\ mon'.pc = "backoff"
    BY <1>2, <1>11
  <2>2. mon.i <= mon.len + 1
    BY <1>1, <1>10
  <2> QED
    BY <1>1, <1>2, <1>6, <1>7, <1>10, <1>12, <2>1, <2>2 DEF MonInv
<1>14. ~requested /\ lock = "monitor" /\ mon'.pc = "backoff"
  BY <1>1, <1>11, Zenon DEF TInv, LockInv
<1>15. LockInv'
  BY <1>1, <1>14, ZenonT(60) DEF TInv, LockInv
<1>16. OthersOK' /\ HeldOK' /\ SeqInv'
  BY <1>1 DEF TInv, OthersOK, HeldOK, SeqInv
<1>17. Tracks(now, log[i].restarts, c.restarts, RestartWindow, RateLimit)
  BY <1>3, <1>4, TracksPruned, Numbers
<1>18. Tracks(now, log[i].handoffs, c.handoffs, HandoffWindow, MaxHandoffs)
  BY <1>3, <1>4
<1>19. RatesInv'
  BY <1>1, <1>5, <1>17, <1>18, RatesReplaced, ZenonT(60)
<1> QED
  BY <1>1, <1>6, <1>13, <1>14, <1>15, <1>16, <1>19 DEF MonitorKeeps, TInv

=============================================================================
