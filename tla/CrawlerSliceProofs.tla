------------------------ MODULE CrawlerSliceProofs --------------------------
(***************************************************************************)
(* The inductive invariant of the crawler's durable frontier, and the      *)
(* steps that dial nothing: opening and refusing a slice, stopping, and    *)
(* the merge of what a peer advertises.                                    *)
(***************************************************************************)
EXTENDS Crawler, FiniteSetTheorems, WellFoundedInduction, TLAPS

Stamps == {0} \cup Times
Rounds == 0..MaxRounds
Round == [round : Rounds, started : 0..MaxTime, cutoff : 0..MaxTime,
          hist : [Results -> Nat], blocked : BOOLEAN]
Success == [at : Stamps, own : SUBSET Addrs]
Cand == [adv : [Addrs -> Stamps], ver : [Addrs -> Stamps],
         obs : [Addrs -> Results \cup {"none"}],
         probe : [Peers -> ProbeStates \cup {"inactive"}],
         staged : [Peers -> Success], last : [Peers -> Rounds]]
Node == [seen : Stamps, own : SUBSET Addrs, reachable : BOOLEAN]

TInv ==
  /\ now \in Times /\ limit \in Limits
  /\ active \in Round /\ cand \in Cand /\ nodes \in [Peers -> Node]
  /\ status \in [round : Rounds, same : SUBSET Peers, retained : SUBSET Peers]
  /\ pc \in {"idle", "crawl"} /\ inflight \in SUBSET Addrs /\ stopping \in BOOLEAN
  /\ faults \in 0..MaxFaults

\* No stamp is later than the clock.
ClockInv ==
  /\ active.cutoff <= Cutoff(now)
  /\ \A a \in Addrs : cand.ver[a] <= now
  /\ \A p \in Peers : cand.staged[p].at <= now /\ nodes[p].seen <= now

\* A round follows the last published one; without a round nothing is probed.
RoundInv ==
  /\ pc = "crawl" => active.round # 0
  /\ active.round # 0 => active.round = status.round + 1
  /\ active.round = 0 => /\ \A a \in Addrs : cand.obs[a] = "none"
                         /\ \A p \in Peers : cand.probe[p] = "inactive"
  /\ \A p \in Peers : cand.last[p] <= status.round

Open == {"Pending", "RetryAlias"}
FreshAlias(c, a, cutoff) == c.adv[a] # 0 /\ (c.adv[a] >= cutoff \/ c.ver[a] >= cutoff)
ToDial(c, a, cutoff) == c.obs[a] = "none" /\ FreshAlias(c, a, cutoff)

\* One probe a peer, of an alias not observed yet, of a peer not finished yet.
FlightInv ==
  /\ inflight # {} => pc = "crawl"
  /\ \A a \in inflight : ToDial(cand, a, active.cutoff) /\ cand.probe[Owner[a]] \in Open
  /\ \A a, b \in inflight : Owner[a] = Owner[b] => a = b

\* The observations of a peer and its state agree, and every state a round goes
\* on from has an alias to dial.
PeerOK(c, p, cutoff) ==
  /\ \A a \in Aliases[p] : c.obs[a] # "none" => FreshAlias(c, a, cutoff)
  /\ \A a \in Aliases[p] : c.obs[a] = "same" =>
       c.probe[p] = "Succeeded" /\ c.staged[p].at >= c.ver[a]
  /\ \A a, b \in Aliases[p] : c.obs[a] = "same" /\ c.obs[b] = "same" => a = b
  /\ c.probe[p] = "Succeeded" =>
       c.staged[p].at >= nodes[p].seen /\ \E a \in Aliases[p] : c.obs[a] = "same"
  /\ c.probe[p] = "Exhausted" =>
       /\ \A a \in Aliases[p] : c.obs[a] # "foreign"
       /\ \E a \in Aliases[p] : c.obs[a] # "none"
  /\ c.probe[p] = "ForeignNetwork" => \E a \in Aliases[p] : c.obs[a] = "foreign"
  /\ c.probe[p] \in Open => \E a \in Aliases[p] : ToDial(c, a, cutoff)
  /\ c.probe[p] = "inactive" =>
       \A a \in Aliases[p] : c.obs[a] = "none" /\ (c.adv[a] # 0 => c.last[p] # 0)

\* An alias of a published node was verified when the node was last seen.
NodeOK(c, p) ==
  nodes[p].seen # 0 => \E a \in Aliases[p] : c.adv[a] # 0 /\ c.ver[a] >= nodes[p].seen

PeersInv == \A p \in Peers : PeerOK(cand, p, active.cutoff) /\ NodeOK(cand, p)

IInv ==
  /\ TInv /\ ClockInv /\ RoundInv /\ FlightInv /\ PeersInv
  /\ EvidenceCounted /\ FreshNodesAreRedialled

\* A leaf that cites no prover goes to SMT, for at most a minute.
USE SMTT(60)

-----------------------------------------------------------------------------
(* Numbers and stamps. *)

\* A set of naturals that is not empty has a least element, which Min chooses.
LEMMA MinIn ==
  ASSUME NEW S \in SUBSET Nat, S # {}
  PROVE  Min(S) \in S
<1>1. PICK i \in S : \A j \in S : ~(<<j, i>> \in OpToRel(<, Nat))
  BY NatLessThanWellFounded, WFMin, Zenon
<1>2. \A j \in S : ~(j < i)
  BY <1>1, Zenon DEF OpToRel
<1>3. \A j \in S : i <= j
  BY <1>2
<1> QED
  BY <1>3, Zenon DEF Min

\* The later of two stamps.
LEMMA MaxOfTwo ==
  ASSUME NEW x \in Nat, NEW y \in Nat
  PROVE  Max({x, y}) \in {x, y} /\ Max({x, y}) >= x /\ Max({x, y}) >= y
<1>1. \E m \in {x, y} : \A n \in {x, y} : m >= n
  <2>1. CASE x >= y
    BY <2>1
  <2>2. CASE ~(x >= y)
    BY <2>2
  <2> QED
    BY <2>1, <2>2
<1>2. Max({x, y}) \in {x, y} /\ \A n \in {x, y} : Max({x, y}) >= n
  BY <1>1 DEF Max
<1> QED
  BY <1>2

\* The constants, and that every reading of the clock is past one TTL.
LEMMA Numbers ==
  /\ Addrs \subseteq Nat /\ IsFiniteSet(Addrs) /\ Owner \in [Addrs -> Peers]
  /\ TTL \in Nat /\ MaxTime \in Nat /\ MaxRounds \in Nat /\ MaxFaults \in Nat
  /\ Stamps \subseteq Nat
  /\ \A t \in Times : t \in Nat /\ t \in Stamps /\ t # 0 /\ Cutoff(t) \in 1..MaxTime /\ Cutoff(t) <= t
<1>1. /\ Addrs \subseteq Nat /\ IsFiniteSet(Addrs) /\ Owner \in [Addrs -> Peers]
      /\ TTL \in Nat /\ MaxTime \in Nat /\ MaxRounds \in Nat /\ MaxFaults \in Nat
  BY CrawlerAssumption
<1>2. \A t \in Times : t \in Nat /\ t # 0 /\ Cutoff(t) \in 1..MaxTime /\ Cutoff(t) <= t
  BY <1>1 DEF Times, Start, Cutoff
<1> QED
  BY <1>1, <1>2 DEF Stamps

\* The fields of the frontier.
LEMMA CandFields ==
  ASSUME NEW c \in Cand
  PROVE  /\ \A a \in Addrs : /\ c.adv[a] \in Stamps /\ c.adv[a] \in Nat
                             /\ c.ver[a] \in Stamps /\ c.ver[a] \in Nat
                             /\ c.obs[a] \in Results \cup {"none"}
         /\ \A p \in Peers : /\ c.probe[p] \in ProbeStates \cup {"inactive"}
                             /\ c.staged[p] \in Success /\ c.staged[p].at \in Nat
                             /\ c.last[p] \in Rounds /\ c.last[p] \in Nat
<1>1. Stamps \subseteq Nat /\ Rounds \subseteq Nat
  BY Numbers DEF Rounds
<1>2. /\ c.adv \in [Addrs -> Stamps] /\ c.ver \in [Addrs -> Stamps]
      /\ c.obs \in [Addrs -> Results \cup {"none"}]
      /\ c.probe \in [Peers -> ProbeStates \cup {"inactive"}]
      /\ c.staged \in [Peers -> Success] /\ c.last \in [Peers -> Rounds]
  BY DEF Cand
<1>3. \A s \in Success : s.at \in Nat
  BY <1>1, Zenon DEF Success
<1> QED
  BY <1>1, <1>2, <1>3, Zenon

\* Aliases.
LEMMA AliasFacts ==
  ASSUME NEW p \in Peers
  PROVE  /\ Aliases[p] = {a \in Addrs : Owner[a] = p}
         /\ Aliases[p] \subseteq Addrs
BY DEF Aliases

\* Known, fresh, observed and untried aliases, one alias at a time.
LEMMA AliasSets ==
  ASSUME NEW c \in Cand, NEW cutoff
  PROVE  /\ Known(c) = {a \in Addrs : c.adv[a] # 0}
         /\ Fresh(c, cutoff) = {a \in Addrs : FreshAlias(c, a, cutoff)}
         /\ Observed(c) = {a \in Addrs : c.obs[a] # "none"}
BY DEF Known, Fresh, Observed, FreshAlias

\* What is left to dial of a peer.
LEMMA UntriedIs ==
  ASSUME NEW c \in Cand, NEW p \in Peers
  PROVE  Untried(c, p) = {a \in Aliases[p] : ToDial(c, a, active.cutoff)}
BY AliasSets, AliasFacts DEF Untried, ToDial

-----------------------------------------------------------------------------
(* Merging advertisements. *)

Heard(at, p) == \E a \in Aliases[p] : at[a] # 0
HeardNew(c, at, p) == \E a \in Aliases[p] : at[a] # 0 /\ c.adv[a] = 0

\* merge_candidate: stamps only grow, and a peer is put in line when it is new
\* or when it had failed and an alias is new.
LEMMA MergeFields ==
  ASSUME NEW c \in Cand, NEW at \in [Addrs -> Stamps], NEW d, d = MergeCandidates(c, at)
  PROVE  /\ d \in Cand
         /\ d.ver = c.ver /\ d.obs = c.obs /\ d.staged = c.staged /\ d.last = c.last
         /\ \A a \in Addrs : /\ d.adv[a] \in {c.adv[a], at[a]}
                             /\ d.adv[a] >= c.adv[a] /\ d.adv[a] >= at[a]
         /\ \A p \in Peers :
              d.probe[p] = IF ~Heard(at, p) THEN c.probe[p]
                           ELSE IF c.probe[p] = "inactive" THEN "Pending"
                           ELSE IF c.probe[p] \in FailedStates /\ HeardNew(c, at, p)
                                THEN "RetryAlias"
                           ELSE c.probe[p]
<1> DEFINE adv == [a \in Addrs |-> Max({c.adv[a], at[a]})]
           state(p) == IF {a \in Aliases[p] : at[a] # 0} = {} THEN c.probe[p]
                       ELSE IF c.probe[p] = "inactive" THEN "Pending"
                       ELSE IF Reopens(c.probe[p]) /\ {a \in Aliases[p] : at[a] # 0} \ Known(c) # {}
                            THEN "RetryAlias"
                       ELSE c.probe[p]
           probe == [p \in Peers |-> state(p)]
<1>1. d = [c EXCEPT !.adv = adv, !.probe = probe]
  BY DEF MergeCandidates
<1>2. \A a \in Addrs : /\ adv[a] \in {c.adv[a], at[a]} /\ adv[a] \in Stamps
                       /\ adv[a] >= c.adv[a] /\ adv[a] >= at[a]
  <2> SUFFICES ASSUME NEW a \in Addrs
               PROVE  /\ adv[a] \in {c.adv[a], at[a]} /\ adv[a] \in Stamps
                      /\ adv[a] >= c.adv[a] /\ adv[a] >= at[a]
    OBVIOUS
  <2>1. c.adv[a] \in Nat /\ c.adv[a] \in Stamps /\ at[a] \in Stamps /\ at[a] \in Nat
    BY CandFields, Numbers, Zenon
  <2>2. adv[a] = Max({c.adv[a], at[a]})
    OBVIOUS
  <2> QED
    BY <2>1, <2>2, MaxOfTwo
<1>3. \A p \in Peers :
        state(p) = IF ~Heard(at, p) THEN c.probe[p]
                   ELSE IF c.probe[p] = "inactive" THEN "Pending"
                   ELSE IF c.probe[p] \in FailedStates /\ HeardNew(c, at, p)
                        THEN "RetryAlias"
                   ELSE c.probe[p]
  <2> SUFFICES ASSUME NEW p \in Peers
               PROVE  state(p) = IF ~Heard(at, p) THEN c.probe[p]
                   ELSE IF c.probe[p] = "inactive" THEN "Pending"
                   ELSE IF c.probe[p] \in FailedStates /\ HeardNew(c, at, p)
                        THEN "RetryAlias"
                   ELSE c.probe[p]
    OBVIOUS
  <2>1. ({a \in Aliases[p] : at[a] # 0} = {}) <=> ~Heard(at, p)
    BY DEF Heard
  <2>2. ({a \in Aliases[p] : at[a] # 0} \ Known(c) # {}) <=> HeardNew(c, at, p)
    BY AliasFacts DEF HeardNew, Known
  <2> QED
    BY <2>1, <2>2 DEF Reopens
<1>4. \A p \in Peers : state(p) \in ProbeStates \cup {"inactive"}
  BY <1>3, CandFields DEF ProbeStates
<1>5. adv \in [Addrs -> Stamps] /\ probe \in [Peers -> ProbeStates \cup {"inactive"}]
  BY <1>2, <1>4
<1>6. /\ d \in Cand /\ d.adv = adv /\ d.probe = probe
      /\ d.ver = c.ver /\ d.obs = c.obs /\ d.staged = c.staged /\ d.last = c.last
  <2> HIDE DEF adv, probe
  <2> QED
    BY <1>1, <1>5, Zenon DEF Cand
<1>7. \A p \in Peers : d.probe[p] = state(p)
  BY <1>6
<1> HIDE DEF adv, probe, state
<1> QED
  BY <1>2, <1>3, <1>6, <1>7

\* The stamps of a slice's seeds or of an answer are not older than the cutoff.
Recent(at, cutoff) == \A a \in Addrs : at[a] # 0 => at[a] >= cutoff

\* Merging keeps what a round relies on, peer by peer.
LEMMA MergePeer ==
  ASSUME NEW c \in Cand, NEW at \in [Addrs -> Stamps], NEW cutoff \in Nat, NEW p \in Peers,
         Recent(at, cutoff), PeerOK(c, p, cutoff),
         NEW d, d = MergeCandidates(c, at)
  PROVE  PeerOK(d, p, cutoff)
<1>1. /\ d \in Cand
      /\ d.ver = c.ver /\ d.obs = c.obs /\ d.staged = c.staged /\ d.last = c.last
      /\ \A a \in Addrs : /\ d.adv[a] \in {c.adv[a], at[a]}
                          /\ d.adv[a] >= c.adv[a] /\ d.adv[a] >= at[a]
      /\ d.probe[p] = IF ~Heard(at, p) THEN c.probe[p]
                      ELSE IF c.probe[p] = "inactive" THEN "Pending"
                      ELSE IF c.probe[p] \in FailedStates /\ HeardNew(c, at, p)
                           THEN "RetryAlias"
                      ELSE c.probe[p]
  BY MergeFields
<1>2. \A a \in Addrs : FreshAlias(c, a, cutoff) => FreshAlias(d, a, cutoff)
  <2> SUFFICES ASSUME NEW a \in Addrs, FreshAlias(c, a, cutoff) PROVE FreshAlias(d, a, cutoff)
    OBVIOUS
  <2>1. d.adv[a] \in Nat /\ c.adv[a] \in Nat /\ d.adv[a] >= c.adv[a]
    BY <1>1, CandFields
  <2> QED
    BY <1>1, <2>1 DEF FreshAlias
<1>3. \A a \in Addrs : at[a] # 0 => FreshAlias(d, a, cutoff)
  <2> SUFFICES ASSUME NEW a \in Addrs, at[a] # 0 PROVE FreshAlias(d, a, cutoff)
    BY Zenon
  <2>1. d.adv[a] \in Nat /\ at[a] \in Nat /\ d.adv[a] >= at[a] /\ at[a] >= cutoff
    BY <1>1, CandFields, Numbers, Zenon DEF Recent
  <2> QED
    BY <2>1 DEF FreshAlias
<1>4. Aliases[p] \subseteq Addrs
  BY AliasFacts
<1>5. CASE d.probe[p] = c.probe[p] /\ (c.probe[p] = "inactive" => ~Heard(at, p))
  <2>1. c.probe[p] = "inactive" => \A a \in Aliases[p] : d.adv[a] # 0 => c.adv[a] # 0
    BY <1>1, <1>4, <1>5 DEF Heard
  <2>2. c.probe[p] \in Open => \E a \in Aliases[p] : ToDial(d, a, cutoff)
    BY <1>1, <1>2, <1>4, ZenonT(60) DEF PeerOK, ToDial
  <2> QED
    BY <1>1, <1>2, <1>4, <1>5, <2>1, <2>2 DEF PeerOK
<1>6. CASE c.probe[p] = "inactive" /\ Heard(at, p) /\ d.probe[p] = "Pending"
  <2>1. PICK a \in Aliases[p] : at[a] # 0
    BY <1>6 DEF Heard
  <2>2. ToDial(d, a, cutoff)
    BY <1>1, <1>3, <1>4, <1>6, <2>1 DEF ToDial, PeerOK
  <2>3. \A b \in Aliases[p] : d.obs[b] = "none"
    BY <1>1, <1>6, ZenonT(60) DEF PeerOK
  <2> QED
    BY <1>6, <2>1, <2>2, <2>3 DEF PeerOK, Open
<1>7. CASE c.probe[p] \in FailedStates /\ HeardNew(c, at, p) /\ d.probe[p] = "RetryAlias"
  <2>1. PICK a \in Aliases[p] : at[a] # 0 /\ c.adv[a] = 0
    BY <1>7, Zenon DEF HeardNew
  <2>2. c.obs[a] = "none"
    BY <2>1 DEF PeerOK, FreshAlias
  <2>3. ToDial(d, a, cutoff)
    BY <1>1, <1>3, <1>4, <2>1, <2>2, ZenonT(60) DEF ToDial
  <2>4. \A b \in Aliases[p] : d.obs[b] # "none" => FreshAlias(d, b, cutoff)
    BY <1>1, <1>2, <1>4 DEF PeerOK
  <2>5. \A b \in Aliases[p] : d.obs[b] # "same"
    BY <1>1, <1>7 DEF PeerOK, FailedStates
  <2> QED
    BY <1>7, <2>1, <2>3, <2>4, <2>5 DEF PeerOK, Open
<1> QED
  BY <1>1, <1>5, <1>6, <1>7

-----------------------------------------------------------------------------
(* Steps that leave the frontier alone. *)

\* A step that leaves the live nodes alone keeps PeersInv when the new frontier
\* has what PeersInv asks of every peer, at the new cutoff.
LEMMA PeersCarried ==
  ASSUME NEW k, active'.cutoff = k, nodes' = nodes,
         \A p \in Peers : PeerOK(cand', p, k) /\ NodeOK(cand', p)
  PROVE  PeersInv'
<1> SUFFICES ASSUME NEW p \in Peers
             PROVE  PeerOK(cand, p, active.cutoff)' /\ NodeOK(cand, p)'
  BY Zenon DEF PeersInv
<1>1. PeerOK(cand', p, k) /\ NodeOK(cand', p)
  BY Zenon
<1>2. PeerOK(cand, p, active.cutoff)'
  BY <1>1 DEF PeerOK, FreshAlias, ToDial
<1>3. NodeOK(cand, p)'
  BY <1>1 DEF NodeOK
<1> QED
  BY <1>2, <1>3, Zenon

\* Nothing in the store changes, and the clock does not run backwards.
LEMMA Quiet ==
  ASSUME IInv, UNCHANGED store, now' \in Times, now' >= now, limit' \in Limits,
         pc' \in {"idle", pc}, inflight' \in SUBSET Addrs, stopping' \in BOOLEAN,
         faults' \in 0..MaxFaults, FlightInv'
  PROVE  IInv'
<1> USE DEF IInv, store
<1>1. TInv'
  BY DEF TInv
<1>2. now \in Nat /\ now' \in Nat /\ now \in Times
  BY Numbers DEF TInv
<1>3. active.cutoff <= Cutoff(now')
  <2>1. active.cutoff \in Nat /\ TTL \in Nat
    BY Numbers DEF TInv, Round
  <2> QED
    BY <1>2, <2>1 DEF ClockInv, Cutoff
<1>4. /\ \A a \in Addrs : cand.ver[a] <= now'
      /\ \A p \in Peers : cand.staged[p].at <= now' /\ nodes[p].seen <= now'
  <2>1. \A a \in Addrs : cand.ver[a] \in Nat
    BY CandFields DEF TInv
  <2>2. \A p \in Peers : cand.staged[p].at \in Nat /\ nodes[p].seen \in Nat
    BY CandFields, Numbers, Zenon DEF TInv, Node
  <2> QED
    BY <1>2, <2>1, <2>2 DEF ClockInv
<1>5. ClockInv'
  BY <1>3, <1>4 DEF ClockInv, Cutoff
<1>6. RoundInv'
  BY DEF RoundInv
<1>7. PeersInv'
  <2>1. cand' = cand /\ nodes' = nodes /\ active' = active
    BY Zenon
  <2>2. PICK k : k = active.cutoff
    BY Zenon
  <2>3. \A p \in Peers : PeerOK(cand', p, k) /\ NodeOK(cand', p)
    BY <2>1, <2>2, Zenon DEF PeersInv
  <2> QED
    BY <2>1, <2>2, <2>3, PeersCarried, Zenon
<1>8. EvidenceCounted' /\ FreshNodesAreRedialled'
  BY DEF EvidenceCounted, FreshNodesAreRedialled, InRound
<1> QED
  BY <1>1, <1>5, <1>6, <1>7, <1>8

\* An admitted address is an untried alias of a peer without a dial in flight.
LEMMA Admits ==
  ASSUME IInv, NEW p \in Peers, Admit(p)
  PROVE  IInv'
<1> USE DEF IInv
<1>1. /\ pc = "crawl" /\ pc' = pc /\ p \in Selectable
      /\ inflight' = inflight \cup {Min(Untried(cand, p))}
      /\ UNCHANGED <<now, limit, active, cand, nodes, status, stopping, faults>>
  BY DEF Admit, store
<1>2. /\ cand.probe[p] \in Open /\ Untried(cand, p) # {} /\ inflight \cap Aliases[p] = {}
  BY <1>1 DEF Selectable, Tier, Open
<1>3. Untried(cand, p) = {a \in Aliases[p] : ToDial(cand, a, active.cutoff)}
  BY UntriedIs DEF TInv
<1>4. Untried(cand, p) \in SUBSET Nat
  BY <1>3, AliasFacts, Numbers, ZenonT(60)
<1>5. PICK a \in Untried(cand, p) : a = Min(Untried(cand, p))
  BY <1>2, <1>4, MinIn
<1>6. a \in Aliases[p] /\ a \in Addrs /\ Owner[a] = p /\ ToDial(cand, a, active.cutoff)
  BY <1>3, <1>5, AliasFacts
<1>7. inflight' = inflight \cup {a} /\ inflight' \in SUBSET Addrs
  BY <1>1, <1>5, <1>6 DEF TInv
<1>8. \A b \in inflight : Owner[b] # p
  BY <1>2, AliasFacts DEF TInv
<1>9. FlightInv'
  <2>1. \A b \in inflight' : ToDial(cand, b, active.cutoff) /\ cand.probe[Owner[b]] \in Open
    BY <1>2, <1>6, <1>7, Zenon DEF FlightInv
  <2>2. \A b, e \in inflight' : Owner[b] = Owner[e] => b = e
    BY <1>6, <1>7, <1>8 DEF FlightInv
  <2> QED
    BY <1>1, <2>1, <2>2 DEF FlightInv, ToDial, FreshAlias
<1>10. now \in Nat /\ UNCHANGED store
  BY <1>1, Numbers DEF TInv, store
<1> QED
  BY <1>1, <1>7, <1>9, <1>10, Quiet DEF TInv

\* A slice that ends, dies or runs out of time, the clock and the operator.
LEMMA Idles ==
  ASSUME IInv, \/ DeadlineReached \/ SlicePartial \/ PublishRefused
               \/ Tick \/ Crash \/ Reconfigure \/ UNCHANGED vars
  PROVE  IInv'
<1> USE DEF IInv
<1>1. /\ UNCHANGED store /\ pc' \in {"idle", pc}
      /\ (inflight' = inflight /\ pc' = pc) \/ inflight' = {}
      /\ stopping' \in BOOLEAN /\ limit' \in Limits
  BY Zenon DEF DeadlineReached, SlicePartial, PublishRefused, Tick, Crash, Reconfigure, vars, EndSlice,
         store, TInv
<1>2. now' \in Times /\ now' >= now /\ faults' \in 0..MaxFaults
  <2>1. now \in Nat /\ now \in Times /\ faults \in 0..MaxFaults /\ MaxFaults \in Nat /\ MaxTime \in Nat
        /\ TTL \in Nat
    BY Numbers DEF TInv
  <2>2. CASE Tick
    BY <2>1, <2>2 DEF Tick, Times, Start
  <2>3. CASE Crash \/ Reconfigure
    BY <2>1, <2>3 DEF Crash, Reconfigure
  <2>4. CASE DeadlineReached \/ SlicePartial \/ PublishRefused \/ UNCHANGED vars
    BY <2>1, <2>4 DEF DeadlineReached, SlicePartial, PublishRefused, vars
  <2> QED
    BY <2>2, <2>3, <2>4
<1>3. inflight' \in SUBSET Addrs /\ FlightInv'
  <2>1. UNCHANGED <<cand, active>>
    BY <1>1 DEF store
  <2>2. CASE inflight' = inflight /\ pc' = pc
    BY <2>1, <2>2 DEF FlightInv, ToDial, FreshAlias, TInv
  <2>3. CASE inflight' = {}
    BY <2>3 DEF FlightInv
  <2> QED
    BY <1>1, <2>2, <2>3
<1> QED
  BY <1>1, <1>2, <1>3, Quiet

\* A refused seeding or result marks the round and changes nothing it has done.
LEMMA Refuses ==
  ASSUME IInv, active.round = 0 => status.round < MaxRounds,
         active' = Blocked, UNCHANGED <<now, limit, cand, nodes, status, faults>>,
         pc' = "idle", inflight' = {}, stopping' \in BOOLEAN
  PROVE  IInv'
<1> USE DEF IInv
<1>1. active \in Round /\ status.round \in Rounds /\ now \in Times /\ MaxRounds \in Nat
      /\ now \in 0..MaxTime /\ MaxTime \in Nat
  BY Numbers DEF TInv, Times, Start
<1>2. FlightInv'
  BY DEF FlightInv
<1>3. CASE active.round # 0
  <2>1. active' = [active EXCEPT !.blocked = TRUE]
    BY <1>3 DEF Blocked
  <2>2. /\ active' \in Round /\ active'.round = active.round /\ active'.cutoff = active.cutoff
        /\ active'.hist = active.hist
    BY <1>1, <2>1, ZenonT(60) DEF Round
  <2>3. TInv' /\ ClockInv' /\ RoundInv'
    BY <1>3, <2>2 DEF TInv, ClockInv, Cutoff, RoundInv
  <2>4. PeersInv'
    <3>1. cand' = cand /\ nodes' = nodes
      BY Zenon
    <3>2. PICK k : k = active.cutoff
      BY Zenon
    <3>3. \A p \in Peers : PeerOK(cand', p, k) /\ NodeOK(cand', p)
      BY <3>1, <3>2, Zenon DEF PeersInv
    <3> QED
      BY <2>2, <3>1, <3>2, <3>3, PeersCarried, Zenon
  <2>5. EvidenceCounted' /\ FreshNodesAreRedialled'
    BY <2>2 DEF EvidenceCounted, FreshNodesAreRedialled, InRound
  <2> QED
    BY <1>2, <2>3, <2>4, <2>5
<1>4. CASE active.round = 0
  <2>1. PICK n \in Rounds : n = status.round + 1
    BY <1>1, <1>4 DEF Rounds
  <2>2. active' = [round |-> n, started |-> now, cutoff |-> 0,
                   hist |-> [r \in Results |-> 0], blocked |-> TRUE]
    BY <1>4, <2>1, ZenonT(60) DEF Blocked, NoCrawl, NoCutoff
  <2>3. active' \in Round /\ active'.round = n /\ active'.cutoff = 0
        /\ active'.hist = [r \in Results |-> 0] /\ n # 0
    BY <1>1, <2>1, <2>2 DEF Round, Rounds
  <2>4. TInv'
    BY <2>3 DEF TInv
  <2>5. 0 <= Cutoff(now)
    BY <1>1, Numbers
  <2>6. ClockInv' /\ RoundInv'
    BY <2>1, <2>3, <2>5, ZenonT(60) DEF ClockInv, Cutoff, RoundInv
  <2>7. ASSUME NEW p \in Peers PROVE PeerOK(cand, p, 0) /\ NodeOK(cand, p)
    <3>1. cand.probe[p] = "inactive" /\ \A a \in Aliases[p] : cand.obs[a] = "none"
      BY <1>4, AliasFacts, ZenonT(60) DEF RoundInv
    <3> QED
      <4>1. PeerOK(cand, p, active.cutoff) /\ NodeOK(cand, p)
        BY Zenon DEF PeersInv
      <4>2. cand.probe[p] \notin Open /\ cand.probe[p] \notin {"Succeeded", "Exhausted", "ForeignNetwork"}
        BY <3>1 DEF Open
      <4>3. \A a \in Aliases[p] : cand.adv[a] # 0 => cand.last[p] # 0
        BY <3>1, <4>1, Zenon DEF PeerOK
      <4>4. \A a \in Aliases[p] : cand.obs[a] # "same"
        BY <3>1
      <4> QED
        BY <3>1, <4>1, <4>2, <4>3, <4>4, Zenon DEF PeerOK
  <2>8. PeersInv'
    <3>1. cand' = cand /\ nodes' = nodes
      BY Zenon
    <3>2. \A p \in Peers : PeerOK(cand', p, 0) /\ NodeOK(cand', p)
      BY <2>7, <3>1, Zenon
    <3> QED
      BY <2>3, <3>1, <3>2, PeersCarried, Zenon
  <2>9. EvidenceCounted'
    <3>1. \A r \in Results : {a \in Addrs : cand.obs[a] = r} = {}
      BY <1>4, Zenon DEF RoundInv, Results
    <3> QED
      BY <2>3, <3>1, FS_EmptySet DEF EvidenceCounted
  <2>10. FreshNodesAreRedialled'
    BY <2>3 DEF FreshNodesAreRedialled, NoCutoff
  <2> QED
    BY <1>2, <2>4, <2>6, <2>8, <2>9, <2>10
<1> QED
  BY <1>3, <1>4

\* The two ways a bound is exceeded.
LEMMA Overflows ==
  ASSUME IInv, SeedOverflow \/ \E a \in Addrs : ProbeOverflow(a)
  PROVE  IInv'
<1>1. CASE SeedOverflow
  BY <1>1, Refuses, Zenon DEF SeedOverflow, IInv, FlightInv, TInv
<1>2. CASE \E a \in Addrs : ProbeOverflow(a)
  BY <1>2, Refuses, Zenon DEF ProbeOverflow, EndSlice, IInv, RoundInv
<1> QED
  BY <1>1, <1>2, Zenon

-----------------------------------------------------------------------------
(* A slice begins. *)

\* The seeds are stamped within the round's window.
LEMMA SeedsType ==
  ASSUME IInv, NEW cutoff \in Nat, cutoff <= Cutoff(now)
  PROVE  Seeds(cutoff) \in [Addrs -> Stamps] /\ Recent(Seeds(cutoff), cutoff)
<1>1. now \in Stamps /\ now \in Nat /\ now >= cutoff
  BY Numbers DEF IInv, TInv, Cutoff
<1>2. \A a \in Addrs : nodes[Owner[a]].seen \in Stamps
  BY Numbers DEF IInv, TInv, Node
<1>3. 0 \in Stamps
  BY Zenon DEF Stamps
<1>4. ASSUME NEW a \in Addrs
      PROVE  Seeds(cutoff)[a] \in Stamps /\ (Seeds(cutoff)[a] # 0 => Seeds(cutoff)[a] >= cutoff)
  BY <1>1, <1>2, <1>3, Zenon DEF Seeds
<1>5. Seeds(cutoff) \in [Addrs -> Stamps]
  BY <1>4, Zenon DEF Seeds
<1> QED
  BY <1>4, <1>5 DEF Recent

\* The round of a slice: the stored one, or the next one with an empty tally.
LEMMA SliceRoundType ==
  ASSUME IInv, active.round = 0 => status.round < MaxRounds
  PROVE  /\ SliceRound \in Round /\ SliceRound.round = status.round + 1 /\ SliceRound.round # 0
         /\ SliceRound.cutoff \in Nat /\ SliceRound.cutoff <= Cutoff(now)
         /\ active.round # 0 => /\ SliceRound.cutoff = active.cutoff
                                /\ SliceRound.hist = active.hist
                                /\ SliceRound.round = active.round
         /\ active.round = 0 => /\ SliceRound.hist = [r \in Results |-> 0]
                                /\ SliceRound.cutoff = Opened.cutoff
<1> USE DEF IInv
<1>1. active \in Round /\ status.round \in Rounds /\ now \in Times /\ MaxRounds \in Nat
      /\ now \in 0..MaxTime /\ MaxTime \in Nat /\ Cutoff(now) \in 1..MaxTime
  BY Numbers DEF TInv, Times, Start
<1>2. CASE active.round # 0
  <2>1. SliceRound = [active EXCEPT !.blocked = FALSE]
    BY <1>2 DEF SliceRound, Resumed
  <2>2. /\ SliceRound \in Round /\ SliceRound.round = active.round
        /\ SliceRound.cutoff = active.cutoff /\ SliceRound.hist = active.hist
    BY <1>1, <2>1, Zenon DEF Round
  <2>3. active.round = status.round + 1 /\ active.cutoff \in Nat /\ active.cutoff <= Cutoff(now)
    BY <1>1, <1>2 DEF RoundInv, Round, ClockInv
  <2> QED
    BY <1>2, <2>2, <2>3
<1>3. CASE active.round = 0
  <2>1. PICK n \in Rounds : n = status.round + 1
    BY <1>1, <1>3 DEF Rounds
  <2>2. PICK k \in 1..MaxTime : k = Cutoff(now)
    BY <1>1
  <2>3. Opened = [round |-> n, started |-> now, cutoff |-> k,
                  hist |-> [r \in Results |-> 0], blocked |-> FALSE]
    <3>1. Opened = [NoCrawl EXCEPT !.round = n, !.started = now, !.cutoff = k]
      BY <2>1, <2>2 DEF Opened
    <3> QED
      BY <3>1, Zenon DEF NoCrawl
  <2>4. SliceRound = Opened
    BY <1>3 DEF SliceRound
  <2>5. /\ Opened \in Round /\ Opened.round = n /\ Opened.cutoff = k
        /\ Opened.hist = [r \in Results |-> 0]
    BY <1>1, <2>3 DEF Round
  <2>6. n # 0 /\ k \in Nat /\ k <= Cutoff(now)
    BY <1>1, <2>1, <2>2 DEF Rounds
  <2> QED
    BY <1>3, <2>1, <2>4, <2>5, <2>6
<1> QED
  BY <1>2, <1>3, Zenon

\* The frontier a slice begins with, before the seeds are merged.
Prepared == IF active.round # 0 THEN cand ELSE PrepareRound(cand, Opened.cutoff)

\* A new round has every peer in line that keeps a fresh alias.
LEMMA PreparedPeers ==
  ASSUME IInv, active.round = 0 => status.round < MaxRounds
  PROVE  /\ Prepared \in Cand
         /\ Prepared.adv = cand.adv /\ Prepared.ver = cand.ver /\ Prepared.obs = cand.obs
         /\ Prepared.staged = cand.staged /\ Prepared.last = cand.last
         /\ active.round # 0 => Prepared = cand
         /\ active.round = 0 => \A p \in Peers :
              (\E a \in Aliases[p] : FreshAlias(cand, a, SliceRound.cutoff))
                => Prepared.probe[p] = "Pending"
         /\ \A p \in Peers : PeerOK(Prepared, p, SliceRound.cutoff)
<1> USE DEF IInv
<1>1. cand \in Cand
  BY Zenon DEF TInv
<1>2. CASE active.round # 0
  <2>1. Prepared = cand /\ SliceRound.cutoff = active.cutoff
    BY <1>2, SliceRoundType, ZenonT(60) DEF Prepared
  <2> QED
    BY <1>1, <1>2, <2>1, Zenon DEF PeersInv
<1>3. CASE active.round = 0
  <2>1. PICK k : k = SliceRound.cutoff
    OBVIOUS
  <2>2. Opened.cutoff = k
    BY <1>3, <2>1, SliceRoundType
  <2> DEFINE probe == [p \in Peers |-> IF Fresh(cand, k) \cap Aliases[p] # {} THEN "Pending"
                                       ELSE cand.probe[p]]
  <2>3. Prepared = [cand EXCEPT !.probe = probe]
    BY <1>3, <2>2, Zenon DEF Prepared, PrepareRound
  <2>4. probe \in [Peers -> ProbeStates \cup {"inactive"}]
    BY <1>1, CandFields DEF ProbeStates
  <2>5. /\ Prepared \in Cand /\ Prepared.probe = probe
        /\ Prepared.adv = cand.adv /\ Prepared.ver = cand.ver /\ Prepared.obs = cand.obs
        /\ Prepared.staged = cand.staged /\ Prepared.last = cand.last
    <3> HIDE DEF probe
    <3> QED
      BY <1>1, <2>3, <2>4, Zenon DEF Cand
  <2>6. ASSUME NEW p \in Peers
        PROVE  Prepared.probe[p] = IF \E a \in Aliases[p] : FreshAlias(cand, a, k) THEN "Pending"
                                   ELSE "inactive"
    <3>1. (Fresh(cand, k) \cap Aliases[p] # {}) <=> \E a \in Aliases[p] : FreshAlias(cand, a, k)
      BY <1>1, AliasFacts, AliasSets, Zenon
    <3>2. cand.probe[p] = "inactive"
      BY <1>3, Zenon DEF RoundInv
    <3> QED
      BY <2>5, <3>1, <3>2, Zenon
  <2>7. ASSUME NEW p \in Peers PROVE PeerOK(Prepared, p, k)
    <3>1. /\ \A a \in Aliases[p] : cand.obs[a] = "none"
          /\ \A a \in Aliases[p] : cand.adv[a] # 0 => cand.last[p] # 0
      BY <1>3, AliasFacts, Zenon DEF RoundInv, PeersInv, PeerOK
    <3>2. Prepared.probe[p] = "Pending" => \E a \in Aliases[p] : ToDial(Prepared, a, k)
      BY <2>5, <2>6, <3>1 DEF ToDial, FreshAlias
    <3> QED
      BY <2>5, <2>6, <3>1, <3>2, Zenon DEF PeerOK, Open
  <2> QED
    BY <1>3, <2>1, <2>5, <2>6, <2>7, ZenonT(60)
<1> QED
  BY <1>2, <1>3

\* initialize_or_resume: a new round dials every fresh peer, a resumed one goes on.
LEMMA Starts ==
  ASSUME IInv, StartSlice
  PROVE  /\ IInv' /\ cand'.obs = cand.obs
         /\ \A p \in Peers : active.round # 0 =>
              /\ cand.probe[p] # "inactive" => cand'.probe[p] # "inactive"
              /\ cand.probe[p] = "Succeeded" => cand'.probe[p] = "Succeeded"
<1> USE DEF IInv
<1>1. /\ pc = "idle" /\ pc' = "crawl" /\ active' = SliceRound /\ cand' = SliceFrontier
      /\ UNCHANGED <<now, limit, nodes, status, inflight, stopping, faults>>
      /\ active.round = 0 => status.round < MaxRounds
  BY Zenon DEF StartSlice
<1>2. PICK k \in Nat : k = SliceRound.cutoff /\ k <= Cutoff(now)
  BY <1>1, SliceRoundType
<1>3. Seeds(k) \in [Addrs -> Stamps] /\ Recent(Seeds(k), k)
  BY <1>2, SeedsType, Zenon
<1>4. PICK c \in Cand : c = Prepared
  BY <1>1, PreparedPeers, Zenon
<1>5. cand' = MergeCandidates(c, Seeds(k))
  BY <1>1, <1>2, <1>4, Zenon DEF SliceFrontier, Prepared
<1>6. /\ cand' \in Cand
      /\ cand'.ver = c.ver /\ cand'.obs = c.obs /\ cand'.staged = c.staged /\ cand'.last = c.last
      /\ \A a \in Addrs : cand'.adv[a] >= c.adv[a]
      /\ \A p \in Peers : /\ c.probe[p] # "inactive" => cand'.probe[p] # "inactive"
                          /\ c.probe[p] = "Succeeded" => cand'.probe[p] = "Succeeded"
  <2>1. /\ cand' \in Cand
        /\ cand'.ver = c.ver /\ cand'.obs = c.obs /\ cand'.staged = c.staged /\ cand'.last = c.last
        /\ \A a \in Addrs : cand'.adv[a] >= c.adv[a]
    BY <1>3, <1>5, MergeFields
  <2>2. ASSUME NEW p \in Peers
        PROVE  /\ c.probe[p] # "inactive" => cand'.probe[p] # "inactive"
               /\ c.probe[p] = "Succeeded" => cand'.probe[p] = "Succeeded"
    <3>1. cand'.probe[p] = IF ~Heard(Seeds(k), p) THEN c.probe[p]
                           ELSE IF c.probe[p] = "inactive" THEN "Pending"
                           ELSE IF c.probe[p] \in FailedStates /\ HeardNew(c, Seeds(k), p)
                                THEN "RetryAlias"
                           ELSE c.probe[p]
      BY <1>3, <1>5, MergeFields
    <3> QED
      BY <3>1, ZenonT(60) DEF FailedStates
  <2> QED
    BY <2>1, <2>2, ZenonT(60)
<1>7. /\ cand'.ver = cand.ver /\ cand'.obs = cand.obs /\ cand'.staged = cand.staged
      /\ cand'.last = cand.last /\ \A a \in Addrs : cand'.adv[a] >= cand.adv[a]
      /\ active.round # 0 => c = cand
  BY <1>1, <1>4, <1>6, PreparedPeers, Zenon
<1>8. TInv'
  BY <1>1, <1>6, SliceRoundType, Zenon DEF TInv
<1>9. ClockInv'
  BY <1>1, <1>2, <1>7, Zenon DEF ClockInv, Cutoff
<1>10. RoundInv'
  BY <1>1, <1>7, SliceRoundType, ZenonT(60) DEF RoundInv
<1>11. FlightInv'
  <2>1. inflight = {}
    BY <1>1, Zenon DEF FlightInv
  <2> QED
    BY <1>1, <2>1, Zenon DEF FlightInv
<1>12. ASSUME NEW p \in Peers PROVE PeerOK(cand', p, k) /\ NodeOK(cand', p)
  <2>1. PeerOK(c, p, k)
    BY <1>1, <1>2, <1>4, PreparedPeers, Zenon
  <2>2. PeerOK(cand', p, k)
    BY <1>2, <1>3, <1>5, <2>1, MergePeer, Zenon
  <2>3. NodeOK(cand', p)
    <3>1. \A a \in Aliases[p] : cand.adv[a] # 0 => cand'.adv[a] # 0
      <4> SUFFICES ASSUME NEW a \in Aliases[p], cand.adv[a] # 0 PROVE cand'.adv[a] # 0
        BY ZenonT(60)
      <4>1. a \in Addrs /\ cand.adv[a] \in Nat /\ cand'.adv[a] \in Nat
        BY <1>6, AliasFacts, CandFields DEF TInv
      <4> QED
        BY <1>7, <4>1
    <3> QED
      BY <1>7, <3>1, Zenon DEF PeersInv, NodeOK
  <2> QED
    BY <2>2, <2>3, Zenon
<1>13. PeersInv'
  BY <1>1, <1>2, <1>12, PeersCarried, SliceRoundType, Zenon
<1>14. EvidenceCounted'
  <2>1. CASE active.round # 0
    BY <1>1, <1>7, <2>1, SliceRoundType, ZenonT(60) DEF EvidenceCounted
  <2>2. CASE active.round = 0
    <3>1. \A r \in Results : {a \in Addrs : cand'.obs[a] = r} = {}
      BY <1>7, <2>2, Zenon DEF RoundInv, Results
    <3>2. active'.hist = [r \in Results |-> 0]
      BY <1>1, <2>2, SliceRoundType, Zenon
    <3> QED
      BY <3>1, <3>2, FS_EmptySet, ZenonT(60) DEF EvidenceCounted
  <2> QED
    BY <2>1, <2>2
<1>15. FreshNodesAreRedialled'
  <2> SUFFICES ASSUME NEW p \in Peers, active'.round # 0, active'.cutoff # NoCutoff,
                      nodes'[p].seen # 0, nodes'[p].seen >= active'.cutoff
               PROVE  cand'.probe[p] # "inactive"
    BY Zenon DEF FreshNodesAreRedialled, InRound
  <2>1. CASE active.round # 0
    <3>1. p \in InRound(cand)
      BY <1>1, <2>1, SliceRoundType, Zenon DEF FreshNodesAreRedialled
    <3> QED
      BY <1>6, <1>7, <2>1, <3>1, Zenon DEF InRound
  <2>2. CASE active.round = 0
    <3>1. PICK a \in Aliases[p] : cand.adv[a] # 0 /\ cand.ver[a] >= nodes[p].seen
      BY <1>1, ZenonT(60) DEF PeersInv, NodeOK
    <3>2. cand.ver[a] \in Nat /\ nodes[p].seen \in Nat /\ nodes[p].seen >= k
      BY <1>1, <1>2, AliasFacts, CandFields, Numbers, ZenonT(60) DEF TInv, Node
    <3>3. FreshAlias(cand, a, k)
      <4>1. cand.ver[a] >= k
        BY <1>2, <3>1, <3>2
      <4> QED
        BY <3>1, <4>1, Zenon DEF FreshAlias
    <3>4. c.probe[p] = "Pending"
      BY <1>1, <1>2, <1>4, <2>2, <3>3, PreparedPeers
    <3> QED
      BY <1>6, <3>4, ZenonT(60)
  <2> QED
    BY <2>1, <2>2, Zenon
<1> QED
  BY <1>6, <1>7, <1>8, <1>9, <1>10, <1>11, <1>13, <1>14, <1>15, ZenonT(60)

=============================================================================
