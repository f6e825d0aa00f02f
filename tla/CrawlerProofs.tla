--------------------------- MODULE CrawlerProofs ---------------------------
(***************************************************************************)
(* What the crawler's durable frontier keeps over slices, crashes, refused *)
(* results and rounds, for any peers, aliases, limits and clock: the tally *)
(* of a round, the work it has finished, the nodes it dials again, and     *)
(* that a drained round can be published.                                  *)
(***************************************************************************)
EXTENDS CrawlerSliceProofs

\* A leaf that cites no prover goes to SMT, for at most a minute.
USE SMTT(60)

-----------------------------------------------------------------------------
(* A probe result. *)

\* What is required of a peer depends on its own aliases and record only.
LEMMA PeerSame ==
  ASSUME NEW c, NEW d, NEW p, NEW cutoff, PeerOK(c, p, cutoff),
         \A a \in Aliases[p] : d.adv[a] = c.adv[a] /\ d.ver[a] = c.ver[a] /\ d.obs[a] = c.obs[a],
         d.probe[p] = c.probe[p], d.staged[p] = c.staged[p], d.last[p] = c.last[p]
  PROVE  PeerOK(d, p, cutoff)
BY DEF PeerOK, FreshAlias, ToDial

\* The address, its peer and the answer.
LEMMA ProbeFacts ==
  ASSUME IInv, NEW a \in inflight, NEW ans \in Answers[a]
  PROVE  /\ a \in Addrs /\ Owner[a] \in Peers /\ a \in Aliases[Owner[a]]
         /\ ToDial(cand, a, active.cutoff) /\ cand.probe[Owner[a]] \in Open
         /\ PeerOK(cand, Owner[a], active.cutoff)
         /\ ans.r \in Results /\ ans.own \subseteq Addrs
         /\ active.cutoff \in Nat /\ active.cutoff <= now /\ now \in Times /\ now \in Stamps /\ now \in Nat
<1>1. a \in Addrs /\ Owner[a] \in Peers
  BY Numbers, Zenon DEF IInv, TInv
<1>2. a \in Aliases[Owner[a]] /\ Aliases[Owner[a]] \subseteq Addrs
  BY <1>1, AliasFacts
<1>3. ans.r \in Results /\ ans.own \subseteq Addrs
  BY <1>1, <1>2 DEF Answers, Results
<1>4. ToDial(cand, a, active.cutoff) /\ cand.probe[Owner[a]] \in Open
  BY DEF IInv, FlightInv
<1>5. active.cutoff \in Nat /\ active.cutoff <= now /\ now \in Times /\ now \in Stamps /\ now \in Nat
  BY Numbers DEF IInv, TInv, Round, ClockInv, Cutoff
<1> QED
  BY <1>1, <1>2, <1>3, <1>4, <1>5 DEF IInv, PeersInv

Probed(a, r) == [cand EXCEPT !.obs[a] = r]

\* The observation is recorded for this address only.
LEMMA ProbedFields ==
  ASSUME IInv, NEW a \in Addrs, NEW r \in Results, NEW c, c = Probed(a, r)
  PROVE  /\ c \in Cand /\ c.adv = cand.adv /\ c.ver = cand.ver /\ c.probe = cand.probe
         /\ c.staged = cand.staged /\ c.last = cand.last
         /\ c.obs[a] = r /\ \A b \in Addrs : b # a => c.obs[b] = cand.obs[b]
<1>1. cand \in Cand
  BY DEF IInv, TInv
<1>2. cand.obs \in [Addrs -> Results \cup {"none"}]
  BY <1>1 DEF Cand
<1>3. PICK o : o = [cand.obs EXCEPT ![a] = r]
  BY Zenon
<1>4. /\ o \in [Addrs -> Results \cup {"none"}] /\ o[a] = r
      /\ \A b \in Addrs : b # a => o[b] = cand.obs[b]
  BY <1>2, <1>3
<1>5. c = [cand EXCEPT !.obs = o]
  BY <1>3 DEF Probed
<1>6. /\ c \in Cand /\ c.adv = cand.adv /\ c.ver = cand.ver /\ c.probe = cand.probe
      /\ c.staged = cand.staged /\ c.last = cand.last /\ c.obs = o
  BY <1>1, <1>4, <1>5 DEF Cand
<1> QED
  BY <1>4, <1>6

Settled(m, p, st, su) == [m EXCEPT !.probe[p] = st, !.staged[p] = su]

\* A peer's state and staged result are replaced.
LEMMA SettledFields ==
  ASSUME NEW m \in Cand, NEW p \in Peers, NEW st \in ProbeStates, NEW su \in Success,
         NEW d, d = Settled(m, p, st, su)
  PROVE  /\ d \in Cand /\ d.adv = m.adv /\ d.ver = m.ver /\ d.obs = m.obs /\ d.last = m.last
         /\ d.probe[p] = st /\ d.staged[p] = su
         /\ \A q \in Peers : q # p => d.probe[q] = m.probe[q] /\ d.staged[q] = m.staged[q]
<1>1. /\ m.probe \in [Peers -> ProbeStates \cup {"inactive"}] /\ m.staged \in [Peers -> Success]
  BY DEF Cand
<1>2. PICK x : x = [m.probe EXCEPT ![p] = st]
  BY Zenon
<1>3. PICK y : y = [m.staged EXCEPT ![p] = su]
  BY Zenon
<1>4. /\ x \in [Peers -> ProbeStates \cup {"inactive"}] /\ x[p] = st
      /\ \A q \in Peers : q # p => x[q] = m.probe[q]
  BY <1>1, <1>2
<1>5. /\ y \in [Peers -> Success] /\ y[p] = su
      /\ \A q \in Peers : q # p => y[q] = m.staged[q]
  BY <1>1, <1>3
<1>6. d = [m EXCEPT !.probe = x, !.staged = y]
  BY <1>2, <1>3 DEF Settled
<1>7. /\ d \in Cand /\ d.adv = m.adv /\ d.ver = m.ver /\ d.obs = m.obs /\ d.last = m.last
      /\ d.probe = x /\ d.staged = y
  BY <1>4, <1>5, <1>6, ZenonT(60) DEF Cand
<1> QED
  BY <1>4, <1>5, <1>7

\* What a result does to the frontier: its own alias is observed, stamps grow,
\* and another peer that is in line or has succeeded stays so.
AppliedOK(d, a, r) ==
  /\ d \in Cand /\ d.ver = cand.ver /\ d.last = cand.last
  /\ d.obs[a] = r /\ \A b \in Addrs : b # a => d.obs[b] = cand.obs[b]
  /\ \A b \in Addrs : d.adv[b] >= cand.adv[b]
  /\ \A q \in Peers : d.staged[q].at <= now
  /\ \A q \in Peers : q # Owner[a] /\ cand.probe[q] \in Open \cup {"Succeeded"} =>
       d.probe[q] = cand.probe[q]
  /\ \A q \in Peers : cand.probe[q] # "inactive" => d.probe[q] # "inactive"
  /\ \A q \in Peers : PeerOK(d, q, active.cutoff)

\* A success with its advertisements.
LEMMA SuccessApplies ==
  ASSUME IInv, NEW a \in inflight, NEW ans \in Answers[a], ans.r = "same"
  PROVE  AppliedOK(Applied(a, ans), a, "same")
<1> USE DEF IInv
<1>1. PICK p \in Peers : p = Owner[a]
  BY ProbeFacts
<1>2. PICK k \in Nat : k = active.cutoff
  BY ProbeFacts
<1>3. PICK c : c = Probed(a, "same")
  OBVIOUS
<1>4. /\ c \in Cand /\ c.adv = cand.adv /\ c.ver = cand.ver /\ c.probe = cand.probe
      /\ c.staged = cand.staged /\ c.last = cand.last
      /\ c.obs[a] = "same" /\ \A b \in Addrs : b # a => c.obs[b] = cand.obs[b]
  BY <1>3, ProbeFacts, ProbedFields DEF Results
<1>5. PICK at : at = [x \in Addrs |-> IF x \in ans.own \cup ans.discovered THEN now ELSE 0]
  BY Zenon
<1>6. at \in [Addrs -> Stamps] /\ Recent(at, k)
  BY <1>2, <1>5, ProbeFacts DEF Stamps, Recent
<1>7. PICK m : m = MergeCandidates(c, at)
  OBVIOUS
<1>8. PICK su : su = [at |-> now, own |-> ans.own]
  BY Zenon
<1>9. su \in Success /\ su.at = now
  BY <1>8, ProbeFacts DEF Success
<1>10. PICK d : d = Settled(m, p, "Succeeded", su)
  OBVIOUS
<1>11. Applied(a, ans) = d
  BY <1>1, <1>3, <1>5, <1>7, <1>8, <1>10, ZenonT(60) DEF Applied, Probed, Settled
<1>12. /\ m \in Cand
       /\ m.ver = c.ver /\ m.obs = c.obs /\ m.staged = c.staged /\ m.last = c.last
       /\ \A b \in Addrs : m.adv[b] >= c.adv[b]
  BY <1>4, <1>6, <1>7, MergeFields
<1>13. /\ d \in Cand /\ d.adv = m.adv /\ d.ver = m.ver /\ d.obs = m.obs /\ d.last = m.last
       /\ d.probe[p] = "Succeeded" /\ d.staged[p] = su
       /\ \A q \in Peers : q # p => d.probe[q] = m.probe[q] /\ d.staged[q] = m.staged[q]
  BY <1>9, <1>10, <1>12, SettledFields DEF ProbeStates, TerminalStates
<1>14. \A q \in Peers : d.staged[q].at <= now
  BY <1>4, <1>9, <1>12, <1>13, ProbeFacts DEF ClockInv
<1>15. ASSUME NEW q \in Peers, q # p
       PROVE  /\ cand.probe[q] \in Open \cup {"Succeeded"} => d.probe[q] = cand.probe[q]
              /\ cand.probe[q] # "inactive" => d.probe[q] # "inactive"
  <2>1. m.probe[q] = IF ~Heard(at, q) THEN c.probe[q]
                     ELSE IF c.probe[q] = "inactive" THEN "Pending"
                     ELSE IF c.probe[q] \in FailedStates /\ HeardNew(c, at, q)
                          THEN "RetryAlias"
                     ELSE c.probe[q]
    BY <1>4, <1>6, <1>7, MergeFields
  <2> QED
    BY <1>4, <1>13, <1>15, <2>1, ZenonT(60) DEF FailedStates, Open
<1>16. ASSUME NEW q \in Peers, q # p PROVE PeerOK(d, q, k)
  <2>1. \A b \in Aliases[q] : b # a /\ b \in Addrs
    BY <1>1, <1>16, AliasFacts
  <2>2. PeerOK(cand, q, k)
    BY <1>2 DEF PeersInv
  <2>3. PeerOK(c, q, k)
    BY <1>4, <2>1, <2>2, PeerSame, Zenon
  <2>4. PeerOK(m, q, k)
    BY <1>4, <1>6, <1>7, <2>3, MergePeer, ZenonT(60)
  <2> QED
    BY <1>13, <1>16, <2>1, <2>4, PeerSame, ZenonT(60)
<1>17. PeerOK(d, p, k)
  <2>1. PeerOK(cand, p, k) /\ cand.probe[p] \in Open /\ ToDial(cand, a, k) /\ a \in Aliases[p]
    BY <1>1, <1>2, ProbeFacts
  <2>2. \A b \in Aliases[p] : b \in Addrs
    BY AliasFacts
  <2>3. \A b \in Aliases[p] : FreshAlias(cand, b, k) => FreshAlias(d, b, k)
    <3> SUFFICES ASSUME NEW b \in Aliases[p], FreshAlias(cand, b, k) PROVE FreshAlias(d, b, k)
      BY Zenon
    <3>1. b \in Addrs /\ cand.adv[b] \in Nat /\ d.adv[b] \in Nat /\ d.adv[b] >= cand.adv[b]
      BY <1>4, <1>12, <1>13, <2>2, CandFields, Zenon DEF TInv
    <3>2. d.ver[b] = cand.ver[b]
      BY <1>4, <1>12, <1>13, Zenon
    <3> QED
      BY <3>1, <3>2 DEF FreshAlias
  <2>4. d.obs[a] = "same" /\ \A b \in Aliases[p] : b # a => d.obs[b] = cand.obs[b]
    BY <1>4, <1>12, <1>13, <2>2
  <2>5. \A b \in Aliases[p] : cand.obs[b] # "same"
    BY <2>1, Zenon DEF PeerOK, Open
  <2>6. \A b \in Aliases[p] : d.obs[b] # "none" => FreshAlias(d, b, k)
    BY <2>1, <2>3, <2>4, Zenon DEF PeerOK, ToDial
  <2>7. \A b \in Aliases[p] : d.obs[b] = "same" => b = a
    BY <2>4, <2>5, Zenon
  <2>8. d.staged[p].at >= d.ver[a] /\ d.staged[p].at >= nodes[p].seen
    <3>1. cand.ver[a] <= now /\ nodes[p].seen <= now /\ cand.ver[a] \in Nat /\ nodes[p].seen \in Nat
          /\ now \in Nat
      BY ProbeFacts, CandFields, Numbers, ZenonT(60) DEF ClockInv, TInv, Node
    <3> QED
      BY <1>4, <1>9, <1>12, <1>13, <3>1
  <2> QED
    BY <1>13, <2>1, <2>4, <2>6, <2>7, <2>8 DEF PeerOK, Open
<1>18. \A b \in Addrs : d.adv[b] >= cand.adv[b]
  BY <1>4, <1>12, <1>13
<1> QED
  BY <1>1, <1>2, <1>4, <1>11, <1>12, <1>13, <1>14, <1>15, <1>16, <1>17, <1>18 DEF AppliedOK

\* A failed or foreign dial.
LEMMA FailureApplies ==
  ASSUME IInv, NEW a \in inflight, NEW ans \in Answers[a], ans.r # "same"
  PROVE  AppliedOK(Applied(a, ans), a, ans.r)
<1> USE DEF IInv
<1>1. PICK p \in Peers : p = Owner[a]
  BY ProbeFacts
<1>2. PICK k \in Nat : k = active.cutoff
  BY ProbeFacts
<1>3. PICK c : c = Probed(a, ans.r)
  BY Zenon
<1>4. /\ c \in Cand /\ c.adv = cand.adv /\ c.ver = cand.ver /\ c.probe = cand.probe
      /\ c.staged = cand.staged /\ c.last = cand.last
      /\ c.obs[a] = ans.r /\ \A b \in Addrs : b # a => c.obs[b] = cand.obs[b]
  BY <1>3, ProbeFacts, ProbedFields
<1>5. PICK st : st = IF Untried(c, p) # {} THEN "RetryAlias" ELSE OutOfAliases(c, p)
  OBVIOUS
<1>6. st \in ProbeStates /\ st # "inactive"
  BY <1>5 DEF OutOfAliases, ProbeStates, TerminalStates, FailedStates
<1>7. NoSuccess \in Success /\ NoSuccess.at = 0
  BY DEF NoSuccess, Success, Stamps
<1>8. PICK d : d = Settled(c, p, st, NoSuccess)
  OBVIOUS
<1>9. Applied(a, ans) = d
  BY <1>1, <1>3, <1>5, <1>8, ZenonT(60) DEF Applied, Probed, Settled
<1>10. /\ d \in Cand /\ d.adv = c.adv /\ d.ver = c.ver /\ d.obs = c.obs /\ d.last = c.last
       /\ d.probe[p] = st /\ d.staged[p] = NoSuccess
       /\ \A q \in Peers : q # p => d.probe[q] = c.probe[q] /\ d.staged[q] = c.staged[q]
  BY <1>4, <1>6, <1>7, <1>8, SettledFields
<1>11. \A q \in Peers : d.staged[q].at <= now
  BY <1>4, <1>7, <1>10, ProbeFacts DEF ClockInv
<1>12. ASSUME NEW q \in Peers, q # p PROVE PeerOK(d, q, k)
  <2>1. \A b \in Aliases[q] : b # a /\ b \in Addrs
    BY <1>1, <1>12, AliasFacts
  <2>2. PeerOK(cand, q, k)
    BY <1>2 DEF PeersInv
  <2> QED
    BY <1>4, <1>10, <1>12, <2>1, <2>2, PeerSame
<1>13. PeerOK(d, p, k)
  <2>1. PeerOK(cand, p, k) /\ cand.probe[p] \in Open /\ ToDial(cand, a, k) /\ a \in Aliases[p]
    BY <1>1, <1>2, ProbeFacts
  <2>2. \A b \in Aliases[p] : b \in Addrs
    BY AliasFacts
  <2>3. \A b \in Aliases[p] : /\ FreshAlias(cand, b, k) <=> FreshAlias(d, b, k)
                              /\ ToDial(c, b, k) <=> ToDial(d, b, k)
    BY <1>4, <1>10 DEF FreshAlias, ToDial
  <2>4. d.obs[a] = ans.r /\ \A b \in Aliases[p] : b # a => d.obs[b] = cand.obs[b]
    BY <1>4, <1>10, <2>2
  <2>5. ans.r \in {"foreign", "failed"}
    BY ProbeFacts, Zenon DEF Results
  <2>6. \A b \in Aliases[p] : d.obs[b] # "same"
    BY <2>1, <2>4, <2>5, ZenonT(60) DEF PeerOK, Open
  <2>7. \A b \in Aliases[p] : d.obs[b] # "none" => FreshAlias(d, b, k)
    BY <2>1, <2>3, <2>4 DEF PeerOK, ToDial
  <2>8. Untried(c, p) = {b \in Aliases[p] : ToDial(c, b, k)}
    BY <1>2, <1>4, UntriedIs, Zenon
  <2>9. CASE Untried(c, p) # {}
    <3>1. d.probe[p] = "RetryAlias" /\ \E b \in Aliases[p] : ToDial(d, b, k)
      BY <1>5, <1>10, <2>3, <2>8, <2>9
    <3> QED
      BY <2>6, <2>7, <3>1, ZenonT(60) DEF PeerOK, Open
  <2>10. CASE Untried(c, p) = {}
    <3>1. d.probe[p] = IF \E b \in Aliases[p] : d.obs[b] = "foreign" THEN "ForeignNetwork"
                       ELSE "Exhausted"
      BY <1>5, <1>10, <2>10 DEF OutOfAliases
    <3>2. d.obs[a] # "none"
      BY <2>4, <2>5, ZenonT(60)
    <3> QED
      BY <2>1, <2>6, <2>7, <3>1, <3>2 DEF PeerOK, Open
  <2> QED
    BY <2>9, <2>10, Zenon
<1>14. \A b \in Addrs : d.adv[b] >= cand.adv[b]
  BY <1>4, <1>10, CandFields DEF TInv
<1>15. \A q \in Peers : cand.probe[q] # "inactive" => d.probe[q] # "inactive"
  BY <1>4, <1>6, <1>10, ZenonT(60)
<1> QED
  BY <1>1, <1>2, <1>4, <1>9, <1>10, <1>11, <1>12, <1>13, <1>14, <1>15 DEF AppliedOK

\* apply_probe_result checkpoints the observation, the tally and the peer.
LEMMA ProbeKeeps ==
  ASSUME IInv, NEW a \in Addrs, ProbeDone(a)
  PROVE  /\ IInv' /\ cand.obs[a] = "none" /\ cand.probe[Owner[a]] # "Succeeded"
         /\ \A b \in Addrs : b # a => cand'.obs[b] = cand.obs[b]
         /\ \A q \in Peers : cand.probe[q] = "Succeeded" => cand'.probe[q] = "Succeeded"
<1> USE DEF IInv
<1>1. /\ pc = "crawl" /\ a \in inflight /\ inflight' = inflight \ {a}
      /\ UNCHANGED <<now, limit, nodes, status, pc, stopping, faults>>
  BY DEF ProbeDone
<1>2. PICK ans \in Answers[a] : /\ cand' = Applied(a, ans)
                                /\ active' = [active EXCEPT !.hist[ans.r] = @ + 1]
  BY Zenon DEF ProbeDone
<1>3. PICK r \in Results : r = ans.r
  BY <1>1, ProbeFacts
<1>4. AppliedOK(cand', a, r)
  BY <1>1, <1>2, <1>3, SuccessApplies, FailureApplies
<1>5. PICK h : h = [active.hist EXCEPT ![r] = @ + 1]
  BY Zenon
<1>6. active \in Round /\ active.hist \in [Results -> Nat]
  BY DEF TInv, Round
<1>7. /\ h \in [Results -> Nat] /\ h[r] = active.hist[r] + 1
      /\ \A s \in Results : s # r => h[s] = active.hist[s]
  BY <1>5, <1>6
<1>8. active' = [active EXCEPT !.hist = h]
  BY <1>2, <1>3, <1>5
<1>9. /\ active' \in Round /\ active'.round = active.round /\ active'.cutoff = active.cutoff
      /\ active'.hist = h
  BY <1>6, <1>7, <1>8, Zenon DEF Round
<1>10. /\ ToDial(cand, a, active.cutoff) /\ cand.probe[Owner[a]] \in Open /\ Owner[a] \in Peers
  BY <1>1, <1>2, ProbeFacts, Zenon
<1>11. TInv'
  BY <1>1, <1>4, <1>9, Zenon DEF TInv, AppliedOK
<1>12. ClockInv'
  BY <1>1, <1>4, <1>9, Zenon DEF ClockInv, Cutoff, AppliedOK
<1>13. RoundInv'
  BY <1>1, <1>4, <1>9, ZenonT(60) DEF RoundInv, AppliedOK
<1>14. ASSUME NEW b \in Addrs
       PROVE  /\ cand.adv[b] # 0 => cand'.adv[b] # 0
              /\ FreshAlias(cand, b, active.cutoff) => FreshAlias(cand', b, active.cutoff)
  <2>1. cand.adv[b] \in Nat /\ cand'.adv[b] \in Nat /\ cand'.adv[b] >= cand.adv[b]
        /\ cand'.ver[b] = cand.ver[b] /\ active.cutoff \in Nat
    BY <1>4, <1>6, CandFields DEF TInv, AppliedOK, Round
  <2> QED
    BY <2>1 DEF FreshAlias
<1>15. FlightInv'
  <2>1. ASSUME NEW b \in inflight'
        PROVE  ToDial(cand', b, active'.cutoff) /\ cand'.probe[Owner[b]] \in Open
    <3>1. b \in inflight /\ b # a /\ b \in Addrs /\ Owner[b] # Owner[a] /\ Owner[b] \in Peers
      BY <1>1, Numbers, Zenon DEF FlightInv, TInv
    <3>2. ToDial(cand, b, active.cutoff) /\ cand.probe[Owner[b]] \in Open
      BY <3>1, Zenon DEF FlightInv
    <3>3. cand'.probe[Owner[b]] = cand.probe[Owner[b]] /\ cand'.obs[b] = cand.obs[b]
      BY <1>4, <3>1, <3>2, ZenonT(60) DEF AppliedOK
    <3> QED
      BY <1>9, <1>14, <3>1, <3>2, <3>3, Zenon DEF ToDial
  <2>2. \A b, e \in inflight' : Owner[b] = Owner[e] => b = e
    BY <1>1 DEF FlightInv
  <2>3. inflight' # {} => pc' = "crawl"
    BY <1>1, ZenonT(60)
  <2> QED
    BY <2>1, <2>2, <2>3, Zenon DEF FlightInv, ToDial, FreshAlias
<1>16. PeersInv'
  <2>1. ASSUME NEW p \in Peers PROVE PeerOK(cand', p, active.cutoff) /\ NodeOK(cand', p)
    <3>1. PeerOK(cand', p, active.cutoff)
      BY <1>4, Zenon DEF AppliedOK
    <3>2. \A b \in Aliases[p] : cand.adv[b] # 0 => cand'.adv[b] # 0
      BY <1>14, AliasFacts, Zenon
    <3>3. cand'.ver = cand.ver
      BY <1>4, Zenon DEF AppliedOK
    <3> QED
      BY <3>1, <3>2, <3>3, Zenon DEF PeersInv, NodeOK
  <2> QED
    BY <1>1, <1>9, <2>1, PeersCarried, Zenon
<1>17. EvidenceCounted'
  <2> SUFFICES ASSUME NEW s \in Results
               PROVE  active'.hist[s] = Cardinality({b \in Addrs : cand'.obs[b] = s})
    BY Zenon DEF EvidenceCounted
  <2> DEFINE old == {b \in Addrs : cand.obs[b] = s}
             new == {b \in Addrs : cand'.obs[b] = s}
  <2>1. IsFiniteSet(old) /\ active.hist[s] = Cardinality(old)
    <3>1. old \subseteq Addrs /\ IsFiniteSet(Addrs)
      BY Numbers
    <3>2. IsFiniteSet(old)
      BY <3>1, FS_Subset, Zenon
    <3> QED
      BY <3>2 DEF EvidenceCounted
  <2>2. a \notin old
    BY <1>10 DEF ToDial, Results
  <2>3. CASE s = r
    <3>1. new = old \cup {a}
      BY <1>4, <2>3 DEF AppliedOK
    <3>2. Cardinality(old \cup {a}) = Cardinality(old) + 1
      BY <2>1, <2>2, FS_AddElement, Zenon
    <3> QED
      BY <1>7, <1>9, <2>1, <2>3, <3>1, <3>2, ZenonT(60)
  <2>4. CASE s # r
    <3>1. new = old
      BY <1>4, <2>2, <2>4 DEF AppliedOK
    <3> QED
      BY <1>7, <1>9, <2>1, <2>4, <3>1, ZenonT(60)
  <2> QED
    BY <2>3, <2>4
<1>18. FreshNodesAreRedialled'
  BY <1>1, <1>4, <1>9, Zenon DEF FreshNodesAreRedialled, InRound, AppliedOK
<1>19. cand.obs[a] = "none" /\ cand.probe[Owner[a]] # "Succeeded"
  BY <1>10, ZenonT(60) DEF ToDial, Open
<1>20. /\ \A b \in Addrs : b # a => cand'.obs[b] = cand.obs[b]
       /\ \A q \in Peers : cand.probe[q] = "Succeeded" => cand'.probe[q] = "Succeeded"
  BY <1>4, <1>10, <1>19 DEF AppliedOK
<1> QED
  BY <1>11, <1>12, <1>13, <1>15, <1>16, <1>17, <1>18, <1>19, <1>20

-----------------------------------------------------------------------------
(* Publication. *)

\* Verified aliases take the time of the success, expired ones are dropped.
LEMMA FinalFields ==
  ASSUME IInv
  PROVE  /\ Final.obs = cand.obs /\ Final.last = cand.last
         /\ Final.adv \in [Addrs -> Stamps] /\ Final.ver \in [Addrs -> Stamps]
         /\ \A a \in Addrs :
              LET v == IF cand.obs[a] = "same" THEN cand.staged[Owner[a]].at ELSE cand.ver[a]
                  fresh == cand.adv[a] # 0 /\ (cand.adv[a] >= active.cutoff \/ v >= active.cutoff)
              IN  /\ Final.adv[a] = IF fresh THEN cand.adv[a] ELSE 0
                  /\ Final.ver[a] = IF fresh THEN v ELSE 0
<1>1. cand \in Cand
  BY Zenon DEF IInv, TInv
<1> DEFINE V == [a \in Addrs |-> IF cand.obs[a] = "same" THEN cand.staged[Owner[a]].at ELSE cand.ver[a]]
<1>2. V \in [Addrs -> Stamps]
  <2>1. \A a \in Addrs : cand.staged[Owner[a]].at \in Stamps /\ cand.ver[a] \in Stamps
    BY <1>1, CandFields, Numbers, Zenon DEF Success
  <2> QED
    BY <2>1, Zenon
<1>3. PICK v : v = V
  BY Zenon
<1>4. PICK c : c = [cand EXCEPT !.ver = v]
  BY Zenon
<1>5. /\ c \in Cand /\ c.ver = v /\ c.adv = cand.adv /\ c.obs = cand.obs /\ c.last = cand.last
  <2>1. v \in [Addrs -> Stamps]
    BY <1>2, <1>3
  <2> HIDE DEF V
  <2> QED
    BY <1>1, <1>4, <2>1 DEF Cand
<1>6. Verified(cand) = c
  BY <1>3, <1>4 DEF Verified
<1> DEFINE k == Fresh(c, active.cutoff)
           A == [a \in Addrs |-> IF a \in k THEN c.adv[a] ELSE 0]
           W == [a \in Addrs |-> IF a \in k THEN c.ver[a] ELSE 0]
<1>7. Final = [c EXCEPT !.adv = A, !.ver = W]
  BY <1>6, Zenon DEF Final, Pruned
<1>8. A \in [Addrs -> Stamps] /\ W \in [Addrs -> Stamps]
  BY <1>5, CandFields DEF Stamps
<1>9. Final.adv = A /\ Final.ver = W /\ Final.obs = cand.obs /\ Final.last = cand.last
  <2> HIDE DEF A, W
  <2> QED
    BY <1>5, <1>7, Zenon DEF Cand
<1>10. \A a \in Addrs : a \in k <=> (cand.adv[a] # 0 /\ (cand.adv[a] >= active.cutoff \/ v[a] >= active.cutoff))
  BY <1>5, AliasSets DEF FreshAlias
<1>11. \A a \in Addrs : v[a] = IF cand.obs[a] = "same" THEN cand.staged[Owner[a]].at ELSE cand.ver[a]
  BY <1>3, Zenon
<1> HIDE DEF V
<1> QED
  BY <1>5, <1>8, <1>9, <1>10, <1>11

\* The node snapshot: a success is seen when it was staged, the others as before.
LEMMA NextNodesFields ==
  ASSUME IInv, NEW p \in Peers
  PROVE  /\ NextNodes[p] \in Node /\ NextNodes[p].seen <= now
         /\ p \in Succeeded =>
              \/ NextNodes[p].seen = cand.staged[p].at /\ cand.staged[p].at >= Cutoff(now)
                 /\ NextNodes[p].reachable
              \/ NextNodes[p] = NoNode /\ cand.staged[p].at < Cutoff(now)
         /\ p \notin Succeeded =>
              /\ ~NextNodes[p].reachable
              /\ \/ NextNodes[p].seen = nodes[p].seen /\ nodes[p].seen >= Cutoff(now)
                 \/ NextNodes[p] = NoNode /\ nodes[p].seen < Cutoff(now)
<1>1. /\ nodes[p] \in Node /\ cand.staged[p] \in Success /\ now \in Nat /\ Cutoff(now) \in 1..MaxTime
      /\ cand.staged[p].at <= now /\ nodes[p].seen <= now
  BY CandFields, Numbers, Zenon DEF IInv, TInv, ClockInv
<1>2. cand.staged[p].at \in Nat /\ nodes[p].seen \in Nat /\ cand.staged[p].at \in Stamps
      /\ nodes[p].own \subseteq Addrs /\ cand.staged[p].own \subseteq Addrs
  BY <1>1, Numbers, ZenonT(60) DEF Node, Success
<1>3. NoNode \in Node /\ NoNode.seen = 0 /\ NoNode.reachable = FALSE
  BY DEF NoNode, Node, Stamps
<1>4. CASE p \in Succeeded
  <2>1. PICK n : n = [seen |-> cand.staged[p].at, own |-> nodes[p].own \cup cand.staged[p].own,
                      reachable |-> TRUE]
    BY ZenonT(60)
  <2>2. n \in Node /\ n.seen = cand.staged[p].at /\ n.reachable = TRUE
    BY <1>2, <2>1 DEF Node
  <2>3. NextNodes[p] = IF n.seen >= Cutoff(now) THEN n ELSE NoNode
    BY <1>4, <2>1 DEF NextNodes
  <2> QED
    BY <1>1, <1>2, <1>3, <1>4, <2>2, <2>3
<1>5. CASE p \notin Succeeded
  <2>1. PICK n : n = [nodes[p] EXCEPT !.reachable = FALSE]
    BY Zenon
  <2>2. n \in Node /\ n.seen = nodes[p].seen /\ n.reachable = FALSE
    BY <1>1, <2>1, ZenonT(60) DEF Node
  <2>3. NextNodes[p] = IF n.seen >= Cutoff(now) THEN n ELSE NoNode
    BY <1>5, <2>1 DEF NextNodes
  <2> QED
    BY <1>1, <1>2, <1>3, <1>5, <2>2, <2>3
<1> QED
  BY <1>4, <1>5, Zenon

\* commit_crawl_round: what the next round finds.
LEMMA Publishes ==
  ASSUME IInv, PublishRound
  PROVE  IInv' /\ active.round # 0 /\ active'.round = 0
<1> USE DEF IInv
<1>1. /\ pc = "crawl" /\ nodes' = NextNodes /\ active' = NoCrawl
      /\ status' = [round |-> active.round, same |-> Succeeded, retained |-> Retained]
      /\ UNCHANGED <<now, limit, faults>>
      /\ pc' = "idle" /\ inflight' = {} /\ stopping' = FALSE
  BY DEF PublishRound, Drained, EndSlice
<1> DEFINE L == [p \in Peers |->
                   IF p \in InRound(cand) THEN active.round
                   ELSE IF p \in Retained \/ Known(Final) \cap Aliases[p] # {}
                        THEN cand.last[p]
                   ELSE 0]
<1>2. /\ cand' = [Final EXCEPT !.obs = [a \in Addrs |-> "none"],
                               !.probe = [p \in Peers |-> "inactive"],
                               !.staged = [p \in Peers |-> NoSuccess],
                               !.last = L]
  BY ZenonT(60) DEF PublishRound
<1>3. /\ active.round # 0 /\ active.round \in Rounds /\ active.round = status.round + 1
      /\ status.round \in Nat /\ active.round \in Nat
  BY <1>1, Numbers DEF RoundInv, TInv, Round, Rounds
<1>4. \A p \in Peers : cand.last[p] \in Rounds /\ cand.last[p] \in Nat /\ cand.last[p] <= status.round
  BY CandFields DEF TInv, RoundInv
<1>5. 0 \in Rounds
  BY Numbers DEF Rounds
<1>6. L \in [Peers -> Rounds] /\ \A p \in Peers : L[p] <= active.round
  <2>1. \A p \in Peers : L[p] \in {active.round, cand.last[p], 0}
    BY Zenon
  <2> HIDE DEF L
  <2>2. \A p \in Peers : L[p] \in Rounds /\ L[p] <= active.round
    BY <1>3, <1>4, <1>5, <2>1
  <2>3. L = [p \in Peers |-> L[p]]
    BY Zenon DEF L
  <2> QED
    BY <2>2, <2>3, Zenon
<1>7. /\ cand'.adv = Final.adv /\ cand'.ver = Final.ver
      /\ cand'.obs = [a \in Addrs |-> "none"] /\ cand'.probe = [p \in Peers |-> "inactive"]
      /\ cand'.staged = [p \in Peers |-> NoSuccess] /\ cand'.last = L
      /\ cand' \in Cand
  <2>1. cand \in Cand /\ Final = Pruned(Verified(cand))
    BY DEF TInv, Final
  <2>2. DOMAIN cand = {"adv", "ver", "obs", "probe", "staged", "last"}
    BY <2>1 DEF Cand
  <2>3. DOMAIN Final = {"adv", "ver", "obs", "probe", "staged", "last"}
    BY <2>2 DEF Final, Pruned, Verified
  <2>4. cand' = [adv |-> Final.adv, ver |-> Final.ver, obs |-> [a \in Addrs |-> "none"],
                 probe |-> [p \in Peers |-> "inactive"],
                 staged |-> [p \in Peers |-> NoSuccess], last |-> L]
    <3> HIDE DEF L
    <3> QED
      BY <1>2, <2>3, Zenon
  <2>5. [p \in Peers |-> NoSuccess] \in [Peers -> Success]
    BY DEF NoSuccess, Success, Stamps
  <2> HIDE DEF L
  <2> QED
    BY <1>6, <2>4, <2>5, FinalFields, ZenonT(60) DEF Cand
<1> HIDE DEF L
<1>8. TInv'
  <2>1. NoCrawl \in Round
    BY <1>5, Numbers DEF NoCrawl, NoCutoff, Round
  <2>2. nodes' \in [Peers -> Node]
    <3>1. \A p \in Peers : NextNodes[p] \in Node
      BY NextNodesFields, Zenon
    <3> QED
      BY <1>1, <3>1 DEF NextNodes
  <2>3. status' \in [round : Rounds, same : SUBSET Peers, retained : SUBSET Peers]
    BY <1>1, <1>3, Zenon DEF Succeeded, Retained
  <2> QED
    BY <1>1, <1>7, <2>1, <2>2, <2>3, ZenonT(60) DEF TInv
<1>9. active'.round = 0 /\ active'.cutoff = 0 /\ active'.hist = [r \in Results |-> 0]
  BY <1>1, ZenonT(60) DEF NoCrawl, NoCutoff
<1>10. ClockInv'
  <2>1. 0 <= Cutoff(now) /\ now \in Nat /\ 0 <= now
    BY Numbers DEF TInv
  <2>2. \A a \in Addrs : Final.ver[a] <= now
    BY <2>1, FinalFields, Numbers, Zenon DEF ClockInv
  <2>3. \A p \in Peers : NextNodes[p].seen <= now
    BY NextNodesFields, Zenon
  <2>4. \A p \in Peers : cand'.staged[p].at = 0
    BY <1>7 DEF NoSuccess
  <2> QED
    BY <1>1, <1>7, <1>9, <2>1, <2>2, <2>3, <2>4 DEF ClockInv, Cutoff
<1>11. RoundInv'
  BY <1>1, <1>6, <1>7, <1>9, Zenon DEF RoundInv
<1>12. FlightInv'
  BY <1>1, Zenon DEF FlightInv
<1>13. ASSUME NEW p \in Peers PROVE PeerOK(cand, p, active.cutoff)'
  <2>1. cand'.probe[p] = "inactive" /\ \A a \in Aliases[p] : cand'.obs[a] = "none"
    BY <1>7, AliasFacts, Zenon
  <2>2. ASSUME NEW a \in Aliases[p], cand'.adv[a] # 0 PROVE cand'.last[p] # 0
    <3>1. a \in Addrs /\ Final.adv[a] # 0 /\ cand.adv[a] # 0
      BY <1>7, <2>2, AliasFacts, FinalFields, Zenon
    <3>2. CASE p \in InRound(cand)
      BY <1>3, <1>7, <3>2, Zenon DEF L
    <3>3. CASE p \notin InRound(cand)
      <4>1. Known(Final) \cap Aliases[p] # {}
        BY <2>2, <3>1, Zenon DEF Known
      <4>2. cand'.last[p] = cand.last[p]
        BY <1>7, <3>3, <4>1, Zenon DEF L
      <4>3. cand.last[p] # 0
        BY <2>2, <3>1, <3>3, Zenon DEF InRound, PeersInv, PeerOK
      <4> QED
        BY <4>2, <4>3, Zenon
    <3> QED
      BY <3>2, <3>3, Zenon
  <2> QED
    BY <2>1, <2>2, Zenon DEF PeerOK, Open
<1>14. ASSUME NEW p \in Peers, NextNodes[p].seen # 0
       PROVE  \E a \in Aliases[p] : cand'.adv[a] # 0 /\ cand'.ver[a] >= NextNodes[p].seen
  <2>1. /\ Cutoff(now) \in Nat /\ active.cutoff \in Nat /\ active.cutoff <= Cutoff(now)
        /\ NoNode.seen = 0
    BY Numbers DEF TInv, Round, ClockInv, NoNode
  <2>2. CASE p \in Succeeded
    <3>1. NextNodes[p].seen = cand.staged[p].at /\ cand.staged[p].at >= Cutoff(now)
      BY <1>14, <2>1, <2>2, NextNodesFields
    <3>2. PICK a \in Aliases[p] : cand.obs[a] = "same"
      BY <2>2, ZenonT(60) DEF Succeeded, PeersInv, PeerOK
    <3>3. a \in Addrs /\ Owner[a] = p /\ cand.adv[a] # 0 /\ cand.staged[p].at \in Nat
      <4>1. a \in Addrs /\ Owner[a] = p
        BY AliasFacts, Zenon
      <4>2. cand.adv[a] # 0
        <5>1. cand.obs[a] # "none"
          BY <3>2, ZenonT(60)
        <5> QED
          BY <5>1, ZenonT(60) DEF PeersInv, PeerOK, FreshAlias
      <4>3. cand.staged[p].at \in Nat
        BY CandFields, Zenon DEF TInv
      <4> QED
        BY <4>1, <4>2, <4>3, Zenon
    <3>4. cand.staged[p].at >= active.cutoff
      BY <2>1, <3>1, <3>3
    <3>5. Final.adv[a] # 0 /\ Final.ver[a] = cand.staged[p].at
      BY <3>2, <3>3, <3>4, FinalFields, ZenonT(60)
    <3> QED
      BY <1>7, <3>1, <3>3, <3>5
  <2>3. CASE p \notin Succeeded
    <3>1. NextNodes[p].seen = nodes[p].seen /\ nodes[p].seen >= Cutoff(now) /\ nodes[p].seen # 0
      BY <1>14, <2>1, <2>3, NextNodesFields, Zenon
    <3>2. PICK a \in Aliases[p] : cand.adv[a] # 0 /\ cand.ver[a] >= nodes[p].seen
      BY <3>1, ZenonT(60) DEF PeersInv, NodeOK
    <3>3. cand.obs[a] # "same"
      <4>1. cand.obs[a] = "same" => cand.probe[p] = "Succeeded"
        BY Zenon DEF PeersInv, PeerOK
      <4> QED
        BY <2>3, <4>1, Zenon DEF Succeeded
    <3>4. a \in Addrs /\ cand.ver[a] \in Nat /\ nodes[p].seen \in Nat
      BY AliasFacts, CandFields, Numbers, ZenonT(60) DEF TInv, Node
    <3>5. cand.ver[a] >= active.cutoff
      BY <2>1, <3>1, <3>2, <3>4
    <3>6. Final.adv[a] # 0 /\ Final.ver[a] = cand.ver[a]
      BY <3>2, <3>3, <3>4, <3>5, FinalFields
    <3> QED
      BY <1>7, <3>1, <3>2, <3>6, Zenon
  <2> QED
    BY <2>2, <2>3, ZenonT(60)
<1>15. PeersInv'
  <2>1. \A p \in Peers : NodeOK(cand, p)'
    BY <1>1, <1>14 DEF NodeOK
  <2>2. \A p \in Peers : PeerOK(cand, p, active.cutoff)'
    BY <1>13, Zenon
  <2> QED
    BY <2>1, <2>2 DEF PeersInv
<1>16. EvidenceCounted'
  <2>1. \A r \in Results : {a \in Addrs : cand'.obs[a] = r} = {}
    BY <1>7, Zenon DEF Results
  <2> QED
    BY <1>9, <2>1, FS_EmptySet, Zenon DEF EvidenceCounted
<1>17. FreshNodesAreRedialled'
  BY <1>9 DEF FreshNodesAreRedialled
<1> QED
  BY <1>3, <1>8, <1>9, <1>10, <1>11, <1>12, <1>15, <1>16, <1>17

-----------------------------------------------------------------------------
(* The results. *)

\* An empty network store.
LEMMA InitInv == Init => IInv
<1> SUFFICES ASSUME Init PROVE IInv
  OBVIOUS
<1>1. /\ TTL \in Nat /\ MaxTime \in Nat /\ 0 \in Stamps /\ 0 \in Rounds /\ 0 \in 0..MaxFaults
  BY Numbers DEF Stamps, Rounds
<1>2. CASE now \in Times
  <2>1. now \in Nat /\ Cutoff(now) \in Nat
    BY <1>2, Numbers
  <2>2. /\ active \in Round /\ active.round = 0 /\ active.cutoff = 0
        /\ active.hist = [r \in Results |-> 0]
    BY <1>1 DEF Init, NoCrawl, NoCutoff, Round
  <2>3. [at |-> 0, own |-> {}] \in Success /\ NoNode \in Node /\ NoNode.seen = 0
    BY <1>1, Zenon DEF Success, NoNode, Node
  <2>4. /\ cand \in Cand
        /\ cand.adv = [a \in Addrs |-> 0] /\ cand.ver = [a \in Addrs |-> 0]
        /\ cand.obs = [a \in Addrs |-> "none"] /\ cand.probe = [p \in Peers |-> "inactive"]
        /\ cand.staged = [p \in Peers |-> NoSuccess] /\ cand.last = [p \in Peers |-> 0]
    BY <1>1, <2>3, Zenon DEF Init, Cand, NoSuccess
  <2>5. nodes \in [Peers -> Node] /\ \A p \in Peers : nodes[p].seen = 0
    BY <2>3, ZenonT(60) DEF Init
  <2>6. status \in [round : Rounds, same : SUBSET Peers, retained : SUBSET Peers] /\ status.round = 0
    BY <1>1 DEF Init
  <2>7. TInv
    BY <1>1, <1>2, <2>2, <2>4, <2>5, <2>6, ZenonT(60) DEF Init, TInv
  <2>8. ClockInv /\ RoundInv /\ FlightInv
    <3>0. pc = "idle" /\ inflight = {} /\ NoSuccess.at = 0
      BY DEF Init, NoSuccess
    <3>1. \A p \in Peers : cand.staged[p].at = 0 /\ cand.last[p] = 0 /\ cand.probe[p] = "inactive"
      BY <2>4, <3>0, Zenon
    <3>2. \A a \in Addrs : cand.ver[a] = 0 /\ cand.obs[a] = "none"
      BY <2>4, Zenon
    <3>3. now \in Nat /\ 0 <= now /\ 0 <= Cutoff(now)
      BY <2>1
    <3>4. ClockInv
      BY <2>2, <2>5, <3>1, <3>2, <3>3, Zenon DEF ClockInv
    <3>5. RoundInv
      BY <2>2, <2>6, <3>0, <3>1, <3>2 DEF RoundInv
    <3>6. FlightInv
      BY <3>0, Zenon DEF FlightInv
    <3> QED
      BY <3>4, <3>5, <3>6, Zenon
  <2>9. ASSUME NEW p \in Peers PROVE PeerOK(cand, p, active.cutoff) /\ NodeOK(cand, p)
    <3>1. /\ cand.probe[p] = "inactive" /\ \A a \in Aliases[p] : cand.obs[a] = "none" /\ cand.adv[a] = 0
      BY <2>4, AliasFacts
    <3> QED
      BY <2>5, <3>1, ZenonT(60) DEF PeerOK, NodeOK, Open
  <2>10. EvidenceCounted
    <3>1. \A r \in Results : {a \in Addrs : cand.obs[a] = r} = {}
      BY <2>4 DEF Results
    <3> QED
      BY <2>2, <3>1, FS_EmptySet, Zenon DEF EvidenceCounted
  <2>11. FreshNodesAreRedialled
    BY <2>2, ZenonT(60) DEF FreshNodesAreRedialled
  <2> QED
    BY <2>7, <2>8, <2>9, <2>10, <2>11, ZenonT(60) DEF IInv, PeersInv
<1>3. now \in Times
  BY <1>1, CrawlerAssumption DEF Init, Times, Start
<1> QED
  BY <1>2, <1>3

\* Every step of the service, the network and the operator keeps the invariant.
LEMMA NextInv == IInv /\ [Next]_vars => IInv'
<1> SUFFICES ASSUME IInv, [Next]_vars PROVE IInv'
  OBVIOUS
<1>1. CASE StartSlice
  BY <1>1, Starts, Zenon
<1>2. CASE \E p \in Peers : Admit(p)
  BY <1>2, Admits
<1>3. CASE \E a \in Addrs : ProbeDone(a)
  BY <1>3, ProbeKeeps
<1>4. CASE SeedOverflow \/ \E a \in Addrs : ProbeOverflow(a)
  BY <1>4, Overflows
<1>5. CASE PublishRound
  BY <1>5, Publishes
<1>6. CASE \/ DeadlineReached \/ SlicePartial \/ PublishRefused
           \/ Tick \/ Crash \/ Reconfigure \/ Rest \/ UNCHANGED vars
  BY <1>6, Idles DEF Rest
<1> QED
  BY <1>1, <1>2, <1>3, <1>4, <1>5, <1>6, ZenonT(60) DEF Next

\* The frontier, the tally and the published nodes agree in every reachable state.
LEMMA Invariant == Spec => []IInv
BY InitInv, NextInv, PTL DEF Spec

\* Every field of the crawler's store has its type: the tally of a round never
\* exceeds the number of aliases.
THEOREM TypeCorrect == Spec => []TypeOK
<1>1. IInv => TypeOK
  <2> SUFFICES ASSUME IInv PROVE TypeOK
    OBVIOUS
  <2>1. TInv /\ EvidenceCounted
    BY Zenon DEF IInv
  <2>2. ASSUME NEW r \in Results PROVE active.hist[r] \in 0..Cardinality(Addrs)
    <3>1. PICK S : S = {a \in Addrs : cand.obs[a] = r}
      BY ZenonT(60)
    <3>2. S \subseteq Addrs /\ IsFiniteSet(Addrs) /\ active.hist[r] = Cardinality(S)
      BY <2>1, <3>1, Numbers DEF EvidenceCounted
    <3>3. IsFiniteSet(S) /\ Cardinality(S) <= Cardinality(Addrs)
      BY <3>2, FS_Subset
    <3>4. Cardinality(S) \in Nat /\ Cardinality(Addrs) \in Nat
      BY <3>2, <3>3, FS_CardinalityType, Zenon
    <3> QED
      BY <3>2, <3>3, <3>4
  <2>3. active.hist \in [Results -> 0..Cardinality(Addrs)]
    BY <2>1, <2>2, Zenon DEF TInv, Round
  <2>4. active \in [round : 0..MaxRounds, started : 0..MaxTime, cutoff : 0..MaxTime,
                    hist : [Results -> 0..Cardinality(Addrs)], blocked : BOOLEAN]
    BY <2>1, <2>3 DEF TInv, Round, Rounds
  <2> QED
    BY <2>1, <2>4 DEF TypeOK, TInv, Cand, Node, Success, Stamps, Rounds
<1> QED
  BY <1>1, Invariant, PTL

\* apply_probe_result: at every checkpoint the tally of the active round counts
\* exactly the observations its candidates hold, over any crashes, refused
\* results and resumed slices.
THEOREM EvidenceIsCounted == Spec => []EvidenceCounted
<1>1. IInv => EvidenceCounted
  BY DEF IInv
<1> QED
  BY <1>1, Invariant, PTL

\* initialize_or_resume: a round opened with a cutoff has in line, or has already
\* dialled, every published node that the cutoff calls fresh.
THEOREM FreshNodesDialled == Spec => []FreshNodesAreRedialled
<1>1. IInv => FreshNodesAreRedialled
  BY DEF IInv
<1> QED
  BY <1>1, Invariant, PTL

\* No step undoes finished work of the round it belongs to: an observation stays
\* what it is, a peer that succeeded stays successful.
THEOREM WorkIsKept == Spec => FinishedWorkIsKept
<1>1. ASSUME IInv, [Next]_vars, active'.round = active.round
      PROVE  /\ \A a \in Observed(cand) : cand'.obs[a] = cand.obs[a]
             /\ \A p \in Succeeded : cand'.probe[p] = "Succeeded"
  <2>1. CASE StartSlice
    <3>1. active.round # 0
      <4>1. active.round = 0 => status.round < MaxRounds
        BY <2>1, Zenon DEF StartSlice
      <4>2. SliceRound.round # 0 /\ active' = SliceRound
        BY <1>1, <2>1, <4>1, SliceRoundType, Zenon DEF StartSlice
      <4> QED
        BY <1>1, <4>2, Zenon
    <3> QED
      BY <1>1, <2>1, <3>1, Starts, Zenon DEF Observed, Succeeded
  <2>2. CASE \E a \in Addrs : ProbeDone(a)
    <3>1. PICK a \in Addrs : ProbeDone(a)
      BY <2>2, Zenon
    <3> QED
      BY <1>1, <3>1, ProbeKeeps, Zenon DEF Observed, Succeeded
  <2>3. CASE PublishRound
    BY <1>1, <2>3, Publishes, Zenon
  <2>4. CASE cand' = cand
    BY <2>4, Zenon DEF Observed, Succeeded
  <2> QED
    BY <1>1, <2>1, <2>2, <2>3, <2>4, ZenonT(60)
    DEF Next, SeedOverflow, Admit, ProbeOverflow, DeadlineReached, SlicePartial, PublishRefused,
        Tick, Crash, Reconfigure, Rest, vars, store
<1>2. IInv /\ [Next]_vars =>
        [active'.round = active.round =>
           /\ \A a \in Observed(cand) : cand'.obs[a] = cand.obs[a]
           /\ \A p \in Succeeded : cand'.probe[p] = "Succeeded"]_vars
  BY <1>1, ZenonT(60)
<1> QED
  BY <1>2, Invariant, PTL DEF Spec, FinishedWorkIsKept

\* A drained round, peer by peer: only terminal states are left, and unless the
\* round is wedged every outcome passes its checks.
LEMMA OutcomesPass ==
  ASSUME IInv, Drained, ~Wedged, NEW p \in InRound(cand)
  PROVE  cand.probe[p] \in TerminalStates /\ OutcomeChecks(p)
<1> USE DEF IInv
<1>1. p \in Peers /\ cand.probe[p] # "inactive" /\ cand \in Cand
  BY Zenon DEF InRound, TInv
<1>2. PeerOK(cand, p, active.cutoff)
  BY <1>1, Zenon DEF PeersInv
<1>3. Untried(cand, p) = {a \in Aliases[p] : ToDial(cand, a, active.cutoff)}
  BY <1>1, UntriedIs, Zenon
<1>4. cand.probe[p] \notin Open
  <2>1. inflight = {} /\ Tier("Pending") = {} /\ Tier("RetryAlias") = {}
    BY Zenon DEF Drained, Selectable
  <2>2. cand.probe[p] \in Open => Untried(cand, p) = {}
    BY <1>1, <2>1, Zenon DEF Tier, Open
  <2> QED
    BY <1>2, <1>3, <2>2, ZenonT(60) DEF PeerOK
<1>5. cand.probe[p] \in TerminalStates
  BY <1>1, <1>4, CandFields, Zenon DEF ProbeStates, Open
<1>6. PICK k \in Nat : k = active.cutoff
  BY DEF TInv, Round
<1>7. \A a \in Aliases[p] : a \in Addrs /\ Owner[a] = p
  BY <1>1, AliasFacts, Zenon
<1> DEFINE seen == Observed(cand) \cap Aliases[p]
           kept == Known(Final) \cap Aliases[p]
           got(r) == {a \in seen : cand.obs[a] = r}
<1>8. \A a \in Aliases[p] : a \in seen <=> cand.obs[a] # "none"
  BY <1>7, Zenon DEF Observed
<1>9. seen # {}
  <2>1. \E a \in Aliases[p] : cand.obs[a] # "none"
    BY <1>2, <1>5, ZenonT(60) DEF PeerOK, TerminalStates, FailedStates
  <2> QED
    BY <1>8, <2>1, Zenon
<1>10. \A a \in Aliases[p] : FreshAlias(cand, a, k) => a \in kept
  <2> SUFFICES ASSUME NEW a \in Aliases[p], FreshAlias(cand, a, k) PROVE a \in kept
    BY Zenon
  <2>1. cand.adv[a] # 0 /\ (cand.adv[a] >= k \/ cand.ver[a] >= k)
    BY Zenon DEF FreshAlias
  <2>2. cand.obs[a] = "same" => cand.staged[Owner[a]].at >= cand.ver[a]
    BY <1>2, <1>7, ZenonT(60) DEF PeerOK
  <2>3. cand.ver[a] \in Nat /\ cand.staged[Owner[a]].at \in Nat
    BY <1>1, <1>7, CandFields, ZenonT(60)
  <2>4. Final.adv[a] # 0
    <3>1. PICK v \in Nat : v = IF cand.obs[a] = "same" THEN cand.staged[Owner[a]].at ELSE cand.ver[a]
      BY <2>3, Zenon
    <3>2. v >= cand.ver[a]
      BY <2>2, <2>3, <3>1
    <3>3. cand.adv[a] >= k \/ v >= k
      BY <1>6, <2>1, <2>3, <3>2
    <3> QED
      BY <1>6, <1>7, <2>1, <3>1, <3>3, FinalFields, ZenonT(60)
  <2> QED
    BY <1>7, <2>4, Zenon DEF Known
<1>11. seen \subseteq kept
  BY <1>2, <1>6, <1>8, <1>10, ZenonT(60) DEF PeerOK
<1>12. CASE cand.probe[p] = "Succeeded"
  <2>1. PICK a \in Aliases[p] : cand.obs[a] = "same"
    BY <1>2, <1>12, ZenonT(60) DEF PeerOK
  <2>2. got("same") = {a}
    BY <1>2, <1>8, <2>1, ZenonT(60) DEF PeerOK
  <2>3. Cardinality(got("same")) = 1
    BY <2>2, FS_Singleton, ZenonT(60)
  <2>4. p \in Retained
    <3>1. p \in Succeeded
      BY <1>1, <1>12 DEF Succeeded
    <3>2. ~(cand.staged[p].at < Cutoff(now))
      BY <3>1 DEF Wedged, Outlived
    <3>3. NextNodes[p].reachable
      BY <1>1, <3>1, <3>2, NextNodesFields, Zenon
    <3> QED
      <4>1. NextNodes[p] # NoNode
        <5>1. NoNode.reachable = FALSE
          BY Zenon DEF NoNode
        <5> QED
          BY <3>3, <5>1, Zenon
      <4> QED
        BY <1>1, <4>1, Zenon DEF Retained
  <2> HIDE DEF seen, kept
  <2>5. OutcomeChecks(p) = (/\ seen # {} /\ seen \subseteq kept
                            /\ Cardinality(got("same")) = 1 /\ p \in Retained)
    BY <1>12, Zenon DEF OutcomeChecks, seen, kept
  <2> QED
    BY <1>5, <1>9, <1>11, <2>3, <2>4, <2>5, ZenonT(60)
<1>13. CASE cand.probe[p] \in FailedStates
  <2>1. Untried(cand, p) = {}
    BY <1>1, <1>13, Zenon DEF Wedged, Readvertised
  <2>2. \A a \in Aliases[p] : cand.obs[a] # "same"
    BY <1>2, <1>13, ZenonT(60) DEF PeerOK, FailedStates
  <2>3. ASSUME NEW a \in kept PROVE a \in seen
    <3>1. a \in Aliases[p] /\ a \in Addrs /\ Final.adv[a] # 0
      BY <1>7, Zenon DEF Known
    <3>2. FreshAlias(cand, a, k)
      BY <1>6, <2>2, <3>1, FinalFields, Zenon DEF FreshAlias
    <3>3. cand.obs[a] # "none"
      BY <1>3, <1>6, <2>1, <3>1, <3>2, Zenon DEF ToDial
    <3> QED
      BY <1>8, <3>1, <3>3, Zenon
  <2>4. seen = kept
    BY <1>11, <2>3, Zenon
  <2>5. \A a \in seen : cand.obs[a] \in {"foreign", "failed"}
    BY <1>1, <1>7, <1>8, <2>2, CandFields, ZenonT(60) DEF Results
  <2>6. CASE cand.probe[p] = "Exhausted"
    <3>1. got("failed") = kept
      BY <1>2, <2>4, <2>5, <2>6, Zenon DEF PeerOK
    <3> HIDE DEF seen, kept
    <3>2. OutcomeChecks(p) = (/\ seen # {} /\ seen \subseteq kept /\ got("failed") = kept)
      BY <2>6, Zenon DEF OutcomeChecks, seen, kept
    <3> QED
      BY <1>5, <1>9, <1>11, <3>1, <3>2
  <2>7. CASE cand.probe[p] = "ForeignNetwork"
    <3>1. got("foreign") # {} /\ got("same") = {}
      BY <1>2, <1>8, <2>5, <2>7, Zenon DEF PeerOK
    <3> HIDE DEF seen, kept
    <3>2. OutcomeChecks(p) = (/\ seen # {} /\ seen \subseteq kept
                              /\ got("foreign") # {} /\ got("same") = {} /\ seen = kept)
      BY <2>7, Zenon DEF OutcomeChecks, seen, kept
    <3> QED
      BY <1>5, <1>9, <1>11, <2>4, <3>1, <3>2
  <2> QED
    BY <1>13, <2>6, <2>7, Zenon DEF FailedStates
<1> QED
  BY <1>5, <1>12, <1>13, Zenon DEF TerminalStates

\* publish_completed_round and the store's commit validation accept every drained
\* round that is not wedged in one of the three ways Wedged names, whatever led
\* to it: none of their other conditions can refuse it.
THEOREM DrainedPublishes == Spec => []DrainedRoundPublishes
<1>1. ASSUME IInv, Drained, ~Wedged PROVE PublishChecks
  <2> USE <1>1 DEF IInv
  <2>1. /\ \A p \in InRound(cand) : cand.probe[p] \in TerminalStates
        /\ \A p \in InRound(cand) : OutcomeChecks(p)
    BY OutcomesPass, Zenon
  <2>2. ASSUME NEW p \in Peers \ InRound(cand)
        PROVE  /\ Known(cand) \cap Aliases[p] # {} => cand.last[p] # 0
               /\ cand.last[p] < active.round
    <3>1. cand.probe[p] = "inactive"
      BY <2>2 DEF InRound
    <3>2. Known(cand) \cap Aliases[p] # {} => cand.last[p] # 0
      <4> SUFFICES ASSUME NEW a \in Aliases[p], a \in Known(cand) PROVE cand.last[p] # 0
        BY Zenon
      <4>1. p \in Peers /\ cand.adv[a] # 0
        BY <2>2, Zenon DEF Known
      <4>2. PeerOK(cand, p, active.cutoff)
        BY <4>1, Zenon DEF PeersInv
      <4> QED
        BY <3>1, <4>1, <4>2, Zenon DEF PeerOK
    <3>3. active.round = status.round + 1 /\ cand.last[p] <= status.round
      BY DEF Drained, RoundInv
    <3>4. cand.last[p] \in Nat /\ status.round \in Nat
      BY CandFields, Numbers DEF TInv, Rounds
    <3> QED
      BY <3>2, <3>3, <3>4
  <2>3. \A p \in Succeeded : cand.staged[p].at >= nodes[p].seen
    BY ZenonT(60) DEF Succeeded, PeersInv, PeerOK
  <2>4. ASSUME NEW a \in Addrs, cand.obs[a] = "same"
        PROVE  cand.staged[Owner[a]].at >= cand.ver[a]
    <3>1. Owner[a] \in Peers /\ a \in Aliases[Owner[a]]
      BY Numbers, AliasFacts
    <3> QED
      BY <2>4, <3>1, ZenonT(60) DEF PeersInv, PeerOK
  <2>5. \A r \in Results : active.hist[r] = Cardinality({a \in Addrs : cand.obs[a] = r})
    BY DEF EvidenceCounted
  <2>6. ASSUME NEW p \in Peers, p \notin InRound(cand) PROVE p \notin Retained
    <3>1. p \notin Succeeded
      BY <2>6, Zenon DEF InRound, Succeeded
    <3>2. ~(nodes[p].seen # 0 /\ nodes[p].seen >= Cutoff(now))
      BY <2>6, Zenon DEF Wedged, Unprepared
    <3>3. /\ Cutoff(now) \in 1..MaxTime /\ MaxTime \in Nat
          /\ nodes[p].seen \in Stamps /\ Stamps \subseteq Nat
      BY Numbers, ZenonT(60) DEF TInv, Node
    <3>4. NextNodes[p] = NoNode
      BY <3>1, <3>2, <3>3, NextNodesFields
    <3> QED
      BY <3>4, Zenon DEF Retained
  <2>7. Retained \subseteq InRound(cand)
    BY <2>6 DEF Retained
  <2>8. ASSUME NEW p \in Peers PROVE NextNodes[p].reachable <=> p \in Succeeded
    <3>1. CASE p \in Succeeded
      <4>1. ~(cand.staged[p].at < Cutoff(now))
        BY <3>1, Zenon DEF Wedged, Outlived
      <4> QED
        BY <3>1, <4>1, NextNodesFields, Zenon
    <3>2. CASE p \notin Succeeded
      BY <3>2, NextNodesFields, Zenon
    <3> QED
      BY <3>1, <3>2, Zenon
  <2>9. {p \in Peers : NextNodes[p].reachable} = Succeeded
    BY <2>8 DEF Succeeded
  <2> QED
    BY <2>1, <2>2, <2>3, <2>4, <2>5, <2>7, <2>9, ZenonT(60) DEF PublishChecks
<1>2. IInv => DrainedRoundPublishes
  BY <1>1 DEF DrainedRoundPublishes
<1> QED
  BY <1>2, Invariant, PTL

=============================================================================
