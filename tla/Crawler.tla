------------------------------ MODULE Crawler ------------------------------
(***************************************************************************)
(* The peer crawler (crates/crawler): one logical round after another over *)
(* a durable frontier of peers and their dial addresses ("aliases").  A    *)
(* round is worked off in slices; every probe result is checkpointed in    *)
(* one write batch; a drained round is validated and published in another. *)
(*                                                                         *)
(* Left out: the local session observer (the run_crawl_slice entry point   *)
(* that has none), geo lookup, versions, histories, the advertiser of an   *)
(* advertisement, malformed addresses, and last_scheduled_sequence, whose  *)
(* order among peers of one tier no property tells apart: any peer of the  *)
(* first non-empty tier may be selected.                                   *)
(***************************************************************************)
EXTENDS Integers, FiniteSets, FiniteSetsExt

CONSTANTS
  Peers,          \* the peer ids
  Addrs,          \* the aliases: integers, in the order of the strings
  Owner,          \* Owner[a]: the peer id embedded in alias a
  Bootnodes,      \* the configured bootnode addresses
  TTL,            \* node_ttl_secs, in ticks
  Limits,         \* the values the operator gives max_frontier
  Concurrency,    \* max_dial_concurrency
  MaxDiscovered,  \* bound on the addresses one Discovery answer carries
  MaxTime,        \* bound on the clock
  MaxRounds,      \* bound on the number of rounds
  MaxFaults       \* bound on crashes, internal errors and reconfigurations

ASSUME CrawlerAssumption ==
  /\ Addrs \subseteq Nat /\ IsFiniteSet(Addrs)
  /\ Owner \in [Addrs -> Peers]
  /\ Bootnodes \subseteq Addrs
  /\ Limits \subseteq Nat \ {0}
  /\ {TTL, MaxDiscovered, MaxTime, MaxRounds, MaxFaults} \subseteq Nat
  /\ TTL < MaxTime  \* the clock starts at TTL + 1
  /\ Concurrency \in Nat \ {0}

VARIABLES
  now,      \* the system clock
  limit,    \* the max_frontier the service runs with
  active,   \* CF_NET_CRAWL: the active-round singleton
  cand,     \* CF_NET_CRAWL: the candidates, and the copy a slice works on
  nodes,    \* CF_NET_NODES: the published verified nodes
  status,   \* CF_NET_STATS: round id and peer outcomes last published
  pc,       \* "idle" between slices and while the process is down, "crawl"
  inflight, \* addresses being probed
  stopping, \* the slice deadline has passed: no more admission
  faults    \* crashes and reconfigurations so far

vars == <<now, limit, active, cand, nodes, status, pc, inflight, stopping, faults>>
store == <<active, cand, nodes, status>>

-----------------------------------------------------------------------------
Results == {"same", "foreign", "failed"}
FailedStates == {"Exhausted", "ForeignNetwork"}
TerminalStates == FailedStates \cup {"Succeeded"}
ProbeStates == TerminalStates \cup {"Pending", "RetryAlias"}

\* The Option<u64> cutoff that is None; the clock starts above every TTL.
NoCutoff == 0
Start == TTL + 1
Times == Start..MaxTime
Cutoff(t) == t - TTL

NoCrawl == [round |-> 0, started |-> 0, cutoff |-> NoCutoff,
            hist |-> [r \in Results |-> 0], blocked |-> FALSE]
NoSuccess == [at |-> 0, own |-> {}]
NoNode == [seen |-> 0, own |-> {}, reachable |-> FALSE]

Aliases == [p \in Peers |-> {a \in Addrs : Owner[a] = p}]
Known(c) == {a \in Addrs : c.adv[a] # 0}
Fresh(c, cutoff) == {a \in Known(c) : c.adv[a] >= cutoff \/ c.ver[a] >= cutoff}
Observed(c) == {a \in Addrs : c.obs[a] # "none"}
InRound(c) == {p \in Peers : c.probe[p] # "inactive"}
Untried(c, p) == (Fresh(c, active.cutoff) \ Observed(c)) \cap Aliases[p]

\* An empty network store.
Init ==
  /\ now = Start
  /\ limit \in Limits
  /\ active = NoCrawl
  /\ cand = [adv    |-> [a \in Addrs |-> 0],       \* last_advertised_at
             ver    |-> [a \in Addrs |-> 0],       \* last_verified_at
             obs    |-> [a \in Addrs |-> "none"],  \* active.observations
             probe  |-> [p \in Peers |-> "inactive"],
             staged |-> [p \in Peers |-> NoSuccess],
             last   |-> [p \in Peers |-> 0]]       \* last_completed.round_id
  /\ nodes = [p \in Peers |-> NoNode]
  /\ status = [round |-> 0, same |-> {}, retained |-> {}]
  /\ pc = "idle" /\ inflight = {} /\ stopping = FALSE
  /\ faults = 0

-----------------------------------------------------------------------------
\* Mutant: a new alias reopens any finished peer.
ReopensFinished(state) == state \in TerminalStates

\* A new alias puts a peer whose dials all failed back in line.
Reopens(state) == state \in FailedStates

\* merge_candidate for every address of the frontier at once: at[a] is the time
\* address a is advertised at, 0 when it is not.  A known alias is only refreshed.
MergeCandidates(c, at) ==
  LET heard(p) == {a \in Aliases[p] : at[a] # 0}
      state(p) == IF heard(p) = {} THEN c.probe[p]
                  ELSE IF c.probe[p] = "inactive" THEN "Pending"
                  ELSE IF Reopens(c.probe[p]) /\ heard(p) \ Known(c) # {}
                       THEN "RetryAlias"
                  ELSE c.probe[p]
  IN  [c EXCEPT !.adv = [a \in Addrs |-> Max({c.adv[a], at[a]})],
                !.probe = [p \in Peers |-> state(p)]]

\* Mutant: an alias last verified at the cutoff is already expired.
PreparePastCutoff(c, cutoff) ==
  [c EXCEPT !.probe = [p \in Peers |->
     IF Fresh(c, cutoff + 1) \cap Aliases[p] # {} THEN "Pending" ELSE c.probe[p]]]

\* initialize_or_resume, no active round: every candidate with a fresh alias.
PrepareRound(c, cutoff) ==
  [c EXCEPT !.probe = [p \in Peers |->
     IF Fresh(c, cutoff) \cap Aliases[p] # {} THEN "Pending" ELSE c.probe[p]]]

\* The seeds of a slice: bootnodes now, own addresses of fresh nodes when seen.
Seeds(cutoff) ==
  [a \in Addrs |->
     IF a \in Bootnodes THEN now
     ELSE LET n == nodes[Owner[a]]
          IN  IF n.seen # 0 /\ n.seen >= cutoff /\ a \in n.own THEN n.seen ELSE 0]

\* Mutant: a resumed round counts from nothing.
ResumedEmpty == [active EXCEPT !.blocked = FALSE, !.hist = NoCrawl.hist]

Resumed == [active EXCEPT !.blocked = FALSE]
Opened == [NoCrawl EXCEPT !.round = status.round + 1, !.started = now, !.cutoff = Cutoff(now)]

\* The round a slice works on and its frontier, before the bound is checked.
SliceRound == IF active.round # 0 THEN Resumed ELSE Opened

SliceFrontier ==
  MergeCandidates(IF active.round # 0 THEN cand ELSE PrepareRound(cand, Opened.cutoff),
                  Seeds(SliceRound.cutoff))

\* ensure_frontier_bound
WithinBound(c) == Cardinality(Known(c)) <= limit

\* What ensure_frontier_bound stores when it refuses: the stored round marked
\* blocked or, when none is stored, a round without cutoff.
Blocked == IF active.round # 0 THEN [active EXCEPT !.blocked = TRUE]
           ELSE [NoCrawl EXCEPT !.round = status.round + 1, !.started = now, !.blocked = TRUE]

\* Mutant: the deadline of the first slice stays.
EndSliceExpired == pc' = "idle" /\ inflight' = {} /\ UNCHANGED stopping

EndSlice == pc' = "idle" /\ inflight' = {} /\ stopping' = FALSE

StartSlice ==
  /\ pc = "idle"
  /\ active.round = 0 => status.round < MaxRounds /\ InRound(cand) = {}
  /\ WithinBound(SliceFrontier)
  /\ active' = SliceRound
  /\ cand' = SliceFrontier
  /\ pc' = "crawl"
  /\ UNCHANGED <<now, limit, nodes, status, inflight, stopping, faults>>

SeedOverflow ==
  /\ pc = "idle"
  /\ active.round = 0 => status.round < MaxRounds /\ InRound(cand) = {}
  /\ ~WithinBound(SliceFrontier)
  /\ active' = Blocked
  /\ UNCHANGED <<now, limit, cand, nodes, status, pc, inflight, stopping, faults>>

-----------------------------------------------------------------------------
\* select_next_candidate: pending peers before alias retries, one dial a peer.
Tier(state) ==
  {p \in Peers : cand.probe[p] = state /\ Untried(cand, p) # {}
                 /\ inflight \cap Aliases[p] = {}}
Selectable == IF Tier("Pending") # {} THEN Tier("Pending") ELSE Tier("RetryAlias")

Admit(p) ==
  /\ pc = "crawl"
  /\ Cardinality(inflight) < Concurrency
  /\ ~stopping
  /\ p \in Selectable
  /\ inflight' = inflight \cup {Min(Untried(cand, p))}
  /\ UNCHANGED <<now, limit, store, pc, stopping, faults>>

DeadlineReached ==
  /\ pc = "crawl" /\ ~stopping
  /\ stopping' = TRUE
  /\ UNCHANGED <<now, limit, store, pc, inflight, faults>>

\* Mutant: a foreign answer is forgotten when a later dial fails.
ExhaustedAnyway(c, p) == "Exhausted"

\* The state of a peer with no alias left to dial.
OutOfAliases(c, p) ==
  IF \E a \in Aliases[p] : c.obs[a] = "foreign" THEN "ForeignNetwork" ELSE "Exhausted"

\* The frontier after the probe of address a answered ans: a result and, on
\* success, the peer's own addresses and those its Discovery answer carried.
Applied(a, ans) ==
  LET p == Owner[a]
      c == [cand EXCEPT !.obs[a] = ans.r]
      heard == [x \in Addrs |-> IF x \in ans.own \cup ans.discovered THEN now ELSE 0]
  IN  IF ans.r = "same"
      THEN [MergeCandidates(c, heard) EXCEPT !.probe[p] = "Succeeded",
                                             !.staged[p] = [at |-> now, own |-> ans.own]]
      ELSE [c EXCEPT !.staged[p] = NoSuccess,
                     !.probe[p] = IF Untried(c, p) # {} THEN "RetryAlias"
                                  ELSE OutOfAliases(c, p)]

Answers ==
  [a \in Addrs |->
     [r : {"same"}, own : SUBSET Aliases[Owner[a]],
      discovered : {D \in SUBSET Addrs : Cardinality(D) <= MaxDiscovered}]
     \cup [r : {"foreign", "failed"}, own : {{}}, discovered : {{}}]]

\* apply_probe_result: one checkpoint holds the observation, the tally, the new
\* addresses and the peer's state.
ProbeDone(a) ==
  /\ pc = "crawl" /\ a \in inflight
  /\ \E ans \in Answers[a] :
       /\ cand' = Applied(a, ans)
       /\ WithinBound(cand')
       /\ active' = [active EXCEPT !.hist[ans.r] = @ + 1]
  /\ inflight' = inflight \ {a}
  /\ UNCHANGED <<now, limit, nodes, status, pc, stopping, faults>>

\* The answer would outgrow the frontier: the whole result is refused and the
\* slice fails, with every other probe in flight.
ProbeOverflow(a) ==
  /\ pc = "crawl" /\ a \in inflight
  /\ \E ans \in Answers[a] : ~WithinBound(Applied(a, ans))
  /\ active' = Blocked
  /\ EndSlice
  /\ UNCHANGED <<now, limit, cand, nodes, status, faults>>

\* The slice ends with work left.
SlicePartial ==
  /\ pc = "crawl" /\ inflight = {} /\ stopping
  /\ Selectable # {}
  /\ EndSlice
  /\ UNCHANGED <<now, limit, store, faults>>

-----------------------------------------------------------------------------
\* publish_completed_round: apply the verifications, then prune by the round's
\* cutoff.
Verified(c) ==
  [c EXCEPT !.ver = [a \in Addrs |-> IF c.obs[a] = "same" THEN c.staged[Owner[a]].at
                                     ELSE c.ver[a]]]
Pruned(c) ==
  LET keep == Fresh(c, active.cutoff)
  IN  [c EXCEPT !.adv = [a \in Addrs |-> IF a \in keep THEN c.adv[a] ELSE 0],
                !.ver = [a \in Addrs |-> IF a \in keep THEN c.ver[a] ELSE 0]]
Final == Pruned(Verified(cand))

Succeeded == {p \in Peers : cand.probe[p] = "Succeeded"}

\* The node snapshot of the round: successes refresh their record, the others
\* become unreachable, records not seen for a TTL before the end are dropped.
NextNodes ==
  [p \in Peers |->
     LET n == IF p \in Succeeded
              THEN [seen |-> cand.staged[p].at, own |-> nodes[p].own \cup cand.staged[p].own,
                    reachable |-> TRUE]
              ELSE [nodes[p] EXCEPT !.reachable = FALSE]
     IN  IF n.seen >= Cutoff(now) THEN n ELSE NoNode]
Retained == {p \in Peers : NextNodes[p] # NoNode}

\* checked_record_candidate and CompletedPeerOutcomes::checked_record for one
\* candidate: observations are of retained aliases and agree with the outcome,
\* a failed peer tried every alias it keeps, a successful one has a node.
OutcomeChecks(p) ==
  LET seen == Observed(cand) \cap Aliases[p]
      kept == Known(Final) \cap Aliases[p]
      got(r) == {a \in seen : cand.obs[a] = r}
  IN  /\ seen # {} /\ seen \subseteq kept
      /\ CASE cand.probe[p] = "Succeeded" -> Cardinality(got("same")) = 1 /\ p \in Retained
           [] cand.probe[p] = "Exhausted" -> got("failed") = kept
           [] cand.probe[p] = "ForeignNetwork" -> got("foreign") # {} /\ got("same") = {}
                                                  /\ seen = kept

\* Every condition publish_completed_round, and the store's commit validation
\* after it, refuse a round for.
PublishChecks ==
  /\ \A p \in InRound(cand) : cand.probe[p] \in TerminalStates
  /\ \A p \in Peers \ InRound(cand) :
       /\ Known(cand) \cap Aliases[p] # {} => cand.last[p] # 0
       /\ cand.last[p] < active.round
  /\ \A p \in Succeeded : cand.staged[p].at >= nodes[p].seen
  /\ \A a \in Addrs : cand.obs[a] = "same" => cand.staged[Owner[a]].at >= cand.ver[a]
  /\ \A p \in InRound(cand) : OutcomeChecks(p)
  /\ \A r \in Results : active.hist[r] = Cardinality({a \in Addrs : cand.obs[a] = r})
  /\ Retained \subseteq InRound(cand)
  /\ {p \in Peers : NextNodes[p].reachable} = Succeeded

Drained == pc = "crawl" /\ inflight = {} /\ Selectable = {}

\* commit_crawl_round: nodes, status, candidates and the active marker in one
\* write batch.
PublishRound ==
  /\ Drained
  /\ PublishChecks
  /\ nodes' = NextNodes
  /\ status' = [round |-> active.round, same |-> Succeeded, retained |-> Retained]
  /\ cand' = [Final EXCEPT
       !.obs = [a \in Addrs |-> "none"],
       !.probe = [p \in Peers |-> "inactive"],
       !.staged = [p \in Peers |-> NoSuccess],
       !.last = [p \in Peers |->
                   IF p \in InRound(cand) THEN active.round
                   ELSE IF p \in Retained \/ Known(Final) \cap Aliases[p] # {}
                        THEN cand.last[p]
                   ELSE 0]]
  /\ active' = NoCrawl
  /\ EndSlice
  /\ UNCHANGED <<now, limit, faults>>

\* A refused round stays active; the service exits with the error.
PublishRefused ==
  /\ Drained
  /\ ~PublishChecks
  /\ EndSlice
  /\ UNCHANGED <<now, limit, store, faults>>

-----------------------------------------------------------------------------
Tick ==
  /\ now < MaxTime
  /\ now' = now + 1
  /\ UNCHANGED <<limit, store, pc, inflight, stopping, faults>>

\* The process dies, or a probe reports an internal error and the slice fails:
\* what was in flight is lost.
Crash ==
  /\ pc = "crawl" /\ faults < MaxFaults
  /\ faults' = faults + 1
  /\ EndSlice
  /\ UNCHANGED <<now, limit, store>>

\* The operator restarts the service with another max_frontier.
Reconfigure ==
  /\ pc = "idle" /\ faults < MaxFaults
  /\ limit' \in Limits \ {limit}
  /\ faults' = faults + 1
  /\ UNCHANGED <<now, store, pc, inflight, stopping>>

\* The bound on rounds is reached.
Rest ==
  /\ pc = "idle" /\ active.round = 0 /\ status.round = MaxRounds
  /\ UNCHANGED vars

Next ==
  \/ StartSlice \/ SeedOverflow
  \/ \E p \in Peers : Admit(p)
  \/ \E a \in Addrs : ProbeDone(a) \/ ProbeOverflow(a)
  \/ DeadlineReached \/ SlicePartial \/ PublishRound \/ PublishRefused
  \/ Tick \/ Crash \/ Reconfigure \/ Rest

Spec == Init /\ [][Next]_vars

\* The service loop starts and ends slices, the executor polls the probes and
\* each probe has a deadline; no two of these steps wait for each other.
\* Admission is strongly fair: a slice budget of seconds does not always run out
\* between loading the frontier and the first dial.
ServiceStep ==
  \/ StartSlice \/ SlicePartial \/ PublishRound \/ PublishRefused
  \/ \E a \in Addrs : ProbeDone(a)
Fairness == WF_vars(ServiceStep) /\ SF_vars(\E p \in Peers : Admit(p))
FairSpec == Spec /\ Fairness
-----------------------------------------------------------------------------
\* Every stored and in-memory field of the crawler has its type.
TypeOK ==
  /\ now \in Times /\ limit \in Limits
  /\ active \in [round : 0..MaxRounds, started : 0..MaxTime, cutoff : 0..MaxTime,
                 hist : [Results -> 0..Cardinality(Addrs)], blocked : BOOLEAN]
  /\ cand \in [adv : [Addrs -> {0} \cup Times], ver : [Addrs -> {0} \cup Times],
               obs : [Addrs -> Results \cup {"none"}],
               probe : [Peers -> ProbeStates \cup {"inactive"}],
               staged : [Peers -> [at : {0} \cup Times, own : SUBSET Addrs]],
               last : [Peers -> 0..MaxRounds]]
  /\ nodes \in [Peers -> [seen : {0} \cup Times, own : SUBSET Addrs, reachable : BOOLEAN]]
  /\ status \in [round : 0..MaxRounds, same : SUBSET Peers, retained : SUBSET Peers]
  /\ pc \in {"idle", "crawl"} /\ inflight \subseteq Addrs /\ stopping \in BOOLEAN
  /\ faults \in 0..MaxFaults

\* The three ways a drained round can become impossible to publish.  A peer whose
\* dials all failed holds an expired alias that was advertised again since;
Readvertised == \E p \in Peers : cand.probe[p] \in FailedStates /\ Untried(cand, p) # {}
\* the round outlived the node TTL since one of its successes;
Outlived == \E p \in Succeeded : cand.staged[p].at < Cutoff(now)
\* the round was first stored by a refused seeding, which prepared no candidate.
Unprepared == \E p \in Peers \ InRound(cand) : nodes[p].seen # 0 /\ nodes[p].seen >= Cutoff(now)
Wedged == Readvertised \/ Outlived \/ Unprepared

\* A drained round passes every check of publish_completed_round, whatever
\* slices, crashes, refused results and advertisements led to it, unless it is
\* wedged in one of the three ways above.
DrainedRoundPublishes == Drained /\ ~Wedged => PublishChecks

\* The tally in the active-round singleton counts exactly the observations the
\* candidates hold, at every checkpoint: a lost, refused or repeated probe is
\* counted once or not at all.
EvidenceCounted ==
  \A r \in Results : active.hist[r] = Cardinality({a \in Addrs : cand.obs[a] = r})

\* A round opened by initialize_or_resume dials every published node that its
\* cutoff calls fresh: an alias of the node was verified when it was last seen
\* and no round since has pruned it.
FreshNodesAreRedialled ==
  active.round # 0 /\ active.cutoff # NoCutoff =>
    \A p \in Peers : nodes[p].seen # 0 /\ nodes[p].seen >= active.cutoff => p \in InRound(cand)

\* An observation checkpointed in a round stays as it is until the round is
\* published, and a peer that succeeded stays successful: a crash, a resumed
\* slice or a refused result repeats no finished dial.
FinishedWorkIsKept ==
  [][active'.round = active.round =>
       /\ \A a \in Observed(cand) : cand'.obs[a] = cand.obs[a]
       /\ \A p \in Succeeded : cand'.probe[p] = "Succeeded"]_vars

\* A started round is published in the end, when the frontier bound admits every
\* address and the round does not wedge.
RoundCompletes ==
  active.round # 0 ~> active.round = 0 \/ Wedged \/ limit < Cardinality(Addrs)

\* "terminal candidate did not attempt every retained alias": a candidate in a
\* failed terminal state has dialled every alias the round's cutoff keeps.
TerminalTriedEveryAlias ==
  \A p \in Peers : cand.probe[p] \in FailedStates => Untried(cand, p) = {}

\* "Raising the limit resumes by safely retrying that source": a running round
\* holds every candidate with an alias that was fresh when the round started.
RetainedAliasesAreRedialled ==
  pc = "crawl" =>
    \A a \in Fresh(cand, Cutoff(active.started)) : Owner[a] \in InRound(cand)
=============================================================================
