----------------------------- MODULE Supervisor -----------------------------
(***************************************************************************)
(* `ckbadger run` on several networks: the supervisor's main task, the     *)
(* monitor that restarts children, and the sequencer that starts one       *)
(* network's indexer after the other.  The three share the list of         *)
(* children behind one mutex, which the monitor drops while it backs off   *)
(* and the sequencer takes again after every spawn.                        *)
(*                                                                         *)
(* Init is the supervisor with its first children spawned.  Time passes in *)
(* ticks; a backoff or poll sleep takes any time.  Left out: logging, the  *)
(* status query, the severity of read failures, the length of a backoff.   *)
(***************************************************************************)
EXTENDS Integers, Sequences, FiniteSets

CONSTANTS
  Immediate,      \* children that are not indexers, spawned at once
  Networks,       \* indexers, the first spawned at once
  MaxAttempts,    \* MAX_RESTART_ATTEMPTS
  RateLimit,      \* RESTART_RATE_LIMIT
  RestartWindow,  \* RESTART_RATE_WINDOW
  MaxHandoffs,    \* MAX_HANDOFFS_IN_WINDOW
  HandoffWindow,  \* HANDOFF_RATE_WINDOW
  StableTime,     \* STABLE_RUNNING_THRESHOLD
  SpawnAttempts,  \* SPAWN_RETRY_ATTEMPTS
  ExitCodes,      \* the ways a child exits that are told apart
  MaxTime,        \* bound on the clock
  MaxExits,       \* bound on the exits of children
  Flaky           \* the children that exit by themselves

ASSUME SupervisorAssumption ==
  /\ {Immediate, MaxTime, MaxExits} \subseteq Nat
  /\ {Networks, MaxAttempts, RateLimit, RestartWindow, MaxHandoffs, HandoffWindow,
      StableTime, SpawnAttempts} \subseteq Nat \ {0}
  /\ Flaky \subseteq 1..(Immediate + Networks)
  /\ ExitCodes \subseteq {"ok", "error", "rebuild", "unrecoverable"}

VARIABLES
  children,  \* SupervisorState.children
  requested, \* SupervisorState.shutdown_requested
  lock,      \* who holds the mutex over several steps
  signal,    \* the shutdown watch channel
  main,      \* where run_supervisor_inner_with_sequencer is, child it stops
  mon,       \* where monitor_children_multi is
  seq,       \* where sequence_indexers is
  held,      \* the child the sequencer spawned and has not listed: at most one
  past,      \* networks whose store says they are past bulk sync
  now,       \* the clock
  exits,     \* exits so far
  log        \* history: times of the restarts and handoffs of every child

vars == <<children, requested, lock, signal, main, mon, seq, held, past, now, exits, log>>
shared == <<children, requested, lock, signal>>
outside == <<past, now, exits>>

-----------------------------------------------------------------------------
Slots == 1..(Immediate + Networks)
IsIndexer(i) == i > Immediate
Slot(network) == Immediate + network
Listed(i) == i \in DOMAIN children
Processes == {"up", "stopped"} \cup ExitCodes

\* spawn_child
Spawned == [proc |-> "up", count |-> 0, started |-> now,
            restarts |-> <<>>, handoffs |-> <<>>, blocked |-> FALSE]

MonAt(p) == [pc |-> p, i |-> 0, len |-> 0, next |-> 0]

Init ==
  /\ now = 0
  /\ children = [i \in 1..(Immediate + 1) |-> Spawned]
  /\ requested = FALSE /\ lock = "free" /\ signal = FALSE
  /\ main = [pc |-> "wait", i |-> 0]
  /\ mon = MonAt("sleep")
  /\ seq = [pc |-> "poll", i |-> 2, past |-> FALSE, tries |-> 0]
  /\ held = <<>>
  /\ past = {} /\ exits = 0
  /\ log = [i \in Slots |-> [restarts |-> <<>>, handoffs |-> <<>>]]

-----------------------------------------------------------------------------
(* The children and their networks (external). *)

Exits(code) == code \in ExitCodes /\ exits < MaxExits /\ exits' = exits + 1

ChildExits(i, code) ==
  /\ i \in Flaky /\ children[i].proc = "up"
  /\ Exits(code)
  /\ children' = [children EXCEPT ![i].proc = code]
  /\ UNCHANGED <<requested, lock, signal, main, mon, seq, held, past, now, log>>

HeldExits(code) ==
  /\ held # <<>> /\ Slot(seq.i) \in Flaky /\ held[1].proc = "up"
  /\ Exits(code)
  /\ held' = <<[held[1] EXCEPT !.proc = code]>>
  /\ UNCHANGED <<shared, main, mon, seq, past, now, log>>

\* Once the list is being stopped nobody looks at the clock or at the stores.
Watched == main.pc \in {"wait", "signalled"}

\* A started indexer gets past bulk sync; a later sample may still miss it.
PassBulk(n) ==
  /\ Watched /\ n \notin past
  /\ Listed(Slot(n)) /\ children[Slot(n)].proc = "up"
  /\ past' = past \cup {n}
  /\ UNCHANGED <<shared, main, mon, seq, held, now, exits, log>>

Tick ==
  /\ Watched
  /\ now < MaxTime /\ now' = now + 1
  /\ UNCHANGED <<shared, main, mon, seq, held, past, exits, log>>

-----------------------------------------------------------------------------
(* The monitor. *)

\* It wakes up to a shutdown signal, or finds the shutdown under the mutex.
MonitorReturns ==
  /\ \/ mon.pc = "sleep" /\ signal
     \/ mon.pc \in {"sleep", "backoff"} /\ lock = "free" /\ requested
  /\ mon' = MonAt("gone")
  /\ UNCHANGED <<shared, main, seq, held, outside, log>>

Exited(c) == c.proc \in ExitCodes /\ ~c.blocked

\* A child that is up or blocked is passed over; one that exits after it was
\* passed over is found by the next scan.
NextExited(from, len) ==
  CHOOSE j \in from..(len + 1) :
    /\ j <= len => Exited(children[j])
    /\ \A k \in from..(j - 1) : ~Exited(children[k])

BeginScan ==
  /\ mon.pc = "sleep" /\ lock = "free" /\ ~requested
  /\ lock' = "monitor"
  /\ LET len == Len(children) IN
       mon' = [pc |-> "scan", i |-> NextExited(1, len), len |-> len, next |-> 0]
  /\ UNCHANGED <<children, requested, signal, main, seq, held, outside, log>>

EndScan ==
  /\ mon.pc = "scan" /\ mon.i > mon.len
  /\ lock' = "free"
  /\ mon' = MonAt("sleep")
  /\ UNCHANGED <<children, requested, signal, main, seq, held, outside, log>>

Scanned == [mon EXCEPT !.pc = "scan", !.i = NextExited(@ + 1, mon.len), !.next = 0]

\* classify_child_exit
Classify(i, code) ==
  CASE code = "unrecoverable" -> "block"
    [] IsIndexer(i) /\ code = "ok" -> "handoff"
    [] IsIndexer(i) /\ code = "rebuild" -> "block"
    [] OTHER -> "restart"

ExitedAs(class) ==
  /\ mon.pc = "scan" /\ mon.i <= mon.len
  /\ Classify(mon.i, children[mon.i].proc) = class

BlockChild ==
  /\ ExitedAs("block")
  /\ children' = [children EXCEPT ![mon.i].blocked = TRUE]
  /\ mon' = Scanned
  /\ UNCHANGED <<requested, lock, signal, main, seq, held, outside, log>>

\* What `retain` keeps.  Instants are recorded in order: the expired come first.
Recent(times, window) ==
  LET expired == {j \in DOMAIN times : now - times[j] >= window} IN
    SubSeq(times, Cardinality(expired) + 1, Len(times))

\* The child that takes over carries both windows.
HandoffChild(c) ==
  [Spawned EXCEPT !.handoffs = Append(Recent(c.handoffs, HandoffWindow), now),
                  !.restarts = c.restarts]

\* Mutant: the limit is exceeded by one.
HandoffOneMore(c) == Len(Recent(c.handoffs, HandoffWindow)) <= MaxHandoffs

HandoffAllowed(c) == Len(Recent(c.handoffs, HandoffWindow)) < MaxHandoffs

Handoff ==
  /\ ExitedAs("handoff") /\ HandoffAllowed(children[mon.i])
  /\ children' = [children EXCEPT ![mon.i] = HandoffChild(@)]
  /\ log' = [log EXCEPT ![mon.i].handoffs = Append(@, now)]
  /\ mon' = Scanned
  /\ UNCHANGED <<requested, lock, signal, main, seq, held, outside>>

\* Too many handoffs, or the spawn fails: the child is blocked.
HandoffBlocked ==
  /\ ExitedAs("handoff")
  /\ LET recent == Recent(children[mon.i].handoffs, HandoffWindow) IN
       children' = [children EXCEPT
         ![mon.i].blocked = TRUE,
         ![mon.i].handoffs = IF HandoffAllowed(children[mon.i]) THEN Append(recent, now)
                             ELSE recent]
  /\ mon' = Scanned
  /\ UNCHANGED <<requested, lock, signal, main, seq, held, outside, log>>

\* decide_restart: a stable run clears the count of attempts in a row.
Effective(c) == IF now - c.started >= StableTime THEN 0 ELSE c.count

\* Mutant: one attempt too many.
HaltsLate(c) ==
  \/ Len(Recent(c.restarts, RestartWindow)) >= RateLimit
  \/ Effective(c) > MaxAttempts

Halts(c) ==
  \/ Len(Recent(c.restarts, RestartWindow)) >= RateLimit
  \/ Effective(c) >= MaxAttempts

Pruned(c) == [c EXCEPT !.restarts = Recent(@, RestartWindow)]

Halt ==
  /\ ExitedAs("restart") /\ Halts(children[mon.i])
  /\ children' = [children EXCEPT ![mon.i] = [Pruned(@) EXCEPT !.blocked = TRUE]]
  /\ mon' = Scanned
  /\ UNCHANGED <<requested, lock, signal, main, seq, held, outside, log>>

\* The mutex is dropped for the backoff.
BeginBackoff ==
  /\ ExitedAs("restart") /\ ~Halts(children[mon.i])
  /\ children' = [children EXCEPT ![mon.i] = Pruned(@)]
  /\ mon' = [mon EXCEPT !.pc = "backoff", !.next = Effective(children[mon.i]) + 1]
  /\ lock' = "free"
  /\ UNCHANGED <<requested, signal, main, seq, held, outside, log>>

RestartChild(c) ==
  [Spawned EXCEPT !.count = mon.next, !.restarts = Append(c.restarts, now),
                  !.handoffs = c.handoffs]

\* Mutant: the shutdown is not looked for after the backoff.
AfterBackoffUnchecked == mon.pc = "backoff" /\ lock = "free"

AfterBackoff == mon.pc = "backoff" /\ lock = "free" /\ ~requested

\* The mutex is taken again and kept for the rest of the scan.
Restart ==
  /\ AfterBackoff
  /\ lock' = "monitor"
  /\ children' = [children EXCEPT ![mon.i] = RestartChild(@)]
  /\ log' = [log EXCEPT ![mon.i].restarts = Append(@, now)]
  /\ mon' = Scanned
  /\ UNCHANGED <<requested, signal, main, seq, held, outside>>

\* Mutant: a failed respawn is not counted.
KeepHistory(c) == c

\* A respawn that fails counts as one: the slot is tried again, at a limit.
FailedRestart(c) == [c EXCEPT !.restarts = Append(@, now)]

RestartFails ==
  /\ AfterBackoff
  /\ lock' = "monitor"
  /\ children' = [children EXCEPT ![mon.i] = FailedRestart(@)]
  /\ mon' = Scanned
  /\ UNCHANGED <<requested, signal, main, seq, held, outside, log>>

MonitorStep ==
  \/ MonitorReturns \/ BeginScan \/ EndScan \/ BlockChild
  \/ Handoff \/ HandoffBlocked \/ Halt \/ BeginBackoff \/ Restart \/ RestartFails

-----------------------------------------------------------------------------
(* The sequencer.  seq.i is the network to start, seq.i - 1 the gating one.
   "poll" is the top of the loop and the sleep before it. *)

SeqAt(p) == [seq EXCEPT !.pc = p]
SeqGone == [pc |-> "gone", i |-> seq.i, past |-> FALSE, tries |-> 0]
SeqNext == IF seq.i >= Networks THEN SeqGone
           ELSE [pc |-> "poll", i |-> seq.i + 1, past |-> FALSE, tries |-> 0]

SeqReturns ==
  /\ seq.pc = "poll"
  /\ signal \/ seq.i > Networks
  /\ seq' = SeqGone
  /\ UNCHANGED <<shared, main, mon, held, outside, log>>

\* Mutant: an unreadable store counts as past bulk.
SampleOptimist == {TRUE}

\* BulkStatusReader::poll: what the store says, or no signal this round.
Samples == {seq.i - 1 \in past, FALSE}

SeqPoll ==
  /\ seq.pc = "poll" /\ ~signal /\ seq.i <= Networks
  /\ \E sample \in Samples : seq' = [seq EXCEPT !.pc = "gate", !.past = sample]
  /\ UNCHANGED <<shared, main, mon, held, outside, log>>

\* observe_gate reads the gating child under the mutex, after the poll.
SeqGate ==
  /\ seq.pc = "gate" /\ lock = "free"
  /\ seq' = [seq EXCEPT
       !.past = FALSE,
       !.pc = IF seq.past /\ ~children[Slot(seq.i - 1)].blocked THEN "check" ELSE "poll"]
  /\ UNCHANGED <<shared, main, mon, held, outside, log>>

InOrder == Len(children) = Slot(seq.i) - 1

SeqCheck ==
  /\ seq.pc = "check" /\ lock = "free"
  /\ seq' = IF requested THEN SeqNext ELSE SeqAt(IF InOrder THEN "spawn" ELSE "failed")
  /\ UNCHANGED <<shared, main, mon, held, outside, log>>

SeqSpawns ==
  /\ seq.pc = "spawn"
  /\ held' = <<Spawned>>
  /\ seq' = [seq EXCEPT !.pc = "list", !.tries = 0]
  /\ UNCHANGED <<shared, main, mon, outside, log>>

\* Mutant: a network that could not be started is skipped.
ParkedAdvances == SeqNext

\* SpawnOutcome::Parked: the sequencer stays on this network.
Parked == [seq EXCEPT !.pc = "poll", !.tries = 0]

\* spawn_with_retry
SeqSpawnFails ==
  /\ seq.pc = "spawn"
  /\ seq' = IF seq.tries + 1 < SpawnAttempts THEN [seq EXCEPT !.tries = @ + 1] ELSE Parked
  /\ UNCHANGED <<shared, main, mon, held, outside, log>>

\* The mutex again: list the child or, in a shutdown, stop it.
SeqList ==
  /\ seq.pc = "list" /\ lock = "free"
  /\ IF requested \/ ~InOrder
     THEN seq' = SeqAt("stop") /\ UNCHANGED <<children, held>>
     ELSE seq' = SeqNext /\ children' = children \o held /\ held' = <<>>
  /\ UNCHANGED <<requested, lock, signal, main, mon, outside, log>>

SeqStop ==
  /\ seq.pc = "stop"
  /\ held' = <<>>
  /\ seq' = IF requested THEN SeqNext ELSE SeqAt("failed")
  /\ UNCHANGED <<shared, main, mon, outside, log>>

SeqStep ==
  \/ SeqReturns \/ SeqPoll \/ SeqGate \/ SeqCheck
  \/ SeqSpawns \/ SeqSpawnFails \/ SeqList \/ SeqStop

-----------------------------------------------------------------------------
(* The main task. *)

\* Ctrl+C, an IPC request or a failed sequencer: every task can see the signal.
ShutdownSignal ==
  /\ main.pc = "wait"
  /\ main' = [main EXCEPT !.pc = "signalled"]
  /\ signal' = TRUE
  /\ UNCHANGED <<children, requested, lock, mon, seq, held, outside, log>>

BeginStop ==
  /\ main.pc = "signalled" /\ lock = "free"
  /\ lock' = "main" /\ requested' = TRUE
  /\ main' = [pc |-> "stop", i |-> 1]
  /\ UNCHANGED <<children, signal, mon, seq, held, outside, log>>

\* Mutant: no SIGKILL, a child that ignores SIGTERM is waited for.
StopChildWaits ==
  /\ main.pc = "stop" /\ main.i <= Len(children)
  /\ main' = IF children[main.i].proc = "up" THEN main ELSE [main EXCEPT !.i = @ + 1]
  /\ UNCHANGED <<shared, mon, seq, held, outside, log>>

\* stop_child_gracefully: SIGTERM, a wait, SIGKILL.
StopChild ==
  /\ main.pc = "stop" /\ main.i <= Len(children)
  /\ children' = [children EXCEPT ![main.i].proc = IF @ = "up" THEN "stopped" ELSE @]
  /\ main' = [main EXCEPT !.i = @ + 1]
  /\ UNCHANGED <<requested, lock, signal, mon, seq, held, outside, log>>

EndStop ==
  /\ main.pc = "stop" /\ main.i > Len(children)
  /\ lock' = "free"
  /\ main' = [pc |-> "abort", i |-> 0]
  /\ UNCHANGED <<children, requested, signal, mon, seq, held, outside, log>>

\* The tasks are aborted, nobody waits for the process the sequencer may hold,
\* the PID file and the socket go, and with the return the workdir locks.
Return ==
  /\ main.pc = "abort"
  /\ mon' = MonAt("gone") /\ seq' = SeqGone
  /\ main' = [main EXCEPT !.pc = "done"]
  /\ UNCHANGED <<shared, held, outside, log>>

\* kill_on_drop of the aborted task's child (external).
KillDropped ==
  /\ seq.pc = "gone" /\ held # <<>>
  /\ held' = <<>>
  /\ UNCHANGED <<shared, main, mon, seq, outside, log>>

MainStep == StopChild \/ EndStop \/ Return \/ KillDropped

Done == main.pc = "done" /\ UNCHANGED vars

Next ==
  \/ \E code \in ExitCodes : HeldExits(code) \/ \E i \in DOMAIN children : ChildExits(i, code)
  \/ \E n \in 1..Networks : PassBulk(n)
  \/ Tick \/ MonitorStep \/ SeqStep
  \/ ShutdownSignal \/ BeginStop \/ MainStep \/ Done

Spec == Init /\ [][Next]_vars

\* The runtime polls every task, and its mutex serves waiters in order; a store
\* is not unreadable for ever and a spawn does not fail for ever.  Nothing is
\* assumed of the monitor's own respawns.
FairSpec ==
  /\ Spec
  /\ WF_vars(MonitorStep) /\ WF_vars(SeqStep) /\ WF_vars(MainStep)
  /\ SF_vars(BeginStop) /\ SF_vars(SeqGate \/ SeqCheck \/ SeqList)
  /\ SF_vars(SeqPoll /\ seq'.past) /\ SF_vars(SeqSpawns)

-----------------------------------------------------------------------------
\* Every variable has its type; no attempt beyond MAX_RESTART_ATTEMPTS is made.
TypeOK ==
  LET Child == [proc : Processes, count : 0..MaxAttempts, started : 0..MaxTime,
                restarts : Seq(0..MaxTime), handoffs : Seq(0..MaxTime), blocked : BOOLEAN]
  IN  /\ children \in Seq(Child) /\ Len(children) <= Cardinality(Slots)
      /\ requested \in BOOLEAN /\ lock \in {"free", "monitor", "main"} /\ signal \in BOOLEAN
      /\ main.pc \in {"wait", "signalled", "stop", "abort", "done"}
      /\ mon.pc \in {"sleep", "scan", "backoff", "gone"}
      /\ seq.pc \in {"poll", "gate", "check", "spawn", "list", "stop", "gone", "failed"}
      /\ held \in Seq(Child) /\ Len(held) <= 1
      /\ past \subseteq 1..Networks /\ now \in 0..MaxTime /\ exits \in 0..MaxExits

InWindow(times, window, bound) ==
  \A j \in DOMAIN times :
    Cardinality({k \in 1..j : times[j] - times[k] < window}) <= bound

\* In any window a child is restarted at most RESTART_RATE_LIMIT times and handed
\* over at most MAX_HANDOFFS_IN_WINDOW times: crashes, clean exits and failed
\* respawns in any order never reset the other kind's window.
RespawnsAreRateLimited ==
  \A i \in Slots : /\ InWindow(log[i].restarts, RestartWindow, RateLimit)
                   /\ InWindow(log[i].handoffs, HandoffWindow, MaxHandoffs)

\* "The sequencer keeps waiting, it never skips ahead": a network's indexer is
\* listed or spawned only when the network before it got past bulk sync.
GateHolds ==
  \A n \in 2..Networks :
    Listed(Slot(n)) \/ (held # <<>> /\ seq.i = n) => n - 1 \in past

\* Once the list has been stopped no listed child runs: neither a backoff that
\* ends nor a spawn that returns during the shutdown brings one back.
ListedChildrenStayStopped ==
  main.pc \in {"abort", "done"} =>
    \A i \in DOMAIN children : children[i].proc # "up"

\* Again and again every child that exited is running or marked blocked for the
\* operator: no dead slot is left behind, even when every respawn fails.
ExitsAreHandled ==
  []<>(signal \/ \A i \in DOMAIN children :
                  children[i].proc \in ExitCodes => children[i].blocked)

\* A shutdown ends, whatever the monitor and the sequencer are doing.
ShutdownCompletes == signal ~> main.pc = "done"

\* A deferred indexer is started once its gate is open: failed polls and failed
\* spawns park the sequencer on it and nowhere else.
DeferredStarts ==
  \A n \in 2..Networks :
    n - 1 \in past ~> \/ Listed(Slot(n)) \/ signal
                      \/ Listed(Slot(n - 1)) /\ children[Slot(n - 1)].blocked
=============================================================================
