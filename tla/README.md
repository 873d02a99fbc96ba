# quorum: TLA+ models and proofs

`quorum` is a three-node key-value store: an HTTP API in front of
`hashicorp/raft`, and a harness that attacks a running cluster with
kills and partitions, records what its clients saw and asks `porcupine` whether
the record is linearizable. The repository's README states the contract this
project is about:

* a `200` was committed and is never lost; reads are linearizable;
* `503 no_leader` and `421 not_leader` mean "definitely not applied";
* everything else (`500 apply_failed`, `502 proxy_error`, a timeout, a reset)
  means "may have happened".

The hard part is not Raft, which is a library here. It is what the code
around it concludes from Raft's answers, and in which order: a client that
times out leaves a handler running; the handler may be a proxy whose next hop
is running too; the entry may be committed by a leader elected later; the client
may retry meanwhile; the checker must cope with all of that.

## 1. Inventory

| component | state | operations | talks to |
|---|---|---|---|
| `internal/kv` command, FSM | `FSM.data` (a map under a RWMutex) | `Encode`, `DecodeCommand`; `Apply`, `Snapshot`, `Persist`, `Restore`, `Dump` | called by Raft, on the FSM goroutine (`Persist` on another) |
| `internal/server/http.go` | none of its own; one goroutine per request | route `/kv/`, `apply`, `proxyOrReject`; `/internal/state`, `/healthz` | `Raft.Apply` and its future; another node, through a reverse proxy |
| `internal/server/node.go` | Raft stores on a volume | `NewNode`, `LeaderHTTPURL`, `ParsePeers` | `Raft.LeaderWithID` |
| `hashicorp/raft` (library) | log, term, role, known leader | dispatch, commit, election, loss of leadership, replay | the other nodes |
| `internal/harness/client.go` | `Recorder` (history, clock), `Client.lastSeen` | `Invoke`, `doAttempt`, `isDefinitelyNotSent`, `noteSeen`, `RandomOp` | one node at a time, over HTTP |
| `internal/harness/faults.go`, `nodes.go` | the container runtime's | `Kill`, `Start`, `Isolate`, `HealAll`, `LeaderID` | docker; `/healthz` |
| `internal/harness/run.go` | report | nine phases, their checks | all of the above |
| `internal/history` | a JSON-lines file | `Write`, `Read` | recorder, checker |
| `internal/checker` | none | `ToOperations`, `Model`, `Check` | porcupine |
| `cmd/`, Docker, scripts | none | flags, environment, images | - |

What is hard to test, and what would make each part correct:

* **Client and server together.** Retrying after a rejection must never apply
  a write twice; a definite rejection must stay definite although it may come
  from the end of a proxy chain; an acknowledged operation must have taken
  effect inside the window that was recorded for it, although the window is
  re-opened at every attempt; a call must return whatever the network does.
  The interleavings involve a client, up to two handlers, a log that may commit
  late, and nodes that change roles or die between any two steps.
* **State machine.** A snapshot is serialised while later entries are applied;
  a node may be killed and rebuilt from it, or get one from another node. A
  replica must be the state of its prefix of the log all the same.
* **Checker.** It must accept every linearizable history whose search ends in time
  (or the harness raises false alarms) and explain everything it accepts (or the harness proves
  nothing), with operations whose outcome nobody knows.
* **Routes.** What can be stored must be readable.
* **The harness itself.** Its checks must not fail on a store that keeps its
  promise, although outcomes are unknown, effects come late, volumes hold an
  earlier run's values and goroutines race with the end of a phase. Its
  injector ignores every error, so a single failed command must neither spoil an
  isolation nor leave the cluster broken; its schedule must leave a majority.
  Its final poll compares answers taken at different moments.

`PROJECT.json` lists the individual hazards, each at its line.

## 2. Modules

```
KV ──────────┬── Cluster ── MCCluster        RaftService ── Cluster
             │     └─ refines LinearizableKV (EXTENDS KV)
             ├── Replica ── Convergence ── MCConvergence
             ├── Checker ── MCChecker        Routes
             └── LinearizableKV ── Harness ── MCHarness   (Harness INSTANCEs Checker)
RaftService ── Faults ── MCFaults
proofs: KVProofs; ClusterProofs; ReplicaProofs (of Replica and Convergence); FaultsProofs
        CheckerProofs; HarnessProofs ── HarnessAlarms ── HarnessHistory (INSTANCEs CheckerProofs)
```

**KV** (`internal/kv`). `FSM.Apply` as two operators, the new map
(`ApplyData`) and the `Result` (`ApplyResult`), for put, get, delete and CAS
with Go's zero value for a missing entry. `Encode` followed by `DecodeCommand`
is `Decoded`: `encoding/json` replaces bytes that are not UTF-8, so all
malformed keys become one. The same happens to a map that is written by
`Persist` and read by `Restore` (`JSONData`).

**RaftService** (external). What `internal/server` uses of Raft: `up`, `role`
and `hint` (what `State` and `LeaderWithID` report), the committed `log`, and
`floating`, the proposals some leader has dispatched. A floating proposal can be
committed at any later time, by any leader, or never. Any number of nodes may
believe they lead. Isolation is not a state here: what it can cause (a leader
that lingers, one that is deposed, hints that are stale, requests that are lost)
can happen at any time. Faults adds the network.

**Cluster** (`internal/server/http.go`, `LeaderHTTPURL`, `internal/harness/client.go`).
The state of client `c` is `pc[c]` and the attempt `cur[c]` it is waiting
for; an attempt is a call of `doAttempt`, `att[a].inv` names the call of
`Invoke` it belongs to; `overdue[c]` says that the overall deadline of the call
has passed. Handler `<<a, i>>` is the i-th HTTP handler that attempt
`a` caused; `stage` is its program counter.

| action | code |
|---|---|
| `Invoke`, `Retry` | `Client.Invoke`, first and later rounds of its loop |
| `ReceiveOk`, `ReceiveUnknown`, `ReceiveFail` | `doAttempt`'s switch on the answer, and what `Invoke` does with it |
| `DialError`, `HTTPError` | `isDefinitelyNotSent`, and any other error of `HTTP.Do` |
| `Fail`, `BackOff` | the case "fail" of the loop (inside the actions above): give up, or wait and go round again, which it does only while the deadline has not passed |
| `RetryRefused`, `DeadlinePasses` | a round that is refused at once, and the clock |
| `Deliver`, `BadRequest` | the request reaches the server; its body breaks off (`400`) |
| `ApplyDispatch`, `ApplyNotLeader`, `ApplyEnqueueTimeout`, `ApplyOk` | `apply`: `Raft.Apply` and its future |
| `RejectNotLeader`, `RejectNoLeader`, `BadLeaderURL`, `Forward` | `proxyOrReject` |
| `ProxyRelay`, `ProxyDialError`, `ProxyError` | the reverse proxy and its `ErrorHandler` |
| `CommitAndApply` | Raft commits, `FSM.Apply` runs |
| `Elect`, `Learn`, `LeadershipLost` | Raft changes its mind; lost leadership fails futures with `ErrLeadershipLost`, answered `500` |
| `Kill`, `Start` | `Faults.Kill`, `Faults.Start` |

A follower answers reads through the log as well (`apply` has no read path of
its own), so reads need no actions of their own.

**LinearizableKV**. The promise: one copy of the data, every operation takes
effect at one instant after its call; before its return if it is answered,
never if it failed, at any time or never if its outcome is unknown.
`Cluster!Abs` instantiates it; the operations are the calls of `Invoke`.

**Replica** (`internal/kv/fsm.go`). One map per node fed by the committed log.
`Snapshot` copies it, `Persist` or `PersistFails` ends it later, with entries
applied in between; `Install` is `Restore` of another node's snapshot, `Kill`
loses the map, `Restart` restores the newest snapshot and replays. `ref` is
auxiliary: the state after each entry.

**Checker** (`internal/checker`, `internal/history`). `ToOperations` and
`Model.Step` as operators; porcupine's search is its definition (some order of
each key's operations respects real time and is accepted step by step), except
that it may run out of time: `CheckOperations(pops, finished)` says `"Unknown"`
when the search is not `finished`, and `Check` turns everything but `"Ok"` into
a rejection. How long a search takes is not modelled, so every verdict is
considered with both values of `finished`. The state machine around it records
arbitrary histories.

**Routes** (`/kv/` in `NewHandler`). Which command a method and path become.

**Harness** (`run.go`, `noteSeen` and `RandomOp` of `client.go`). The whole run,
phase by phase, over the store that Cluster is shown to implement: its actions
are those of LinearizableKV, so clients get exactly what the promise allows
them to get. `todo` is the rest of `Run`, `at` and `step` the main
goroutine's place in the phase, `pass` the verdict it accumulates, `checks`
the report. `Call` and `Return` are `Invoke` with the recorder's two timestamps.

| action | code |
|---|---|
| `Reset`, `SmokePut`, `SmokeGet` | `phaseReset`, `phaseSmoke` |
| `CASSetup`, `CASContend`, `CASRound` | `phaseCASContention`: the base value, a contender, `wg.Wait` and the count of winners |
| `KillPut`, `KillGet` | `phaseLeaderKillDurability`, the client's part |
| `MajorityNoLeader`, `MajorityPut`, `MajorityGet` | `phaseMinorityRefusesWrites`: the early return without a leader, and the majority's part |
| `ChaosCall`, `ChaosReturn`, `ChaosStop`, `ChaosWait` | `phaseChaos`, the clients' part |
| `EndPhase` | `r.check` and the next phase |
| `Linearizability` | `phaseLinearizability`: `Check` of Checker on the recorded history, which may run into its five minutes (`timedOut`) |
| `Effect` | the store lets an operation take effect, possibly after its return |

A kill or a partition is invisible here: clients notice only outcomes, and those
are arbitrary. Keys are reset only for the phases in `Plan`; resetting more keys
changes nothing. The map may hold any mixture of values of earlier runs, but no
operation of an earlier run is still under way.

**Faults** (`faults.go`, the schedule of `run.go`, `/healthz`). Adds to
RaftService the iptables `rules`: a node is elected only when it reaches a
majority, and a follower hears only nodes it is connected to. `todo` is the
list of docker commands and `/healthz` requests the main goroutine has still to
run; `RunCommand` runs one, with its effect, without effect because the
container is (not) running, or failing (at most `MaxFailures` times). Elections,
lost leaderships and new hints happen between any two commands. The other
actions are the decisions of the phases: `DurableRound`, `DurableEnds`,
`MinorityIsolates`, `MinorityNoLeader`, `MinorityProbe`, `MinorityHeals`,
`ChaosFault`, `ChaosEnds`. A probe is acknowledged only by a leader that reaches
a majority; that is the library's part.

**Convergence** (`phaseConvergence`, `/internal/state`). Replica with a
statistic `applied` and the poll: `ReadStats` and `Dump` are the two reads of
the handler, `Unreachable` a node that does not answer, `Judge` the comparison,
`Deadline` the 90 seconds. A kill between the two reads ends the request
(`Interrupted`) and the round. The library (external) sets `applied_index` when it
hands an entry to the goroutine that applies it.

## 3. Runs

Passing runs. Deadlock is not checked in them: with the bound on attempts, log
entries or operations used up, the system has nothing left to do.

| run | instance | shows |
|---|---|---|
| `retry` | 1 client, 2 nodes that can both lead and both be killed, 2 attempts, room for 3 hops | `FailedHasNoEffect`, `AtMostOnce`, `OneHop`: retrying and proxying neither apply a failed write nor apply one twice, and the loop guard works even when two nodes each believe the other leads |
| `contention` | 2 clients with a CAS and a read of one key, one electable node | `Linearizable` (refinement) and `OkTookEffectInWindow` |
| `liveness` | 1 client, 2 nodes, one of which can lead and be killed, 2 attempts and any number of refused ones | `InvokeReturns`, `HandlersFinish`: the loop of `Invoke` ends because of its deadline and nothing else |
| `replica` | 2 nodes polled by the harness, 4 commands that do not commute, 2 entries, 1 kill | `StateAtIndex`, `SnapshotAtIndex`, `Converges`; `Decides` and `IdenticalCommittedState`: the poll comes to a verdict, and passes only if all nodes showed the map of one index of the log |
| `checker` | 3 operations out of 7 commands on 2 keys, every answer a store could give, each verdict with a search that ends and one that does not | `FalseAlarmIsTimeout`, `AcceptedIsExplained` |
| `harness` | one behaviour runs the reset and one of: smoke through 2 nodes and a CAS round of 2 contenders; a kill iteration and the majority phase with 2 tries per loop; 2 chaos clients with 3 operations of every kind on 1 key | `CASAlarmIsReal`, `AlarmsAreReal`: a failed check means that the store did not answer; `HistoryAlarmIsTimeout`, `LastSeenIsTrue`, `WonCASMeansUntouched`; the committed fixtures get the verdicts `phaseCheckerSelfTest` asks for (an assumption of MCHarness, as both are constants) |
| `faults` | 3 nodes, 1 kill iteration, 1 probe, 1 chaos fault, any one command failing | `QuorumRemains`, `MinorityNeverAcks`, `HealsForGood` |

Runs that end in a violation, each of a statement the repository makes:

| run | statement | what happens |
|---|---|---|
| `unconnectable` | `http.go:163-165`: after a leader cannot be connected to "the client will retry once a new leader emerges" | the proxy answers `502`, the client must take it for "may have happened" and does not retry |
| `malformed_key` | README: "the cluster never lies to a reader" | `PUT /kv/%FF` is stored under U+FFFD and found by a reader of that key |
| `checker_answers` | `checker.go:1-2`: verifies histories for linearizability, supporting delete and CAS | what a delete or a lost CAS reports of the old value is not checked |
| `checker_unclassified` | `checker.go:167`: a record without known outcome is treated as "unknown mutation to be safe" | a read of this kind must have found the key absent, so a linearizable history is rejected |
| `routes` | `http.go:74`: "key must not contain '/'" | `POST /kv/a/b/cas` creates the key `a/b` that no other route accepts |

Statements of `run.go` that the models above do not support, each found by TLC in
a few steps when it is added as a property, and not kept as runs:

* "pre-run state can never leak into the history" (`run.go:181-182`): only when the
  reset succeeded. A reset delete that fails is counted and the run goes on; a
  value of an earlier run is then read, and the checker, which starts from
  absent keys, rejects the history of a correct store. `HistoryAlarmIsTimeout`
  is what remains true.
* "one fault at a time, always healed before the next" (`run.go:433`): not when
  `Start` fails, since its error is dropped (`run.go:449`). `QuorumRemains` and
  `HealsForGood` are what remains true.
* "Partition the leader away from the majority" (`run.go:333`): `LeaderID` returns the
  first belief it gets, which may be a deposed leader; the isolated node then refuses
  the probes as a follower and minority-refuses-writes passes without a test.
* "all 3 nodes identical: %d keys at applied index %s" (`run.go:501`): `/internal/state`
  reads the index before the map, and the library counts entries as applied
  before the map has them, so three equal answers may carry another index.

### Bounds

* `MaxAttempts` bounds the requests of a behaviour. A second attempt is what a
  retry, a second operation or a second client needs; every property relates at
  most two attempts. The loop of `Invoke` has no such bound: when the
  requests are used up, its further rounds are refused connections
  (`RetryRefused`), any number of them, and the loop goes on until its deadline.
* `MaxHops = 3` in `retry` leaves room for the third handler that `OneHop`
  forbids; two suffice elsewhere, because of `OneHop`.
* `Electable`, `Killable` keep the liveness and refinement runs small. `retry`
  has no such restriction.
* Three operations in `checker`: the smallest number in which an unknown write
  lies between two answered ones. All pairs are included.
* `MaxLog = 2`: an entry before a snapshot and one while it is persisted, or one
  that is replayed after it. `MaxKills = 1` per behaviour: a node that starts
  again is back in an ordinary state. The proofs cover any number of nodes,
  entries and kills.
* `Plans` picks the phases of a Harness run. Phases use keys of their own, so
  they meet only in the reset, the history and the clock; each plan has the reset,
  one group of phases and the final check. `Ids` holds an identity for every call.
* `MaxTries = 2` in Harness: one attempt that is given up and one that is
  acknowledged, which is what late effects need; the deadline may also pass
  after any attempt. `ChaosOps = 3`: a view of the key, a write of
  unknown outcome, a CAS.
* `ResetSucceeds` (a constraint of the run) does not explore a run further once
  its reset has failed: its other checks mean nothing then (see below).
* `MaxFaults = 1` in `faults` still gives three faults in a row, one per phase,
  each of which must have been undone before the next. `MaxFailures = 1`: with
  two, the same rule can survive both calls of `HealAll` that end a run.

Every safety property these runs check is proved for every value of the bounds
(`MaxFailures` excepted, see section 4); the liveness properties are left to TLC
(section 5).

### Fairness

`FairSpec` of Cluster assumes only what the code's own timers and goroutines
guarantee: a client that has an answer, or whose 4 s `http.Client.Timeout`
passes, goes on, and so does one that wakes from its backoff, into the next
round of the loop (`ClientMoves`; nothing makes it give up while its deadline
has not passed); time passes, so a client that comes to its backoff again and
again finds one day that the deadline is over (`DeadlinePasses`, strong fairness:
the backoff is not enabled all the time); a handler goes on, the proxy's
`ResponseHeaderTimeout` included (`HandlerMoves`); and a leader that dispatched
an entry commits it or steps down when its lease lapses (`Settle`). The last
one is Raft's, and it is needed: `f.Error()` in `apply` has no timeout.
Nothing is assumed of delivery, of elections or of killed nodes starting again.
`FairSpec` of Replica assumes that a running node applies what is committed and
that a killed one is started again, which the harness does (`Start`) before it
asks for convergence. `CFairSpec` of Convergence adds that the loop of
`phaseConvergence` goes round; that the deadline passes is not assumed, so
`Decides` is about the replicas, not about the clock. `FairSpec` of Faults
assumes that docker commands return (with or without an error) and that the main
goroutine goes on; elections need no fairness there.

## 4. What is proved

All theorems hold for any sets of nodes, clients, keys and values and any bounds,
from the named assumptions `KVAssumption`, `ClusterAssumption`,
`ReplicaAssumption`, `ConvergenceAssumption`, `FaultsAssumption`,
`CheckerAssumption` and `HarnessAssumption`, which say what the constants are and
are evaluated in every run of their module. A theorem that needs more states it
as its hypothesis: `EncodableKeys` for the refinement of Cluster, the number of
nodes and of failing commands in FaultsProofs, the set of outcomes in
`FalseAlarmIsTimeoutInv`.

**Cluster types** (`ClusterProofs`). `ClusterTypeOK: Spec => []TypeOK`. `TypeOK`
needs `Wellformed`: handlers belong to existing attempts and run on nodes,
a waiting client's attempt exists, a proxying handler has a next hop.

**Cluster safety** (`ClusterProofs`). `ClusterFailedHasNoEffect`,
`ClusterAtMostOnce`, `ClusterOkTookEffectInWindow`, `ClusterOneHop`. The
argument, and why each part of `IInv` is there:

1. *A chain has one end.* A handler that has proxied does not propose, and one
   that has proposed does not proxy (`ProposedInv`, `ChainInv`): only the last
   handler of a chain can have an entry in the log.
2. *A definite answer is about the whole chain.* If a handler answered
   `no_leader`, `not_leader` or `bad_request`, neither it nor any handler after
   it has proposed or ever will (`DefiniteInv`). This is what `ProxyRelay` must
   preserve, and what would fail if a lost leadership were answered like
   `ErrNotLeader`.
3. *A closed attempt stays closed* (`ClosedStable`): a handler that has ended
   never runs again, one that was never made is never made. This rests on
   `HandlerFrame`, a summary of what any step can do to a handler, proved once
   per action.
4. *Invoke goes on only from closed attempts* (`InvocationInv`, `ClientInv`):
   hence all attempts of a call but the last are closed, and a recorded failure
   closed the last one too (`RecordInv`).
5. *At most once* follows from 1 and 4 and from `LogInv` (no proposal is
   committed twice).
6. *In its window*: a commit is after the start of its attempt (`ClockInv`), an
   answered `ok` has an entry with that result (`AnswerInv`), and the record is
   made later.

**Cluster implements the promise** (`ClusterProofs`). `ClusterLinearizable`:
`Spec => Linearizable`, the refinement of LinearizableKV, and
`ClusterReadsOwnKey: Spec => []ReadsOwnKey`, both for keys that are UTF-8
(`EncodableKeys`). The hypothesis is needed: with a malformed key the log entry
names another key, and the run `malformed_key` violates `ReadsOwnKey`. The data of
the promise is that of the log's last state, an invocation's outcome is that of its
record, and its effect is the result of its committed entry. Four facts make
this a mapping:

1. *A call has one name.* It is named by its first attempt, and all its attempts ask
   for the same thing (`RootInv`), so it does not matter which one was committed.
2. `AtMostOnce` gives an invocation one entry, and `RecordInv` one record,
   so both choices over the history and the log are functions (the lemmas before
   the steps), and no step but `CommitAndApply` changes an effect.
3. *The commit is the effect.* The call has started and is not known to have failed
   (`FailedHasNoEffect` for the state after the step), it may be recorded as
   unknown. For a key that is UTF-8, `Decoded` is the identity, so what the machine
   applies is what the client called.
4. *A recorded `ok` reports its effect.* This is `AnswerInv`; a recorded failure has
   none, now or later.

Every other action is a stutter of the promise. `ReadsOwnKey` needs an invariant
besides: every value in the state was written to its key by a command of the log.

**Replicas** (`ReplicaProofs`). `ReplicaStateAtIndex`, `ReplicaSnapshotAtIndex`,
`ReplicaTypeOK`. `StateAtIndex` is not inductive: `Restart` and
`Install` copy stored snapshots, which were taken earlier, so the invariant
speaks of maps, stored snapshots and snapshots being persisted alike. It also
needs that no state contains a malformed key, so that the second trip through
JSON loses nothing (`JSONDataIdentity`, `ApplyEncodable`).

**The poll of the replicas** (`ReplicaProofs`). `ConvergenceIsReplica: CSpec => Spec`:
Convergence is Replica with more variables, so the theorems above hold under the
poll. `ConvergenceIdenticalCommittedState`: when `replicas-converge` passes, there
is one index of the log whose state every node has shown. Each answer is
the map of a running node at the time of its `Dump`, hence a state of the log
(`StateAtIndex`); it stays one, because a commit only adds to the log (`LogGrows`);
and equal answers are one state. The statistic plays no part in this argument and
cannot: all that is true of it is that it lies between the map and the log
(`StatisticInv`), and with a comparison of the statistics alone the property is
false (the mutant `Identical_Index`).

**The fault injector** (`FaultsProofs`).

* `FaultsTypeOK`.
* `FaultsMinorityNeverAcks`, for two nodes or more and `MaxFailures < 4`. While the
  leader is probed, every link to another node is cut by at least one of
  its four rules (`CutInv`): `Isolate` issues the four commands one after another,
  each of which is in force, still to come, or one of the failures. One failure
  less than rules leaves one rule. With four failures a link survives and
  the property is false; the code drops the errors of `Isolate`, so this is what
  its redundancy is worth.
* `FaultsQuorumRemains`, for three nodes or more: with one or two, the fault itself
  takes the majority away. As long as no command failed, what is down or cut off,
  and what the commands still to come will break, is one node, and the commands in `todo` and
  `deferred` that mend it come before the next fault (`RepairInv`, `Mends`). The
  lemma under it: two nodes that are both up and not cut off from each other are
  connected, and all nodes but one are a majority.

**The harness: types and views** (`HarnessProofs`). A step is a call, a return, an
effect, or moves only the main goroutine (`StepKinds`); everything below is
proved for these four kinds, not for the seventeen actions.

* `HarnessTypeOK`, over `TypeInv`: who waits for which operation, which records
  exist, and that each phase of the plan runs once and works on keys of its own.
* `HarnessLastSeenIsTrue`: `order`, the sequence of effects, holds each effect of a
  client once with the value it left (`OrderInv`); a client waits for one operation
  at a time, so its view is that of its last answered operation on the key (`SeenInv`).
* `HarnessWonCASMeansUntouched`: values are numbered by client and operation
  (`FreshInv`), so a key holds only values that some operation carried
  (`OriginInv`), and one that was overwritten never comes back (`OverwrittenInv`).
  A CAS that finds what its client saw therefore finds a key nobody wrote. Without
  unique values this is the ABA problem, and the property is false.

**The harness: its alarms** (`HarnessAlarms`). `HarnessCASAlarmIsReal` and
`HarnessAlarmsAreReal`: once the reset has succeeded, a failed check of the phases
smoke, cas, kill and majority implies an operation that the store did not
answer (for cas also: that it refused everybody). For every number of rounds,
contenders, iterations and tries. `AlarmInv` has two layers:

1. `BaseInv`, of all phases: the goroutines wait for what the program's place says
   they wait for (`WaitInv`, `AskedInv`); outcomes mean what they say (`OutcomeInv`);
   a phase that is still to come has no verdict (`TodoInv`); a reset that succeeded
   leaves no delete behind which could take effect later (`ResetInv`).
2. One invariant per phase. Nobody is ahead of the loop: no operation on
   the key of a later round exists (`KillKeys`, `CASKeys`). What an operation left
   behind stays until the phase reads it, because no other operation on its key
   can take effect: it is answered, or a late one would write a value that the check
   accepts as well (`SmokeLoop`, `KillLoop`, `MajorityLoop`). In a CAS round, the
   key holds the base value until the first contender takes effect, and no
   later one finds it (`CASLoop`).

**The checker** (`CheckerProofs`). For histories of every length:

* `FalseAlarmIsTimeoutInv`, when records carry one of the recorder's three
  outcomes: a history that has an explanation is accepted, unless the search does
  not end within its timeout. An explanation is an order of the
  operations that took effect (`Explanation`). The records of one key keep their
  order; what is known of one is accepted by the model's register because the
  register is what the map holds for the key (`StepKnown`, `StepRight`), unknown
  writes that had no effect go last, where their open windows and the model let
  them (`LeftOver`, `StepUnknown`), so porcupine's search for each key finds an
  order (`ExplainedAccepted`). Without the hypothesis the theorem is
  false: a read with an outcome that nobody writes is checked as if it were
  known, which is the finding of the run `checker_unclassified`.
* `AcceptedIsExplainedInv`, for any outcomes: porcupine looks at each key by itself,
  so what it accepts is one order per key. Give every record the latest call
  among those that come first in the order of its key (`WayExists`): this is a moment inside its window,
  and the records of all keys sorted by it, then by their place in the order
  of their key, respect real time (`MergeExists`). The state machine executed in that order
  shows each key what its register showed (`Reached`, `ReachedNext`). This is
  the locality of linearizability, for this model and this search.
* `CheckerTypeOK`, from `Recorded`: the clock gives every call and every return a
  time of its own.

All of this is induction, over the length of an order. The induction theorems of
the library cannot be instantiated by the provers, but their base, that `<` is
well-founded on the naturals, can be cited: `NatSetInduction` says of a *set* what
they say of an operator, and a claim about every `n` is proved as the set of
the `n` it holds for. The folds of the models are defined by the recursive
function inside `MapThenFoldSet` of the community modules; `FoldExists` shows once that this
function exists and steps through a sequence (`AcceptedMeans`,
`ExplainsSameAnswer`, `ExplainsSameVerdict`).

**The harness: its last verdict** (`HarnessHistory`). `HarnessHistoryAlarmIsTimeout`:
a run whose reset succeeded reports that the store is not linearizable only if
the search ran into its five minutes. The
module instantiates CheckerProofs for the history of Harness and has to find the
explanation that `ExplainedAccepted` asks for. It is the order of the effects,
which no variable records as a whole (`order` in Harness leaves out the
goroutine of the phases), so the invariant says that one exists:

1. `EffectsInv`: there is an order `e` of the operations that took effect,
   with the maps `d` between them, from the *empty* map to the present one,
   in which nothing comes before what was answered before it was called (`InTime`). An effect adds one at the
   end (`EffectsGrow`), every other step keeps the order (`EffectsStay`).
2. It starts from the empty map although the volumes hold an earlier run's
   values. During the reset, the order ends in the empty map whatever
   the store holds: it deletes only. When the reset has succeeded, the keys
   that the run uses are cleared (`ClearedInv`), so the order is right from
   there on. This is where a reset that failed breaks the argument, and
   `HistoryAlarmIsTimeout` says so.
3. When the history is checked nobody is in a call: `phaseChaos` waits for its
   clients (`ClientsInv`), so every effect is in the history (`AllReturned`).
   With a record missing, an answered read could have no explanation.
4. No two calls have one timestamp (`StartInv`), which the checker's conversion to a
   set of operations needs; identities do not matter to it (`CheckAnonymous`).

The step from "the store keeps its promise" to "the clients see a store that keeps
it" is `ClusterLinearizable`; both use LinearizableKV.

`FailedHasNoEffect` and `AtMostOnce` are about writes. Go's HTTP transport may
send an idempotent request (a GET) a second time after a broken connection,
and a read that is in the log twice does no harm; the model itself sends each
request once.

## 5. What is only model-checked

* Liveness (`InvokeReturns`, `HandlersFinish`, `HealsForGood`, `Converges`,
  `Decides`): outside the prover's reach.
* Routes: finitely many paths.

Neither checked nor proved: a composition of Cluster and Harness in one state.
Harness has the actions of LinearizableKV by construction, and Cluster is proved to
implement LinearizableKV; the two meet there and nowhere else.

## 6. What is not modelled

* Raft's own protocol (terms, votes, per-node logs): the library is taken at the
  word of `RaftService`.
* Reading and writing of history and report files, flags, environment, wiring in
  `NewNode`, container files: I/O and configuration.
* In Harness, operations of an earlier run that are still under way when a run
  begins. In Convergence, requests that time out although the node runs.
* What a lost volume does (`Bootstrap` on an empty directory), and connections
  kept open by the proxy's transports: the first is decided inside the library,
  the second is not state of this program.

## 7. Plan

Done, in this order: KV, RaftService, Cluster with its runs, LinearizableKV,
Replica, Checker, Routes; types and safety of Cluster, Replica; Harness, Faults,
Convergence; `Spec => Linearizable` for Cluster; types and safety of Faults; types,
views and alarms of Harness; the verdicts of Checker, and with them the last
verdict of Harness; the poll of Convergence.

What could come next:

Faults and Harness in one model, so that the client's outcomes in a phase are those
its fault can cause.

Raft's own protocol (terms, votes, per-node logs) stays out: it is the
library's code, and a model of it would not be a model of this repository.
