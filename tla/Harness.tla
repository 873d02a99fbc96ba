-------------------------------- MODULE Harness --------------------------------
(***************************************************************************)
(* The verification run (internal/harness/run.go) over a store that keeps  *)
(* its promise: the phases issue the operations of LinearizableKV, judge   *)
(* their answers and at last have the whole history checked.               *)
(*                                                                         *)
(* The store is the one module Cluster implements, except that the map may *)
(* hold values of earlier runs.  Whatever nodes are killed or cut off,     *)
(* clients notice only outcomes, so faults need no state here; module      *)
(* Faults has them, with the probes of an isolated leader and the checks   *)
(* that are about faults.  The self-test of the checker is in MCHarness,   *)
(* the comparison of the replicas in Convergence.                          *)
(*                                                                         *)
(* Keys and values are the tuples of what their strings are printed from.  *)
(***************************************************************************)
EXTENDS LinearizableKV, SequencesExt

CONSTANTS
  Nodes,        \* len(Nodes)
  Rounds,       \* rounds of phaseCASContention
  Contenders,   \* its goroutines
  Iterations,   \* iterations of phaseLeaderKillDurability
  Clients,      \* goroutines of phaseChaos
  ChaosKeys,    \* the keys k0, k1, ...
  PreRun,       \* values that volumes hold from earlier runs
  Plans,        \* bound: the sequences of phases that are run
  MaxTries,     \* bound: rounds of a loop that ends with its deadline
  ChaosOps      \* bound: operations of phaseChaos

VARIABLES
  todo,      \* the phases to come, the present one first
  at,        \* the main goroutine's loop counter
  step,      \* which of the loop body's calls it is at
  pass,      \* okAll, allPass: the verdict of this phase so far
  checks,    \* report.Checks, for the phases of this run
  timedOut,  \* phaseLinearizability ran into its five minutes (auxiliary)
  busy,      \* busy[t]: the operation goroutine t waits for, or 0
  calls,     \* calls[i]: who called operation i, and when
  now,       \* the recorder's clock
  history,   \* the recorder's operations
  lastSeen,  \* Client.lastSeen
  order      \* the operations of phaseChaos as they took effect (auxiliary)

control == <<todo, at, step, pass, checks, timedOut>>
vars    == <<absVars, control, busy, calls, now, history, lastSeen, order>>

Main == "main"

Threads == {Main} \cup Contenders \cup Clients

\* Run, without the self-test.
FullPlan(skipFaults) ==
  <<"reset", "smoke", "cas">>
    \o (IF skipFaults THEN <<>> ELSE <<"kill", "majority", "chaos">>)
    \o <<"linearizability">>

Phase == IF todo = <<>> THEN "done" ELSE Head(todo)

Smoke      == <<"smoke">>
Live       == <<"majority-live">>
Arena(r)   == <<"cas-arena", r>>
Durable(i) == <<"durable", i>>

Numbered(i)  == <<"smoke", i>>
Base(r)      == <<"base", r>>
Winner(r, c) == <<"winner", r, c>>
Precious(i)  == <<"precious", i>>
Served(i)    == <<"served", i>>

\* The keys a phase works on.
Touched(p) ==
  CASE p = "smoke"    -> {Smoke}
    [] p = "cas"      -> {Arena(r) : r \in 1 .. Rounds}
    [] p = "kill"     -> {Durable(i) : i \in 1 .. Iterations}
    [] p = "majority" -> {Live}
    [] p = "chaos"    -> ChaosKeys
    [] OTHER          -> {}

Phases == {"reset", "smoke", "cas", "kill", "majority", "chaos", "linearizability"}

\* The keys of all phases of this run.
Workload == UNION {Touched(p) : p \in DOMAIN checks}

\* A reset that does not know the keys of the chaos phase.
ResetKeys_NoChaos == SetToSeq(Workload \ ChaosKeys)

ResetKeys == SetToSeq(Workload)

\* The values a run writes.
Printed ==
  {Numbered(i) : i \in 1 .. Nodes} \cup {Base(r) : r \in 1 .. Rounds}
    \cup {Winner(r, c) : r \in 1 .. Rounds, c \in Contenders}
    \cup {Precious(i) : i \in 1 .. Iterations} \cup {Served(i) : i \in 0 .. MaxTries}
    \cup (Clients \X (1 .. ChaosOps))

\* Plans keep the order of Run.  The goroutines are different ones, and so are
\* the keys of different phases.  A value of phaseChaos has a random part, "so
\* residue from an earlier run can never masquerade as this run's write".
ASSUME HarnessAssumption ==
  /\ \A plan \in Plans :
       /\ plan \in Seq(Phases)
       /\ \A i, j \in DOMAIN plan : i < j =>
            \E a, b \in DOMAIN FullPlan(FALSE) :
              a < b /\ FullPlan(FALSE)[a] = plan[i] /\ FullPlan(FALSE)[b] = plan[j]
       /\ {"reset", "linearizability"} \subseteq ToSet(plan)
       /\ \A p \in ToSet(plan) : Touched(p) \subseteq Keys
  /\ PreRun \cup Printed \subseteq Values /\ NoResult \notin Result
  /\ \A v \in PreRun : v \notin Clients \X (1 .. ChaosOps)
  /\ Main \notin Contenders \cup Clients /\ Contenders \cap Clients = {}
  /\ \A p \in Phases \ {"chaos"} : Touched(p) \cap ChaosKeys = {}
  /\ IsFiniteSet(Contenders) /\ IsFiniteSet(Clients) /\ IsFiniteSet(ChaosKeys)
  /\ {Nodes, Rounds, Iterations, MaxTries, ChaosOps} \subseteq Nat

\* How often the loop of a phase goes round.
Count(p) ==
  CASE p = "reset" -> Len(ResetKeys)
    [] p = "smoke" -> Nodes
    [] p = "cas"   -> Rounds
    [] p = "kill"  -> Iterations
    [] OTHER       -> 1

Put(k, v)    == [op |-> "put", key |-> k, value |-> v, expect |-> Nil]
Get(k)       == [op |-> "get", key |-> k, value |-> Empty, expect |-> Nil]
Delete(k)    == [op |-> "delete", key |-> k, value |-> Empty, expect |-> Nil]
CAS(k, e, v) == [op |-> "cas", key |-> k, value |-> v, expect |-> e]

\* A field left unset.
ZeroResult_Nil == Res(FALSE, FALSE, Nil)

ZeroResult == Res(FALSE, FALSE, Empty)

Init ==
  /\ todo \in Plans
  /\ checks = [p \in ToSet(todo) |-> "none"] /\ timedOut = FALSE
  /\ data \in {d \in [Keys -> PreRun \cup {Nil}] : \A k \in Keys \ Workload : d[k] = Nil}
  /\ command = [i \in Invocations |-> NoCommand]
  /\ outcome = [i \in Invocations |-> "none"]
  /\ effect = [i \in Invocations |-> NoResult] /\ returned = effect
  /\ at = 1 /\ step = "first" /\ pass = TRUE
  /\ busy = [t \in Threads |-> 0]
  /\ calls = <<>> /\ now = 0 /\ history = <<>>
  /\ lastSeen = [c \in Clients |-> [k \in ChaosKeys |-> Nil]]
  /\ order = <<>>

-----------------------------------------------------------------------------
(* Invoke, as seen from outside, and the store                             *)

\* As many operations as there are Invocations.
Call(t, cmd) ==
  /\ busy[t] = 0 /\ Len(calls) + 1 \in Invocations
  /\ Begin(Len(calls) + 1, cmd)
  /\ busy' = [busy EXCEPT ![t] = Len(calls) + 1]
  /\ calls' = Append(calls, [by |-> t, start |-> now + 1])
  /\ now' = now + 1
  /\ UNCHANGED <<history, order>>

Return(t) ==
  LET i == busy[t]
  IN  /\ i # 0
      /\ ReturnOk(i) \/ ReturnFailed(i) \/ ReturnUnknown(i)
      /\ busy' = [busy EXCEPT ![t] = 0]
      /\ now' = now + 1
      /\ history' = Append(history,
           [id |-> i, cmd |-> command[i], start |-> calls[i].start, end |-> now + 1,
            outcome |-> outcome'[i],
            res |-> IF outcome'[i] = "ok" THEN returned'[i] ELSE ZeroResult])
      /\ UNCHANGED <<calls, order>>

Got == Last(history')

Answered == Got.outcome = "ok"

Effect(i) ==
  /\ Phase # "done"
  /\ TakeEffect(i)
  /\ order' = IF calls[i].by \in Clients
                THEN Append(order, [id |-> i, val |-> data'[command[i].key]]) ELSE order
  /\ UNCHANGED <<control, busy, calls, now, history, lastSeen>>

-----------------------------------------------------------------------------
(* The main goroutine                                                      *)

At(p, s) == Phase = p /\ step = s /\ at <= Count(p)

MainCalls(p, s, cmd) ==
  /\ At(p, s)
  /\ Call(Main, cmd)
  /\ UNCHANGED <<control, lastSeen>>

MainReturns(p, s) ==
  /\ At(p, s)
  /\ Return(Main)
  /\ UNCHANGED <<todo, checks, timedOut, lastSeen>>

\* To the next round of the loop; ok is what this one contributes.
NextRound(ok) == pass' = (pass /\ ok) /\ at' = at + 1 /\ step' = "first"

GoOn(s) == step' = s /\ UNCHANGED <<pass, at>>

\* What a step of the loop itself, without an operation, leaves alone.
NothingElse ==
  UNCHANGED <<todo, checks, timedOut, absVars, busy, calls, now, history, lastSeen, order>>

\* r.check, and the next phase.
EndPhase ==
  /\ Phase \notin {"linearizability", "done"}
  /\ at > Count(Phase)
  /\ checks' = [checks EXCEPT ![Phase] = IF pass THEN "PASS" ELSE "FAIL"]
  /\ todo' = Tail(todo) /\ at' = 1 /\ step' = "first" /\ pass' = TRUE
  /\ UNCHANGED <<timedOut, absVars, busy, calls, now, history, lastSeen, order>>

Reset ==
  \/ MainCalls("reset", "first", Delete(ResetKeys[at]))
  \/ MainReturns("reset", "first") /\ NextRound(Answered)

SmokePut ==
  \/ MainCalls("smoke", "first", Put(Smoke, Numbered(at)))
  \/ /\ MainReturns("smoke", "first")
     /\ \/ Answered /\ GoOn("get")
        \/ ~Answered /\ NextRound(FALSE)

SmokeGet ==
  \/ MainCalls("smoke", "get", Get(Smoke))
  \/ /\ MainReturns("smoke", "get")
     /\ NextRound(Answered /\ Got.res.present /\ Got.res.value = Numbered(at))

CASSetup ==
  \/ MainCalls("cas", "first", Put(Arena(at), Base(at)))
  \/ /\ MainReturns("cas", "first")
     /\ \/ Answered /\ GoOn("race")
        \/ ~Answered /\ NextRound(FALSE)

Entered(c) == \E i \in DOMAIN calls : calls[i].by = c /\ command[i].key = Arena(at)

CASContend(c) ==
  /\ At("cas", "race")
  /\ \/ ~Entered(c) /\ Call(c, CAS(Arena(at), Base(at), Winner(at, c)))
     \/ Return(c)
  /\ UNCHANGED <<control, lastSeen>>

\* results, when all contenders have returned
Results(r) ==
  {history[k] : k \in {j \in DOMAIN history :
                         history[j].cmd.op = "cas" /\ history[j].cmd.key = Arena(r)}}

Wins(r) == Cardinality({op \in Results(r) : op.outcome = "ok" /\ op.res.ok})

Unknowns(r) == Cardinality({op \in Results(r) : op.outcome = "unknown"})

\* A bound that takes no notice of unknown outcomes.
RoundOK_OneWinner(r) == Wins(r) = 1

RoundOK(r) ==
  \/ Unknowns(r) = 0 /\ Wins(r) = 1
  \/ Unknowns(r) > 0 /\ Wins(r) <= 1

CASRound ==
  /\ At("cas", "race")
  /\ \A c \in Contenders : Entered(c) /\ busy[c] = 0
  /\ NextRound(RoundOK(at))
  /\ NothingElse

Tries(op, k) == Cardinality({i \in DOMAIN calls : /\ calls[i].by = Main
                                                  /\ command[i].op = op /\ command[i].key = k})

\* After a call that did not get what the loop waits for: again, or the
\* deadline has passed and the round counts as failed.
TryAgain(op, k) ==
  \/ Tries(op, k) < MaxTries /\ UNCHANGED <<pass, at, step>>
  \/ NextRound(FALSE)

KillPut ==
  \/ MainCalls("kill", "first", Put(Durable(at), Precious(at)))
  \/ /\ MainReturns("kill", "first")
     /\ \/ Answered /\ GoOn("get")
        \/ ~Answered /\ NextRound(FALSE)

KillGet ==
  \/ MainCalls("kill", "get", Get(Durable(at)))
  \/ /\ MainReturns("kill", "get")
     /\ \/ Answered /\ NextRound(Got.res.present /\ Got.res.value = Precious(at))
        \/ ~Answered /\ TryAgain("get", Durable(at))

\* No leader to partition: the phase fails before its first put.
MajorityNoLeader ==
  /\ At("majority", "first")
  /\ busy[Main] = 0 /\ Tries("put", Live) = 0
  /\ NextRound(FALSE)
  /\ NothingElse

MajorityPut ==
  \/ MainCalls("majority", "first", Put(Live, Served(Tries("put", Live))))
  \/ /\ MainReturns("majority", "first")
     /\ \/ Answered /\ GoOn("get")
        \/ ~Answered /\ TryAgain("put", Live)

\* The value of the acknowledged put and nothing else.
IsServed_Exact(v) == v = Served(Tries("put", Live) - 1)

\* strings.HasPrefix(RetVal, "served-"): an earlier put whose outcome is
\* unknown may take effect after the acknowledged one.
IsServed(v) == \E i \in 0 .. MaxTries : v = Served(i)

MajorityGet ==
  \/ MainCalls("majority", "get", Get(Live))
  \/ /\ MainReturns("majority", "get")
     /\ LET served == Answered /\ IsServed(Got.res.value)
        IN  \/ served /\ NextRound(TRUE)
            \/ ~served /\ TryAgain("get", Live)

-----------------------------------------------------------------------------
(* The goroutines of phaseChaos                                            *)

OpsOf(c) == {i \in DOMAIN calls : calls[i].by = c}

\* A value per client instead of one per operation.
FreshValue_PerClient(c) == <<c, 1>>

\* seq in it makes it unique; the random part is for other runs.
FreshValue(c) == <<c, Cardinality(OpsOf(c)) + 1>>

RandomOp(c) ==
  UNION {{Put(k, FreshValue(c)), Get(k), Delete(k)}
           \cup {CAS(k, e, FreshValue(c)) : e \in {lastSeen[c][k], Nil}} : k \in ChaosKeys}

\* Noting what a lost CAS wanted to write.
NoteSeen_OwnValue(op) ==
  CASE op.cmd.op = "put" -> op.cmd.value
    [] op.cmd.op = "cas" -> op.cmd.value
    [] op.cmd.op = "get" /\ op.res.present -> op.res.value
    [] OTHER -> Nil

NoteSeen(op) ==
  CASE op.cmd.op = "put" -> op.cmd.value
    [] op.cmd.op = "cas" /\ op.res.ok -> op.cmd.value
    [] op.cmd.op \in {"cas", "get"} /\ op.res.present -> op.res.value
    [] OTHER -> Nil

ChaosCall(c) ==
  /\ At("chaos", "first")
  /\ Cardinality({i \in DOMAIN calls : calls[i].by \in Clients}) < ChaosOps
  /\ \E cmd \in RandomOp(c) : Call(c, cmd)
  /\ UNCHANGED <<control, lastSeen>>

ChaosReturn(c) ==
  /\ Phase = "chaos"
  /\ Return(c)
  /\ lastSeen' = IF Answered THEN [lastSeen EXCEPT ![c][Got.cmd.key] = NoteSeen(Got)]
                             ELSE lastSeen
  /\ UNCHANGED control

\* close(stop)
ChaosStop ==
  /\ At("chaos", "first")
  /\ GoOn("stopped")
  /\ NothingElse

\* wg.Wait()
ChaosWait ==
  /\ At("chaos", "stopped")
  /\ \A c \in Clients : busy[c] = 0
  /\ NextRound(TRUE)
  /\ NothingElse

-----------------------------------------------------------------------------
(* phaseLinearizability                                                    *)

Verdict == INSTANCE Checker WITH
             Commands <- Command, Outcomes <- {"ok", "failed", "unknown"},
             MaxOps <- ChaosOps, pending <- busy

\* The search has five minutes.
Linearizability ==
  /\ Phase = "linearizability"
  /\ \E finished \in BOOLEAN :
       /\ timedOut' = ~finished
       /\ checks' = [checks EXCEPT ![Phase] = IF Verdict!Check(history, finished)
                                               THEN "PASS" ELSE "FAIL"]
  /\ todo' = Tail(todo)
  /\ UNCHANGED <<absVars, at, step, pass, busy, calls, now, history, lastSeen, order>>

Next ==
  \/ Reset \/ SmokePut \/ SmokeGet
  \/ CASSetup \/ CASRound \/ \E c \in Contenders : CASContend(c)
  \/ KillPut \/ KillGet
  \/ MajorityNoLeader \/ MajorityPut \/ MajorityGet
  \/ \E c \in Clients : ChaosCall(c) \/ ChaosReturn(c)
  \/ ChaosStop \/ ChaosWait
  \/ EndPhase \/ Linearizability
  \/ \E i \in DOMAIN calls : Effect(i)

Spec == Init /\ [][Next]_vars

-----------------------------------------------------------------------------
(* Properties                                                              *)

TypeOK ==
  /\ todo \in Seq(Phases)
  /\ at \in Nat /\ step \in {"first", "get", "race", "stopped"}
  /\ pass \in BOOLEAN /\ timedOut \in BOOLEAN
  /\ \E plan \in Plans : checks \in [ToSet(plan) -> {"none", "PASS", "FAIL"}]
  /\ busy \in [Threads -> 0 .. Len(calls)]
  /\ calls \in Seq([by : Threads, start : Nat])
  /\ \A k \in DOMAIN history :
       /\ history[k].outcome \in {"ok", "failed", "unknown"}
       /\ history[k].cmd \in Command /\ history[k].res \in Result
       /\ history[k].start < history[k].end /\ history[k].end <= now
  /\ lastSeen \in [Clients -> [ChaosKeys -> Values \cup {Nil}]]

Answers(t, cmd) ==
  {k \in DOMAIN history : /\ calls[history[k].id].by = t /\ history[k].cmd = cmd
                          /\ history[k].outcome = "ok"}

\* phaseReset and phaseLinearizability: over a store that keeps its promise,
\* whatever its volumes held before, a run whose reset succeeded reports a
\* linearizability violation only if the search ran out of time: every operation
\* is in the history with a window that contains its effect, and nothing of it
\* is missing.
HistoryAlarmIsTimeout ==
  checks["reset"] = "PASS" /\ checks["linearizability"] = "FAIL" => timedOut

Failed(p) == p \in DOMAIN checks /\ checks[p] = "FAIL"

Unanswered(cmd) == Answers(Main, cmd) = {}

\* cas-single-winner, on the same condition, fails only when the store did not
\* answer: either the base value was not acknowledged, or no contender was let
\* in.  The count must allow for winners whose outcome is unknown.
CASAlarmIsReal ==
  checks["reset"] = "PASS" /\ Failed("cas") =>
    \E r \in 1 .. Rounds :
      \/ Unanswered(Put(Arena(r), Base(r)))
      \/ \A op \in Results(r) : op.outcome = "failed"

\* The same of the checks of smoke, leader kill and majority: late effects of
\* attempts that were given up never make them fail.
AlarmsAreReal ==
  checks["reset"] = "PASS" =>
    /\ Failed("smoke") =>
         \E k \in DOMAIN history : history[k].cmd.key = Smoke /\ history[k].outcome # "ok"
    /\ Failed("kill") =>
         \E i \in 1 .. Iterations :
           Unanswered(Put(Durable(i), Precious(i))) \/ Unanswered(Get(Durable(i)))
    /\ Failed("majority") =>
         \/ \A i \in 0 .. MaxTries : Unanswered(Put(Live, Served(i)))
         \/ Unanswered(Get(Live))

\* The ids of client c's answered operations on key k, and where an operation
\* took effect.
Seen(c, k, t) ==
  {history[j].id : j \in {h \in DOMAIN history :
     /\ calls[history[h].id].by = c /\ history[h].cmd.key = k
     /\ history[h].outcome = "ok" /\ history[h].end < t}}

Pos(i) == CHOOSE p \in DOMAIN order : order[p].id = i

\* Client.noteSeen: lastSeen is what the key really held when the client's last
\* answered operation on it took effect, a lost CAS and a delete included.
LastSeenIsTrue ==
  \A c \in Clients, k \in ChaosKeys :
    LET ids == Seen(c, k, now + 1)
    IN  ids # {} => lastSeen[c][k] = order[Pos(Max(ids))].val

Writes(i) ==
  \/ command[i].op \in {"put", "delete"}
  \/ command[i].op = "cas" /\ effect[i].ok

\* Client.RandomOp, "values unique": when a CAS with the client's own view
\* of a key wins, nobody - not even the client itself, with an operation whose
\* outcome it never learnt - wrote the key since the client saw it (no ABA).
WonCASMeansUntouched ==
  \A p \in DOMAIN order :
    LET i   == order[p].id
        cmd == command[i]
        ids == Seen(calls[i].by, cmd.key, calls[i].start)
    IN  cmd.op = "cas" /\ cmd.expect # Nil /\ effect[i].ok =>
          \A q \in DOMAIN order :
            Pos(Max(ids)) < q /\ q < p /\ command[order[q].id].key = cmd.key
              => ~Writes(order[q].id)
===============================================================================
