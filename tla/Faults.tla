-------------------------------- MODULE Faults --------------------------------
(***************************************************************************)
(* The fault injector (internal/harness/faults.go) and the schedule by     *)
(* which the phases of a run use it: containers that are killed and        *)
(* started, and iptables rules inside them that cut a node off.            *)
(*                                                                         *)
(* The main goroutine runs docker commands one after another; the cluster  *)
(* goes on electing between any two of them.  The code ignores the error   *)
(* of every command, so a failed one is simply without effect.  What the   *)
(* phases do to the data is in module Harness.                             *)
(***************************************************************************)
EXTENDS RaftService, SequencesExt

CONSTANTS
  NodeSeq,      \* Faults.Nodes
  Iterations,   \* rounds of phaseLeaderKillDurability
  Probes,       \* probes of phaseMinorityRefusesWrites
  MaxFaults,    \* bound: faults of phaseChaos
  MaxFailures   \* bound: docker commands and requests that fail

ASSUME FaultsAssumption ==
  /\ IsFiniteSet(Nodes) /\ NoNode \notin Nodes
  /\ NodeSeq \in Seq(Nodes)
  /\ ToSet(NodeSeq) = Nodes /\ Len(NodeSeq) = Cardinality(Nodes)
  /\ Iterations \in Nat /\ Probes \in Nat /\ MaxFailures \in Nat

VARIABLES
  rules,      \* the DROP rules, as <<container, chain, peer>>
  todo,       \* the commands to come before the main goroutine decides again
  stage,      \* the phase it is in
  count,      \* rounds, probes or faults of the phase so far
  leaderID,   \* what LeaderID has found
  deferred,   \* the commands deferred to the end of the phase
  target,     \* the node that is probed
  acked,      \* probes it acknowledged
  failures

injector == <<stage, count, deferred, target, acked>>
vars     == <<raftVars, rules, todo, injector, leaderID, failures>>

Chains == {"INPUT", "OUTPUT"}

Cmd(do, on) == [do |-> do, on |-> on]

RuleCmd(do, on, chain, peer) == [do |-> do, on |-> on, chain |-> chain, peer |-> peer]

Kill(n)  == Cmd("kill", n)
Start(n) == Cmd("start", n)

\* A loop over nodes whose body runs k commands.
PerNode(k, Commands(_), nodes) ==
  [i \in 1 .. k * Len(nodes) |-> Commands(nodes[1 + (i - 1) \div k])[1 + ((i - 1) % k)]]

Peers(n) == RemoveAt(NodeSeq, CHOOSE i \in DOMAIN NodeSeq : NodeSeq[i] = n)

Cut(n, m) ==
  <<RuleCmd("drop", n, "INPUT", m), RuleCmd("drop", n, "OUTPUT", m),
    RuleCmd("drop", m, "INPUT", n), RuleCmd("drop", m, "OUTPUT", n)>>

\* A loop over the peers that ends one too early.
Isolate_NotTheLast(n) == PerNode(4, LAMBDA m : Cut(n, m), Front(Peers(n)))

Isolate(n) == PerNode(4, LAMBDA m : Cut(n, m), Peers(n))

Flush(n, chain) == RuleCmd("flush", n, chain, n)

\* Healing the network only.
HealAll_FlushOnly ==
  PerNode(2, LAMBDA n : <<Flush(n, "INPUT"), Flush(n, "OUTPUT")>>, NodeSeq)

Heal(n) == <<Start(n), Flush(n, "INPUT"), Flush(n, "OUTPUT")>>

HealAll == PerNode(3, Heal, NodeSeq)

\* LeaderID, asking every node even after the first answer.
LeaderID == PerNode(1, LAMBDA n : <<Cmd("ask", n)>>, NodeSeq)

Init ==
  /\ RaftInit
  /\ rules = {} /\ todo = LeaderID
  /\ stage = "durable" /\ count = 0
  /\ leaderID = NoNode /\ deferred = <<>>
  /\ target = NoNode /\ acked = 0 /\ failures = 0

-----------------------------------------------------------------------------
(* What the rules do to the cluster (external)                             *)

\* Raft talks over TCP: a rule in one direction, on one side, is enough.
Connected(n, m) ==
  /\ up[n] /\ up[m]
  /\ \A chain \in Chains : <<n, chain, m>> \notin rules /\ <<m, chain, n>> \notin rules

Majorities == {Q \in SUBSET Nodes : 2 * Cardinality(Q) > Cardinality(Nodes)}

HasQuorum(n) == \E Q \in Majorities : n \in Q /\ \A m \in Q : Connected(n, m)

Elect(n) == HasQuorum(n) /\ BecomeLeader(n)

Hear(n, m) == (m # NoNode => Connected(n, m)) /\ LearnLeader(n, m)

ClusterStep ==
  /\ \E n \in Nodes : \/ Elect(n) \/ LoseLeadership(n)
                      \/ \E m \in Nodes \cup {NoNode} : Hear(n, m)
  /\ UNCHANGED <<rules, todo, injector, leaderID, failures>>

-----------------------------------------------------------------------------
(* One command                                                             *)

\* The network namespace, and the rules in it, go with the container.
RunKill(n) ==
  /\ up[n] /\ Crash(n)
  /\ rules' = {r \in rules : r[1] # n}
  /\ UNCHANGED leaderID

RunStart(n) == ~up[n] /\ Recover(n) /\ UNCHANGED <<rules, leaderID>>

\* The arguments of iptables in the wrong order.
RunDrop_Swapped(c) ==
  /\ up[c.on]
  /\ rules' = rules \cup {<<c.on, c.peer, c.chain>>}
  /\ UNCHANGED <<raftVars, leaderID>>

RunDrop(c) ==
  /\ up[c.on]
  /\ rules' = rules \cup {<<c.on, c.chain, c.peer>>}
  /\ UNCHANGED <<raftVars, leaderID>>

RunFlush(c) ==
  /\ up[c.on]
  /\ rules' = {r \in rules : r[1] # c.on \/ r[2] # c.chain}
  /\ UNCHANGED <<raftVars, leaderID>>

\* GET /healthz; the first non-empty leader_id counts.
RunAsk(n) ==
  /\ up[n] /\ leaderID = NoNode
  /\ leaderID' = hint[n]
  /\ UNCHANGED <<raftVars, rules>>

Works(c) ==
  \/ c.do = "kill" /\ RunKill(c.on)
  \/ c.do = "start" /\ RunStart(c.on)
  \/ c.do = "drop" /\ RunDrop(c)
  \/ c.do = "flush" /\ RunFlush(c)
  \/ c.do = "ask" /\ RunAsk(c.on)

\* It fails, or there is nothing to do: a container that is (not) running.
HasNoEffect(c) ==
  \/ up[c.on] = (c.do = "start")
  \/ c.do = "ask" /\ leaderID # NoNode

RunCommand ==
  /\ todo # <<>>
  /\ todo' = Tail(todo)
  /\ \/ Works(Head(todo)) /\ UNCHANGED failures
     \/ HasNoEffect(Head(todo)) /\ UNCHANGED <<raftVars, rules, leaderID, failures>>
     \/ /\ failures < MaxFailures
        /\ failures' = failures + 1
        /\ UNCHANGED <<raftVars, rules, leaderID>>
  /\ UNCHANGED injector

-----------------------------------------------------------------------------
(* The schedule                                                            *)

Decide(s) == stage = s /\ todo = <<>> /\ UNCHANGED <<raftVars, rules, failures>>

\* A round of phaseLeaderKillDurability, from LeaderID on; without a kill when
\* the put was not acknowledged or no leader is known.
DurableRound ==
  /\ Decide("durable")
  /\ count < Iterations
  /\ count' = count + 1
  /\ leaderID' = NoNode
  /\ \/ /\ leaderID # NoNode
        /\ todo' = <<Kill(leaderID)>> \o HealAll \o LeaderID
        /\ deferred' = Append(deferred, Start(leaderID))
     \/ leaderID = NoNode /\ todo' = HealAll \o LeaderID /\ UNCHANGED deferred
     \/ todo' = LeaderID /\ UNCHANGED deferred
  /\ UNCHANGED <<stage, target, acked>>

\* It returns, last deferred first, and phaseMinorityRefusesWrites begins.
DurableEnds ==
  /\ Decide("durable")
  /\ count = Iterations
  /\ stage' = "minority" /\ leaderID' = NoNode
  /\ todo' = Reverse(deferred) \o LeaderID
  /\ UNCHANGED <<count, deferred, target, acked>>

MinorityIsolates ==
  /\ Decide("minority")
  /\ leaderID # NoNode
  /\ stage' = "probe" /\ count' = 0
  /\ target' = leaderID
  /\ todo' = Isolate(leaderID)
  /\ UNCHANGED <<leaderID, deferred, acked>>

MinorityNoLeader ==
  /\ Decide("minority")
  /\ leaderID = NoNode
  /\ stage' = "chaos" /\ count' = 0
  /\ UNCHANGED <<todo, leaderID, deferred, target, acked>>

\* A put on the target that must not be proxied: acknowledged when it leads and
\* reaches a majority, otherwise refused or unanswered.
MinorityProbe ==
  /\ Decide("probe")
  /\ count < Probes
  /\ count' = count + 1
  /\ \/ role[target] = "leader" /\ HasQuorum(target) /\ acked' = acked + 1
     \/ UNCHANGED acked
  /\ UNCHANGED <<stage, todo, leaderID, deferred, target>>

\* A partition that nobody removes.
MinorityHeals_Nothing ==
  /\ Decide("probe")
  /\ count = Probes
  /\ stage' = "chaos" /\ count' = 0
  /\ UNCHANGED <<todo, leaderID, deferred, target, acked>>

MinorityHeals ==
  /\ Decide("probe")
  /\ count = Probes
  /\ stage' = "chaos" /\ count' = 0
  /\ todo' = HealAll
  /\ UNCHANGED <<leaderID, deferred, target, acked>>

\* Half of the faults aim at the answer of LeaderID, the others at any node:
\* every node can be hit, whoever leads.
ChaosFault ==
  /\ Decide("chaos")
  /\ count < MaxFaults
  /\ count' = count + 1
  /\ \E n \in Nodes : todo' = <<Kill(n), Start(n)>> \/ todo' = Isolate(n) \o HealAll
  /\ UNCHANGED <<stage, leaderID, deferred, target, acked>>

\* The end of phaseChaos and the beginning of phaseConvergence.
ChaosEnds ==
  /\ Decide("chaos")
  /\ stage' = "done"
  /\ todo' = HealAll \o HealAll
  /\ UNCHANGED <<count, leaderID, deferred, target, acked>>

Injector ==
  \/ RunCommand
  \/ DurableRound \/ DurableEnds
  \/ MinorityIsolates \/ MinorityNoLeader \/ MinorityProbe \/ MinorityHeals
  \/ ChaosFault \/ ChaosEnds

Next == ClusterStep \/ Injector

Spec == Init /\ [][Next]_vars

\* Every command returns and the main goroutine goes on.
FairSpec == Spec /\ WF_vars(Injector)

-----------------------------------------------------------------------------
(* Properties                                                              *)

TypeOK ==
  /\ RaftTypeOK
  /\ rules \subseteq Nodes \X Chains \X Nodes
  /\ \A i \in DOMAIN todo : todo[i].on \in Nodes
  /\ stage \in {"durable", "minority", "probe", "chaos", "done"}
  /\ count \in Nat /\ acked \in 0 .. Probes /\ failures \in 0 .. MaxFailures
  /\ leaderID \in Nodes \cup {NoNode} /\ target \in Nodes \cup {NoNode}

Healthy == rules = {} /\ \A n \in Nodes : up[n]

\* "One fault at a time, always healed before the next" (phaseChaos), and across
\* the phases: as long as every command works, a majority is left.
QuorumRemains == failures = 0 => \E n \in Nodes : HasQuorum(n)

\* minority-refuses-writes: the isolated node acknowledges nothing - even when
\* a command of Isolate failed, since each link is cut four times over.
MinorityNeverAcks == acked = 0

\* replicas-converge relies on it: whatever command failed, kill or partition,
\* in the end all nodes run and all rules are gone, for good.  A node whose Start
\* failed is started again by a HealAll.
HealsForGood == <>[](Healthy /\ stage = "done")
===============================================================================
