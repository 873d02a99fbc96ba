------------------------------ MODULE RaftService ------------------------------
(***************************************************************************)
(* What the server package relies on from hashicorp/raft (external code),  *)
(* seen through the calls it makes: Raft.Apply, Raft.State,                *)
(* Raft.LeaderWithID, and a process that is killed and started again over  *)
(* the same data directory.                                                *)
(*                                                                         *)
(* A proposal handed to a node that believes it leads is dispatched: from  *)
(* then on it floats, and it may be committed at any later time, by this   *)
(* leader or by a successor that inherited the entry, or never.  The       *)
(* committed log only grows.  Who believes to lead is not constrained: a   *)
(* deposed leader may go on believing it for a while.                      *)
(***************************************************************************)
EXTENDS Naturals, Sequences

CONSTANTS
  Nodes,       \* the cluster members (server.Config.Peers)
  NoNode,      \* the empty ServerID of LeaderWithID, not a node
  Proposals    \* identities of the calls to Raft.Apply

VARIABLES
  up,         \* up[n]: the process of node n runs
  role,       \* role[n]: Raft.State(), a candidate counted as a follower
  hint,       \* hint[n]: the leader LeaderWithID reports on n
  floating,   \* proposals dispatched and not (yet) committed
  log         \* the committed proposals, in log order

raftVars == <<up, role, hint, floating, log>>

Roles == {"leader", "follower"}

RaftTypeOK ==
  /\ up \in [Nodes -> BOOLEAN]
  /\ role \in [Nodes -> Roles]
  /\ hint \in [Nodes -> Nodes \cup {NoNode}]
  /\ floating \subseteq Proposals
  /\ log \in Seq(Proposals)

RaftInit ==
  /\ up = [n \in Nodes |-> TRUE]
  /\ role = [n \in Nodes |-> "follower"]
  /\ hint = [n \in Nodes |-> NoNode]
  /\ floating = {}
  /\ log = <<>>

Committed == {log[i] : i \in DOMAIN log}

\* The leader loop takes the proposal off applyCh and appends it to its log.
Propose(n, p) ==
  /\ up[n]
  /\ role[n] = "leader"
  /\ p \notin floating \cup Committed
  /\ floating' = floating \cup {p}
  /\ UNCHANGED <<up, role, hint, log>>

\* A quorum holds the entry: it is committed, whoever proposed it.
Commit(p) ==
  /\ p \in floating
  /\ floating' = floating \ {p}
  /\ log' = Append(log, p)
  /\ UNCHANGED <<up, role, hint>>

BecomeLeader(n) ==
  /\ up[n]
  /\ role[n] = "follower"
  /\ role' = [role EXCEPT ![n] = "leader"]
  /\ hint' = [hint EXCEPT ![n] = n]
  /\ UNCHANGED <<up, floating, log>>

\* The lease lapses or a higher term is seen.
LoseLeadership(n) ==
  /\ role[n] = "leader"
  /\ role' = [role EXCEPT ![n] = "follower"]
  /\ hint' = [hint EXCEPT ![n] = NoNode]
  /\ UNCHANGED <<up, floating, log>>

\* A follower hears from a leader, or loses touch with the one it knew.
LearnLeader(n, m) ==
  /\ up[n]
  /\ role[n] = "follower"
  /\ m # n
  /\ m # NoNode => role[m] = "leader"
  /\ hint[n] # m
  /\ hint' = [hint EXCEPT ![n] = m]
  /\ UNCHANGED <<up, role, floating, log>>

Crash(n) ==
  /\ up[n]
  /\ up' = [up EXCEPT ![n] = FALSE]
  /\ role' = [role EXCEPT ![n] = "follower"]
  /\ hint' = [hint EXCEPT ![n] = NoNode]
  /\ UNCHANGED <<floating, log>>

Recover(n) ==
  /\ ~up[n]
  /\ up' = [up EXCEPT ![n] = TRUE]
  /\ UNCHANGED <<role, hint, floating, log>>

RaftNext ==
  \/ \E n \in Nodes, p \in Proposals : Propose(n, p)
  \/ \E p \in Proposals : Commit(p)
  \/ \E n \in Nodes : BecomeLeader(n) \/ LoseLeadership(n) \/ Crash(n) \/ Recover(n)
  \/ \E n \in Nodes, m \in Nodes \cup {NoNode} : LearnLeader(n, m)

RaftSpec == RaftInit /\ [][RaftNext]_raftVars
===============================================================================
