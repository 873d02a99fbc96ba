------------------------------- MODULE MCCluster -------------------------------
(***************************************************************************)
(* Cluster on two nodes and one key, for TLC.                              *)
(***************************************************************************)
EXTENDS Cluster, TLC

CONSTANTS n1, n2, c1, c2, k1, k2, v0, v1

Cmd(op, k, v, e) == [op |-> op, key |-> k, value |-> v, expect |-> e]

Plain(cmd) == [cmd |-> cmd, noProxy |-> FALSE, pin |-> NoNode]

\* phaseMinorityRefusesWrites probes one node directly, without proxying.
Probe(cmd, n) == [cmd |-> cmd, noProxy |-> TRUE, pin |-> n]

Put == Cmd("put", k1, v1, Nil)
Get == Cmd("get", k1, v0, Nil)
CASIfAbsent == Cmd("cas", k1, v0, Nil)

\* Contention on one key: a CAS that needs the key absent, and a read.
ContendedCalls == {Plain(CASIfAbsent), Plain(Get)}

\* A write under a key that is not UTF-8, and a read of another key.
MalformedCalls == {Plain(Put), Plain(Cmd("get", k2, v0, Nil))}

\* One client, one write, both ways of sending it.
RetryCalls == {Plain(Put)} \cup {Probe(Put, n) : n \in Nodes}

MCRotate == n1 :> n2 @@ n2 :> n1

Symmetry == Permutations(Clients)

FullSymmetry == Symmetry \cup Permutations(Nodes)
===============================================================================
