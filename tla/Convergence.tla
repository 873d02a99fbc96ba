------------------------------ MODULE Convergence ------------------------------
(***************************************************************************)
(* The replicas-converge check (phaseConvergence in                        *)
(* internal/harness/run.go): the nodes are asked one after another for     *)
(* /internal/state, while module Replica goes on under the poll.           *)
(*                                                                         *)
(* A node's answer takes two steps, the statistics and then the map.  The  *)
(* library (external) counts an entry as applied when it hands it to the   *)
(* goroutine of the state machine, so applied_index can be ahead of the    *)
(* map.  A request that times out is left out; it is one to a killed node. *)
(***************************************************************************)
EXTENDS Replica, SequencesExt

CONSTANTS NodeSeq    \* the runner's Nodes

ASSUME ConvergenceAssumption ==
  /\ NodeSeq \in Seq(Nodes)
  /\ ToSet(NodeSeq) = Nodes /\ Len(NodeSeq) = Cardinality(Nodes)

VARIABLES
  applied,   \* applied[n]: the statistic applied_index
  stats,     \* the statistics just read of the node being asked, or Nil
  states,    \* the answers of this round of the loop
  verdict    \* "none", or the result of the check

pollVars == <<stats, states, verdict>>
allVars  == <<vars, applied, pollVars>>

State(lastApplied, map) == [lastApplied |-> lastApplied, data |-> map]

CInit ==
  /\ Init
  /\ applied = [n \in Nodes |-> 0]
  /\ stats = Nil /\ states = <<>> /\ verdict = "none"

-----------------------------------------------------------------------------
(* The loop of the poll                                                    *)

Asked == NodeSeq[Len(states) + 1]

Asking == verdict = "none" /\ Len(states) < Len(NodeSeq)

\* states declared outside the loop.
Again_Keep == stats' = Nil /\ UNCHANGED states

Again == stats' = Nil /\ states' = <<>>

-----------------------------------------------------------------------------
(* The nodes (Replica), with their statistic                               *)

HandOver(n) ==
  /\ up[n] /\ applied[n] < Len(log)
  /\ applied' = [applied EXCEPT ![n] = @ + 1]
  /\ UNCHANGED <<vars, pollVars>>

ApplyHanded(n) == index[n] < applied[n] /\ Apply(n) /\ UNCHANGED <<applied, pollVars>>

\* n is killed between the two reads of a request.
Interrupted(n) == Asking /\ n = Asked /\ stats # Nil /\ ~up'[n]

\* Kill, Restart and Install set the statistic with the map.  A request that n
\* was answering dies with it, client.Get or Decode fails.
Reset(n) ==
  /\ \/ Kill(n) \/ Restart(n)
     \/ \E m \in Nodes : snap[m].index > applied[n] /\ Install(n, m)
  /\ applied' = [applied EXCEPT ![n] = index'[n]]
  /\ \/ Interrupted(n) /\ Again
     \/ ~Interrupted(n) /\ UNCHANGED <<stats, states>>
  /\ UNCHANGED verdict

Other ==
  /\ \/ \E cmd \in Commands : Commit(cmd)
     \/ \E n \in Nodes : Snapshot(n) \/ Persist(n) \/ PersistFails(n)
  /\ UNCHANGED <<applied, pollVars>>

-----------------------------------------------------------------------------
(* The poll                                                                *)

\* client.Get fails: break, and after a pause the next round.
Unreachable ==
  /\ Asking /\ ~up[Asked]
  /\ Again
  /\ UNCHANGED <<vars, applied, verdict>>

ReadStats ==
  /\ Asking /\ up[Asked] /\ stats = Nil
  /\ stats' = [lastApplied |-> applied[Asked]]
  /\ UNCHANGED <<vars, applied, states, verdict>>

Dump ==
  /\ Asking /\ up[Asked] /\ stats # Nil
  /\ states' = Append(states, State(stats.lastApplied, data[Asked]))
  /\ stats' = Nil
  /\ UNCHANGED <<vars, applied, verdict>>

\* Only the statistics of all answers.
Identical_Index == \A i \in DOMAIN states : states[i].lastApplied = states[1].lastApplied

\* Map and applied index of all answers.
Identical == \A i \in DOMAIN states : states[i] = states[1]

Judge ==
  /\ verdict = "none" /\ Len(states) = Len(NodeSeq)
  /\ \/ Identical /\ verdict' = "PASS" /\ UNCHANGED <<stats, states>>
     \/ ~Identical /\ Again /\ UNCHANGED verdict
  /\ UNCHANGED <<vars, applied>>

\* 90 seconds are over when the loop comes round.
Deadline ==
  /\ verdict = "none" /\ states = <<>> /\ stats = Nil
  /\ verdict' = "FAIL"
  /\ UNCHANGED <<vars, applied, stats, states>>

Poll == Unreachable \/ ReadStats \/ Dump \/ Judge

CNext ==
  \/ \E n \in Nodes : HandOver(n) \/ ApplyHanded(n) \/ Reset(n)
  \/ Other
  \/ Poll \/ Deadline

CSpec == CInit /\ [][CNext]_allVars

\* The nodes execute what is committed and are started again, the loop goes
\* round.  Nothing says that the deadline passes.
CFairSpec ==
  /\ CSpec /\ WF_allVars(Poll)
  /\ \A n \in Nodes : /\ WF_allVars(HandOver(n)) /\ WF_allVars(ApplyHanded(n))
                      /\ WF_allVars(Reset(n) /\ ~up[n])

-----------------------------------------------------------------------------
(* Properties                                                              *)

\* "After healing, all three nodes must converge" (phaseConvergence): the poll, racing with the
\* last commits, kills and restarts, comes to a verdict, and that without the
\* deadline - answers taken at different times agree in the end.
Decides == <>(verdict # "none")

\* "... to identical committed state" (phaseConvergence): when replicas-converge
\* passes, every node has shown the same map and the log went through it,
\* although no two nodes were asked at the same time and the statistics they
\* are compared by run ahead of the maps.
IdenticalCommittedState ==
  verdict = "PASS" =>
    /\ DOMAIN states = DOMAIN NodeSeq
    /\ \E j \in 0 .. Len(log) : \A i \in DOMAIN states : states[i].data = ref[j + 1]
===============================================================================
