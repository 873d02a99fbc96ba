-------------------------------- MODULE Replica --------------------------------
(***************************************************************************)
(* One state machine per node (internal/kv/fsm.go), fed by the committed   *)
(* log, snapshotted, killed and rebuilt.                                   *)
(*                                                                         *)
(* The Raft library (external) calls Apply, Snapshot and Restore from one  *)
(* goroutine, so each is a step; Persist runs on another goroutine, with   *)
(* any number of Apply calls between Snapshot and Persist.  The log and    *)
(* the snapshot store are on the node's volume and survive a kill; the map *)
(* does not.                                                               *)
(*                                                                         *)
(* Snapshots truncate the log behind them.  The model does not keep track  *)
(* of that: a follower may be sent any snapshot that is ahead of it.       *)
(***************************************************************************)
EXTENDS KV, Naturals, Sequences

CONSTANTS
  Nodes,       \* the cluster members
  Commands,    \* the commands clients issue
  NoSnapshot,  \* no snapshot between Snapshot and Persist
  MaxLog,      \* bound: entries in the log
  MaxKills     \* bound: kills

ASSUME ReplicaAssumption ==
  /\ Commands \subseteq Command
  /\ MaxLog \in Nat
  /\ MaxKills \in Nat

VARIABLES
  log,      \* the committed commands
  ref,      \* ref[i + 1]: the state a machine is in after i entries (auxiliary)
  up,       \* up[n]: the process of n runs
  data,     \* data[n]: FSM.data
  index,    \* index[n]: entries of the log that data[n] reflects
  taken,    \* taken[n]: the fsmSnapshot being persisted, or NoSnapshot
  snap,     \* snap[n]: the newest snapshot in n's store, empty at index 0
  kills     \* kills so far

vars == <<log, ref, up, data, index, taken, snap, kills>>

Snapshots == [index : Nat, state : Data]

TypeOK ==
  /\ log \in Seq(Command)
  /\ ref \in Seq(Data)
  /\ up \in [Nodes -> BOOLEAN]
  /\ data \in [Nodes -> Data]
  /\ index \in [Nodes -> Nat]
  /\ taken \in [Nodes -> Snapshots \cup {NoSnapshot}]
  /\ snap \in [Nodes -> Snapshots]
  /\ kills \in Nat

Init ==
  /\ log = <<>>
  /\ ref = <<EmptyData>>
  /\ up = [n \in Nodes |-> TRUE]
  /\ data = [n \in Nodes |-> EmptyData]
  /\ index = [n \in Nodes |-> 0]
  /\ taken = [n \in Nodes |-> NoSnapshot]
  /\ snap = [n \in Nodes |-> [index |-> 0, state |-> EmptyData]]
  /\ kills = 0

-----------------------------------------------------------------------------

\* A quorum has the encoded command.
Commit(cmd) ==
  /\ Len(log) < MaxLog
  /\ log' = Append(log, Decoded(cmd))
  /\ ref' = Append(ref, ApplyData(ref[Len(log) + 1], Decoded(cmd)))
  /\ UNCHANGED <<up, data, index, taken, snap, kills>>

\* FSM.Apply
Apply(n) ==
  /\ up[n]
  /\ index[n] < Len(log)
  /\ data' = [data EXCEPT ![n] = ApplyData(@, log[index[n] + 1])]
  /\ index' = [index EXCEPT ![n] = @ + 1]
  /\ UNCHANGED <<log, ref, up, taken, snap, kills>>

\* FSM.Snapshot: a copy of the map, taken under the lock.
Snapshot(n) ==
  /\ up[n]
  /\ taken[n] = NoSnapshot
  /\ index[n] > snap[n].index
  /\ taken' = [taken EXCEPT ![n] = [index |-> index[n], state |-> data[n]]]
  /\ UNCHANGED <<log, ref, up, data, index, snap, kills>>

\* A snapshot that refers to the live map instead of a copy of it.
Persist_Shared(n) ==
  /\ up[n]
  /\ taken[n] # NoSnapshot
  /\ snap' = [snap EXCEPT ![n] = [index |-> taken[n].index, state |-> JSONData(data[n])]]
  /\ taken' = [taken EXCEPT ![n] = NoSnapshot]
  /\ UNCHANGED <<log, ref, up, data, index, kills>>

\* fsmSnapshot.Persist, written and closed.
Persist(n) ==
  /\ up[n]
  /\ taken[n] # NoSnapshot
  /\ snap' = [snap EXCEPT ![n] = [taken[n] EXCEPT !.state = JSONData(@)]]
  /\ taken' = [taken EXCEPT ![n] = NoSnapshot]
  /\ UNCHANGED <<log, ref, up, data, index, kills>>

\* A failed Persist that closes the sink: the cut-off file is a snapshot.
PersistFails_Closed(n) ==
  /\ up[n]
  /\ taken[n] # NoSnapshot
  /\ snap' = [snap EXCEPT ![n] = [taken[n] EXCEPT !.state = [k \in {} |-> Nil]]]
  /\ taken' = [taken EXCEPT ![n] = NoSnapshot]
  /\ UNCHANGED <<log, ref, up, data, index, kills>>

\* fsmSnapshot.Persist, failed: the sink is cancelled, nothing is stored.
PersistFails(n) ==
  /\ up[n]
  /\ taken[n] # NoSnapshot
  /\ taken' = [taken EXCEPT ![n] = NoSnapshot]
  /\ UNCHANGED <<log, ref, up, data, index, snap, kills>>

\* A Restore that adds the snapshot's entries to the map it finds.
Install_Merge(n, m) ==
  /\ up[n] /\ up[m]
  /\ snap[m].index > index[n]
  /\ snap' = [snap EXCEPT ![n] = snap[m]]
  /\ data' = [data EXCEPT ![n] = [k \in Keys |-> IF snap[m].state[k] # Nil
                                                  THEN snap[m].state[k] ELSE @[k]]]
  /\ index' = [index EXCEPT ![n] = snap[m].index]
  /\ taken' = [taken EXCEPT ![n] = NoSnapshot]
  /\ UNCHANGED <<log, ref, up, kills>>

\* The leader m sends its snapshot to a follower that lags behind its log:
\* stored, then FSM.Restore replaces the map.  A snapshot of n's own that was
\* under way is older and never becomes the newest of the store.
Install(n, m) ==
  /\ up[n] /\ up[m]
  /\ snap[m].index > index[n]
  /\ snap' = [snap EXCEPT ![n] = snap[m]]
  /\ data' = [data EXCEPT ![n] = snap[m].state]
  /\ index' = [index EXCEPT ![n] = snap[m].index]
  /\ taken' = [taken EXCEPT ![n] = NoSnapshot]
  /\ UNCHANGED <<log, ref, up, kills>>

Kill(n) ==
  /\ up[n]
  /\ kills < MaxKills
  /\ kills' = kills + 1
  /\ up' = [up EXCEPT ![n] = FALSE]
  /\ data' = [data EXCEPT ![n] = EmptyData]
  /\ index' = [index EXCEPT ![n] = 0]
  /\ taken' = [taken EXCEPT ![n] = NoSnapshot]
  /\ UNCHANGED <<log, ref, snap>>

\* NewNode: NewFSM, then the newest snapshot goes through FSM.Restore; the
\* entries after it are replayed by Apply.
Restart(n) ==
  /\ ~up[n]
  /\ up' = [up EXCEPT ![n] = TRUE]
  /\ data' = [data EXCEPT ![n] = snap[n].state]
  /\ index' = [index EXCEPT ![n] = snap[n].index]
  /\ UNCHANGED <<log, ref, taken, snap, kills>>

NodeStep(n) ==
  \/ Apply(n)
  \/ Snapshot(n)
  \/ Persist(n)
  \/ PersistFails(n)
  \/ \E m \in Nodes : Install(n, m)
  \/ Kill(n)
  \/ Restart(n)

Next ==
  \/ \E cmd \in Commands : Commit(cmd)
  \/ \E n \in Nodes : NodeStep(n)

Spec == Init /\ [][Next]_vars

\* A running node executes what is committed, a killed one is started again.
FairSpec ==
  Spec /\ \A n \in Nodes : WF_vars(Apply(n)) /\ WF_vars(Restart(n))

-----------------------------------------------------------------------------
(* Properties                                                              *)

\* Whatever a node went through - snapshots of its own or of others, kills,
\* replay - its map is the one that executing its prefix of the log once and
\* in order gives.
StateAtIndex == \A n \in Nodes : up[n] => data[n] = ref[index[n] + 1]

\* A stored snapshot is the state at the index it is labelled with, although
\* entries were applied while it was written.
SnapshotAtIndex == \A n \in Nodes : snap[n].state = ref[snap[n].index + 1]

\* The harness's replicas-converge check: once commits and kills stop, every
\* node ends up with the same map, without operator action.
Converges == <>[](\A n, m \in Nodes : up[n] /\ data[n] = data[m])
===============================================================================
