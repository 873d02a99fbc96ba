----------------------------- MODULE ReplicaProofs -----------------------------
(***************************************************************************)
(* Every replica's map is the state of its prefix of the log, for any      *)
(* number of nodes, keys, values, entries and kills.                       *)
(*                                                                         *)
(* StateAtIndex is not inductive: Restart and Install copy snapshots, so   *)
(* what is stored must be right as well, and what is stored was taken      *)
(* earlier, so what is being persisted must be right too.  And a snapshot  *)
(* goes through JSON once more: that changes nothing because no state      *)
(* holds a key that JSON would alter.                                      *)
(*                                                                         *)
(* The harness's poll of the replicas (module Convergence) is a client of  *)
(* that: its system is Replica with more variables, and an answer it keeps *)
(* stays a state of the log, because a commit only adds to the log.        *)
(***************************************************************************)
EXTENDS Convergence, KVProofs

\* Maps that survive the trip through a JSON object.
Encodable(d) == \A k \in Malformed : d[k] = Nil

\* A state labelled with the index i is the one the log gives at i.
IsStateAt(d, i) == i \in 0 .. Len(log) /\ d = ref[i + 1]

RefOK ==
  /\ Len(ref) = Len(log) + 1
  /\ ref[1] = EmptyData
  /\ \A i \in 0 .. Len(log) : Encodable(ref[i + 1])
  /\ \A i \in 1 .. Len(log) : ref[i + 1] = ApplyData(ref[i], log[i])

IInv ==
  /\ TypeOK
  /\ RefOK
  /\ \A n \in Nodes : up[n] => IsStateAt(data[n], index[n])
  /\ \A n \in Nodes : IsStateAt(snap[n].state, snap[n].index)
  /\ \A n \in Nodes :
       taken[n] # NoSnapshot => IsStateAt(taken[n].state, taken[n].index)

-----------------------------------------------------------------------------

\* The JSON object written by Persist and read by Restore is the map.
LEMMA JSONDataIdentity ==
  ASSUME NEW d \in Data, Encodable(d)
  PROVE  JSONData(d) = d
<1>. DEFINE from(k) == {j \in Keys : d[j] # Nil /\ JSONString(j) = k}
<1>1. ASSUME NEW k \in Keys
      PROVE  from(k) = IF d[k] = Nil THEN {} ELSE {k}
  BY KVAssumption DEF JSONString, Encodable, Data
<1>2. ASSUME NEW k \in Keys
      PROVE  (IF from(k) = {} THEN Nil ELSE d[CHOOSE j \in from(k) : TRUE]) = d[k]
  <2>1. CASE d[k] = Nil
    BY <1>1, <2>1
  <2>2. CASE d[k] # Nil
    BY <1>1, <2>2
  <2>. QED  BY <2>1, <2>2
<1>3. JSONData(d) = [k \in Keys |-> d[k]]
  BY <1>2 DEF JSONData
<1>. QED
  BY <1>3 DEF Data

\* FSM.Apply of a decoded command stores nothing under a malformed key.
LEMMA ApplyEncodable ==
  ASSUME NEW d \in Data, Encodable(d), NEW cmd \in Command,
         cmd.key \notin Malformed
  PROVE  Encodable(ApplyData(d, cmd))
BY KVAssumption DEF ApplyData, Encodable, Data, Command, Ops

\* NewFSM makes a map, and it survives JSON.
LEMMA EmptyDataType == EmptyData \in Data /\ Encodable(EmptyData)
BY KVAssumption DEF EmptyData, Data, Encodable

-----------------------------------------------------------------------------

\* The inductive invariant holds initially.
LEMMA InitIInv == Init => IInv
<1>. SUFFICES ASSUME Init PROVE IInv
  OBVIOUS
<1>1. TypeOK
  BY EmptyDataType DEF Init, TypeOK, Snapshots
<1>2. Len(log) = 0 /\ Len(ref) = 1 /\ ref[1] = EmptyData
  BY EmptyDataType DEF Init
<1>3. RefOK
  BY <1>2, EmptyDataType DEF RefOK
<1>. QED
  BY <1>1, <1>2, <1>3 DEF Init, IInv, IsStateAt

\* A commit extends the log and its states; what was right stays right.
LEMMA CommitIInv ==
  ASSUME IInv, NEW cmd \in Commands, Commit(cmd)
  PROVE  IInv'
<1>. DEFINE c == Decoded(cmd)
            d == ref[Len(log) + 1]
<1>1. c \in Command /\ c.key \notin Malformed
  BY DecodedType, ReplicaAssumption
<1>2. d \in Data /\ Encodable(d)
  <2>1. /\ Len(log) \in Nat /\ Len(log) \in 0 .. Len(log)
        /\ Len(log) + 1 \in 1 .. Len(ref)
    BY DEF IInv, RefOK, TypeOK
  <2>2. d \in Data
    BY <2>1 DEF IInv, TypeOK
  <2>3. Encodable(d)
    BY <2>1 DEF IInv, RefOK
  <2>. QED  BY <2>2, <2>3
<1>3. ApplyData(d, c) \in Data /\ Encodable(ApplyData(d, c))
  BY <1>1, <1>2, ApplyDataType, ApplyEncodable
<1>. HIDE DEF c
<1>4. /\ log' = Append(log, c)
      /\ ref' = Append(ref, ApplyData(d, c))
      /\ UNCHANGED <<up, data, index, taken, snap, kills>>
  BY DEF Commit, c
<1>. HIDE DEF d
<1>5. TypeOK'
  BY <1>1, <1>3, <1>4 DEF IInv, TypeOK
<1>6. /\ Len(log') = Len(log) + 1
      /\ Len(ref') = Len(ref) + 1
      /\ \A i \in 1 .. Len(log) : log'[i] = log[i]
      /\ \A i \in 1 .. Len(ref) : ref'[i] = ref[i]
      /\ log'[Len(log) + 1] = c
      /\ ref'[Len(ref) + 1] = ApplyData(d, c)
  BY <1>1, <1>3, <1>4 DEF IInv, TypeOK
<1>7. Len(ref) = Len(log) + 1 /\ Len(log) \in Nat
  BY DEF IInv, RefOK, TypeOK
<1>8. RefOK'
  <2>1. ASSUME NEW i \in 0 .. Len(log')
        PROVE  Encodable(ref'[i + 1])
    <3>1. CASE i <= Len(log)
      BY <3>1, <1>6, <1>7 DEF IInv, RefOK
    <3>2. CASE i = Len(log) + 1
      BY <3>2, <1>6, <1>7, <1>3
    <3>. QED  BY <3>1, <3>2, <1>6, <1>7
  <2>2. ASSUME NEW i \in 1 .. Len(log')
        PROVE  ref'[i + 1] = ApplyData(ref'[i], log'[i])
    <3>1. CASE i <= Len(log)
      BY <3>1, <1>6, <1>7 DEF IInv, RefOK
    <3>2. CASE i = Len(log) + 1
      BY <3>2, <1>6, <1>7 DEF d
    <3>. QED  BY <3>1, <3>2, <1>6, <1>7
  <2>3. ref'[1] = EmptyData /\ Len(ref') = Len(log') + 1
    BY <1>6, <1>7 DEF IInv, RefOK
  <2>. QED
    BY <2>1, <2>2, <2>3 DEF RefOK, Encodable
<1>9. ASSUME NEW s, NEW i, IsStateAt(s, i)
      PROVE  i \in 0 .. Len(log') /\ s = ref'[i + 1]
  BY <1>9, <1>6, <1>7 DEF IsStateAt
<1>10. \A s, i : IsStateAt(s, i) => IsStateAt(s, i)'
  BY <1>9 DEF IsStateAt
<1>. QED
  BY <1>4, <1>5, <1>8, <1>10 DEF IInv

\* The steps of one node leave the log alone.
LEMMA NodeStepIInv ==
  ASSUME IInv, NEW n \in Nodes, NodeStep(n)
  PROVE  IInv'
<1>1. UNCHANGED <<log, ref>>
  BY DEF NodeStep, Apply, Snapshot, Persist, PersistFails, Install, Kill, Restart
<1>2. RefOK'
  BY <1>1 DEF IInv, RefOK, Encodable
<1>3. ASSUME NEW s, NEW i, IsStateAt(s, i)
      PROVE  i \in 0 .. Len(log') /\ s = ref'[i + 1]
  BY <1>1, <1>3 DEF IsStateAt
<1>4. CASE Apply(n)
  <2>. DEFINE i == index[n]
  <2>1. /\ i \in 0 .. Len(log) /\ i < Len(log) /\ i \in Nat
        /\ data[n] = ref[i + 1]
    BY <1>4 DEF Apply, IInv, IsStateAt, TypeOK
  <2>2. /\ log[i + 1] \in Command
        /\ ref[i + 2] = ApplyData(ref[i + 1], log[i + 1])
        /\ ref[i + 2] \in Data
    BY <2>1 DEF IInv, TypeOK, RefOK
  <2>. HIDE DEF i
  <2>3. /\ data' = [data EXCEPT ![n] = ref[i + 2]]
        /\ index' = [index EXCEPT ![n] = i + 1]
        /\ UNCHANGED <<up, taken, snap, kills>>
    BY <1>4, <2>1, <2>2 DEF Apply, IInv, TypeOK, i
  <2>4. TypeOK'
    BY <1>1, <2>1, <2>2, <2>3 DEF IInv, TypeOK
  <2>5. IsStateAt(ref[i + 2], i + 1)
    BY <2>1 DEF IsStateAt
  <2>. QED
    BY <1>1, <1>2, <1>3, <2>3, <2>4, <2>5 DEF IInv, IsStateAt, TypeOK
<1>5. CASE Snapshot(n)
  <2>1. TypeOK'
    BY <1>1, <1>5 DEF Snapshot, IInv, TypeOK, Snapshots
  <2>. QED
    BY <1>1, <1>2, <1>5, <2>1 DEF Snapshot, IInv, IsStateAt, TypeOK
<1>6. CASE Persist(n)
  <2>1. /\ taken[n] \in Snapshots
        /\ IsStateAt(taken[n].state, taken[n].index)
    BY <1>6 DEF Persist, IInv, TypeOK
  <2>2. JSONData(taken[n].state) = taken[n].state
    BY <2>1, JSONDataIdentity DEF IsStateAt, IInv, RefOK, Snapshots
  <2>3. /\ snap' = [snap EXCEPT ![n] = taken[n]]
        /\ taken' = [taken EXCEPT ![n] = NoSnapshot]
        /\ UNCHANGED <<up, data, index, kills>>
    BY <1>6, <2>1, <2>2 DEF Persist, Snapshots
  <2>4. TypeOK'
    BY <1>1, <2>1, <2>3 DEF IInv, TypeOK
  <2>. QED
    BY <1>1, <1>2, <2>1, <2>3, <2>4 DEF IInv, IsStateAt, TypeOK
<1>7. CASE PersistFails(n)
  BY <1>1, <1>2, <1>7 DEF PersistFails, IInv, IsStateAt, TypeOK
<1>8. ASSUME NEW m \in Nodes, Install(n, m)
      PROVE  IInv'
  <2>1. TypeOK'
    BY <1>1, <1>8 DEF Install, IInv, TypeOK, Snapshots
  <2>2. /\ TypeOK /\ IsStateAt(snap[m].state, snap[m].index)
        /\ \A s, i : IsStateAt(s, i)' <=> IsStateAt(s, i)
    BY <1>1 DEF IInv, IsStateAt
  <2>3. /\ snap' = [snap EXCEPT ![n] = snap[m]]
        /\ data' = [data EXCEPT ![n] = snap[m].state]
        /\ index' = [index EXCEPT ![n] = snap[m].index]
        /\ taken' = [taken EXCEPT ![n] = NoSnapshot]
        /\ UNCHANGED up
    BY <1>8 DEF Install
  <2>4. ASSUME NEW o \in Nodes
        PROVE  /\ up'[o] => IsStateAt(data'[o], index'[o])
               /\ IsStateAt(snap'[o].state, snap'[o].index)
               /\ taken'[o] # NoSnapshot => IsStateAt(taken'[o].state, taken'[o].index)
    <3>1. CASE o = n
      BY <2>2, <2>3, <3>1 DEF TypeOK
    <3>2. CASE o # n
      BY <2>2, <2>3, <3>2 DEF TypeOK, IInv
    <3>. QED  BY <3>1, <3>2
  <2>. QED
    BY <1>2, <2>1, <2>2, <2>4 DEF IInv
<1>9. CASE Kill(n)
  <2>1. TypeOK'
    BY <1>1, <1>9, EmptyDataType DEF Kill, IInv, TypeOK
  <2>. QED
    BY <1>1, <1>2, <1>9, <2>1 DEF Kill, IInv, IsStateAt, TypeOK
<1>10. CASE Restart(n)
  <2>1. TypeOK'
    BY <1>1, <1>10 DEF Restart, IInv, TypeOK, Snapshots
  <2>. QED
    BY <1>1, <1>2, <1>10, <2>1 DEF Restart, IInv, IsStateAt, TypeOK
<1>. QED
  BY <1>4, <1>5, <1>6, <1>7, <1>8, <1>9, <1>10 DEF NodeStep

\* Every step preserves the inductive invariant.
LEMMA NextIInv == IInv /\ [Next]_vars => IInv'
<1>. SUFFICES ASSUME IInv, [Next]_vars PROVE IInv'
  OBVIOUS
<1>1. CASE Next
  BY <1>1, CommitIInv, NodeStepIInv DEF Next
<1>2. CASE UNCHANGED vars
  BY <1>2 DEF vars, IInv, TypeOK, RefOK, Encodable, IsStateAt
<1>. QED
  BY <1>1, <1>2

-----------------------------------------------------------------------------

\* The inductive invariant holds in every reachable state.
THEOREM ReplicaInvariant == Spec => []IInv
BY InitIInv, NextIInv, PTL DEF Spec

\* Every running replica holds the state of its prefix of the log: snapshots
\* taken and persisted while entries are applied, installed snapshots, kills
\* and replays never show.
THEOREM ReplicaStateAtIndex == Spec => []StateAtIndex
<1>1. IInv => StateAtIndex
  BY DEF IInv, StateAtIndex, IsStateAt
<1>. QED
  BY <1>1, ReplicaInvariant, PTL

\* Every stored snapshot is the state at the index it is labelled with.
THEOREM ReplicaSnapshotAtIndex == Spec => []SnapshotAtIndex
<1>1. IInv => SnapshotAtIndex
  BY DEF IInv, SnapshotAtIndex, IsStateAt
<1>. QED
  BY <1>1, ReplicaInvariant, PTL

\* The variables keep their types.
THEOREM ReplicaTypeOK == Spec => []TypeOK
<1>1. IInv => TypeOK
  BY DEF IInv
<1>. QED
  BY <1>1, ReplicaInvariant, PTL

-----------------------------------------------------------------------------
(* The poll (Convergence)                                                  *)

\* The statistic is between the map and the log: what was handed over is
\* committed, and nothing is executed that was not handed over.
StatisticInv ==
  /\ applied \in [Nodes -> Nat]
  /\ \A n \in Nodes : index[n] <= applied[n] /\ applied[n] <= Len(log)

\* An answer is the log's state at some index, whatever its statistic says.
AnswersInv ==
  /\ states \in Seq([lastApplied : Nat, data : Data])
  /\ Len(states) <= Len(NodeSeq)
  /\ stats = Nil \/ stats \in [lastApplied : Nat]
  /\ \A i \in 1 .. Len(states) : \E j \in 0 .. Len(log) : states[i].data = ref[j + 1]

PollInv ==
  /\ IInv
  /\ StatisticInv
  /\ AnswersInv
  /\ verdict = "PASS" => Len(states) = Len(NodeSeq) /\ Identical

\* What the poll and the statistics add leaves the replicas alone, and a step
\* of the replicas is one of module Replica.
LEMMA CNextIsReplica ==
  ASSUME [CNext]_allVars
  PROVE  [Next]_vars
<1>1. CASE UNCHANGED allVars
  BY <1>1 DEF allVars
<1>2. CASE \E n \in Nodes : HandOver(n) \/ ApplyHanded(n) \/ Reset(n)
  BY <1>2 DEF HandOver, ApplyHanded, Reset, Next, NodeStep
<1>3. CASE Other
  BY <1>3 DEF Other, Next, NodeStep
<1>4. CASE Poll \/ Deadline
  BY <1>4 DEF Poll, Deadline, Unreachable, ReadStats, Dump, Judge
<1>. QED
  BY <1>1, <1>2, <1>3, <1>4 DEF CNext

\* The log and its states only grow, and a node's step leaves them alone.
LEMMA LogGrows ==
  ASSUME IInv, [Next]_vars
  PROVE  /\ Len(log) \in Nat /\ Len(log') \in Nat /\ Len(log) <= Len(log')
         /\ \A j \in 0 .. Len(log) : ref'[j + 1] = ref[j + 1]
<1>1. CASE \E cmd \in Commands : Commit(cmd)
  <2>1. PICK cmd \in Commands : Commit(cmd)
    BY <1>1
  <2>2. /\ log' = Append(log, Decoded(cmd))
        /\ ref' = Append(ref, ApplyData(ref[Len(log) + 1], Decoded(cmd)))
    BY <2>1 DEF Commit
  <2>3. log \in Seq(Command) /\ ref \in Seq(Data) /\ Len(ref) = Len(log) + 1
    BY DEF IInv, TypeOK, RefOK
  <2>. QED
    BY <2>2, <2>3
<1>2. CASE UNCHANGED <<log, ref>>
  BY <1>2 DEF IInv, TypeOK
<1>3. ASSUME NEW n \in Nodes, NodeStep(n)
      PROVE  UNCHANGED <<log, ref>>
  BY <1>3 DEF NodeStep, Apply, Snapshot, Persist, PersistFails, Install, Kill, Restart
<1>. QED
  BY <1>1, <1>2, <1>3 DEF Next, vars

\* The statistic stays between the map and the log.
LEMMA StatisticStep ==
  ASSUME PollInv, [CNext]_allVars, IInv'
  PROVE  StatisticInv'
<1>. USE DEF StatisticInv
<1>1. /\ applied \in [Nodes -> Nat] /\ index \in [Nodes -> Nat] /\ index' \in [Nodes -> Nat]
      /\ \A n \in Nodes : index[n] <= applied[n] /\ applied[n] <= Len(log)
  BY DEF PollInv, IInv, TypeOK
<1>2. Len(log) \in Nat /\ Len(log') \in Nat /\ Len(log) <= Len(log')
  BY CNextIsReplica, LogGrows DEF PollInv
<1>3. \A n \in Nodes : index'[n] <= Len(log')
  <2>1. ASSUME NEW n \in Nodes
        PROVE  up'[n] => index'[n] <= Len(log')
    BY <1>2 DEF IInv, IsStateAt
  <2>2. ASSUME NEW n \in Nodes, ~up'[n]
        PROVE  index'[n] <= Len(log')
    <3>1. CASE index'[n] = index[n]
      BY <3>1, <1>1, <1>2
    <3>2. CASE index'[n] # index[n]
      <4>1. [Next]_vars
        BY CNextIsReplica
      <4>2. PICK m \in Nodes : NodeStep(m)
        BY <4>1, <3>2 DEF Next, vars, Commit
      <4>3. CASE Kill(m)
        BY <4>3, <3>2, <1>1, <1>2 DEF Kill
      <4>4. CASE ~Kill(m)
        <5>1. m = n /\ (Apply(n) \/ Restart(n) \/ \E o \in Nodes : Install(n, o))
          BY <4>2, <4>4, <3>2, <1>1
             DEF NodeStep, Apply, Snapshot, Persist, PersistFails, Install, Restart
        <5>. QED
          BY <5>1, <2>2 DEF Apply, Restart, Install, PollInv, IInv, TypeOK
      <4>. QED  BY <4>3, <4>4
    <3>. QED  BY <3>1, <3>2
  <2>. QED  BY <2>1, <2>2
<1>4. ASSUME NEW n \in Nodes, HandOver(n)
      PROVE  StatisticInv'
  BY <1>4, <1>1, <1>2 DEF HandOver, vars
<1>5. ASSUME NEW n \in Nodes, ApplyHanded(n)
      PROVE  StatisticInv'
  BY <1>5, <1>1, <1>2 DEF ApplyHanded, Apply
<1>6. ASSUME NEW n \in Nodes, Reset(n)
      PROVE  StatisticInv'
  <2>1. /\ applied' = [applied EXCEPT ![n] = index'[n]]
        /\ \A m \in Nodes : m # n => index'[m] = index[m]
    BY <1>6, <1>1 DEF Reset, Kill, Restart, Install
  <2>2. applied' \in [Nodes -> Nat]
    BY <2>1, <1>1
  <2>3. ASSUME NEW m \in Nodes
        PROVE  index'[m] <= applied'[m] /\ applied'[m] <= Len(log')
    <3>1. CASE m = n
      BY <3>1, <2>1, <1>1, <1>3
    <3>2. CASE m # n
      BY <3>2, <2>1, <1>1, <1>2
    <3>. QED  BY <3>1, <3>2
  <2>. QED  BY <2>2, <2>3
<1>7. CASE Other
  BY <1>7, <1>1, <1>2 DEF Other, Commit, Snapshot, Persist, PersistFails
<1>8. CASE Poll \/ Deadline \/ UNCHANGED allVars
  BY <1>8, <1>1
     DEF Poll, Deadline, Unreachable, ReadStats, Dump, Judge, allVars, vars
<1>. QED
  BY <1>4, <1>5, <1>6, <1>7, <1>8 DEF CNext

\* What was answered stays a state of the log, what is answered is one.
LEMMA AnswersStep ==
  ASSUME PollInv, [CNext]_allVars
  PROVE  /\ AnswersInv'
         /\ verdict' = "PASS" => Len(states') = Len(NodeSeq) /\ Identical'
<1>. DEFINE Is(d) == \E j \in 0 .. Len(log) : d = ref[j + 1]
<1>1. /\ states \in Seq([lastApplied : Nat, data : Data])
      /\ Len(states) <= Len(NodeSeq)
      /\ stats = Nil \/ stats \in [lastApplied : Nat]
      /\ \A i \in 1 .. Len(states) : Is(states[i].data)
      /\ verdict = "PASS" => Len(states) = Len(NodeSeq) /\ Identical
  BY DEF PollInv, AnswersInv
<1>2. ASSUME NEW d, Is(d)
      PROVE  \E j \in 0 .. Len(log') : d = ref'[j + 1]
  <2>1. /\ Len(log) \in Nat /\ Len(log') \in Nat /\ Len(log) <= Len(log')
        /\ \A j \in 0 .. Len(log) : ref'[j + 1] = ref[j + 1]
    BY CNextIsReplica, LogGrows DEF PollInv
  <2>. QED  BY <2>1, <1>2
<1>. HIDE DEF Is
<1>3. CASE UNCHANGED pollVars
  BY <1>1, <1>2, <1>3 DEF pollVars, AnswersInv, Identical
<1>4. CASE states' = <<>> /\ stats' = Nil /\ verdict' # "PASS"
  <2>1. /\ states' \in Seq([lastApplied : Nat, data : Data])
        /\ Len(states') = 0 /\ Len(states') <= Len(NodeSeq)
    BY <1>4, ConvergenceAssumption
  <2>. QED
    BY <1>4, <2>1 DEF AnswersInv
<1>5. CASE Unreachable
  BY <1>5, <1>4 DEF Unreachable, Again, Asking
<1>6. CASE ReadStats
  <2>1. Asked \in Nodes /\ applied[Asked] \in Nat
    BY <1>1, <1>6, ConvergenceAssumption DEF ReadStats, Asking, Asked, PollInv, StatisticInv
  <2>. QED
    BY <2>1, <1>1, <1>2, <1>6 DEF ReadStats, AnswersInv, Identical, Asking
<1>7. CASE Dump
  <2>. DEFINE a == State(stats.lastApplied, data[Asked])
  <2>1. /\ Len(states) < Len(NodeSeq) /\ up[Asked] /\ stats # Nil
        /\ states' = Append(states, a) /\ stats' = Nil /\ verdict' # "PASS"
        /\ UNCHANGED vars
    BY <1>7 DEF Dump, Asking
  <2>2. Asked \in Nodes
    BY <1>1, <2>1, ConvergenceAssumption DEF Asked
  <2>3. a \in [lastApplied : Nat, data : Data] /\ Is(a.data)
    BY <1>1, <2>1, <2>2 DEF State, PollInv, IInv, TypeOK, IsStateAt, Is
  <2>. HIDE DEF a
  <2>4. /\ states' \in Seq([lastApplied : Nat, data : Data])
        /\ Len(states') = Len(states) + 1
        /\ \A i \in 1 .. Len(states) : states'[i] = states[i]
        /\ states'[Len(states) + 1] = a
    BY <1>1, <2>1, <2>3
  <2>5. Len(states') <= Len(NodeSeq)
    BY <1>1, <2>1, <2>4, ConvergenceAssumption
  <2>6. ASSUME NEW i \in 1 .. Len(states')
        PROVE  Is(states'[i].data)
    <3>1. CASE i = Len(states) + 1
      BY <3>1, <2>3, <2>4
    <3>2. CASE i # Len(states) + 1
      <4>1. Len(states) \in Nat
        BY <1>1
      <4>2. i \in 1 .. Len(states) /\ states'[i] = states[i]
        BY <3>2, <4>1, <2>4
      <4>. QED  BY <1>1, <4>2
    <3>. QED  BY <3>1, <3>2
  <2>. QED
    BY <1>2, <2>1, <2>4, <2>5, <2>6 DEF AnswersInv
<1>8. CASE Judge
  <2>1. CASE Identical /\ verdict' = "PASS" /\ UNCHANGED <<stats, states>>
    BY <1>1, <1>2, <1>8, <2>1 DEF Judge, AnswersInv, Identical
  <2>2. CASE ~Identical /\ Again /\ UNCHANGED verdict
    BY <1>8, <2>2, <1>4 DEF Judge, Again
  <2>. QED
    BY <1>8, <2>1, <2>2 DEF Judge
<1>9. CASE Deadline
  BY <1>1, <1>2, <1>9 DEF Deadline, AnswersInv
<1>10. ASSUME NEW n \in Nodes, Reset(n)
      PROVE  \/ UNCHANGED pollVars
             \/ states' = <<>> /\ stats' = Nil /\ verdict' # "PASS"
  BY <1>10 DEF Reset, Interrupted, Asking, Again, pollVars
<1>. QED
  BY <1>3, <1>5, <1>6, <1>7, <1>8, <1>9, <1>10, <1>4
     DEF CNext, HandOver, ApplyHanded, Other, Poll, allVars

\* The invariant of the poll holds in every reachable state.
THEOREM ConvergenceInvariant == CSpec => []PollInv
<1>1. CInit => PollInv
  <2>. SUFFICES ASSUME CInit PROVE PollInv
    OBVIOUS
  <2>1. IInv
    BY InitIInv DEF CInit
  <2>2. StatisticInv
    BY DEF CInit, Init, StatisticInv
  <2>3. Len(states) = 0 /\ states \in Seq([lastApplied : Nat, data : Data])
    BY DEF CInit
  <2>. QED
    BY <2>1, <2>2, <2>3, ConvergenceAssumption DEF CInit, PollInv, AnswersInv
<1>2. PollInv /\ [CNext]_allVars => PollInv'
  <2>. SUFFICES ASSUME PollInv, [CNext]_allVars PROVE PollInv'
    OBVIOUS
  <2>1. IInv'
    BY CNextIsReplica, NextIInv DEF PollInv
  <2>. QED
    BY <2>1, StatisticStep, AnswersStep DEF PollInv
<1>. QED
  BY <1>1, <1>2, PTL DEF CSpec

\* The poll and the statistics change nothing for the replicas: what is proved
\* of Replica holds while the harness asks.
THEOREM ConvergenceIsReplica == CSpec => Spec
<1>1. CInit => Init
  BY DEF CInit
<1>2. [CNext]_allVars => [Next]_vars
  BY CNextIsReplica
<1>. QED
  BY <1>1, <1>2, PTL DEF CSpec, Spec

\* When replicas-converge passes, all nodes have shown the state of the log at
\* one index, although they were asked one after another and compared by a
\* statistic that runs ahead of the map.
THEOREM ConvergenceIdenticalCommittedState == CSpec => []IdenticalCommittedState
<1>1. PollInv => IdenticalCommittedState
  <2>. SUFFICES ASSUME PollInv, verdict = "PASS" PROVE
         /\ DOMAIN states = DOMAIN NodeSeq
         /\ \E j \in 0 .. Len(log) : \A i \in DOMAIN states : states[i].data = ref[j + 1]
    BY DEF IdenticalCommittedState
  <2>1. /\ Len(states) = Len(NodeSeq) /\ Len(states) \in Nat
        /\ DOMAIN states = 1 .. Len(states)
        /\ \A i \in 1 .. Len(states) : states[i] = states[1]
        /\ \A i \in 1 .. Len(states) :
             \E j \in 0 .. Len(log) : states[i].data = ref[j + 1]
    BY DEF PollInv, AnswersInv, Identical
  <2>2. DOMAIN states = DOMAIN NodeSeq
    BY <2>1, ConvergenceAssumption
  <2>3. CASE Len(states) = 0
    BY <2>1, <2>2, <2>3 DEF PollInv, IInv, TypeOK
  <2>4. CASE Len(states) # 0
    <3>1. PICK j \in 0 .. Len(log) : states[1].data = ref[j + 1]
      BY <2>1, <2>4
    <3>. QED
      BY <2>1, <2>2, <3>1
  <2>. QED  BY <2>3, <2>4
<1>. QED
  BY <1>1, ConvergenceInvariant, PTL
===============================================================================
