----------------------------- MODULE FaultsProofs -----------------------------
(***************************************************************************)
(* The fault injector does what its phases rely on, for any number of      *)
(* nodes, rounds, probes and faults, and whatever leaders the cluster      *)
(* elects between two docker commands.                                     *)
(***************************************************************************)
EXTENDS Faults, FiniteSetTheorems, SequenceTheorems, TLAPS

-----------------------------------------------------------------------------
(* Sequences                                                               *)

\* A slice of a sequence.
LEMMA SubSeqElements ==
  ASSUME NEW S, NEW s \in Seq(S), NEW m \in 1 .. Len(s) + 1, NEW n \in m - 1 .. Len(s)
  PROVE  /\ SubSeq(s, m, n) \in Seq(S) /\ Len(SubSeq(s, m, n)) = n - m + 1
         /\ \A i \in m .. n : SubSeq(s, m, n)[i - m + 1] = s[i]
<1>1. SubSeq(s, m, n) \in Seq(S) /\ Len(SubSeq(s, m, n)) = n - m + 1
  OBVIOUS
<1>2. \A i \in m .. n : SubSeq(s, m, n)[i - m + 1] = s[i]
  OBVIOUS
<1>. QED  BY <1>1, <1>2

\* RemoveAt keeps every element but one.
LEMMA RemoveAtElements ==
  ASSUME NEW S, NEW s \in Seq(S), NEW k \in 1 .. Len(s)
  PROVE  /\ RemoveAt(s, k) \in Seq(S)
         /\ \A i \in 1 .. Len(s) : i # k =>
              \E p \in 1 .. Len(RemoveAt(s, k)) : RemoveAt(s, k)[p] = s[i]
<1>1. PICK b : b = SubSeq(s, 1, k - 1)
  OBVIOUS
<1>2. PICK a : a = SubSeq(s, k + 1, Len(s))
  OBVIOUS
<1>3. /\ b \in Seq(S) /\ Len(b) = k - 1
      /\ \A i \in 1 .. k - 1 : b[i] = s[i]
  <2>1. \A i \in 1 .. k - 1 : i - 1 + 1 = i
    OBVIOUS
  <2>. QED  BY <1>1, <2>1, SubSeqElements
<1>4. /\ a \in Seq(S) /\ Len(a) = Len(s) - k
      /\ \A i \in k + 1 .. Len(s) : a[i - k] = s[i]
  <2>1. \A i \in k + 1 .. Len(s) : i - (k + 1) + 1 = i - k
    OBVIOUS
  <2>2. k + 1 \in 1 .. Len(s) + 1 /\ Len(s) \in (k + 1) - 1 .. Len(s)
    OBVIOUS
  <2>3. Len(s) - (k + 1) + 1 = Len(s) - k
    OBVIOUS
  <2>4. PICK m : m = k + 1
    OBVIOUS
  <2>5. a = SubSeq(s, m, Len(s)) /\ m \in 1 .. Len(s) + 1 /\ Len(s) \in m - 1 .. Len(s)
    BY <1>2, <2>2, <2>4
  <2>6. /\ a \in Seq(S) /\ Len(a) = Len(s) - m + 1
        /\ \A i \in m .. Len(s) : a[i - m + 1] = s[i]
    BY <2>5, SubSeqElements
  <2>. QED  BY <2>1, <2>3, <2>4, <2>6
<1>5. PICK r : r = RemoveAt(s, k)
  OBVIOUS
<1>6. /\ r \in Seq(S) /\ Len(r) = Len(b) + Len(a)
      /\ \A i \in 1 .. Len(b) : r[i] = b[i]
      /\ \A i \in 1 .. Len(a) : r[Len(b) + i] = a[i]
  <2>1. r = b \o a
    BY <1>1, <1>2, <1>5 DEF RemoveAt
  <2>2. b \in Seq(S) /\ a \in Seq(S)
    BY <1>3, <1>4
  <2>3. /\ b \o a \in Seq(S) /\ Len(b \o a) = Len(b) + Len(a)
        /\ \A i \in 1 .. Len(b) : (b \o a)[i] = b[i]
        /\ \A i \in 1 .. Len(a) : (b \o a)[Len(b) + i] = a[i]
    <3>1. b \o a \in Seq(S) /\ Len(b \o a) = Len(b) + Len(a)
      BY <2>2
    <3>2. \A i \in 1 .. Len(b) : (b \o a)[i] = b[i]
      BY <2>2
    <3>3. \A i \in 1 .. Len(a) : (b \o a)[Len(b) + i] = a[i]
      BY <2>2
    <3>. QED  BY <3>1, <3>2, <3>3
  <2>. QED  BY <2>1, <2>3
<1>7. ASSUME NEW i \in 1 .. Len(s), i # k PROVE \E p \in 1 .. Len(r) : r[p] = s[i]
  <2>1. CASE i < k
    <3>1. i \in 1 .. Len(b) /\ i \in 1 .. Len(r)
      BY <1>3, <1>4, <1>6, <2>1
    <3>. QED  BY <1>3, <1>6, <3>1
  <2>2. CASE i > k
    <3>1. i - k \in 1 .. Len(a) /\ Len(b) + (i - k) \in 1 .. Len(r)
      BY <1>3, <1>4, <1>6, <2>2
    <3>2. r[Len(b) + (i - k)] = a[i - k]
      BY <1>6, <3>1
    <3>3. a[i - k] = s[i]
      BY <1>4, <2>2
    <3>. QED  BY <3>1, <3>2, <3>3
  <2>. QED  BY <1>7, <2>1, <2>2
<1>. QED  BY <1>5, <1>6, <1>7

-----------------------------------------------------------------------------
(* What the injector's loops run                                           *)

Drops == [do : {"drop"}, on : Nodes, chain : Chains, peer : Nodes]

Flushes == [do : {"flush"}, on : Nodes, chain : Chains, peer : Nodes]

Simple(do) == [do : {do}, on : Nodes]

Commands == Simple("kill") \cup Simple("start") \cup Simple("ask") \cup Drops \cup Flushes

In(c, s) == \E i \in DOMAIN s : s[i] = c

Pending(c) == In(c, todo)

\* The other nodes: Isolate's loop with its continue.
LEMMA PeersPlan ==
  ASSUME NEW n \in Nodes
  PROVE  /\ Peers(n) \in Seq(Nodes)
         /\ \A m \in Nodes \ {n} : \E p \in 1 .. Len(Peers(n)) : Peers(n)[p] = m
<1>1. /\ NodeSeq \in Seq(Nodes) /\ DOMAIN NodeSeq = 1 .. Len(NodeSeq)
      /\ \A m \in Nodes : \E i \in DOMAIN NodeSeq : NodeSeq[i] = m
  BY FaultsAssumption DEF ToSet
<1>2. PICK at \in 1 .. Len(NodeSeq) : NodeSeq[at] = n /\ Peers(n) = RemoveAt(NodeSeq, at)
  BY <1>1 DEF Peers
<1>3. /\ Peers(n) \in Seq(Nodes)
      /\ \A i \in 1 .. Len(NodeSeq) : i # at =>
           \E p \in 1 .. Len(Peers(n)) : Peers(n)[p] = NodeSeq[i]
  <2>1. PICK r : r = RemoveAt(NodeSeq, at)
    OBVIOUS
  <2>2. /\ r \in Seq(Nodes)
        /\ \A i \in 1 .. Len(NodeSeq) : i # at => \E p \in 1 .. Len(r) : r[p] = NodeSeq[i]
    BY <1>1, <2>1, RemoveAtElements
  <2>. QED  BY <1>2, <2>1, <2>2
<1>4. ASSUME NEW m \in Nodes \ {n} PROVE \E p \in 1 .. Len(Peers(n)) : Peers(n)[p] = m
  <2>1. PICK i \in 1 .. Len(NodeSeq) : NodeSeq[i] = m
    BY <1>1
  <2>2. i # at
    BY <1>2, <2>1
  <2>. QED  BY <1>3, <2>1, <2>2
<1>. QED  BY <1>3, <1>4

\* Isolate runs all four commands of every pair, and only those.
LEMMA IsolatePlan ==
  ASSUME NEW n \in Nodes
  PROVE  /\ Isolate(n) \in Seq(Drops)
         /\ \A i \in DOMAIN Isolate(n) : Isolate(n)[i].on = n \/ Isolate(n)[i].peer = n
         /\ \A m \in Nodes \ {n}, q \in 1 .. 4 :
              \E i \in DOMAIN Isolate(n) : Isolate(n)[i] = Cut(n, m)[q]
<1>. DEFINE ps == Peers(n)
<1>1. Isolate(n) = [i \in 1 .. 4 * Len(ps) |-> Cut(n, ps[1 + (i - 1) \div 4])[1 + ((i - 1) % 4)]]
  BY DEF Isolate, PerNode
<1>2. ps \in Seq(Nodes) /\ Len(ps) \in Nat
      /\ \A m \in Nodes \ {n} : \E p \in 1 .. Len(ps) : ps[p] = m
  BY PeersPlan
<1>. HIDE DEF ps
<1>3. ASSUME NEW m \in Nodes, NEW q \in 1 .. 4
      PROVE  /\ Cut(n, m)[q] \in Drops
             /\ Cut(n, m)[q].on = n \/ Cut(n, m)[q].peer = n
  <2>1. q = 1 \/ q = 2 \/ q = 3 \/ q = 4
    OBVIOUS
  <2>. QED  BY <2>1 DEF Cut, RuleCmd, Drops, Chains
<1>4. ASSUME NEW i \in 1 .. 4 * Len(ps)
      PROVE  1 + (i - 1) \div 4 \in 1 .. Len(ps) /\ 1 + ((i - 1) % 4) \in 1 .. 4
  BY <1>2
<1>5. \A i \in 1 .. 4 * Len(ps) :
        /\ Isolate(n)[i] \in Drops
        /\ Isolate(n)[i].on = n \/ Isolate(n)[i].peer = n
  BY <1>1, <1>2, <1>3, <1>4
<1>6. ASSUME NEW m \in Nodes \ {n}, NEW q \in 1 .. 4
      PROVE  \E i \in 1 .. 4 * Len(ps) : Isolate(n)[i] = Cut(n, m)[q]
  <2>1. PICK p \in 1 .. Len(ps) : ps[p] = m
    BY <1>2
  <2>2. PICK i : i = 4 * (p - 1) + q
    OBVIOUS
  <2>3. i \in 1 .. 4 * Len(ps) /\ 1 + (i - 1) \div 4 = p /\ 1 + ((i - 1) % 4) = q
    <3>1. q = 1 \/ q = 2 \/ q = 3 \/ q = 4
      OBVIOUS
    <3>2. p \in Nat /\ 1 <= p /\ p <= Len(ps)
      BY <1>2
    <3>3. (i - 1) \div 4 = p - 1 /\ (i - 1) % 4 = q - 1
      BY <2>2, <3>1, <3>2
    <3>4. i \in 1 .. 4 * Len(ps)
      BY <1>2, <2>2, <3>1, <3>2
    <3>. QED  BY <3>1, <3>2, <3>3, <3>4
  <2>. QED  BY <1>1, <2>1, <2>3
<1>7. 4 * Len(ps) \in Nat /\ DOMAIN Isolate(n) = 1 .. 4 * Len(ps)
  BY <1>1, <1>2
<1>8. Isolate(n) \in [1 .. 4 * Len(ps) -> Drops]
  BY <1>1, <1>5
<1>9. Isolate(n) \in Seq(Drops)
  BY <1>7, <1>8, SeqDef
<1>. QED  BY <1>5, <1>6, <1>7, <1>9

\* HealAll starts every node and flushes every chain, and does nothing else.
LEMMA HealAllPlan ==
  /\ HealAll \in Seq(Simple("start") \cup Flushes)
  /\ \A n \in Nodes : \E i \in DOMAIN HealAll : HealAll[i] = Start(n)
  /\ \A n \in Nodes, chain \in Chains :
       \E i \in DOMAIN HealAll : HealAll[i] = Flush(n, chain)
<1>1. HealAll = [i \in 1 .. 3 * Len(NodeSeq) |->
                   Heal(NodeSeq[1 + (i - 1) \div 3])[1 + ((i - 1) % 3)]]
  BY DEF HealAll, PerNode
<1>2. /\ NodeSeq \in Seq(Nodes) /\ Len(NodeSeq) \in Nat
      /\ \A n \in Nodes : \E p \in 1 .. Len(NodeSeq) : NodeSeq[p] = n
  BY FaultsAssumption DEF ToSet
<1>3. ASSUME NEW n \in Nodes
      PROVE  /\ Heal(n)[1] = Start(n)
             /\ Heal(n)[2] = Flush(n, "INPUT") /\ Heal(n)[3] = Flush(n, "OUTPUT")
  BY DEF Heal
<1>4. ASSUME NEW n \in Nodes, NEW q \in 1 .. 3
      PROVE  Heal(n)[q] \in Simple("start") \cup Flushes
  <2>1. q = 1 \/ q = 2 \/ q = 3
    OBVIOUS
  <2>2. Start(n) \in Simple("start")
    BY DEF Start, Cmd, Simple
  <2>3. Flush(n, "INPUT") \in Flushes /\ Flush(n, "OUTPUT") \in Flushes
    BY DEF Flush, RuleCmd, Flushes, Chains
  <2>. QED  BY <1>3, <2>1, <2>2, <2>3
<1>5. ASSUME NEW i \in 1 .. 3 * Len(NodeSeq)
      PROVE  1 + (i - 1) \div 3 \in 1 .. Len(NodeSeq) /\ 1 + ((i - 1) % 3) \in 1 .. 3
  BY <1>2
<1>6. HealAll \in Seq(Simple("start") \cup Flushes)
  <2>1. 3 * Len(NodeSeq) \in Nat
    BY <1>2
  <2>2. ASSUME NEW i \in 1 .. 3 * Len(NodeSeq)
        PROVE  HealAll[i] \in Simple("start") \cup Flushes
    <3>1. PICK p \in 1 .. Len(NodeSeq), q \in 1 .. 3 : HealAll[i] = Heal(NodeSeq[p])[q]
      BY <1>1, <1>5
    <3>2. NodeSeq[p] \in Nodes
      BY <1>2
    <3>. QED  BY <1>4, <3>1, <3>2
  <2>3. HealAll \in [1 .. 3 * Len(NodeSeq) -> Simple("start") \cup Flushes]
    BY <1>1, <2>2
  <2>. QED  BY <2>1, <2>3, SeqDef
<1>7. ASSUME NEW n \in Nodes, NEW q \in 1 .. 3
      PROVE  \E i \in DOMAIN HealAll : HealAll[i] = Heal(n)[q]
  <2>1. PICK p \in 1 .. Len(NodeSeq) : NodeSeq[p] = n
    BY <1>2
  <2>2. PICK i : i = 3 * (p - 1) + q
    OBVIOUS
  <2>3. i \in 1 .. 3 * Len(NodeSeq) /\ 1 + (i - 1) \div 3 = p /\ 1 + ((i - 1) % 3) = q
    <3>1. q = 1 \/ q = 2 \/ q = 3
      OBVIOUS
    <3>2. p \in Nat /\ 1 <= p /\ p <= Len(NodeSeq)
      BY <1>2
    <3>3. (i - 1) \div 3 = p - 1 /\ (i - 1) % 3 = q - 1
      BY <2>2, <3>1, <3>2
    <3>4. i \in 1 .. 3 * Len(NodeSeq)
      <4>1. PICK len : len = Len(NodeSeq)
        OBVIOUS
      <4>2. len \in Nat /\ p <= len
        BY <1>2, <3>2, <4>1
      <4>3. 3 * (p - 1) + q \in 1 .. 3 * len
        BY <3>1, <3>2, <4>2
      <4>. QED  BY <2>2, <4>1, <4>3
    <3>. QED  BY <3>1, <3>2, <3>3, <3>4
  <2>. QED  BY <1>1, <2>1, <2>3
<1>8. \A n \in Nodes : \E i \in DOMAIN HealAll : HealAll[i] = Start(n)
  <2>1. 1 \in 1 .. 3
    OBVIOUS
  <2>. QED  BY <1>3, <1>7, <2>1
<1>9. ASSUME NEW n \in Nodes, NEW chain \in Chains
      PROVE  \E i \in DOMAIN HealAll : HealAll[i] = Flush(n, chain)
  BY <1>3, <1>7 DEF Chains
<1>. QED  BY <1>6, <1>8, <1>9

\* LeaderID asks every node.
LEMMA LeaderIDPlan == LeaderID \in Seq(Simple("ask"))
<1>1. LeaderID = [i \in 1 .. 1 * Len(NodeSeq) |->
                    <<Cmd("ask", NodeSeq[1 + (i - 1) \div 1])>>[1 + ((i - 1) % 1)]]
  BY DEF LeaderID, PerNode
<1>2. NodeSeq \in Seq(Nodes) /\ Len(NodeSeq) \in Nat
  BY FaultsAssumption
<1>3. ASSUME NEW i \in 1 .. Len(NodeSeq)
      PROVE  1 + (i - 1) \div 1 \in 1 .. Len(NodeSeq) /\ 1 + ((i - 1) % 1) = 1
  BY <1>2
<1>4. 1 * Len(NodeSeq) = Len(NodeSeq)
  BY <1>2
<1>5. \A n \in Nodes : <<Cmd("ask", n)>>[1] \in Simple("ask")
  BY DEF Cmd, Simple
<1>6. \A i \in 1 .. Len(NodeSeq) : LeaderID[i] \in Simple("ask")
  BY <1>1, <1>2, <1>3, <1>4, <1>5
<1>7. LeaderID \in [1 .. Len(NodeSeq) -> Simple("ask")]
  BY <1>1, <1>4, <1>6
<1>. QED  BY <1>2, <1>7, SeqDef

-----------------------------------------------------------------------------
(* The invariants                                                          *)

\* TypeOK, what the plans are made of, and how many probes can be acked.
BasicInv ==
  /\ RaftTypeOK
  /\ rules \subseteq Nodes \X Chains \X Nodes
  /\ todo \in Seq(Commands)
  /\ deferred \in Seq(Simple("start"))
  /\ stage \in {"durable", "minority", "probe", "chaos", "done"}
  /\ count \in Nat /\ failures \in 0 .. MaxFailures
  /\ leaderID \in Nodes \cup {NoNode} /\ target \in Nodes \cup {NoNode}
  /\ acked \in 0 .. Probes
  /\ stage \in {"durable", "minority"} => acked = 0
  /\ stage = "probe" => target \in Nodes /\ acked <= count /\ count <= Probes

InForce(c) == <<c.on, c.chain, c.peer>> \in rules

\* A command of Isolate that has been run without effect.
Gap(c) == IF Pending(c) \/ InForce(c) THEN 0 ELSE 1

\* Of the four commands that cut a link each takes a failure of its own to get
\* lost, or a container that does not run and stays down meanwhile.
Covered(n, m) ==
  Gap(Cut(n, m)[1]) + Gap(Cut(n, m)[2]) + Gap(Cut(n, m)[3]) + Gap(Cut(n, m)[4]) <= failures

CutInv ==
  /\ acked = 0
  /\ stage = "probe" =>
       /\ \A i \in DOMAIN todo : todo[i] \in Drops
       /\ \A m \in Nodes \ {target} : up[m] /\ up[target] => Covered(target, m)

\* A plan that starts again what it kills and flushes what it drops.
MendsItself(s) ==
  /\ \A i \in DOMAIN s : s[i].do = "kill" =>
       \E j \in DOMAIN s : j > i /\ s[j] = Start(s[i].on)
  /\ \A i \in DOMAIN s : s[i].do = "drop" =>
       \E j \in DOMAIN s : j > i /\ s[j] = Flush(s[i].on, s[i].chain)

\* A plan whose kills and partitions hit one node.
AimsAt(v, s) ==
  \A i \in DOMAIN s : /\ s[i].do = "kill" => s[i].on = v
                      /\ s[i].do = "drop" => (s[i].on = v \/ s[i].peer = v)

\* What is broken, and what the commands to come break, is one node.
OneVictim(v) ==
  /\ \A n \in Nodes : n = v \/ up[n]
  /\ \A r \in rules : r[1] = v \/ r[3] = v
  /\ AimsAt(v, todo)

\* Whatever is broken now or by the commands to come is repaired by them, the
\* partition that is being probed excepted.
Repaired ==
  /\ \A n \in Nodes : up[n] \/ Pending(Start(n))
  /\ \A r \in rules : up[r[1]]
  /\ stage = "probe" => \A i \in DOMAIN todo : todo[i] \in Drops
  /\ stage # "probe" => /\ \A r \in rules : Pending(Flush(r[1], r[2]))
                        /\ MendsItself(todo)

RepairInv == failures = 0 => Repaired /\ \E v \in Nodes : OneVictim(v)

-----------------------------------------------------------------------------
(* Types                                                                   *)

\* The loops are sequences of commands.
LEMMA PlanTypes ==
  /\ HealAll \in Seq(Commands) /\ LeaderID \in Seq(Commands)
  /\ \A n \in Nodes : /\ Isolate(n) \in Seq(Commands)
                      /\ Kill(n) \in Commands /\ Start(n) \in Simple("start")
<1>1. \A S, T : S \subseteq T => \A s \in Seq(S) : s \in Seq(T)
  BY SeqMonotonic
<1>2. HealAll \in Seq(Commands)
  BY <1>1, HealAllPlan DEF Commands
<1>3. LeaderID \in Seq(Commands)
  BY <1>1, LeaderIDPlan DEF Commands
<1>4. ASSUME NEW n \in Nodes PROVE Isolate(n) \in Seq(Commands)
  <2>1. Drops \subseteq Commands
    BY DEF Commands
  <2>2. Isolate(n) \in Seq(Drops)
    BY IsolatePlan
  <2>. QED  BY <1>1, <2>1, <2>2
<1>5. ASSUME NEW n \in Nodes PROVE Kill(n) \in Simple("kill") /\ Start(n) \in Simple("start")
  BY DEF Kill, Start, Cmd, Simple
<1>. QED  BY <1>2, <1>3, <1>4, <1>5 DEF Commands

\* Reverse keeps the elements.
LEMMA ReverseType ==
  ASSUME NEW S, NEW s \in Seq(S)
  PROVE  Reverse(s) \in Seq(S)
<1>1. Len(s) \in Nat /\ Reverse(s) = [i \in 1 .. Len(s) |-> s[(Len(s) - i) + 1]]
  BY DEF Reverse
<1>2. \A i \in 1 .. Len(s) : (Len(s) - i) + 1 \in 1 .. Len(s)
  BY <1>1
<1>3. Reverse(s) \in [1 .. Len(s) -> S]
  BY <1>1, <1>2
<1>. QED  BY <1>1, <1>3, SeqDef

\* What is left after one command.
LEMMA TailElements ==
  ASSUME NEW s \in Seq(Commands), s # <<>>
  PROVE  /\ Head(s) \in Commands /\ Tail(s) \in Seq(Commands)
         /\ DOMAIN s = 1 .. Len(s) /\ Len(s) \in Nat \ {0}
         /\ DOMAIN Tail(s) = 1 .. Len(s) - 1
         /\ Head(s) = s[1]
         /\ \A i \in 1 .. Len(s) - 1 : Tail(s)[i] = s[i + 1]
<1>1. Head(s) \in Commands /\ Tail(s) \in Seq(Commands) /\ Head(s) = s[1]
  OBVIOUS
<1>2. DOMAIN s = 1 .. Len(s) /\ Len(s) \in Nat \ {0}
  OBVIOUS
<1>3. DOMAIN Tail(s) = 1 .. Len(s) - 1
  OBVIOUS
<1>4. \A i \in 1 .. Len(s) - 1 : Tail(s)[i] = s[i + 1]
  OBVIOUS
<1>. QED  BY <1>1, <1>2, <1>3, <1>4

\* A command is one of five, with the fields its kind has.
LEMMA CommandType ==
  ASSUME NEW c \in Commands
  PROVE  /\ c.on \in Nodes
         /\ c.do \in {"kill", "start", "ask", "drop", "flush"}
         /\ c.do \in {"drop", "flush"} => c.chain \in Chains /\ c.peer \in Nodes
         /\ c.do = "drop" <=> c \in Drops
<1>1. CASE c \in Simple("kill")
  BY <1>1 DEF Simple, Drops
<1>2. CASE c \in Simple("start")
  BY <1>2 DEF Simple, Drops
<1>3. CASE c \in Simple("ask")
  BY <1>3 DEF Simple, Drops
<1>4. CASE c \in Drops
  BY <1>4 DEF Drops
<1>5. CASE c \in Flushes
  BY <1>5 DEF Flushes, Drops
<1>. QED  BY <1>1, <1>2, <1>3, <1>4, <1>5 DEF Commands

\* The cluster elects, but starts and stops nothing.
LEMMA ClusterFrame ==
  ASSUME BasicInv, ClusterStep
  PROVE  RaftTypeOK' /\ UNCHANGED <<up, rules, todo, injector, leaderID, failures>>
<1>1. RaftTypeOK
  BY DEF BasicInv
<1>2. ASSUME NEW n \in Nodes, Elect(n) PROVE RaftTypeOK' /\ UNCHANGED up
  BY <1>1, <1>2 DEF Elect, BecomeLeader, RaftTypeOK, Roles
<1>3. ASSUME NEW n \in Nodes, LoseLeadership(n) PROVE RaftTypeOK' /\ UNCHANGED up
  BY <1>1, <1>3 DEF LoseLeadership, RaftTypeOK, Roles
<1>4. ASSUME NEW n \in Nodes, NEW m \in Nodes \cup {NoNode}, Hear(n, m)
      PROVE  RaftTypeOK' /\ UNCHANGED up
  BY <1>1, <1>4 DEF Hear, LearnLeader, RaftTypeOK
<1>. QED  BY <1>2, <1>3, <1>4 DEF ClusterStep

\* One command keeps the types.
LEMMA RunBasic ==
  ASSUME BasicInv, RunCommand
  PROVE  BasicInv'
<1>. DEFINE c == Head(todo)
<1>1. c \in Commands /\ todo' \in Seq(Commands) /\ UNCHANGED injector
  BY TailElements DEF BasicInv, RunCommand
<1>. HIDE DEF c
<1>2. CASE Works(c) /\ UNCHANGED failures
  <2>1. ASSUME c.do = "kill", RunKill(c.on)
        PROVE  RaftTypeOK' /\ rules' \subseteq rules /\ UNCHANGED leaderID
    BY <2>1 DEF RunKill, Crash, BasicInv, RaftTypeOK, Roles
  <2>2. ASSUME c.do = "start", RunStart(c.on)
        PROVE  RaftTypeOK' /\ UNCHANGED <<rules, leaderID>>
    BY <2>2 DEF RunStart, Recover, BasicInv, RaftTypeOK
  <2>3. ASSUME c.do = "drop", RunDrop(c)
        PROVE  /\ RaftTypeOK' /\ UNCHANGED leaderID
               /\ rules' \subseteq Nodes \X Chains \X Nodes
    <3>1. c.on \in Nodes /\ c.chain \in Chains /\ c.peer \in Nodes
      BY <1>1, <2>3, CommandType
    <3>. QED  BY <2>3, <3>1 DEF RunDrop, BasicInv, RaftTypeOK, raftVars
  <2>4. ASSUME c.do = "flush", RunFlush(c)
        PROVE  RaftTypeOK' /\ rules' \subseteq rules /\ UNCHANGED leaderID
    BY <2>4 DEF RunFlush, BasicInv, RaftTypeOK, raftVars
  <2>5. ASSUME c.do = "ask", RunAsk(c.on)
        PROVE  RaftTypeOK' /\ UNCHANGED rules /\ leaderID' \in Nodes \cup {NoNode}
    <3>1. c.on \in Nodes
      BY <1>1, CommandType
    <3>. QED  BY <2>5, <3>1 DEF RunAsk, BasicInv, RaftTypeOK, raftVars
  <2>. QED  BY <1>1, <1>2, <2>1, <2>2, <2>3, <2>4, <2>5 DEF Works, BasicInv, injector
<1>3. CASE HasNoEffect(c) /\ UNCHANGED <<raftVars, rules, leaderID, failures>>
  BY <1>1, <1>3 DEF BasicInv, injector, raftVars, RaftTypeOK
<1>4. CASE failures < MaxFailures /\ failures' = failures + 1
           /\ UNCHANGED <<raftVars, rules, leaderID>>
  BY <1>1, <1>4, FaultsAssumption DEF BasicInv, injector, raftVars, RaftTypeOK
<1>. QED  BY <1>2, <1>3, <1>4 DEF RunCommand, c

\* The plans that the phases make.
LEMMA DecideTypes ==
  ASSUME BasicInv
  PROVE  /\ \A n \in Nodes : /\ <<Kill(n)>> \o HealAll \o LeaderID \in Seq(Commands)
                             /\ <<Kill(n), Start(n)>> \in Seq(Commands)
                             /\ Isolate(n) \o HealAll \in Seq(Commands)
                             /\ Append(deferred, Start(n)) \in Seq(Simple("start"))
         /\ HealAll \o LeaderID \in Seq(Commands) /\ HealAll \o HealAll \in Seq(Commands)
         /\ Reverse(deferred) \o LeaderID \in Seq(Commands)
<1>1. Reverse(deferred) \in Seq(Commands)
  <2>1. Reverse(deferred) \in Seq(Simple("start"))
    BY ReverseType DEF BasicInv
  <2>2. Simple("start") \subseteq Commands
    BY DEF Commands
  <2>. QED  BY <2>1, <2>2, SeqMonotonic
<1>2. HealAll \o LeaderID \in Seq(Commands) /\ HealAll \o HealAll \in Seq(Commands)
  BY PlanTypes
<1>3. Reverse(deferred) \o LeaderID \in Seq(Commands)
  BY <1>1, PlanTypes
<1>4. ASSUME NEW n \in Nodes
      PROVE  /\ <<Kill(n)>> \o HealAll \o LeaderID \in Seq(Commands)
             /\ <<Kill(n), Start(n)>> \in Seq(Commands)
             /\ Isolate(n) \o HealAll \in Seq(Commands)
             /\ Append(deferred, Start(n)) \in Seq(Simple("start"))
  <2>1. Kill(n) \in Commands /\ Start(n) \in Commands /\ Start(n) \in Simple("start")
    BY PlanTypes DEF Commands
  <2>2. <<Kill(n)>> \in Seq(Commands) /\ <<Kill(n), Start(n)>> \in Seq(Commands)
    BY <2>1
  <2>3. <<Kill(n)>> \o HealAll \in Seq(Commands)
    BY <2>2, PlanTypes
  <2>4. <<Kill(n)>> \o HealAll \o LeaderID \in Seq(Commands)
    BY <2>3, PlanTypes
  <2>5. Isolate(n) \o HealAll \in Seq(Commands)
    BY PlanTypes
  <2>6. Append(deferred, Start(n)) \in Seq(Simple("start"))
    BY <2>1 DEF BasicInv
  <2>. QED  BY <2>2, <2>4, <2>5, <2>6
<1>. QED  BY <1>2, <1>3, <1>4

\* Every step keeps the types.
LEMMA NextBasic == BasicInv /\ [Next]_vars => BasicInv'
<1>. SUFFICES ASSUME BasicInv, [Next]_vars PROVE BasicInv'
  OBVIOUS
<1>1. CASE ClusterStep
  BY <1>1, ClusterFrame DEF BasicInv, injector
<1>2. CASE RunCommand
  BY <1>2, RunBasic
<1>3. ASSUME NEW s, Decide(s) PROVE RaftTypeOK' /\ UNCHANGED <<rules, failures>>
  BY <1>3 DEF Decide, raftVars, BasicInv, RaftTypeOK
<1>4. CASE DurableRound
  <2>1. CASE /\ leaderID # NoNode
             /\ todo' = <<Kill(leaderID)>> \o HealAll \o LeaderID
             /\ deferred' = Append(deferred, Start(leaderID))
    <3>1. leaderID \in Nodes
      BY <2>1 DEF BasicInv
    <3>2. todo' \in Seq(Commands) /\ deferred' \in Seq(Simple("start"))
      BY <2>1, <3>1, DecideTypes
    <3>. QED  BY <1>3, <1>4, <3>2 DEF DurableRound, BasicInv, Decide
  <2>2. CASE \/ todo' = HealAll \o LeaderID /\ UNCHANGED deferred
             \/ todo' = LeaderID /\ UNCHANGED deferred
    <3>1. todo' \in Seq(Commands)
      BY <2>2, DecideTypes, PlanTypes
    <3>. QED  BY <1>3, <1>4, <2>2, <3>1 DEF DurableRound, BasicInv, Decide
  <2>. QED  BY <1>4, <2>1, <2>2 DEF DurableRound
<1>5. CASE DurableEnds
  <2>1. todo' \in Seq(Commands)
    BY <1>5, DecideTypes DEF DurableEnds
  <2>. QED  BY <1>3, <1>5, <2>1 DEF DurableEnds, BasicInv, Decide
<1>6. CASE MinorityIsolates
  <2>1. leaderID \in Nodes /\ todo' \in Seq(Commands)
    BY <1>6, PlanTypes DEF MinorityIsolates, BasicInv
  <2>. QED  BY <1>3, <1>6, <2>1, FaultsAssumption DEF MinorityIsolates, BasicInv, Decide
<1>7. CASE MinorityNoLeader
  BY <1>3, <1>7 DEF MinorityNoLeader, BasicInv, Decide
<1>8. CASE MinorityProbe
  <2>1. acked' \in {acked, acked + 1} /\ count' = count + 1 /\ count < Probes
    BY <1>8 DEF MinorityProbe
  <2>2. acked' \in 0 .. Probes /\ acked' <= count' /\ count' <= Probes /\ count' \in Nat
    BY <1>8, <2>1, FaultsAssumption DEF MinorityProbe, BasicInv, Decide
  <2>. QED  BY <1>3, <1>8, <2>2 DEF MinorityProbe, BasicInv, Decide
<1>9. CASE MinorityHeals
  BY <1>3, <1>9, PlanTypes DEF MinorityHeals, BasicInv, Decide
<1>10. CASE ChaosFault
  <2>1. todo' \in Seq(Commands)
    BY <1>10, DecideTypes DEF ChaosFault
  <2>. QED  BY <1>3, <1>10, <2>1 DEF ChaosFault, BasicInv, Decide
<1>11. CASE ChaosEnds
  <2>1. todo' \in Seq(Commands)
    BY <1>11, DecideTypes DEF ChaosEnds
  <2>. QED  BY <1>3, <1>11, <2>1 DEF ChaosEnds, BasicInv, Decide
<1>12. CASE UNCHANGED vars
  BY <1>12 DEF vars, injector, raftVars, BasicInv, RaftTypeOK
<1>. QED  BY <1>1, <1>2, <1>4, <1>5, <1>6, <1>7, <1>8, <1>9, <1>10, <1>11, <1>12
          DEF Next, Injector

\* So do the first states.
LEMMA InitBasic == Init => BasicInv
<1>1. LeaderID \in Seq(Commands)
  BY PlanTypes
<1>. QED
  BY <1>1, FaultsAssumption DEF Init, RaftInit, BasicInv, RaftTypeOK, Roles

\* The types of the fault injector: every command is for a node that exists,
\* whichever leader the cluster reported, and no probe is counted twice.
THEOREM FaultsTypeOK == Spec => []TypeOK
<1>1. BasicInv => TypeOK
  <2>. SUFFICES ASSUME BasicInv PROVE TypeOK
    OBVIOUS
  <2>1. \A i \in DOMAIN todo : todo[i] \in Commands
    BY DEF BasicInv
  <2>2. \A i \in DOMAIN todo : todo[i].on \in Nodes
    BY <2>1, CommandType
  <2>. QED  BY <2>2 DEF BasicInv, TypeOK
<1>. QED  BY <1>1, InitBasic, NextBasic, PTL DEF Spec

-----------------------------------------------------------------------------
(* The isolated node acknowledges nothing                                  *)

\* The four commands of a link.
LEMMA CutCommands ==
  ASSUME NEW n, NEW m, n # m
  PROVE  /\ \A p, q \in 1 .. 4 : p # q => Cut(n, m)[p] # Cut(n, m)[q]
         /\ \A q \in 1 .. 4 : LET c == Cut(n, m)[q]
                              IN  /\ c.do = "drop" /\ c.chain \in Chains
                                  /\ \/ c.on = n /\ c.peer = m
                                     \/ c.on = m /\ c.peer = n
<1>1. \A q \in 1 .. 4 : q = 1 \/ q = 2 \/ q = 3 \/ q = 4
  OBVIOUS
<1>. QED  BY <1>1 DEF Cut, RuleCmd, Chains

\* One rule is enough to cut a link.
LEMMA OneRuleCuts ==
  ASSUME NEW n, NEW m, n # m, NEW q \in 1 .. 4, InForce(Cut(n, m)[q])
  PROVE  ~Connected(n, m)
<1>1. PICK c : c = Cut(n, m)[q]
  OBVIOUS
<1>2. c.chain \in Chains /\ ((c.on = n /\ c.peer = m) \/ (c.on = m /\ c.peer = n))
  BY <1>1, CutCommands
<1>. QED  BY <1>1, <1>2 DEF InForce, Connected

\* A node that is connected to no other has no quorum, unless it is alone.
LEMMA AloneHasNoQuorum ==
  ASSUME Cardinality(Nodes) > 1, NEW n \in Nodes,
         \A m \in Nodes \ {n} : ~Connected(n, m)
  PROVE  ~HasQuorum(n)
<1>. SUFFICES ASSUME NEW Q \in Majorities, n \in Q, \A m \in Q : Connected(n, m)
              PROVE  FALSE
  BY DEF HasQuorum
<1>1. Q \subseteq Nodes /\ 2 * Cardinality(Q) > Cardinality(Nodes)
  BY DEF Majorities
<1>2. Q = {n}
  BY <1>1
<1>3. Cardinality(Q) = 1
  BY <1>2, FS_Singleton
<1>4. Cardinality(Nodes) \in Nat
  BY FaultsAssumption, FS_CardinalityType
<1>. QED  BY <1>1, <1>3, <1>4

\* When Isolate is through, fewer than four failures leave every link cut.
LEMMA ProbedIsAlone ==
  ASSUME BasicInv, CutInv, MaxFailures < 4, Cardinality(Nodes) > 1,
         stage = "probe", todo = <<>>
  PROVE  ~HasQuorum(target)
<1>1. target \in Nodes /\ failures \in Nat /\ failures < 4
  BY FaultsAssumption DEF BasicInv
<1>2. ASSUME NEW m \in Nodes \ {target} PROVE ~Connected(target, m)
  <2>1. CASE ~(up[m] /\ up[target])
    BY <2>1 DEF Connected
  <2>2. CASE up[m] /\ up[target]
    <3>1. Covered(target, m)
      BY <2>2 DEF CutInv
    <3>2. \A c : Gap(c) \in {0, 1} /\ (Gap(c) = 0 => InForce(c))
      BY DEF Gap, Pending, In
    <3>3. \E q \in 1 .. 4 : Gap(Cut(target, m)[q]) = 0
      BY <1>1, <3>1, <3>2 DEF Covered
    <3>. QED  BY <1>1, <3>2, <3>3, OneRuleCuts
  <2>. QED  BY <2>1, <2>2
<1>. QED  BY <1>1, <1>2, AloneHasNoQuorum

\* One command closes gaps, or opens one if it is the command that is lost.
LEMMA GapStep ==
  ASSUME BasicInv, todo # <<>>, todo' = Tail(todo), rules \subseteq rules', NEW c
  PROVE  /\ Gap(c) \in {0, 1} /\ Gap(c)' \in {0, 1}
         /\ c # Head(todo) => Gap(c)' <= Gap(c)
         /\ InForce(c)' => Gap(c)' = 0
<1>1. ASSUME Pending(c), c # Head(todo) PROVE Pending(c)'
  <2>1. PICK i \in DOMAIN todo : todo[i] = c
    BY <1>1 DEF Pending, In
  <2>2. /\ DOMAIN todo = 1 .. Len(todo) /\ Len(todo) \in Nat
        /\ DOMAIN todo' = 1 .. Len(todo) - 1 /\ todo[1] = Head(todo)
        /\ \A j \in 1 .. Len(todo) - 1 : todo'[j] = todo[j + 1]
    BY TailElements DEF BasicInv
  <2>3. i - 1 \in 1 .. Len(todo) - 1 /\ (i - 1) + 1 = i
    BY <1>1, <2>1, <2>2
  <2>4. todo'[i - 1] = c
    BY <2>1, <2>2, <2>3
  <2>. QED  BY <2>2, <2>3, <2>4 DEF Pending, In
<1>2. InForce(c) => InForce(c)'
  BY DEF InForce
<1>. QED  BY <1>1, <1>2 DEF Gap

\* While Isolate runs no container is started or killed, and a link loses a
\* command of its four only to a failure.
LEMMA CutRun ==
  ASSUME BasicInv, CutInv, RunCommand, stage = "probe"
  PROVE  CutInv'
<1>0. PICK c : c = Head(todo)
  OBVIOUS
<1>1. /\ todo # <<>> /\ todo' = Tail(todo) /\ UNCHANGED injector
      /\ c \in Drops /\ c = todo[1]
  <2>1. todo # <<>> /\ todo' = Tail(todo) /\ UNCHANGED injector
    BY DEF RunCommand
  <2>. QED  BY <1>0, <2>1, TailElements DEF BasicInv, CutInv
<1>2. c.do = "drop" /\ c.on \in Nodes
  BY <1>1 DEF Drops
<1>3. /\ UNCHANGED up /\ rules \subseteq rules'
      /\ \/ UNCHANGED failures /\ (InForce(c)' \/ ~up[c.on])
         \/ failures' = failures + 1
  <2>1. CASE Works(c) /\ UNCHANGED failures
    BY <1>2, <2>1 DEF Works, RunDrop, InForce, raftVars
  <2>2. CASE HasNoEffect(c) /\ UNCHANGED <<raftVars, rules, leaderID, failures>>
    BY <1>2, <2>2 DEF HasNoEffect, raftVars, BasicInv, RaftTypeOK
  <2>3. CASE failures' = failures + 1 /\ UNCHANGED <<raftVars, rules, leaderID>>
    BY <2>3 DEF raftVars
  <2>. QED  BY <1>0, <2>1, <2>2, <2>3 DEF RunCommand
<1>4. \A d : /\ Gap(d) \in {0, 1} /\ Gap(d)' \in {0, 1}
             /\ d # c => Gap(d)' <= Gap(d)
             /\ InForce(d)' => Gap(d)' = 0
  BY <1>0, <1>1, <1>3, GapStep
<1>5. ASSUME NEW t, t = target, NEW m \in Nodes \ {t}, up[m], up[t] PROVE Covered(t, m)'
  <2>1. PICK d1, d2, d3, d4 : /\ d1 = Cut(t, m)[1] /\ d2 = Cut(t, m)[2]
                              /\ d3 = Cut(t, m)[3] /\ d4 = Cut(t, m)[4]
    OBVIOUS
  <2>2. /\ d1 # d2 /\ d1 # d3 /\ d1 # d4 /\ d2 # d3 /\ d2 # d4 /\ d3 # d4
        /\ d1.on \in {t, m} /\ d2.on \in {t, m} /\ d3.on \in {t, m} /\ d4.on \in {t, m}
    BY <2>1, <1>5, CutCommands
  <2>3. Gap(d1) + Gap(d2) + Gap(d3) + Gap(d4) <= failures
    BY <1>5, <2>1 DEF CutInv, Covered
  <2>4. Gap(d1)' + Gap(d2)' + Gap(d3)' + Gap(d4)' <= failures'
    <3>1. failures \in Nat
      BY DEF BasicInv
    <3>2. CASE UNCHANGED failures
      <4>1. c \notin {d1, d2, d3, d4} \/ InForce(c)'
        BY <1>3, <1>5, <2>2, <3>1, <3>2
      <4>0. \A d : d = c /\ InForce(c)' => Gap(d)' <= Gap(d)
        <5>. SUFFICES ASSUME InForce(c)' PROVE Gap(c)' <= Gap(c)
          OBVIOUS
        <5>. QED  BY <1>4
      <4>2. /\ Gap(d1)' <= Gap(d1) /\ Gap(d2)' <= Gap(d2)
            /\ Gap(d3)' <= Gap(d3) /\ Gap(d4)' <= Gap(d4)
        BY <1>4, <4>0, <4>1
      <4>. QED  BY <1>4, <2>3, <3>1, <3>2, <4>2
    <3>3. CASE failures' = failures + 1
      BY <1>4, <2>2, <2>3, <3>1, <3>3
    <3>. QED  BY <1>3, <3>2, <3>3
  <2>. QED  BY <2>1, <2>4 DEF Covered
<1>6. \A i \in DOMAIN todo' : todo'[i] \in Drops
  BY <1>1, TailElements DEF CutInv, BasicInv
<1>7. acked' = 0 /\ target' = target
  BY <1>1 DEF CutInv, injector
<1>. QED  BY <1>3, <1>5, <1>6, <1>7 DEF CutInv

\* Every step keeps the cut.
LEMMA CutStep ==
  ASSUME MaxFailures < 4, Cardinality(Nodes) > 1, BasicInv, CutInv, [Next]_vars
  PROVE  CutInv'
<1>1. ASSUME UNCHANGED <<up, rules, todo, stage, target, acked, failures>> PROVE CutInv'
  <2>1. \A c : (Pending(c)' <=> Pending(c)) /\ (InForce(c)' <=> InForce(c))
    BY <1>1 DEF Pending, In, InForce
  <2>2. \A c : Gap(c)' = Gap(c)
    BY <2>1 DEF Gap
  <2>3. \A n, m : Covered(n, m)' <=> Covered(n, m)
    BY <1>1, <2>2 DEF Covered
  <2>. QED  BY <1>1, <2>3 DEF CutInv
<1>2. CASE ClusterStep
  BY <1>1, <1>2, ClusterFrame DEF injector
<1>3. CASE RunCommand
  BY <1>3, CutRun DEF RunCommand, injector, CutInv
<1>4. CASE MinorityIsolates
  <2>1. PICK n : n = leaderID
    OBVIOUS
  <2>2. n \in Nodes /\ target' = n /\ todo' = Isolate(n) /\ acked' = acked
    BY <1>4, <2>1 DEF MinorityIsolates, BasicInv
  <2>3. failures' \in Nat
    BY <1>4 DEF MinorityIsolates, Decide, BasicInv
  <2>4. \A m \in Nodes \ {n}, q \in 1 .. 4 : Pending(Cut(n, m)[q])'
    BY <2>2, IsolatePlan DEF Pending, In
  <2>5. \A m \in Nodes \ {n} : Covered(n, m)'
    BY <2>3, <2>4 DEF Covered, Gap
  <2>6. \A i \in DOMAIN todo' : todo'[i] \in Drops
    BY <2>2, IsolatePlan
  <2>. QED  BY <2>2, <2>5, <2>6 DEF CutInv
<1>5. CASE MinorityProbe
  BY <1>1, <1>5, ProbedIsAlone DEF MinorityProbe, Decide, raftVars
<1>6. CASE \/ DurableRound \/ DurableEnds \/ MinorityNoLeader \/ MinorityHeals
           \/ ChaosFault \/ ChaosEnds
  BY <1>6 DEF DurableRound, DurableEnds, MinorityNoLeader, MinorityHeals, ChaosFault,
              ChaosEnds, Decide, CutInv
<1>7. CASE UNCHANGED vars
  BY <1>1, <1>7 DEF vars, injector, raftVars
<1>. QED  BY <1>2, <1>3, <1>4, <1>5, <1>6, <1>7 DEF Next, Injector

\* Writes to the isolated leader "must never be acknowledged" (the comment on
\* phaseMinorityRefusesWrites): they cannot, in a cluster of any size, even when
\* up to three of the iptables and docker commands failed (Isolate drops their
\* errors), because each link is cut by four rules and any one will do.
THEOREM FaultsMinorityNeverAcks ==
  ASSUME MaxFailures < 4, Cardinality(Nodes) > 1
  PROVE  Spec => []MinorityNeverAcks
<1>1. Init => CutInv
  BY DEF Init, CutInv
<1>2. BasicInv /\ CutInv /\ [Next]_vars => CutInv'
  BY CutStep
<1>3. CutInv => MinorityNeverAcks
  BY DEF CutInv, MinorityNeverAcks
<1>. QED  BY <1>1, <1>2, <1>3, InitBasic, NextBasic, PTL DEF Spec

-----------------------------------------------------------------------------
(* A majority is left                                                      *)

\* Commands that break nothing.
Mends(s) == s \in Seq(Commands) /\ \A i \in DOMAIN s : s[i].do \notin {"kill", "drop"}

\* Two plans in a row.
LEMMA Concatenation ==
  ASSUME NEW S, NEW a \in Seq(S), NEW b \in Seq(S)
  PROVE  /\ a \o b \in Seq(S)
         /\ \A i \in DOMAIN a : i \in DOMAIN (a \o b) /\ (a \o b)[i] = a[i]
         /\ \A i \in DOMAIN b :
              Len(a) + i \in DOMAIN (a \o b) /\ (a \o b)[Len(a) + i] = b[i]
         /\ \A i \in DOMAIN (a \o b) :
              i \in DOMAIN a \/ \E j \in DOMAIN b : i = Len(a) + j
<1>1. /\ a \o b \in Seq(S) /\ Len(a) \in Nat /\ Len(b) \in Nat
      /\ DOMAIN a = 1 .. Len(a) /\ DOMAIN b = 1 .. Len(b)
  OBVIOUS
<1>2. DOMAIN (a \o b) = 1 .. Len(a) + Len(b)
  OBVIOUS
<1>3. \A i \in 1 .. Len(a) : (a \o b)[i] = a[i]
  OBVIOUS
<1>4. \A i \in 1 .. Len(b) : (a \o b)[Len(a) + i] = b[i]
  OBVIOUS
<1>5. ASSUME NEW i \in 1 .. Len(a) + Len(b), i \notin 1 .. Len(a)
      PROVE  \E j \in 1 .. Len(b) : i = Len(a) + j
  <2>1. i - Len(a) \in 1 .. Len(b) /\ i = Len(a) + (i - Len(a))
    BY <1>1, <1>5
  <2>. QED  BY <2>1
<1>6. \A i \in 1 .. Len(b) : Len(a) + i \in 1 .. Len(a) + Len(b)
  BY <1>1
<1>7. \A i \in 1 .. Len(a) : i \in 1 .. Len(a) + Len(b)
  BY <1>1
<1>. QED  BY <1>1, <1>2, <1>3, <1>4, <1>5, <1>6, <1>7

\* A plan followed by one that mends what it leaves behind.
LEMMA MendedAfterwards ==
  ASSUME NEW a \in Seq(Commands), NEW b, Mends(b), NEW v, AimsAt(v, a),
         \A i \in DOMAIN a :
           /\ a[i].do = "kill" => \/ \E j \in DOMAIN a : j > i /\ a[j] = Start(a[i].on)
                                  \/ In(Start(a[i].on), b)
           /\ a[i].do = "drop" =>
                \/ \E j \in DOMAIN a : j > i /\ a[j] = Flush(a[i].on, a[i].chain)
                \/ In(Flush(a[i].on, a[i].chain), b)
  PROVE  a \o b \in Seq(Commands) /\ MendsItself(a \o b) /\ AimsAt(v, a \o b)
<1>. PICK s : s = a \o b
  OBVIOUS
<1>1. /\ s \in Seq(Commands)
      /\ \A i \in DOMAIN a : i \in DOMAIN s /\ s[i] = a[i]
      /\ \A i \in DOMAIN b : Len(a) + i \in DOMAIN s /\ s[Len(a) + i] = b[i]
      /\ \A i \in DOMAIN s : i \in DOMAIN a \/ \E j \in DOMAIN b : i = Len(a) + j
  BY Concatenation DEF Mends
<1>2. \A i \in DOMAIN s : s[i].do \in {"kill", "drop"} => i \in DOMAIN a /\ s[i] = a[i]
  BY <1>1 DEF Mends
<1>3. \A i \in DOMAIN a, j \in DOMAIN b : Len(a) + j > i
  BY DEF Mends
<1>4. ASSUME NEW i \in DOMAIN a, NEW c,
             (\E j \in DOMAIN a : j > i /\ a[j] = c) \/ In(c, b)
      PROVE  \E j \in DOMAIN s : j > i /\ s[j] = c
  BY <1>1, <1>3, <1>4 DEF In
<1>5. MendsItself(s)
  <2>1. ASSUME NEW i \in DOMAIN s, s[i].do = "kill"
        PROVE  \E j \in DOMAIN s : j > i /\ s[j] = Start(s[i].on)
    <3>1. i \in DOMAIN a /\ s[i] = a[i]
      BY <1>2, <2>1
    <3>2. PICK c : c = Start(a[i].on)
      OBVIOUS
    <3>3. (\E j \in DOMAIN a : j > i /\ a[j] = c) \/ In(c, b)
      BY <2>1, <3>1, <3>2
    <3>4. \E j \in DOMAIN s : j > i /\ s[j] = c
      BY <1>4, <3>1, <3>3
    <3>. QED  BY <3>1, <3>2, <3>4
  <2>2. ASSUME NEW i \in DOMAIN s, s[i].do = "drop"
        PROVE  \E j \in DOMAIN s : j > i /\ s[j] = Flush(s[i].on, s[i].chain)
    <3>1. i \in DOMAIN a /\ s[i] = a[i]
      BY <1>2, <2>2
    <3>2. PICK c : c = Flush(a[i].on, a[i].chain)
      OBVIOUS
    <3>3. (\E j \in DOMAIN a : j > i /\ a[j] = c) \/ In(c, b)
      BY <2>2, <3>1, <3>2
    <3>4. \E j \in DOMAIN s : j > i /\ s[j] = c
      BY <1>4, <3>1, <3>3
    <3>. QED  BY <3>1, <3>2, <3>4
  <2>. QED  BY <2>1, <2>2 DEF MendsItself
<1>6. AimsAt(v, s)
  BY <1>2 DEF AimsAt
<1>. QED  BY <1>1, <1>5, <1>6

\* A plan that breaks nothing needs no mending.
LEMMA MendsIsHarmless ==
  ASSUME NEW s, Mends(s)
  PROVE  MendsItself(s) /\ \A v : AimsAt(v, s)
BY DEF Mends, MendsItself, AimsAt

\* The plans that break nothing.
LEMMA MendingPlans ==
  /\ Mends(<<>>) /\ Mends(HealAll) /\ Mends(LeaderID)
  /\ \A s \in Seq(Simple("start")) : Mends(Reverse(s))
  /\ \A a, b : Mends(a) /\ Mends(b) => Mends(a \o b)
<1>1. /\ \A c \in Simple("start") : c \in Commands /\ c.do = "start"
      /\ \A c \in Simple("ask") : c \in Commands /\ c.do = "ask"
      /\ \A c \in Flushes : c \in Commands /\ c.do = "flush"
  BY DEF Simple, Flushes, Commands
<1>2. HealAll \in Seq(Commands) /\ LeaderID \in Seq(Commands)
  BY PlanTypes
<1>3. \A i \in DOMAIN HealAll : HealAll[i] \in Simple("start") \cup Flushes
  BY HealAllPlan
<1>4. \A i \in DOMAIN LeaderID : LeaderID[i] \in Simple("ask")
  BY LeaderIDPlan
<1>5. Mends(HealAll)
  BY <1>1, <1>2, <1>3 DEF Mends
<1>6. Mends(LeaderID)
  BY <1>1, <1>2, <1>4 DEF Mends
<1>7. ASSUME NEW s \in Seq(Simple("start")) PROVE Mends(Reverse(s))
  <2>1. Reverse(s) \in Seq(Simple("start"))
    BY ReverseType
  <2>2. \A i \in DOMAIN Reverse(s) : Reverse(s)[i] \in Simple("start")
    BY <2>1
  <2>3. Reverse(s) \in Seq(Commands)
    BY <2>1, SeqMonotonic DEF Commands
  <2>. QED  BY <1>1, <2>2, <2>3 DEF Mends
<1>8. ASSUME NEW a, NEW b, Mends(a), Mends(b) PROVE Mends(a \o b)
  <2>1. /\ a \o b \in Seq(Commands)
        /\ \A i \in DOMAIN a : (a \o b)[i] = a[i]
        /\ \A i \in DOMAIN b : (a \o b)[Len(a) + i] = b[i]
        /\ \A i \in DOMAIN (a \o b) : i \in DOMAIN a \/ \E j \in DOMAIN b : i = Len(a) + j
    BY <1>8, Concatenation DEF Mends
  <2>. QED  BY <1>8, <2>1 DEF Mends
<1>9. Mends(<<>>)
  BY DEF Mends
<1>. QED  BY <1>5, <1>6, <1>7, <1>8, <1>9

\* A kill is mended by HealAll, and so is a partition.
LEMMA FaultPlans ==
  ASSUME NEW n \in Nodes
  PROVE  /\ MendsItself(<<Kill(n)>> \o HealAll \o LeaderID)
         /\ AimsAt(n, <<Kill(n)>> \o HealAll \o LeaderID)
         /\ MendsItself(<<Kill(n), Start(n)>>) /\ AimsAt(n, <<Kill(n), Start(n)>>)
         /\ MendsItself(Isolate(n) \o HealAll) /\ AimsAt(n, Isolate(n) \o HealAll)
<1>1. PICK k : k = Kill(n)
  OBVIOUS
<1>2. PICK st : st = Start(n)
  OBVIOUS
<1>3. /\ k \in Commands /\ k.do = "kill" /\ k.on = n
      /\ st \in Commands /\ st.do = "start" /\ st.on = n
  BY <1>1, <1>2 DEF Kill, Start, Cmd, Simple, Commands
<1>4. In(st, HealAll) /\ \A chain \in Chains, m \in Nodes : In(Flush(m, chain), HealAll)
  BY <1>2, HealAllPlan DEF In
<1>5. /\ <<k>> \o HealAll \in Seq(Commands)
      /\ MendsItself(<<k>> \o HealAll) /\ AimsAt(n, <<k>> \o HealAll)
  <2>1. /\ <<k>> \in Seq(Commands) /\ AimsAt(n, <<k>>)
        /\ \A i \in DOMAIN <<k>> : <<k>>[i] = k
    BY <1>3 DEF AimsAt
  <2>2. Mends(HealAll)
    BY MendingPlans
  <2>. QED  BY <1>2, <1>3, <1>4, <2>1, <2>2, MendedAfterwards
<1>6. /\ MendsItself(<<k>> \o HealAll \o LeaderID)
      /\ AimsAt(n, <<k>> \o HealAll \o LeaderID)
  <2>1. PICK a : a = <<k>> \o HealAll
    OBVIOUS
  <2>2. Mends(LeaderID)
    BY MendingPlans
  <2>3. /\ a \in Seq(Commands) /\ AimsAt(n, a)
        /\ \A i \in DOMAIN a :
             /\ a[i].do = "kill" => \E j \in DOMAIN a : j > i /\ a[j] = Start(a[i].on)
             /\ a[i].do = "drop" =>
                  \E j \in DOMAIN a : j > i /\ a[j] = Flush(a[i].on, a[i].chain)
    BY <1>5, <2>1 DEF MendsItself
  <2>4. MendsItself(a \o LeaderID) /\ AimsAt(n, a \o LeaderID)
    BY <2>2, <2>3, MendedAfterwards
  <2>. QED  BY <2>1, <2>4
<1>7. MendsItself(<<k, st>>) /\ AimsAt(n, <<k, st>>)
  <2>1. /\ DOMAIN <<k, st>> = 1 .. 2 /\ <<k, st>>[1] = k /\ <<k, st>>[2] = st
        /\ \A i \in 1 .. 2 : i = 1 \/ i = 2
    OBVIOUS
  <2>. QED  BY <1>2, <1>3, <2>1 DEF MendsItself, AimsAt
<1>8. MendsItself(Isolate(n) \o HealAll) /\ AimsAt(n, Isolate(n) \o HealAll)
  <2>1. PICK a : a = Isolate(n)
    OBVIOUS
  <2>2. /\ a \in Seq(Commands)
        /\ \A i \in DOMAIN a : /\ a[i] \in Drops
                               /\ a[i].on = n \/ a[i].peer = n
    BY <2>1, IsolatePlan, PlanTypes
  <2>3. \A i \in DOMAIN a : /\ a[i].do = "drop"
                            /\ a[i].on \in Nodes /\ a[i].chain \in Chains
    BY <2>2 DEF Drops
  <2>4. AimsAt(n, a)
    BY <2>2, <2>3 DEF AimsAt
  <2>5. Mends(HealAll)
    BY MendingPlans
  <2>6. \A i \in DOMAIN a : /\ In(Flush(a[i].on, a[i].chain), HealAll)
                            /\ a[i].do # "kill"
    BY <1>4, <2>3
  <2>7. MendsItself(a \o HealAll) /\ AimsAt(n, a \o HealAll)
    BY <2>2, <2>4, <2>5, <2>6, MendedAfterwards
  <2>. QED  BY <2>1, <2>7
<1>. QED  BY <1>1, <1>2, <1>6, <1>7, <1>8

\* All nodes but one are a majority, of three nodes at least.
LEMMA OthersAreQuorum ==
  ASSUME Cardinality(Nodes) > 2, NEW v \in Nodes, OneVictim(v)
  PROVE  \E n \in Nodes : HasQuorum(n)
<1>. PICK Q : Q = Nodes \ {v}
  OBVIOUS
<1>1. /\ IsFiniteSet(Nodes) /\ Cardinality(Nodes) \in Nat
      /\ Cardinality(Q) = Cardinality(Nodes) - 1
  BY FaultsAssumption, FS_CardinalityType, FS_RemoveElement
<1>2. Q \in Majorities
  BY <1>1 DEF Majorities
<1>3. Q # {}
  BY <1>1, FS_EmptySet
<1>4. \A n, m \in Q : Connected(n, m)
  BY DEF OneVictim, Connected
<1>. QED  BY <1>2, <1>3, <1>4 DEF HasQuorum

\* A new plan for a cluster in good health.
LEMMA NewPlan ==
  ASSUME BasicInv, UNCHANGED <<up, rules>>, Healthy, stage' # "probe",
         NEW v \in Nodes, MendsItself(todo'), AimsAt(v, todo')
  PROVE  RepairInv'
BY DEF Healthy, RepairInv, Repaired, OneVictim

\* One command repairs, or breaks what the commands to come repair.
LEMMA RunRepair ==
  ASSUME BasicInv, RepairInv, RunCommand
  PROVE  RepairInv'
<1>. SUFFICES ASSUME failures' = 0 PROVE Repaired' /\ \E v \in Nodes : OneVictim(v)'
  BY DEF RepairInv
<1>1. PICK c : c = Head(todo)
  OBVIOUS
<1>2. /\ todo # <<>> /\ todo' = Tail(todo) /\ UNCHANGED injector
      /\ failures \in Nat
  BY DEF RunCommand, BasicInv
<1>3. /\ failures = 0
      /\ \/ Works(c)
         \/ HasNoEffect(c) /\ UNCHANGED <<raftVars, rules, leaderID>>
  BY <1>1, <1>2 DEF RunCommand
<1>4. PICK v \in Nodes : Repaired /\ OneVictim(v)
  BY <1>3 DEF RepairInv
<1>5. /\ c \in Commands /\ c = todo[1] /\ 1 \in DOMAIN todo
      /\ \A i \in DOMAIN todo : i \in Nat /\ (i > 1 => i - 1 \in DOMAIN todo' /\ todo'[i - 1] = todo[i])
      /\ \A i \in DOMAIN todo' : i \in Nat /\ i + 1 \in DOMAIN todo /\ todo'[i] = todo[i + 1]
      /\ \A i \in DOMAIN todo : i >= 1
  <2>1. /\ c \in Commands /\ c = todo[1] /\ DOMAIN todo = 1 .. Len(todo)
        /\ Len(todo) \in Nat \ {0} /\ DOMAIN todo' = 1 .. Len(todo) - 1
        /\ \A i \in 1 .. Len(todo) - 1 : todo'[i] = todo[i + 1]
    BY <1>1, <1>2, TailElements DEF BasicInv
  <2>2. \A i \in 1 .. Len(todo) : i > 1 => i - 1 \in 1 .. Len(todo) - 1 /\ (i - 1) + 1 = i
    BY <2>1
  <2>3. \A i \in 1 .. Len(todo) - 1 : i + 1 \in 1 .. Len(todo)
    BY <2>1
  <2>4. \A i \in 1 .. Len(todo) : i > 1 => i - 1 \in DOMAIN todo' /\ todo'[i - 1] = todo[i]
    BY <2>1, <2>2
  <2>5. 1 \in 1 .. Len(todo)
    BY <2>1
  <2>. QED  BY <2>1, <2>3, <2>4, <2>5
<1>6. \A d : d # c /\ Pending(d) => Pending(d)'
  <2>. SUFFICES ASSUME NEW d, d # c, NEW i \in DOMAIN todo, todo[i] = d PROVE Pending(d)'
    BY DEF Pending, In
  <2>1. i > 1
    BY <1>5
  <2>. QED  BY <1>5, <2>1 DEF Pending, In
<1>7. AimsAt(v, todo')
  BY <1>4, <1>5 DEF OneVictim, AimsAt
<1>8. ASSUME MendsItself(todo)
      PROVE  /\ MendsItself(todo')
             /\ c.do = "kill" => Pending(Start(c.on))'
             /\ c.do = "drop" => Pending(Flush(c.on, c.chain))'
  <2>1. ASSUME NEW i \in DOMAIN todo, NEW d, \E j \in DOMAIN todo : j > i /\ todo[j] = d
        PROVE  \E j \in DOMAIN todo' : j > i - 1 /\ todo'[j] = d
    <3>1. PICK j \in DOMAIN todo : j > i /\ todo[j] = d
      BY <2>1
    <3>2. j > 1 /\ j - 1 > i - 1
      BY <1>5, <3>1
    <3>. QED  BY <1>5, <3>1, <3>2
  <2>2. ASSUME NEW i \in DOMAIN todo', NEW d,
               \E j \in DOMAIN todo : j > i + 1 /\ todo[j] = d
        PROVE  \E j \in DOMAIN todo' : j > i /\ todo'[j] = d
    <3>1. i + 1 \in DOMAIN todo /\ (i + 1) - 1 = i
      BY <1>5
    <3>. QED  BY <2>1, <2>2, <3>1
  <2>3. ASSUME NEW i \in DOMAIN todo', todo'[i].do = "kill"
        PROVE  \E j \in DOMAIN todo' : j > i /\ todo'[j] = Start(todo'[i].on)
    <3>1. i + 1 \in DOMAIN todo /\ todo'[i] = todo[i + 1]
      BY <1>5
    <3>2. PICK d : d = Start(todo[i + 1].on)
      OBVIOUS
    <3>3. \E j \in DOMAIN todo : j > i + 1 /\ todo[j] = d
      BY <1>8, <2>3, <3>1, <3>2 DEF MendsItself
    <3>. QED  BY <2>2, <3>1, <3>2, <3>3
  <2>4. ASSUME NEW i \in DOMAIN todo', todo'[i].do = "drop"
        PROVE  \E j \in DOMAIN todo' : j > i /\ todo'[j] = Flush(todo'[i].on, todo'[i].chain)
    <3>1. i + 1 \in DOMAIN todo /\ todo'[i] = todo[i + 1]
      BY <1>5
    <3>2. PICK d : d = Flush(todo[i + 1].on, todo[i + 1].chain)
      OBVIOUS
    <3>3. \E j \in DOMAIN todo : j > i + 1 /\ todo[j] = d
      BY <1>8, <2>4, <3>1, <3>2 DEF MendsItself
    <3>. QED  BY <2>2, <3>1, <3>2, <3>3
  <2>5. MendsItself(todo')
    BY <2>3, <2>4 DEF MendsItself
  <2>6. ASSUME c.do = "kill" PROVE Pending(Start(c.on))'
    <3>1. PICK d : d = Start(c.on)
      OBVIOUS
    <3>2. \E j \in DOMAIN todo' : j > 1 - 1 /\ todo'[j] = d
      BY <1>5, <1>8, <2>1, <2>6, <3>1 DEF MendsItself
    <3>3. Pending(d)'
      BY <3>2 DEF Pending, In
    <3>. QED  BY <3>1, <3>3 DEF Pending
  <2>7. ASSUME c.do = "drop" PROVE Pending(Flush(c.on, c.chain))'
    <3>1. PICK d : d = Flush(c.on, c.chain)
      OBVIOUS
    <3>2. \E j \in DOMAIN todo' : j > 1 - 1 /\ todo'[j] = d
      BY <1>5, <1>8, <2>1, <2>7, <3>1 DEF MendsItself
    <3>3. Pending(d)'
      BY <3>2 DEF Pending, In
    <3>. QED  BY <3>1, <3>3 DEF Pending
  <2>. QED  BY <2>5, <2>6, <2>7
<1>9. /\ \A n : Start(n).do = "start" /\ Start(n).on = n
      /\ \A n, chain : /\ Flush(n, chain).do = "flush" /\ Flush(n, chain).on = n
                       /\ Flush(n, chain).chain = chain
  BY DEF Start, Cmd, Flush, RuleCmd
<1>10. /\ c.on \in Nodes /\ c.do \in {"kill", "start", "ask", "drop", "flush"}
       /\ c.do = "drop" => c.chain \in Chains /\ c.peer \in Nodes
       /\ c.do = "drop" <=> c \in Drops
       /\ up \in [Nodes -> BOOLEAN] /\ \A r \in rules : r[1] \in Nodes
  BY <1>5, CommandType DEF BasicInv, RaftTypeOK
<1>11. stage' = stage /\ (stage = "probe" => c.do = "drop" /\ \A i \in DOMAIN todo' : todo'[i] \in Drops)
  BY <1>2, <1>4, <1>5, <1>10 DEF Repaired, injector
<1>12. CASE c.do = "kill"
  <2>1. stage # "probe" /\ MendsItself(todo) /\ c.on = v
    BY <1>4, <1>5, <1>11, <1>12 DEF Repaired, OneVictim, AimsAt
  <2>2. \/ /\ up' = [up EXCEPT ![v] = FALSE]
           /\ rules' = {r \in rules : r[1] # v}
        \/ ~up[v] /\ UNCHANGED <<up, rules>>
    BY <1>3, <1>10, <1>12, <2>1 DEF Works, RunKill, Crash, HasNoEffect, raftVars
  <2>3. \A n \in Nodes : up'[n] = up[n] \/ (n = v /\ ~up'[n])
    BY <1>10, <2>2
  <2>4. \A n \in Nodes : up'[n] \/ Pending(Start(n))'
    BY <1>4, <1>6, <1>8, <1>9, <1>12, <2>1, <2>3 DEF Repaired
  <2>5. \A r \in rules' : r \in rules /\ r[1] # v
    BY <1>4, <2>2 DEF Repaired
  <2>6. \A r \in rules' : up'[r[1]] /\ Pending(Flush(r[1], r[2]))'
    BY <1>4, <1>6, <1>9, <1>10, <1>12, <2>1, <2>3, <2>5 DEF Repaired
  <2>7. Repaired'
    BY <1>8, <1>11, <2>1, <2>4, <2>6 DEF Repaired
  <2>8. OneVictim(v)'
    BY <1>4, <1>7, <2>3, <2>5 DEF OneVictim
  <2>. QED  BY <2>7, <2>8
<1>13. CASE c.do = "start"
  <2>1. stage # "probe" /\ MendsItself(todo)
    BY <1>4, <1>11, <1>13 DEF Repaired
  <2>2. /\ rules' = rules /\ up'[c.on]
        /\ \A n \in Nodes : up[n] => up'[n]
    BY <1>3, <1>10, <1>13 DEF Works, RunStart, Recover, HasNoEffect, raftVars
  <2>3. \A n \in Nodes : up'[n] \/ Pending(Start(n))'
    BY <1>4, <1>6, <1>9, <2>2 DEF Repaired
  <2>4. \A r \in rules' : up'[r[1]] /\ Pending(Flush(r[1], r[2]))'
    BY <1>4, <1>6, <1>9, <1>10, <1>13, <2>1, <2>2 DEF Repaired
  <2>5. Repaired'
    BY <1>8, <1>11, <2>1, <2>3, <2>4 DEF Repaired
  <2>6. OneVictim(v)'
    BY <1>4, <1>7, <2>2 DEF OneVictim
  <2>. QED  BY <2>5, <2>6
<1>14. CASE c.do = "drop"
  <2>1. up' = up /\ (rules' = rules \/ (up[c.on] /\ rules' = rules \cup {<<c.on, c.chain, c.peer>>}))
    BY <1>3, <1>14 DEF Works, RunDrop, raftVars
  <2>2. c.on = v \/ c.peer = v
    BY <1>4, <1>5, <1>14 DEF OneVictim, AimsAt
  <2>3. \A n \in Nodes : up'[n] \/ Pending(Start(n))'
    BY <1>4, <1>6, <1>9, <1>14, <2>1 DEF Repaired
  <2>4. \A r \in rules' : r \in rules \/ (r[1] = c.on /\ r[2] = c.chain /\ r[3] = c.peer /\ up[c.on])
    BY <2>1
  <2>5. \A r \in rules' : up'[r[1]]
    BY <1>4, <2>1, <2>4 DEF Repaired
  <2>6. ASSUME stage # "probe" PROVE \A r \in rules' : Pending(Flush(r[1], r[2]))'
    <3>1. \A r \in rules : Pending(Flush(r[1], r[2]))'
      BY <1>4, <1>6, <1>9, <1>14, <2>6 DEF Repaired
    <3>2. Pending(Flush(c.on, c.chain))'
      BY <1>4, <1>8, <1>14, <2>6 DEF Repaired
    <3>. QED  BY <2>4, <3>1, <3>2
  <2>7. Repaired'
    BY <1>4, <1>8, <1>11, <2>3, <2>5, <2>6 DEF Repaired
  <2>8. OneVictim(v)'
    BY <1>4, <1>7, <2>1, <2>2, <2>4 DEF OneVictim
  <2>. QED  BY <2>7, <2>8
<1>15. CASE c.do = "flush"
  <2>1. stage # "probe" /\ MendsItself(todo)
    BY <1>4, <1>11, <1>15 DEF Repaired
  <2>2. /\ up' = up
        /\ \/ rules' = {r \in rules : r[1] # c.on \/ r[2] # c.chain}
           \/ rules' = rules /\ ~up[c.on]
    BY <1>3, <1>10, <1>15 DEF Works, RunFlush, HasNoEffect, raftVars
  <2>3. \A r \in rules' : r \in rules /\ (r[1] # c.on \/ r[2] # c.chain)
    BY <1>4, <2>2 DEF Repaired
  <2>4. \A r \in rules' : Pending(Flush(r[1], r[2]))'
    BY <1>4, <1>6, <1>9, <2>1, <2>3 DEF Repaired
  <2>5. \A n \in Nodes : up'[n] \/ Pending(Start(n))'
    BY <1>4, <1>6, <1>9, <1>15, <2>2 DEF Repaired
  <2>6. Repaired'
    BY <1>4, <1>8, <1>11, <2>1, <2>2, <2>3, <2>4, <2>5 DEF Repaired
  <2>7. OneVictim(v)'
    BY <1>4, <1>7, <2>2, <2>3 DEF OneVictim
  <2>. QED  BY <2>6, <2>7
<1>16. CASE c.do = "ask"
  <2>1. stage # "probe" /\ MendsItself(todo)
    BY <1>4, <1>11, <1>16 DEF Repaired
  <2>2. up' = up /\ rules' = rules
    BY <1>3, <1>16 DEF Works, RunAsk, raftVars
  <2>3. /\ \A n \in Nodes : up'[n] \/ Pending(Start(n))'
        /\ \A r \in rules' : up'[r[1]] /\ Pending(Flush(r[1], r[2]))'
    BY <1>4, <1>6, <1>9, <1>16, <2>1, <2>2 DEF Repaired
  <2>4. Repaired'
    BY <1>8, <1>11, <2>1, <2>3 DEF Repaired
  <2>5. OneVictim(v)'
    BY <1>4, <1>7, <2>2 DEF OneVictim
  <2>. QED  BY <2>4, <2>5
<1>. QED  BY <1>10, <1>12, <1>13, <1>14, <1>15, <1>16

\* With no command left, outside the probing, all is repaired.
LEMMA NothingLeft ==
  ASSUME BasicInv, Repaired, todo = <<>>
  PROVE  /\ \A n \in Nodes : up[n]
         /\ stage # "probe" => Healthy
BY DEF Repaired, Pending, In, Healthy

\* Every step keeps a majority that can be reached.
LEMMA RepairStep ==
  ASSUME BasicInv, RepairInv, [Next]_vars
  PROVE  RepairInv'
<1>1. ASSUME UNCHANGED <<up, rules, todo, stage, failures>> PROVE RepairInv'
  BY <1>1 DEF RepairInv, Repaired, OneVictim, Pending
<1>2. CASE ClusterStep
  BY <1>1, <1>2, ClusterFrame DEF injector, ClusterStep
<1>3. CASE RunCommand
  BY <1>3, RunRepair
<1>4. CASE UNCHANGED vars
  BY <1>1, <1>4 DEF vars, injector, raftVars
<1>5. ASSUME NEW s, Decide(s), failures = 0
      PROVE  /\ UNCHANGED <<up, rules, failures>> /\ stage = s /\ todo = <<>>
             /\ \A n \in Nodes : up[n]
             /\ Repaired /\ \E v \in Nodes : OneVictim(v)
             /\ s # "probe" => Healthy
  BY <1>5, NothingLeft DEF Decide, RepairInv, raftVars
<1>6. ASSUME NEW s, Decide(s), s # "probe", stage' # "probe", NEW v \in Nodes,
             MendsItself(todo'), AimsAt(v, todo')
      PROVE  RepairInv'
  <2>1. CASE failures = 0
    BY <1>5, <1>6, <2>1, NewPlan
  <2>2. CASE failures # 0
    BY <1>6, <2>2 DEF Decide, RepairInv
  <2>. QED  BY <2>1, <2>2
<1>7. ASSUME NEW s, Decide(s), s # "probe", stage' # "probe", Mends(todo')
      PROVE  RepairInv'
  <2>1. CASE failures = 0
    <3>1. PICK v \in Nodes : TRUE
      BY <1>5, <1>7, <2>1
    <3>. QED  BY <1>6, <1>7, <3>1, MendsIsHarmless
  <2>2. CASE failures # 0
    BY <1>7, <2>2 DEF Decide, RepairInv
  <2>. QED  BY <2>1, <2>2
<1>8. CASE DurableRound
  <2>1. Decide("durable") /\ stage' # "probe"
    BY <1>8 DEF DurableRound, Decide
  <2>2. CASE leaderID # NoNode /\ todo' = <<Kill(leaderID)>> \o HealAll \o LeaderID
    <3>1. PICK l : l = leaderID
      OBVIOUS
    <3>2. l \in Nodes /\ todo' = <<Kill(l)>> \o HealAll \o LeaderID
      BY <2>2, <3>1 DEF BasicInv
    <3>3. MendsItself(todo') /\ AimsAt(l, todo')
      BY <3>2, FaultPlans
    <3>. QED  BY <1>6, <2>1, <3>2, <3>3
  <2>3. CASE todo' = HealAll \o LeaderID \/ todo' = LeaderID
    <3>1. Mends(todo')
      BY <2>3, MendingPlans
    <3>. QED  BY <1>7, <2>1, <3>1
  <2>. QED  BY <1>8, <2>2, <2>3 DEF DurableRound
<1>9. CASE DurableEnds
  <2>1. Mends(todo')
    BY <1>9, MendingPlans DEF DurableEnds, BasicInv
  <2>. QED  BY <1>7, <1>9, <2>1 DEF DurableEnds
<1>10. CASE MinorityIsolates
  <2>. SUFFICES ASSUME failures = 0 PROVE RepairInv'
    BY <1>10 DEF MinorityIsolates, Decide, RepairInv
  <2>1. PICK l : l = leaderID
    OBVIOUS
  <2>2. l \in Nodes /\ todo' = Isolate(l) /\ stage' = "probe" /\ Decide("minority")
    BY <1>10, <2>1 DEF MinorityIsolates, BasicInv
  <2>3. UNCHANGED <<up, rules>> /\ rules = {} /\ \A n \in Nodes : up[n]
    BY <1>5, <2>2 DEF Healthy
  <2>4. \A i \in DOMAIN Isolate(l) : /\ Isolate(l)[i] \in Drops
                                     /\ Isolate(l)[i].on = l \/ Isolate(l)[i].peer = l
    BY <2>2, IsolatePlan
  <2>5. \A i \in DOMAIN Isolate(l) : Isolate(l)[i].do = "drop"
    BY <2>4 DEF Drops
  <2>6. AimsAt(l, todo')
    BY <2>2, <2>4, <2>5 DEF AimsAt
  <2>7. OneVictim(l)'
    BY <2>3, <2>6 DEF OneVictim
  <2>8. Repaired'
    BY <2>2, <2>3, <2>4 DEF Repaired
  <2>. QED  BY <2>2, <2>7, <2>8 DEF RepairInv
<1>11. CASE MinorityNoLeader
  <2>1. Mends(todo')
    BY <1>11, MendingPlans DEF MinorityNoLeader, Decide
  <2>. QED  BY <1>7, <1>11, <2>1 DEF MinorityNoLeader
<1>12. CASE MinorityProbe
  BY <1>1, <1>12 DEF MinorityProbe, Decide, raftVars
<1>13. CASE MinorityHeals
  <2>. SUFFICES ASSUME failures = 0 PROVE RepairInv'
    BY <1>13 DEF MinorityHeals, Decide, RepairInv
  <2>1. Decide("probe") /\ todo' = HealAll /\ stage' = "chaos"
    BY <1>13 DEF MinorityHeals
  <2>2. PICK v \in Nodes : OneVictim(v)
    BY <1>5, <2>1
  <2>3. UNCHANGED <<up, rules>> /\ \A n \in Nodes : up[n]
    BY <1>5, <2>1
  <2>4. MendsItself(todo') /\ AimsAt(v, todo')
    BY <2>1, MendingPlans, MendsIsHarmless
  <2>5. OneVictim(v)'
    BY <2>2, <2>3, <2>4 DEF OneVictim
  <2>6. \A r \in rules : r[1] \in Nodes /\ r[2] \in Chains
    BY DEF BasicInv
  <2>7. \A r \in rules : In(Flush(r[1], r[2]), HealAll)
    BY <2>6, HealAllPlan DEF In
  <2>8. Repaired'
    BY <2>1, <2>3, <2>4, <2>6, <2>7 DEF Repaired, Pending
  <2>. QED  BY <2>5, <2>8 DEF RepairInv
<1>14. CASE ChaosFault
  <2>1. Decide("chaos") /\ stage' # "probe"
    BY <1>14 DEF ChaosFault, Decide
  <2>2. PICK n \in Nodes : todo' = <<Kill(n), Start(n)>> \/ todo' = Isolate(n) \o HealAll
    BY <1>14 DEF ChaosFault
  <2>3. MendsItself(todo') /\ AimsAt(n, todo')
    BY <2>2, FaultPlans
  <2>. QED  BY <1>6, <2>1, <2>3
<1>15. CASE ChaosEnds
  <2>1. Mends(todo')
    BY <1>15, MendingPlans DEF ChaosEnds
  <2>. QED  BY <1>7, <1>15, <2>1 DEF ChaosEnds
<1>. QED  BY <1>2, <1>3, <1>4, <1>8, <1>9, <1>10, <1>11, <1>12, <1>13, <1>14, <1>15
          DEF Next, Injector

\* "One fault at a time, always healed before the next" (phaseChaos): until a
\* command fails, some majority of the nodes runs and is connected, between any
\* two commands of any phase - of three nodes or more, since one may be down.
THEOREM FaultsQuorumRemains ==
  ASSUME Cardinality(Nodes) > 2
  PROVE  Spec => []QuorumRemains
<1>1. Init => RepairInv
  <2>. SUFFICES ASSUME Init PROVE RepairInv
    OBVIOUS
  <2>1. todo = LeaderID /\ rules = {} /\ stage = "durable" /\ \A n \in Nodes : up[n]
    BY DEF Init, RaftInit
  <2>2. MendsItself(todo) /\ \A v : AimsAt(v, todo)
    BY <2>1, MendingPlans, MendsIsHarmless
  <2>3. Nodes # {}
    BY FS_EmptySet
  <2>4. \E v \in Nodes : OneVictim(v)
    BY <2>1, <2>2, <2>3 DEF OneVictim
  <2>. QED  BY <2>1, <2>2, <2>4 DEF RepairInv, Repaired
<1>2. BasicInv /\ RepairInv /\ [Next]_vars => RepairInv'
  BY RepairStep
<1>3. RepairInv => QuorumRemains
  BY OthersAreQuorum DEF RepairInv, QuorumRemains
<1>. QED  BY <1>1, <1>2, <1>3, InitBasic, NextBasic, PTL DEF Spec
================================================================================
