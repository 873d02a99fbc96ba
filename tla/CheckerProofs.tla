---------------------------- MODULE CheckerProofs ----------------------------
(***************************************************************************)
(* The verdict of the checker is the right one, for any number of clients, *)
(* keys, values and operations: a history that has an explanation is       *)
(* rejected only by a search that ran out of time, and one that is         *)
(* accepted has an explanation.                                            *)
(*                                                                         *)
(* Both directions build orders of operations one operation at a time, so  *)
(* the module begins with induction.                                       *)
(***************************************************************************)
EXTENDS Checker, KVProofs, FiniteSetTheorems, SequenceTheorems, WellFoundedInduction, TLAPS

-----------------------------------------------------------------------------
(* Induction, for a set that stands for what is to be proved               *)

\* A set that has 0 and, with each number, the next one has all numbers:
\* otherwise there would be a least number that it lacks.
LEMMA NatSetInduction ==
  ASSUME NEW S \in SUBSET Nat, 0 \in S, \A i \in S : i + 1 \in S
  PROVE  S = Nat
<1>. DEFINE Less == {ss \in Nat \X Nat : ss[1] < ss[2]}
            Lacks == Nat \ S
<1>1. IsWellFoundedOn(Less, Nat)
  BY NatLessThanWellFounded DEF OpToRel
<1>. SUFFICES ASSUME Lacks # {} PROVE FALSE
  OBVIOUS
<1>2. \E x \in Lacks : \A y \in Lacks : ~(<<y, x>> \in Less)
  <2>1. Lacks \subseteq Nat
    OBVIOUS
  <2>. HIDE DEF Less, Lacks
  <2>. QED  BY <1>1, <2>1, WFMin
<1>3. PICK x \in Lacks : \A y \in Lacks : ~(<<y, x>> \in Less)
  BY <1>2
<1>4. x \in Nat /\ x # 0 /\ x - 1 \in Nat /\ (x - 1) + 1 = x
  OBVIOUS
<1>5. x - 1 \in Lacks
  BY <1>4
<1>6. <<x - 1, x>> \in Less
  BY <1>4
<1>. QED  BY <1>3, <1>5, <1>6

\* The same up to a number.
LEMMA Induction ==
  ASSUME NEW n \in Nat, NEW S, 0 \in S, \A i \in 0 .. n : i # n /\ i \in S => i + 1 \in S
  PROVE  \A i \in 0 .. n : i \in S
<1>. DEFINE T == {i \in Nat : i <= n => i \in S}
<1>1. 0 \in T /\ T \in SUBSET Nat
  OBVIOUS
<1>2. ASSUME NEW i \in T PROVE i + 1 \in T
  OBVIOUS
<1>3. T = Nat
  <2>. HIDE DEF T
  <2>. QED  BY <1>1, <1>2, NatSetInduction
<1>. QED  BY <1>3

\* A set of numbers with a bound has a greatest one.
LEMMA MaxIs ==
  ASSUME NEW S \in SUBSET Nat, S # {}, NEW b \in Nat, \A x \in S : x <= b
  PROVE  Max(S) \in S /\ \A x \in S : x <= Max(S)
<1>. DEFINE Below == {i \in Nat : \E x \in S : i <= x}
<1>1. \E x \in S : \A y \in S : x >= y
  <2>. SUFFICES ASSUME \A x \in S : \E y \in S : y > x PROVE FALSE
    OBVIOUS
  <2>1. 0 \in Below /\ Below \in SUBSET Nat
    <3>1. PICK x \in S : TRUE
      OBVIOUS
    <3>2. x \in Nat /\ 0 <= x
      OBVIOUS
    <3>. QED  BY <3>2
  <2>2. ASSUME NEW i \in Below PROVE i + 1 \in Below
    OBVIOUS
  <2>3. Below = Nat
    <3>. HIDE DEF Below
    <3>. QED  BY <2>1, <2>2, NatSetInduction
  <2>4. b + 1 \in Below
    BY <2>3
  <2>. QED  BY <2>4
<1>. QED  BY <1>1 DEF Max

\* The greatest element of an interval.
LEMMA MaxOfInterval ==
  ASSUME NEW n \in Nat \ {0}
  PROVE  Max(1 .. n) = n
<1>. PICK S : S = 1 .. n
  OBVIOUS
<1>1. S \in SUBSET Nat /\ n \in S /\ S # {} /\ n \in Nat /\ \A x \in S : x <= n
  OBVIOUS
<1>2. Max(S) \in S /\ \A x \in S : x <= Max(S)
  BY <1>1, MaxIs
<1>. QED  BY <1>1, <1>2

\* f is the function by which FoldLeft goes through the indices of a sequence of
\* length n, the last one first.
Folds(f, n, V, base, g) ==
  /\ f \in [SUBSET (1 .. n) -> V]
  /\ \A s \in SUBSET (1 .. n) :
       f[s] = IF s = {} THEN base ELSE g[<<f[s \ {Max(s)}], Max(s)>>]

\* A fold over a sequence is well defined.
LEMMA FoldExists ==
  ASSUME NEW n \in Nat, NEW V, NEW base \in V, NEW g \in [V \X (1 .. n) -> V]
  PROVE  \E f : Folds(f, n, V, base, g)
<1>. DEFINE S == {m \in 0 .. n : \E f : Folds(f, m, V, base, g)}
<1>1. 0 \in S
  <2>. DEFINE f == [s \in SUBSET (1 .. 0) |-> base]
  <2>1. \A s \in SUBSET (1 .. 0) : s = {}
    OBVIOUS
  <2>2. Folds(f, 0, V, base, g)
    BY <2>1 DEF Folds
  <2>. HIDE DEF f
  <2>. QED  BY <2>2
<1>2. ASSUME NEW m \in 0 .. n, m # n, m \in S PROVE m + 1 \in S
  <2>1. PICK f : Folds(f, m, V, base, g)
    BY <1>2
  <2>. DEFINE h == [s \in SUBSET (1 .. m + 1) |->
                      IF m + 1 \in s THEN g[<<f[s \ {m + 1}], m + 1>>] ELSE f[s]]
  <2>2. ASSUME NEW s \in SUBSET (1 .. m + 1), m + 1 \in s
        PROVE  Max(s) = m + 1 /\ s \ {m + 1} \in SUBSET (1 .. m)
    <3>1. s \in SUBSET Nat /\ s # {} /\ \A x \in s : x <= m + 1
      BY <2>2
    <3>2. Max(s) \in s /\ m + 1 <= Max(s)
      <4>1. m + 1 \in Nat
        OBVIOUS
      <4>. QED  BY <3>1, <4>1, <2>2, MaxIs
    <3>3. ASSUME NEW x \in s, m + 1 <= x PROVE x = m + 1
      <4>1. x \in 1 .. m + 1
        OBVIOUS
      <4>. QED  BY <3>3, <4>1
    <3>4. Max(s) = m + 1
      BY <3>2, <3>3
    <3>5. s \ {m + 1} \in SUBSET (1 .. m)
      OBVIOUS
    <3>. QED  BY <3>4, <3>5
  <2>3. ASSUME NEW s \in SUBSET (1 .. m + 1), m + 1 \notin s
        PROVE  s \in SUBSET (1 .. m)
    BY <2>3
  <2>4. ASSUME NEW s \in SUBSET (1 .. m + 1) PROVE h[s] \in V
    <3>1. CASE m + 1 \in s
      <4>1. f[s \ {m + 1}] \in V
        BY <2>1, <2>2, <3>1 DEF Folds
      <4>2. <<f[s \ {m + 1}], m + 1>> \in V \X (1 .. n)
        <5>1. m + 1 \in 1 .. n
          BY <1>2
        <5>. QED  BY <4>1, <5>1
      <4>. QED  BY <3>1, <4>2
    <3>2. CASE m + 1 \notin s
      BY <2>1, <2>3, <3>2 DEF Folds
    <3>. QED  BY <3>1, <3>2
  <2>5. ASSUME NEW s \in SUBSET (1 .. m + 1), m + 1 \in s
        PROVE  h[s] = g[<<h[s \ {Max(s)}], Max(s)>>] /\ s # {}
    BY <2>2, <2>5
  <2>6. ASSUME NEW s \in SUBSET (1 .. m + 1), m + 1 \notin s
        PROVE  h[s] = IF s = {} THEN base ELSE g[<<h[s \ {Max(s)}], Max(s)>>]
    <3>1. s \in SUBSET (1 .. m) /\ s \ {Max(s)} \in SUBSET (1 .. m)
      BY <2>6, <2>3
    <3>2. h[s] = f[s] /\ h[s \ {Max(s)}] = f[s \ {Max(s)}]
      BY <3>1, <2>6
    <3>. QED  BY <3>1, <3>2, <2>1 DEF Folds
  <2>7. Folds(h, m + 1, V, base, g)
    BY <2>4, <2>5, <2>6 DEF Folds
  <2>8. m + 1 \in 0 .. n
    BY <1>2
  <2>. HIDE DEF h
  <2>. QED  BY <2>7, <2>8
<1>3. n \in S
  <2>. HIDE DEF S
  <2>. QED  BY <1>1, <1>2, Induction
<1>. QED  BY <1>3

-----------------------------------------------------------------------------
(* The model of the checker, and what it has to do with the state machine  *)

Register == [present : BOOLEAN, val : Values]

POp == [cmd : Command, unknown : BOOLEAN, res : Result, call : Nat, return : Nat]

\* The register of a key that holds v in the map.
Reg(v) == IF v = Nil THEN InitState ELSE KVState(TRUE, v)

LEMMA EmptyDataType ==
  EmptyData \in Data
BY DEF EmptyData, Data

\* A record has a command of the state machine.
LEMMA RecordedCommand ==
  ASSUME NEW op \in Op
  PROVE  op.cmd \in Command
BY CheckerAssumption DEF Op

LEMMA RegType ==
  ASSUME NEW d \in Data, NEW k \in Keys
  PROVE  Reg(d[k]) \in Register
BY KVAssumption DEF Reg, Register, InitState, KVState, Data

LEMMA StepType ==
  ASSUME NEW st \in Register, NEW o \in POp
  PROVE  Step(st, o) \in [ok : BOOLEAN, st : Register]
<1>. USE DEF Verdict, KVState, InitState, Register, POp, Result, Command
<1>1. CASE o.cmd.op = "put"
  BY <1>1, KVAssumption DEF Step
<1>2. CASE o.cmd.op = "get"
  BY <1>2, KVAssumption DEF Step
<1>3. CASE o.cmd.op = "delete"
  BY <1>3, KVAssumption DEF Step
<1>4. CASE o.cmd.op = "cas"
  <2>1. StateMatches(st, o.cmd.expect) \in BOOLEAN
    BY DEF StateMatches
  <2>2. StepCAS(st, o) \in [ok : BOOLEAN, st : Register]
    BY <2>1 DEF StepCAS
  <2>. QED  BY <1>4, <2>2 DEF Step
<1>. QED  BY <1>1, <1>2, <1>3, <1>4 DEF Ops

\* What Model.Step makes of an operation of known outcome is what FSM.Apply
\* makes of it, and it accepts just the right verdicts.
LEMMA StepKnown ==
  ASSUME NEW d \in Data, NEW op \in Op, NEW h, op.outcome = "ok", op.cmd \in Command
  PROVE  LET w == Step(Reg(d[op.cmd.key]), Converted(op, h))
         IN  /\ SameVerdict(op, ApplyResult(d, op.cmd)) => w.ok
             /\ w.ok /\ op.res \in Answers(op.cmd) => SameVerdict(op, ApplyResult(d, op.cmd))
             /\ w.ok => w.st = Reg(ApplyData(d, op.cmd)[op.cmd.key])
<1>. DEFINE cmd == op.cmd
            k   == cmd.key
            v   == d[k]
            o   == Converted(op, h)
            w   == Step(Reg(v), o)
<1>1. o.cmd = cmd /\ o.unknown = FALSE /\ o.res = op.res
  BY DEF Converted
<1>2. k \in Keys /\ v \in Values \cup {Nil} /\ DOMAIN d = Keys /\ cmd.op \in Ops
  BY DEF Command, Data
<1>3. /\ v = Nil => Reg(v).present = FALSE /\ Reg(v) = KVState(FALSE, Empty)
      /\ v # Nil => Reg(v).present = TRUE /\ Reg(v).val = v
  BY DEF Reg, KVState, InitState
<1>. SUFFICES /\ SameVerdict(op, ApplyResult(d, cmd)) => w.ok
              /\ w.ok /\ op.res \in Answers(cmd) => SameVerdict(op, ApplyResult(d, cmd))
              /\ w.ok => w.st = Reg(ApplyData(d, cmd)[k])
  OBVIOUS
<1>. HIDE DEF o
<1>4. CASE cmd.op = "put"
  <2>1. w = Verdict(TRUE, KVState(TRUE, cmd.value))
    BY <1>1, <1>4 DEF Step
  <2>2. ApplyData(d, cmd)[k] = cmd.value /\ cmd.value # Nil
    BY <1>2, <1>4, KVAssumption DEF ApplyData, Command
  <2>3. SameVerdict(op, ApplyResult(d, cmd))
    BY <1>4 DEF SameVerdict
  <2>4. Reg(ApplyData(d, cmd)[k]) = KVState(TRUE, cmd.value)
    BY <2>2 DEF Reg
  <2>. HIDE DEF w
  <2>. QED  BY <2>1, <2>3, <2>4 DEF Verdict
<1>5. CASE cmd.op = "delete"
  <2>1. w = Verdict(TRUE, InitState)
    BY <1>1, <1>5 DEF Step
  <2>2. ApplyData(d, cmd)[k] = Nil
    BY <1>2, <1>5 DEF ApplyData
  <2>3. SameVerdict(op, ApplyResult(d, cmd))
    BY <1>5 DEF SameVerdict
  <2>4. Reg(ApplyData(d, cmd)[k]) = InitState
    BY <2>2 DEF Reg
  <2>. HIDE DEF w
  <2>. QED  BY <2>1, <2>3, <2>4 DEF Verdict
<1>6. CASE cmd.op = "get"
  <2>. DEFINE r == Res(TRUE, v # Nil, IF v # Nil THEN v ELSE Empty)
  <2>1. w = Verdict(/\ op.res.present = Reg(v).present
                    /\ Reg(v).present => op.res.value = Reg(v).val, Reg(v))
    BY <1>1, <1>6 DEF Step
  <2>2. ApplyData(d, cmd) = d
    BY <1>6 DEF ApplyData
  <2>3. ApplyResult(d, cmd) = r
    BY <1>6 DEF ApplyResult, Present, Lookup
  <2>4. SameVerdict(op, ApplyResult(d, cmd)) <=> op.res = r
    BY <1>6, <2>3 DEF SameVerdict
  <2>5. op.res = r => w.ok
    <3>1. r.present = (v # Nil) /\ r.value = IF v # Nil THEN v ELSE Empty
      BY DEF Res
    <3>2. w.ok = (/\ op.res.present = Reg(v).present
                  /\ Reg(v).present => op.res.value = Reg(v).val)
      BY <2>1 DEF Verdict
    <3>. HIDE DEF r, w
    <3>. QED  BY <3>1, <3>2, <1>3
  <2>6. ASSUME w.ok, op.res \in Answers(cmd) PROVE op.res = r
    <3>1. PICK x \in Values \cup {Nil} : op.res = Res(TRUE, x # Nil, IF x # Nil THEN x ELSE Empty)
      BY <2>6, <1>2, <1>6 DEF Answers, ApplyResult, Present, Lookup, Data
    <3>2. op.res.present = (x # Nil) /\ (x # Nil => op.res.value = x)
      BY <3>1 DEF Res
    <3>3. op.res.present = Reg(v).present /\ (Reg(v).present => op.res.value = Reg(v).val)
      BY <2>1, <2>6 DEF Verdict
    <3>4. x = v
      BY <3>2, <3>3, <1>3
    <3>. QED  BY <3>1, <3>4
  <2>7. w.ok => w.st = Reg(v)
    BY <2>1 DEF Verdict
  <2>. HIDE DEF w, r
  <2>. QED  BY <2>2, <2>4, <2>5, <2>6, <2>7
<1>7. CASE cmd.op = "cas"
  <2>1. StateMatches(Reg(v), cmd.expect) <=> CASMatches(d, cmd)
    BY <1>3 DEF StateMatches, CASMatches, Present
  <2>2. w = IF op.res.ok THEN Verdict(StateMatches(Reg(v), cmd.expect), KVState(TRUE, cmd.value))
                         ELSE Verdict(~StateMatches(Reg(v), cmd.expect), Reg(v))
    BY <1>1, <1>7 DEF Step, StepCAS
  <2>3. SameVerdict(op, ApplyResult(d, cmd)) <=> op.res.ok = CASMatches(d, cmd)
    <3>1. CASMatches(d, cmd) \in BOOLEAN
      BY DEF CASMatches
    <3>2. ApplyResult(d, cmd).ok = CASMatches(d, cmd)
      BY <3>1, <1>7 DEF ApplyResult, Res
    <3>. QED  BY <3>2, <1>7 DEF SameVerdict
  <2>4. ApplyData(d, cmd)[k] = IF CASMatches(d, cmd) THEN cmd.value ELSE v
    BY <1>2, <1>7 DEF ApplyData
  <2>5. Reg(cmd.value) = KVState(TRUE, cmd.value) /\ op.res.ok \in BOOLEAN
        /\ CASMatches(d, cmd) \in BOOLEAN
    BY KVAssumption DEF Reg, Command, Op, Result, CASMatches
  <2>. HIDE DEF w
  <2>6. w.ok <=> op.res.ok = CASMatches(d, cmd)
    BY <2>1, <2>2, <2>5 DEF Verdict
  <2>7. w.ok => w.st = Reg(ApplyData(d, cmd)[k])
    BY <2>1, <2>2, <2>4, <2>5 DEF Verdict
  <2>. QED  BY <2>3, <2>6, <2>7
<1>. QED  BY <1>2, <1>4, <1>5, <1>6, <1>7 DEF Ops

\* An operation of unknown outcome is possible in every state.
LEMMA StepUnknown ==
  ASSUME NEW d \in Data, NEW op \in Op, NEW h, op.outcome # "ok", op.cmd \in Command,
         op.cmd.op # "get"
  PROVE  Step(Reg(d[op.cmd.key]), Converted(op, h))
           = Verdict(TRUE, Reg(ApplyData(d, op.cmd)[op.cmd.key]))
<1>. DEFINE cmd == op.cmd
            k   == cmd.key
            v   == d[k]
            o   == Converted(op, h)
<1>1. o.cmd = cmd /\ o.unknown = TRUE
  BY DEF Converted
<1>2. k \in Keys /\ v \in Values \cup {Nil} /\ DOMAIN d = Keys /\ cmd.op \in Ops
  BY DEF Command, Data
<1>3. /\ v = Nil => Reg(v).present = FALSE /\ Reg(v) = KVState(FALSE, Empty)
      /\ v # Nil => Reg(v).present = TRUE /\ Reg(v).val = v
  BY DEF Reg, KVState, InitState
<1>4. Reg(cmd.value) = KVState(TRUE, cmd.value)
  BY KVAssumption DEF Reg, Command
<1>. SUFFICES Step(Reg(v), o) = Verdict(TRUE, Reg(ApplyData(d, cmd)[k]))
  OBVIOUS
<1>. HIDE DEF o
<1>5. CASE cmd.op = "put"
  BY <1>1, <1>2, <1>4, <1>5 DEF Step, ApplyData
<1>6. CASE cmd.op = "delete"
  BY <1>1, <1>2, <1>6 DEF Step, ApplyData, Reg
<1>7. CASE cmd.op = "cas"
  <2>1. StateMatches(Reg(v), cmd.expect) <=> CASMatches(d, cmd)
    BY <1>3 DEF StateMatches, CASMatches, Present
  <2>2. Step(Reg(v), o) = Verdict(TRUE, IF StateMatches(Reg(v), cmd.expect)
                                         THEN KVState(TRUE, cmd.value) ELSE Reg(v))
    BY <1>1, <1>7 DEF Step, StepCAS
  <2>3. ApplyData(d, cmd)[k] = IF CASMatches(d, cmd) THEN cmd.value ELSE v
    BY <1>2, <1>7 DEF ApplyData
  <2>. QED  BY <2>1, <2>2, <2>3, <1>4
<1>. QED  BY <1>2, <1>5, <1>6, <1>7 DEF Ops

\* Accepted goes through the states of the register one by one.
LEMMA AcceptedMeans ==
  ASSUME NEW n \in Nat, NEW ops \in [1 .. n -> POp]
  PROVE  Accepted(ops) <=>
           \E r \in [0 .. n -> Register] :
             /\ r[0] = InitState
             /\ \A i \in 1 .. n : Step(r[i - 1], ops[i]) = Verdict(TRUE, r[i])
<1>. DEFINE V == [ok : BOOLEAN, st : Register]
            Judge(v, o) == LET w == Step(v.st, o) IN Verdict(v.ok /\ w.ok, w.st)
            base == Verdict(TRUE, InitState)
            Is(f) == f = [s \in SUBSET (1 .. n) |->
                            IF s = {} THEN base ELSE Judge(f[s \ {Max(s)}], ops[Max(s)])]
            F == CHOOSE f : Is(f)
<1>1. base \in V
  BY KVAssumption DEF Verdict, InitState, KVState, Register
<1>2. ASSUME NEW v \in V, NEW o \in POp PROVE Judge(v, o) \in V
  <2>1. Step(v.st, o) \in V
    BY StepType
  <2>. QED  BY <2>1 DEF Verdict
<1>3. \E f \in [SUBSET (1 .. n) -> V] : Is(f)
  <2>. DEFINE g == [x \in V \X (1 .. n) |-> Judge(x[1], ops[x[2]])]
  <2>1. g \in [V \X (1 .. n) -> V]
    BY <1>2
  <2>2. ASSUME NEW v \in V, NEW i \in 1 .. n PROVE g[<<v, i>>] = Judge(v, ops[i])
    OBVIOUS
  <2>. HIDE DEF g, V, base, Judge
  <2>3. PICK f : Folds(f, n, V, base, g)
    BY <1>1, <2>1, FoldExists
  <2>4. ASSUME NEW s \in SUBSET (1 .. n), s # {} PROVE Max(s) \in 1 .. n
    <3>1. s \in SUBSET Nat /\ \A x \in s : x <= n
      OBVIOUS
    <3>2. Max(s) \in s
      BY <2>4, <3>1, MaxIs
    <3>. QED  BY <3>2
  <2>5. Is(f)
    BY <2>2, <2>3, <2>4 DEF Folds
  <2>. QED  BY <2>3, <2>5 DEF Folds
<1>4. Is(F)
  <2>. HIDE DEF Is
  <2>. QED  BY <1>3
<1>5. Accepted(ops) = F[1 .. n].ok
  BY DEF Accepted, FoldLeft, MapThenFoldSet
<1>. HIDE DEF F, base, Judge
<1>. DEFINE run == [i \in 0 .. n |-> F[1 .. i]]
<1>6. run[0] = base
  BY <1>4
<1>7. ASSUME NEW i \in 1 .. n PROVE run[i] = Judge(run[i - 1], ops[i])
  <2>1. Max(1 .. i) = i
    <3>1. i \in Nat \ {0}
      OBVIOUS
    <3>. QED  BY <3>1, MaxOfInterval
  <2>2. (1 .. i) \ {i} = 1 .. (i - 1) /\ i \in 1 .. i /\ 1 .. i \in SUBSET (1 .. n)
    <3>. i \in Nat /\ 1 <= i /\ i <= n
      OBVIOUS
    <3>1. (1 .. i) \ {i} = 1 .. (i - 1)
      OBVIOUS
    <3>. QED  BY <3>1
  <2>3. F[1 .. i] = Judge(F[1 .. (i - 1)], ops[i])
    BY <1>4, <2>1, <2>2
  <2>. QED  BY <2>3
<1>8. Accepted(ops) = run[n].ok
  BY <1>5
<1>. HIDE DEF run, V
<1>9. \A i \in 0 .. n : run[i] \in V
  <2>. DEFINE S == {i \in 0 .. n : run[i] \in V}
  <2>1. 0 \in S
    BY <1>1, <1>6
  <2>2. ASSUME NEW i \in 0 .. n, i # n, i \in S PROVE i + 1 \in S
    <3>1. i + 1 \in 1 .. n /\ (i + 1) - 1 = i
      BY <2>2
    <3>. QED  BY <1>2, <1>7, <2>2, <3>1
  <2>3. \A i \in 0 .. n : i \in S
    <3>. HIDE DEF S
    <3>. QED  BY <2>1, <2>2, Induction
  <2>. QED  BY <2>3
<1>10. /\ run[0].ok /\ run[0].st = InitState
       /\ \A i \in 1 .. n : /\ run[i].ok <=> run[i - 1].ok /\ Step(run[i - 1].st, ops[i]).ok
                            /\ run[i].st = Step(run[i - 1].st, ops[i]).st
  <2>1. run[0].ok /\ run[0].st = InitState
    BY <1>6 DEF base, Verdict
  <2>2. ASSUME NEW i \in 1 .. n
        PROVE  /\ run[i].ok <=> run[i - 1].ok /\ Step(run[i - 1].st, ops[i]).ok
               /\ run[i].st = Step(run[i - 1].st, ops[i]).st
    <3>. DEFINE w == Step(run[i - 1].st, ops[i])
    <3>1. run[i] = Verdict(run[i - 1].ok /\ w.ok, w.st)
      BY <1>7 DEF Judge
    <3>. HIDE DEF w
    <3>. PICK b \in BOOLEAN : b <=> run[i - 1].ok /\ w.ok
      OBVIOUS
    <3>2. run[i] = Verdict(b, w.st)
      BY <3>1
    <3>3. (run[i].ok <=> b) /\ run[i].st = w.st
      BY <3>2 DEF Verdict
    <3>. QED  BY <3>3 DEF w
  <2>. QED  BY <2>1, <2>2
<1>11. ASSUME Accepted(ops)
       PROVE  \E r \in [0 .. n -> Register] :
                /\ r[0] = InitState
                /\ \A i \in 1 .. n : Step(r[i - 1], ops[i]) = Verdict(TRUE, r[i])
  <2>. DEFINE r == [i \in 0 .. n |-> run[i].st]
              S == {i \in 0 .. n : run[n - i].ok}
  <2>1. 0 \in S
    <3>1. n - 0 = n /\ 0 \in 0 .. n
      OBVIOUS
    <3>. QED  BY <1>8, <1>11, <3>1
  <2>2. ASSUME NEW i \in 0 .. n, i # n, i \in S PROVE i + 1 \in S
    <3>1. n - i \in 1 .. n /\ (n - i) - 1 = n - (i + 1) /\ i + 1 \in 0 .. n
      BY <2>2
    <3>2. run[n - i].ok => run[n - (i + 1)].ok
      BY <1>10, <3>1
    <3>. QED  BY <2>2, <3>1, <3>2
  <2>3. \A i \in 0 .. n : i \in S
    <3>. HIDE DEF S
    <3>. QED  BY <2>1, <2>2, Induction
  <2>4. \A i \in 0 .. n : run[i].ok = TRUE
    <3>. SUFFICES ASSUME NEW i \in 0 .. n PROVE run[i].ok = TRUE
      OBVIOUS
    <3>1. n - i \in 0 .. n /\ n - (n - i) = i
      OBVIOUS
    <3>2. run[i].ok
      BY <2>3, <3>1
    <3>. QED  BY <1>9, <3>2 DEF V
  <2>5. r \in [0 .. n -> Register] /\ r[0] = InitState
    BY <1>9, <1>10 DEF V
  <2>6. ASSUME NEW i \in 1 .. n PROVE Step(r[i - 1], ops[i]) = Verdict(TRUE, r[i])
    <3>1. i - 1 \in 0 .. n /\ i \in 0 .. n
      OBVIOUS
    <3>. PICK w : w = Step(run[i - 1].st, ops[i])
      OBVIOUS
    <3>2. w \in V
      BY <1>9, <3>1, StepType DEF V
    <3>3. (run[i].ok <=> run[i - 1].ok /\ w.ok) /\ run[i].st = w.st
      BY <1>10
    <3>4. w.ok = TRUE /\ w.st = run[i].st
      BY <2>4, <3>1, <3>2, <3>3 DEF V
    <3>. QED  BY <3>1, <3>2, <3>4 DEF V, Verdict
  <2>. QED  BY <2>5, <2>6
<1>12. ASSUME NEW r \in [0 .. n -> Register], r[0] = InitState,
              \A i \in 1 .. n : Step(r[i - 1], ops[i]) = Verdict(TRUE, r[i])
       PROVE  Accepted(ops)
  <2>. DEFINE S == {i \in 0 .. n : run[i].ok /\ run[i].st = r[i]}
  <2>1. 0 \in S
    BY <1>10, <1>12
  <2>2. ASSUME NEW i \in 0 .. n, i # n, i \in S PROVE i + 1 \in S
    <3>1. i + 1 \in 1 .. n /\ (i + 1) - 1 = i /\ i + 1 \in 0 .. n
      BY <2>2
    <3>. DEFINE w == Step(r[i], ops[i + 1])
    <3>2. w = Verdict(TRUE, r[i + 1])
      BY <1>12, <3>1
    <3>3. (run[i + 1].ok <=> run[i].ok /\ w.ok) /\ run[i + 1].st = w.st
      BY <1>10, <2>2, <3>1
    <3>. HIDE DEF w
    <3>4. w.ok /\ w.st = r[i + 1]
      BY <3>2 DEF Verdict
    <3>5. run[i + 1].ok /\ run[i + 1].st = r[i + 1]
      BY <2>2, <3>3, <3>4
    <3>. QED  BY <3>1, <3>5
  <2>3. \A i \in 0 .. n : i \in S
    <3>. HIDE DEF S
    <3>. QED  BY <2>1, <2>2, Induction
  <2>4. n \in S
    BY <2>3
  <2>. QED  BY <1>8, <2>4
<1>. QED  BY <1>11, <1>12

\* A flag that is cleared by the first step that is not good, and stays so.
LEMMA AllGood ==
  ASSUME NEW n \in Nat, NEW Ok, NEW Good, 0 \in Ok,
         \A i \in 1 .. n : i \in Ok <=> i - 1 \in Ok /\ i \in Good
  PROVE  n \in Ok <=> \A i \in 1 .. n : i \in Good
<1>. DEFINE S == {i \in 0 .. n : i \in Ok <=> \A j \in 1 .. i : j \in Good}
<1>1. 0 \in S
  OBVIOUS
<1>2. ASSUME NEW i \in 0 .. n, i # n, i \in S PROVE i + 1 \in S
  <2>1. i + 1 \in 1 .. n /\ (i + 1) - 1 = i /\ i + 1 \in 0 .. n /\ 1 .. i + 1 = (1 .. i) \cup {i + 1}
    BY <1>2
  <2>. QED  BY <1>2, <2>1
<1>3. \A i \in 0 .. n : i \in S
  <2>. HIDE DEF S
  <2>. QED  BY <1>1, <1>2, Induction
<1>4. n \in S
  BY <1>3
<1>. QED  BY <1>4

\* Explains goes through the states of the map one by one.
LEMMA ExplainsSameAnswer ==
  ASSUME history \in Seq(Op), NEW n \in Nat, NEW order \in [1 .. n -> DOMAIN history]
  PROVE  \E d \in [0 .. n -> Data] :
           /\ d[0] = EmptyData
           /\ \A i \in 1 .. n : d[i] = ApplyData(d[i - 1], history[order[i]].cmd)
           /\ Explains(order, SameAnswer) <=>
                \A i \in 1 .. n :
                  history[order[i]].outcome = "ok" =>
                    SameAnswer(history[order[i]], ApplyResult(d[i - 1], history[order[i]].cmd))
<1>. DEFINE V == [ok : BOOLEAN, data : Data]
            Right(v, k) ==
              history[k].outcome = "ok" =>
                SameAnswer(history[k], ApplyResult(v.data, history[k].cmd))
            Tell(v, k) == [ok |-> v.ok /\ Right(v, k), data |-> ApplyData(v.data, history[k].cmd)]
            base == [ok |-> TRUE, data |-> EmptyData]
            Is(f) == f = [s \in SUBSET (1 .. n) |->
                            IF s = {} THEN base ELSE Tell(f[s \ {Max(s)}], order[Max(s)])]
            F == CHOOSE f : Is(f)
<1>1. base \in V
  BY EmptyDataType
<1>2. ASSUME NEW v \in V, NEW k \in DOMAIN history PROVE Tell(v, k) \in V
  <2>1. history[k].cmd \in Command
    BY RecordedCommand
  <2>2. ApplyData(v.data, history[k].cmd) \in Data
    BY <2>1, ApplyDataType
  <2>3. (v.ok /\ Right(v, k)) \in BOOLEAN
    OBVIOUS
  <2>. HIDE DEF Right
  <2>. QED  BY <2>2, <2>3
<1>3. \E f : Is(f)
  <2>. DEFINE g == [x \in V \X (1 .. n) |-> Tell(x[1], order[x[2]])]
  <2>1. g \in [V \X (1 .. n) -> V]
    <3>. HIDE DEF Tell
    <3>. QED  BY <1>2
  <2>2. ASSUME NEW v \in V, NEW i \in 1 .. n PROVE g[<<v, i>>] = Tell(v, order[i])
    <3>. HIDE DEF Tell
    <3>. QED  OBVIOUS
  <2>. HIDE DEF g, V, base, Tell
  <2>3. PICK f : Folds(f, n, V, base, g)
    BY <1>1, <2>1, FoldExists
  <2>4. ASSUME NEW s \in SUBSET (1 .. n), s # {} PROVE Max(s) \in 1 .. n
    <3>1. s \in SUBSET Nat /\ \A x \in s : x <= n
      OBVIOUS
    <3>2. Max(s) \in s
      BY <2>4, <3>1, MaxIs
    <3>. QED  BY <3>2
  <2>5. Is(f)
    BY <2>2, <2>3, <2>4 DEF Folds
  <2>. QED  BY <2>5
<1>4. Is(F)
  <2>. HIDE DEF Is
  <2>. QED  BY <1>3
<1>5. Explains(order, SameAnswer) = F[1 .. n].ok
  BY DEF Explains, FoldLeft, MapThenFoldSet
<1>. HIDE DEF F, base, Tell
<1>. DEFINE run == [i \in 0 .. n |-> F[1 .. i]]
<1>6. run[0] = base
  BY <1>4
<1>7. ASSUME NEW i \in 1 .. n PROVE run[i] = Tell(run[i - 1], order[i])
  <2>1. Max(1 .. i) = i
    <3>1. i \in Nat \ {0}
      OBVIOUS
    <3>. QED  BY <3>1, MaxOfInterval
  <2>2. (1 .. i) \ {i} = 1 .. (i - 1) /\ i \in 1 .. i /\ 1 .. i \in SUBSET (1 .. n)
    <3>. i \in Nat /\ 1 <= i /\ i <= n
      OBVIOUS
    <3>1. (1 .. i) \ {i} = 1 .. (i - 1)
      OBVIOUS
    <3>. QED  BY <3>1
  <2>3. F[1 .. i] = Tell(F[1 .. (i - 1)], order[i])
    BY <1>4, <2>1, <2>2
  <2>. QED  BY <2>3
<1>8. Explains(order, SameAnswer) = run[n].ok
  BY <1>5
<1>. HIDE DEF run, V
<1>9. \A i \in 0 .. n : run[i] \in V
  <2>. DEFINE S == {i \in 0 .. n : run[i] \in V}
  <2>1. 0 \in S
    BY <1>1, <1>6
  <2>2. ASSUME NEW i \in 0 .. n, i # n, i \in S PROVE i + 1 \in S
    <3>1. i + 1 \in 1 .. n /\ (i + 1) - 1 = i
      BY <2>2
    <3>. QED  BY <1>2, <1>7, <2>2, <3>1
  <2>3. \A i \in 0 .. n : i \in S
    <3>. HIDE DEF S
    <3>. QED  BY <2>1, <2>2, Induction
  <2>. QED  BY <2>3
<1>. HIDE DEF Right
<1>10. ASSUME NEW i \in 1 .. n
       PROVE  /\ run[i].ok <=> run[i - 1].ok /\ Right(run[i - 1], order[i])
              /\ run[i].data = ApplyData(run[i - 1].data, history[order[i]].cmd)
  <2>. PICK b \in BOOLEAN : b <=> run[i - 1].ok /\ Right(run[i - 1], order[i])
    OBVIOUS
  <2>1. run[i] = [ok |-> b, data |-> ApplyData(run[i - 1].data, history[order[i]].cmd)]
    BY <1>7 DEF Tell
  <2>. QED  BY <2>1
<1>. DEFINE d == [i \in 0 .. n |-> run[i].data]
            Ok == {i \in 0 .. n : run[i].ok}
            Good == {i \in 1 .. n : Right(run[i - 1], order[i])}
<1>11. run[n].ok <=> \A i \in 1 .. n : Right(run[i - 1], order[i])
  <2>1. 0 \in Ok
    BY <1>6 DEF base
  <2>2. \A i \in 1 .. n : i \in Ok <=> i - 1 \in Ok /\ i \in Good
    BY <1>10
  <2>3. n \in Ok <=> \A i \in 1 .. n : i \in Good
    <3>. HIDE DEF Ok, Good
    <3>. QED  BY <2>1, <2>2, AllGood
  <2>. QED  BY <2>3
<1>12. d \in [0 .. n -> Data] /\ d[0] = EmptyData
  BY <1>6, <1>9 DEF V, base
<1>13. \A i \in 1 .. n : i - 1 \in 0 .. n /\ d[i - 1] = run[i - 1].data /\ d[i] = run[i].data
  OBVIOUS
<1>14. \A i \in 1 .. n : d[i] = ApplyData(d[i - 1], history[order[i]].cmd)
  BY <1>10, <1>13
<1>15. \A i \in 1 .. n : Right(run[i - 1], order[i]) <=>
         (history[order[i]].outcome = "ok" =>
            SameAnswer(history[order[i]], ApplyResult(d[i - 1], history[order[i]].cmd)))
  BY <1>13 DEF Right
<1>. HIDE DEF d
<1>16. Explains(order, SameAnswer) <=>
         \A i \in 1 .. n :
           history[order[i]].outcome = "ok" =>
             SameAnswer(history[order[i]], ApplyResult(d[i - 1], history[order[i]].cmd))
  BY <1>8, <1>11, <1>15
<1>. QED  BY <1>12, <1>14, <1>16

\* The same of the weaker explanation.
LEMMA ExplainsSameVerdict ==
  ASSUME history \in Seq(Op), NEW n \in Nat, NEW order \in [1 .. n -> DOMAIN history]
  PROVE  \E d \in [0 .. n -> Data] :
           /\ d[0] = EmptyData
           /\ \A i \in 1 .. n : d[i] = ApplyData(d[i - 1], history[order[i]].cmd)
           /\ Explains(order, SameVerdict) <=>
                \A i \in 1 .. n :
                  history[order[i]].outcome = "ok" =>
                    SameVerdict(history[order[i]], ApplyResult(d[i - 1], history[order[i]].cmd))
<1>. DEFINE V == [ok : BOOLEAN, data : Data]
            Right(v, k) ==
              history[k].outcome = "ok" =>
                SameVerdict(history[k], ApplyResult(v.data, history[k].cmd))
            Tell(v, k) == [ok |-> v.ok /\ Right(v, k), data |-> ApplyData(v.data, history[k].cmd)]
            base == [ok |-> TRUE, data |-> EmptyData]
            Is(f) == f = [s \in SUBSET (1 .. n) |->
                            IF s = {} THEN base ELSE Tell(f[s \ {Max(s)}], order[Max(s)])]
            F == CHOOSE f : Is(f)
<1>1. base \in V
  BY EmptyDataType
<1>2. ASSUME NEW v \in V, NEW k \in DOMAIN history PROVE Tell(v, k) \in V
  <2>1. history[k].cmd \in Command
    BY RecordedCommand
  <2>2. ApplyData(v.data, history[k].cmd) \in Data
    BY <2>1, ApplyDataType
  <2>3. (v.ok /\ Right(v, k)) \in BOOLEAN
    OBVIOUS
  <2>. HIDE DEF Right
  <2>. QED  BY <2>2, <2>3
<1>3. \E f : Is(f)
  <2>. DEFINE g == [x \in V \X (1 .. n) |-> Tell(x[1], order[x[2]])]
  <2>1. g \in [V \X (1 .. n) -> V]
    <3>. HIDE DEF Tell
    <3>. QED  BY <1>2
  <2>2. ASSUME NEW v \in V, NEW i \in 1 .. n PROVE g[<<v, i>>] = Tell(v, order[i])
    <3>. HIDE DEF Tell
    <3>. QED  OBVIOUS
  <2>. HIDE DEF g, V, base, Tell
  <2>3. PICK f : Folds(f, n, V, base, g)
    BY <1>1, <2>1, FoldExists
  <2>4. ASSUME NEW s \in SUBSET (1 .. n), s # {} PROVE Max(s) \in 1 .. n
    <3>1. s \in SUBSET Nat /\ \A x \in s : x <= n
      OBVIOUS
    <3>2. Max(s) \in s
      BY <2>4, <3>1, MaxIs
    <3>. QED  BY <3>2
  <2>5. Is(f)
    BY <2>2, <2>3, <2>4 DEF Folds
  <2>. QED  BY <2>5
<1>4. Is(F)
  <2>. HIDE DEF Is
  <2>. QED  BY <1>3
<1>5. Explains(order, SameVerdict) = F[1 .. n].ok
  BY DEF Explains, FoldLeft, MapThenFoldSet
<1>. HIDE DEF F, base, Tell
<1>. DEFINE run == [i \in 0 .. n |-> F[1 .. i]]
<1>6. run[0] = base
  BY <1>4
<1>7. ASSUME NEW i \in 1 .. n PROVE run[i] = Tell(run[i - 1], order[i])
  <2>1. Max(1 .. i) = i
    <3>1. i \in Nat \ {0}
      OBVIOUS
    <3>. QED  BY <3>1, MaxOfInterval
  <2>2. (1 .. i) \ {i} = 1 .. (i - 1) /\ i \in 1 .. i /\ 1 .. i \in SUBSET (1 .. n)
    <3>. i \in Nat /\ 1 <= i /\ i <= n
      OBVIOUS
    <3>1. (1 .. i) \ {i} = 1 .. (i - 1)
      OBVIOUS
    <3>. QED  BY <3>1
  <2>3. F[1 .. i] = Tell(F[1 .. (i - 1)], order[i])
    BY <1>4, <2>1, <2>2
  <2>. QED  BY <2>3
<1>8. Explains(order, SameVerdict) = run[n].ok
  BY <1>5
<1>. HIDE DEF run, V
<1>9. \A i \in 0 .. n : run[i] \in V
  <2>. DEFINE S == {i \in 0 .. n : run[i] \in V}
  <2>1. 0 \in S
    BY <1>1, <1>6
  <2>2. ASSUME NEW i \in 0 .. n, i # n, i \in S PROVE i + 1 \in S
    <3>1. i + 1 \in 1 .. n /\ (i + 1) - 1 = i
      BY <2>2
    <3>. QED  BY <1>2, <1>7, <2>2, <3>1
  <2>3. \A i \in 0 .. n : i \in S
    <3>. HIDE DEF S
    <3>. QED  BY <2>1, <2>2, Induction
  <2>. QED  BY <2>3
<1>. HIDE DEF Right
<1>10. ASSUME NEW i \in 1 .. n
       PROVE  /\ run[i].ok <=> run[i - 1].ok /\ Right(run[i - 1], order[i])
              /\ run[i].data = ApplyData(run[i - 1].data, history[order[i]].cmd)
  <2>. PICK b \in BOOLEAN : b <=> run[i - 1].ok /\ Right(run[i - 1], order[i])
    OBVIOUS
  <2>1. run[i] = [ok |-> b, data |-> ApplyData(run[i - 1].data, history[order[i]].cmd)]
    BY <1>7 DEF Tell
  <2>. QED  BY <2>1
<1>. DEFINE d == [i \in 0 .. n |-> run[i].data]
            Ok == {i \in 0 .. n : run[i].ok}
            Good == {i \in 1 .. n : Right(run[i - 1], order[i])}
<1>11. run[n].ok <=> \A i \in 1 .. n : Right(run[i - 1], order[i])
  <2>1. 0 \in Ok
    BY <1>6 DEF base
  <2>2. \A i \in 1 .. n : i \in Ok <=> i - 1 \in Ok /\ i \in Good
    BY <1>10
  <2>3. n \in Ok <=> \A i \in 1 .. n : i \in Good
    <3>. HIDE DEF Ok, Good
    <3>. QED  BY <2>1, <2>2, AllGood
  <2>. QED  BY <2>3
<1>12. d \in [0 .. n -> Data] /\ d[0] = EmptyData
  BY <1>6, <1>9 DEF V, base
<1>13. \A i \in 1 .. n : i - 1 \in 0 .. n /\ d[i - 1] = run[i - 1].data /\ d[i] = run[i].data
  OBVIOUS
<1>14. \A i \in 1 .. n : d[i] = ApplyData(d[i - 1], history[order[i]].cmd)
  BY <1>10, <1>13
<1>15. \A i \in 1 .. n : Right(run[i - 1], order[i]) <=>
         (history[order[i]].outcome = "ok" =>
            SameVerdict(history[order[i]], ApplyResult(d[i - 1], history[order[i]].cmd)))
  BY <1>13 DEF Right
<1>. HIDE DEF d
<1>16. Explains(order, SameVerdict) <=>
         \A i \in 1 .. n :
           history[order[i]].outcome = "ok" =>
             SameVerdict(history[order[i]], ApplyResult(d[i - 1], history[order[i]].cmd))
  BY <1>8, <1>11, <1>15
<1>. QED  BY <1>12, <1>14, <1>16

-----------------------------------------------------------------------------
(* An order for one key                                                    *)

\* A history as the recorder leaves it when the clock reads t.
Timed(ops, t) ==
  /\ ops \in Seq(Op) /\ t \in Nat
  /\ \A k \in DOMAIN ops : ops[k].start <= ops[k].end /\ ops[k].end <= t
  /\ \A j, k \in DOMAIN ops : ops[j].start = ops[k].start => j = k

\* The operation the checker sees for record k.
Seen(ops, k) == Converted(ops[k], Horizon(ops))

\* The records the checker looks at for a key.
Judged(ops, key) == {k \in DOMAIN ops : ~Dropped(ops[k]) /\ ops[k].cmd.key = key}

\* The first n records of S in the order g respect real time, and take the
\* register through the states r.
Takes(ops, S, n, g, r) ==
  /\ n \in Nat /\ g \in [1 .. n -> S] /\ r \in [0 .. n -> Register]
  /\ \A i, j \in 1 .. n : g[i] = g[j] => i = j
  /\ \A k \in S : \E i \in 1 .. n : g[i] = k
  /\ \A i, j \in 1 .. n : i < j => ops[g[i]].start <= Seen(ops, g[j]).return
  /\ r[0] = InitState
  /\ \A i \in 1 .. n : Step(r[i - 1], Seen(ops, g[i])) = Verdict(TRUE, r[i])

\* Some order of S takes the register to st.
Linear(ops, S, st) == \E n, g, r : Takes(ops, S, n, g, r) /\ r[n] = st

\* What a conversion keeps.
LEMMA SeenIs ==
  ASSUME NEW ops, NEW t, Timed(ops, t), NEW k \in DOMAIN ops
  PROVE  /\ ops[k] \in Op /\ ops[k].cmd \in Command /\ ops[k].cmd.key \in Keys
         /\ Horizon(ops) \in Nat /\ ops[k].start \in Nat /\ ops[k].end \in Nat
         /\ ops[k].start <= Horizon(ops)
         /\ Seen(ops, k).cmd = ops[k].cmd /\ Seen(ops, k).call = ops[k].start
         /\ Seen(ops, k).return = IF ops[k].outcome = "ok" THEN ops[k].end ELSE Horizon(ops)
         /\ Seen(ops, k) \in POp
<1>1. ops[k] \in Op
  BY DEF Timed
<1>2. ops[k].cmd \in Command
  BY <1>1, RecordedCommand
<1>3. ops[k].cmd.key \in Keys
  BY <1>2 DEF Command
<1>4. ops[k].start \in Nat /\ ops[k].end \in Nat /\ ops[k].res \in Result
  BY <1>1 DEF Op
<1>. DEFINE T == {0} \cup {ops[j].end : j \in DOMAIN ops} \cup {ops[j].start : j \in DOMAIN ops}
<1>5. ASSUME NEW j \in DOMAIN ops
      PROVE  ops[j].end \in Nat /\ ops[j].start \in Nat /\ ops[j].end <= t /\ ops[j].start <= t
  <2>1. ops[j] \in Op
    BY DEF Timed
  <2>2. ops[j].end \in Nat /\ ops[j].start \in Nat
    BY <2>1 DEF Op
  <2>3. t \in Nat /\ ops[j].start <= ops[j].end /\ ops[j].end <= t
    BY DEF Timed
  <2>. QED  BY <2>2, <2>3
<1>6. T \in SUBSET Nat /\ T # {} /\ t \in Nat /\ \A x \in T : x <= t
  BY <1>5 DEF Timed
<1>7. ops[k].start \in T
  OBVIOUS
<1>8. Max(T) \in Nat /\ ops[k].start <= Max(T)
  <2>. HIDE DEF T
  <2>1. Max(T) \in T /\ \A x \in T : x <= Max(T)
    BY <1>6, MaxIs
  <2>. QED  BY <1>6, <1>7, <2>1
<1>9. Horizon(ops) \in Nat /\ ops[k].start <= Horizon(ops)
  BY <1>4, <1>8 DEF Horizon
<1>10. ZeroResult \in Result
  BY KVAssumption DEF ZeroResult, Res, Result
<1>11. /\ Seen(ops, k).cmd = ops[k].cmd /\ Seen(ops, k).call = ops[k].start
       /\ Seen(ops, k).return = IF ops[k].outcome = "ok" THEN ops[k].end ELSE Horizon(ops)
  BY DEF Seen, Converted
<1>12. Seen(ops, k) \in POp
  <2>1. (ops[k].outcome # "ok") \in BOOLEAN
    OBVIOUS
  <2>. QED  BY <1>2, <1>4, <1>9, <1>10, <2>1 DEF Seen, Converted, POp
<1>. QED  BY <1>1, <1>2, <1>3, <1>4, <1>9, <1>11, <1>12

\* Nothing in no steps.
LEMMA LinearNone ==
  ASSUME NEW ops
  PROVE  Linear(ops, {}, InitState)
<1>. DEFINE g == [i \in 1 .. 0 |-> i]
            r == [i \in 0 .. 0 |-> InitState]
<1>1. InitState \in Register
  BY KVAssumption DEF InitState, KVState, Register
<1>2. Takes(ops, {}, 0, g, r) /\ r[0] = InitState
  BY <1>1 DEF Takes
<1>. QED  BY <1>2 DEF Linear

\* One more operation at the end.
LEMMA LinearMore ==
  ASSUME NEW ops, NEW S, NEW st, Linear(ops, S, st), NEW k, k \notin S, NEW st2 \in Register,
         \A j \in S : ops[j].start <= Seen(ops, k).return,
         Step(st, Seen(ops, k)) = Verdict(TRUE, st2)
  PROVE  Linear(ops, S \cup {k}, st2)
<1>1. PICK n, g, r : Takes(ops, S, n, g, r) /\ r[n] = st
  BY DEF Linear
<1>. DEFINE m == n + 1
            h == [i \in 1 .. m |-> IF i = m THEN k ELSE g[i]]
            q == [i \in 0 .. m |-> IF i = m THEN st2 ELSE r[i]]
<1>2. /\ n \in Nat /\ m \in Nat /\ m \in 1 .. m /\ m \in 0 .. m /\ 0 \in 0 .. m /\ m # 0
      /\ 1 .. m = (1 .. n) \cup {m} /\ 0 .. m = (0 .. n) \cup {m} /\ m - 1 = n /\ n \in 0 .. n
  BY <1>1 DEF Takes
<1>3. \A i \in 1 .. n : i \in 1 .. m /\ i # m /\ i - 1 # m /\ i - 1 \in 0 .. n /\ h[i] = g[i] /\ g[i] \in S
  BY <1>1, <1>2 DEF Takes
<1>4. \A i \in 0 .. n : i # m /\ q[i] = r[i] /\ r[i] \in Register
  BY <1>1, <1>2 DEF Takes
<1>5. h[m] = k /\ q[m] = st2
  BY <1>2
<1>6. h \in [1 .. m -> S \cup {k}] /\ q \in [0 .. m -> Register]
  BY <1>2, <1>3, <1>4
<1>. HIDE DEF h, q, m
<1>7. \A i, j \in 1 .. m : h[i] = h[j] => i = j
  BY <1>1, <1>2, <1>3, <1>5 DEF Takes
<1>8. \A x \in S \cup {k} : \E i \in 1 .. m : h[i] = x
  <2>1. ASSUME NEW x \in S PROVE \E i \in 1 .. m : h[i] = x
    <3>1. PICK i \in 1 .. n : g[i] = x
      BY <1>1 DEF Takes
    <3>. QED  BY <1>3, <3>1
  <2>. QED  BY <1>2, <1>5, <2>1
<1>9. \A i, j \in 1 .. m : i < j => ops[h[i]].start <= Seen(ops, h[j]).return
  <2>. SUFFICES ASSUME NEW i \in 1 .. m, NEW j \in 1 .. m, i < j
                PROVE  ops[h[i]].start <= Seen(ops, h[j]).return
    OBVIOUS
  <2>1. i \in 1 .. n
    BY <1>2 DEF m
  <2>2. CASE j = m
    BY <1>3, <1>5, <2>1, <2>2
  <2>3. CASE j \in 1 .. n
    BY <1>1, <1>3, <2>1, <2>3 DEF Takes
  <2>. QED  BY <1>2, <2>2, <2>3
<1>10. q[0] = InitState
  <2>1. 0 \in 0 .. n
    BY <1>2
  <2>. QED  BY <1>1, <1>4, <2>1 DEF Takes
<1>11. \A i \in 1 .. m : Step(q[i - 1], Seen(ops, h[i])) = Verdict(TRUE, q[i])
  <2>1. ASSUME NEW i \in 1 .. n
        PROVE  Step(q[i - 1], Seen(ops, h[i])) = Verdict(TRUE, q[i])
    <3>1. i \in 0 .. n /\ i - 1 \in 0 .. n
      BY <1>3
    <3>2. q[i - 1] = r[i - 1] /\ q[i] = r[i] /\ h[i] = g[i]
      BY <1>3, <1>4, <3>1
    <3>. QED  BY <1>1, <3>2 DEF Takes
  <2>2. q[m - 1] = st
    BY <1>1, <1>2, <1>4
  <2>3. Step(q[m - 1], Seen(ops, h[m])) = Verdict(TRUE, q[m])
    BY <1>5, <2>2
  <2>. QED  BY <1>2, <2>1, <2>3
<1>12. Takes(ops, S \cup {k}, m, h, q)
  BY <1>2, <1>6, <1>7, <1>8, <1>9, <1>10, <1>11 DEF Takes
<1>. QED  BY <1>5, <1>12 DEF Linear

\* An order of all records of a key is one that porcupine finds.
LEMMA LinearAccepted ==
  ASSUME NEW ops, NEW t, Timed(ops, t), NEW key, NEW st, Linear(ops, Judged(ops, key), st)
  PROVE  \E order \in SetToSeqs({o \in ToOperations(ops) : o.cmd.key = key}) :
           RealTime(order) /\ Accepted(order)
<1>. DEFINE J    == Judged(ops, key)
            part == {o \in ToOperations(ops) : o.cmd.key = key}
<1>1. PICK n, g, r : Takes(ops, J, n, g, r)
  BY DEF Linear
<1>. DEFINE order == [i \in 1 .. n |-> Seen(ops, g[i])]
<1>2. n \in Nat /\ \A i \in 1 .. n : g[i] \in J
  BY <1>1 DEF Takes
<1>3. \A k \in J : k \in DOMAIN ops /\ ~Dropped(ops[k]) /\ ops[k].cmd.key = key
  BY DEF Judged
<1>4. \A k \in J : Seen(ops, k).cmd = ops[k].cmd /\ Seen(ops, k).call = ops[k].start
                   /\ Seen(ops, k) \in POp
  BY <1>3, SeenIs
<1>5. part = {Seen(ops, k) : k \in J}
  <2>1. ToOperations(ops) = {Seen(ops, k) : k \in {j \in DOMAIN ops : ~Dropped(ops[j])}}
    BY DEF ToOperations, Seen
  <2>2. ASSUME NEW o \in part PROVE o \in {Seen(ops, k) : k \in J}
    <3>1. PICK k \in DOMAIN ops : ~Dropped(ops[k]) /\ o = Seen(ops, k) /\ o.cmd.key = key
      BY <2>1
    <3>2. Seen(ops, k).cmd = ops[k].cmd
      BY SeenIs
    <3>3. k \in J
      BY <3>1, <3>2 DEF Judged
    <3>. QED  BY <3>1, <3>3
  <2>3. ASSUME NEW k \in J PROVE Seen(ops, k) \in part
    <3>1. k \in DOMAIN ops /\ ~Dropped(ops[k])
      BY <1>3
    <3>2. Seen(ops, k) \in ToOperations(ops)
      BY <2>1, <3>1
    <3>3. Seen(ops, k).cmd.key = key
      BY <1>3, <1>4
    <3>. HIDE DEF J
    <3>. QED  BY <3>2, <3>3
  <2>. QED  BY <2>2, <2>3
<1>. HIDE DEF part, J
<1>6. order \in [1 .. n -> part]
  BY <1>2, <1>5
<1>7. \A i, j \in 1 .. n : i # j => order[i] # order[j]
  <2>. SUFFICES ASSUME NEW i \in 1 .. n, NEW j \in 1 .. n, order[i] = order[j] PROVE i = j
    OBVIOUS
  <2>1. g[i] \in J /\ g[j] \in J
    BY <1>2
  <2>2. Seen(ops, g[i]) = Seen(ops, g[j])
    OBVIOUS
  <2>3. ops[g[i]].start = ops[g[j]].start
    BY <1>4, <2>1, <2>2
  <2>4. g[i] = g[j]
    BY <1>3, <2>1, <2>3 DEF Timed
  <2>. QED  BY <1>1, <2>4 DEF Takes
<1>8. \A o \in part : \E i \in 1 .. n : order[i] = o
  <2>. SUFFICES ASSUME NEW k \in J PROVE \E i \in 1 .. n : order[i] = Seen(ops, k)
    BY <1>5
  <2>1. PICK i \in 1 .. n : g[i] = k
    BY <1>1 DEF Takes
  <2>. QED  BY <2>1
<1>9. Cardinality(part) = n
  <2>1. order \in Bijection(1 .. n, part)
    <3>. HIDE DEF order
    <3>. QED  BY <1>6, <1>7, <1>8 DEF Bijection, Injection, Surjection, IsInjective
  <2>2. ExistsBijection(1 .. n, part)
    BY <2>1 DEF ExistsBijection
  <2>. QED  BY <1>2, <2>2, FS_CountingElements
<1>10. order \in SetToSeqs(part)
  BY <1>6, <1>7, <1>9 DEF SetToSeqs
<1>11. RealTime(order)
  <2>. SUFFICES ASSUME NEW i \in 1 .. n, NEW j \in 1 .. n, i < j
                PROVE  order[i].call <= order[j].return
    BY DEF RealTime
  <2>1. ops[g[i]].start <= Seen(ops, g[j]).return
    BY <1>1 DEF Takes
  <2>2. Seen(ops, g[i]).call = ops[g[i]].start
    BY <1>2, <1>4
  <2>. QED  BY <2>1, <2>2
<1>12. Accepted(order)
  <2>1. order \in [1 .. n -> POp]
    BY <1>2, <1>4
  <2>2. r \in [0 .. n -> Register] /\ r[0] = InitState
        /\ \A i \in 1 .. n : Step(r[i - 1], order[i]) = Verdict(TRUE, r[i])
    BY <1>1 DEF Takes
  <2>. HIDE DEF order
  <2>. QED  BY <1>2, <2>1, <2>2, AcceptedMeans
<1>. QED  BY <1>10, <1>11, <1>12 DEF part

\* The checker accepts what it can order key by key.
LEMMA LinearCheck ==
  ASSUME NEW ops, NEW t, Timed(ops, t),
         \A key \in Keys : \E st : Linear(ops, Judged(ops, key), st)
  PROVE  Check(ops, TRUE)
<1>. SUFFICES ASSUME NEW part \in Partition(ToOperations(ops))
              PROVE  \E order \in SetToSeqs(part) : RealTime(order) /\ Accepted(order)
  BY DEF Check, CheckOperations
<1>1. PICK p \in ToOperations(ops) : part = {o \in ToOperations(ops) : o.cmd.key = p.cmd.key}
  BY DEF Partition
<1>2. PICK k \in DOMAIN ops : p = Seen(ops, k)
  BY DEF ToOperations, Seen
<1>. PICK key : key = p.cmd.key
  OBVIOUS
<1>3. key \in Keys
  BY <1>2, SeenIs
<1>4. PICK st : Linear(ops, Judged(ops, key), st)
  BY <1>3
<1>5. \E order \in SetToSeqs({o \in ToOperations(ops) : o.cmd.key = key}) :
        RealTime(order) /\ Accepted(order)
  BY <1>4, LinearAccepted
<1>. QED  BY <1>1, <1>5

\* Records of unknown outcome that are left over go last: their windows are
\* open, and the model lets them pass.
LEMMA LeftOver ==
  ASSUME NEW ops, NEW t, Timed(ops, t), Outcomes = {"ok", "failed", "unknown"},
         NEW key \in Keys, NEW S \in SUBSET Judged(ops, key),
         \A k \in Judged(ops, key) \ S : ops[k].outcome # "ok",
         \E d \in Data : Linear(ops, S, Reg(d[key]))
  PROVE  \E st : Linear(ops, Judged(ops, key), st)
<1>. PICK n \in Nat : DOMAIN ops = 1 .. n
  BY DEF Timed
<1>. PICK J : J = Judged(ops, key)
  OBVIOUS
<1>. DEFINE With(m) == S \cup {k \in J : k <= m}
            P == {m \in 0 .. n : \E d \in Data : Linear(ops, With(m), Reg(d[key]))}
<1>1. J \subseteq 1 .. n /\ S \subseteq J
  BY DEF Judged
<1>2. 0 \in P
  <2>1. With(0) = S
    BY <1>1
  <2>2. 0 \in 0 .. n
    BY <1>1
  <2>. HIDE DEF With
  <2>. QED  BY <2>1, <2>2
<1>3. ASSUME NEW m \in 0 .. n, m # n, m \in P PROVE m + 1 \in P
  <2>1. PICK d \in Data : Linear(ops, With(m), Reg(d[key]))
    BY <1>3
  <2>. DEFINE k == m + 1
  <2>2. k \in 1 .. n /\ k \in 0 .. n /\ m \in Nat
    BY <1>3
  <2>3. CASE k \in With(m) \/ k \notin J
    <3>1. With(k) = With(m)
      BY <1>1, <2>2, <2>3
    <3>. HIDE DEF With
    <3>. QED  BY <2>1, <2>2, <3>1
  <2>4. CASE k \notin With(m) /\ k \in J
    <3>1. With(k) = With(m) \cup {k}
      BY <1>1, <2>2, <2>4
    <3>2. k \in J \ S
      BY <2>4
    <3>3. ops[k].outcome # "ok" /\ ~Dropped(ops[k]) /\ ops[k].cmd.key = key
      BY <3>2 DEF Judged
    <3>4. ops[k] \in Op /\ ops[k].cmd \in Command
          /\ Seen(ops, k).return = Horizon(ops)
      BY <1>1, <2>2, <3>3, SeenIs
    <3>5. ops[k].cmd.op # "get"
      BY <3>3, <3>4 DEF Dropped, Op
    <3>. PICK e : e = ApplyData(d, ops[k].cmd)
      OBVIOUS
    <3>6. e \in Data
      BY <3>4, ApplyDataType
    <3>7. Step(Reg(d[key]), Seen(ops, k)) = Verdict(TRUE, Reg(e[key]))
      <4>1. \A h : Step(Reg(d[ops[k].cmd.key]), Converted(ops[k], h))
                     = Verdict(TRUE, Reg(ApplyData(d, ops[k].cmd)[ops[k].cmd.key]))
        BY <3>3, <3>4, <3>5, StepUnknown
      <4>. QED  BY <3>3, <4>1 DEF Seen
    <3>8. \A j \in With(m) : ops[j].start <= Seen(ops, k).return
      <4>. SUFFICES ASSUME NEW j \in J PROVE ops[j].start <= Horizon(ops)
        BY <3>4
      <4>. QED  BY <1>1, SeenIs
    <3>9. Reg(e[key]) \in Register
      BY <3>6, RegType
    <3>. HIDE DEF With, k
    <3>10. Linear(ops, With(m) \cup {k}, Reg(e[key]))
      BY <2>1, <2>4, <3>7, <3>8, <3>9, LinearMore
    <3>. QED  BY <2>2, <3>1, <3>6, <3>10 DEF k
  <2>. QED  BY <2>3, <2>4
<1>4. \A m \in 0 .. n : m \in P
  <2>. HIDE DEF P
  <2>. QED  BY <1>1, <1>2, <1>3, Induction
<1>5. n \in P
  BY <1>1, <1>4
<1>6. With(n) = J
  <2>1. \A k \in J : k <= n
    BY <1>1
  <2>2. J \subseteq With(n)
    BY <2>1
  <2>3. With(n) \subseteq J
    BY <1>1
  <2>. HIDE DEF With
  <2>. QED  BY <2>2, <2>3
<1>. HIDE DEF With
<1>. QED  BY <1>5, <1>6

\* The model lets an operation pass that took effect and was answered right.
LEMMA StepRight ==
  ASSUME NEW d \in Data, NEW op \in Op, op.cmd \in Command, NEW h \in Nat, ~Dropped(op),
         Outcomes = {"ok", "failed", "unknown"},
         op.outcome = "ok" => SameVerdict(op, ApplyResult(d, op.cmd))
  PROVE  Step(Reg(d[op.cmd.key]), Converted(op, h))
           = Verdict(TRUE, Reg(ApplyData(d, op.cmd)[op.cmd.key]))
<1>1. CASE op.outcome = "ok"
  <2>. PICK w : w = Step(Reg(d[op.cmd.key]), Converted(op, h))
    OBVIOUS
  <2>1. op.cmd.key \in Keys /\ op.start \in Nat /\ op.end \in Nat /\ op.res \in Result
    BY DEF Op, Command
  <2>2. Reg(d[op.cmd.key]) \in Register
    BY <2>1, RegType
  <2>3. Converted(op, h) \in POp
    BY <1>1, <2>1 DEF Converted, POp
  <2>4. w \in [ok : BOOLEAN, st : Register]
    BY <2>2, <2>3, StepType
  <2>5. w.ok /\ w.st = Reg(ApplyData(d, op.cmd)[op.cmd.key])
    BY <1>1, StepKnown
  <2>. QED  BY <2>4, <2>5 DEF Verdict
<1>2. CASE op.outcome # "ok"
  <2>1. op.cmd.op # "get"
    BY <1>2 DEF Dropped, Op
  <2>. QED  BY <1>2, <2>1, StepUnknown
<1>. QED  BY <1>1, <1>2

\* It is known which operations took effect in which order, and the answers are
\* what the map tells: f lists the records, and d the maps between them.
Explanation(ops, n, f, d) ==
  /\ n \in Nat /\ f \in [1 .. n -> DOMAIN ops] /\ d \in [0 .. n -> Data]
  /\ \A i, j \in 1 .. n : f[i] = f[j] => i = j
  /\ \A k \in DOMAIN ops : ops[k].outcome = "ok" => \E i \in 1 .. n : f[i] = k
  /\ \A i \in 1 .. n : ops[f[i]].outcome # "failed"
  /\ \A i, j \in 1 .. n :
       i < j /\ ops[f[j]].outcome = "ok" => ops[f[i]].start <= ops[f[j]].end
  /\ d[0] = EmptyData
  /\ \A i \in 1 .. n : d[i] = ApplyData(d[i - 1], ops[f[i]].cmd)
  /\ \A i \in 1 .. n : ops[f[i]].outcome = "ok" =>
       SameVerdict(ops[f[i]], ApplyResult(d[i - 1], ops[f[i]].cmd))

\* The checker accepts a history that has an explanation.
LEMMA ExplainedAccepted ==
  ASSUME NEW ops, NEW t, Timed(ops, t), Outcomes = {"ok", "failed", "unknown"},
         NEW n, NEW f, NEW d, Explanation(ops, n, f, d)
  PROVE  Check(ops, TRUE)
<1>0. /\ n \in Nat /\ f \in [1 .. n -> DOMAIN ops] /\ d \in [0 .. n -> Data]
      /\ \A i, j \in 1 .. n : f[i] = f[j] => i = j
      /\ \A k \in DOMAIN ops : ops[k].outcome = "ok" => \E i \in 1 .. n : f[i] = k
      /\ \A i \in 1 .. n : ops[f[i]].outcome # "failed"
      /\ \A i, j \in 1 .. n :
           i < j /\ ops[f[j]].outcome = "ok" => ops[f[i]].start <= ops[f[j]].end
      /\ d[0] = EmptyData
      /\ \A i \in 1 .. n : d[i] = ApplyData(d[i - 1], ops[f[i]].cmd)
      /\ \A i \in 1 .. n : ops[f[i]].outcome = "ok" =>
           SameVerdict(ops[f[i]], ApplyResult(d[i - 1], ops[f[i]].cmd))
  BY DEF Explanation
<1>. USE <1>0
<1>. SUFFICES ASSUME NEW key \in Keys PROVE \E st : Linear(ops, Judged(ops, key), st)
  BY LinearCheck
<1>. PICK J : J = Judged(ops, key)
  OBVIOUS
<1>. DEFINE Done(m) == {f[i] : i \in 1 .. m} \cap J
            P == {m \in 0 .. n : Linear(ops, Done(m), Reg(d[m][key]))}
<1>1. 0 \in P
  <2>1. Done(0) = {} /\ 0 \in 0 .. n
    OBVIOUS
  <2>2. Reg(d[0][key]) = InitState
    BY DEF Reg, EmptyData
  <2>3. Linear(ops, {}, InitState)
    BY LinearNone
  <2>. HIDE DEF Done
  <2>. QED  BY <2>1, <2>2, <2>3
<1>2. ASSUME NEW m \in 0 .. n, m # n, m \in P PROVE m + 1 \in P
  <2>. PICK i : i = m + 1
    OBVIOUS
  <2>1. i \in 1 .. n /\ i \in 0 .. n /\ i - 1 = m /\ m \in Nat /\ 1 .. i = (1 .. m) \cup {i}
        /\ i \notin 1 .. m /\ 1 .. m \subseteq 1 .. n /\ \A j \in 1 .. m : j < i
    BY <1>2
  <2>. PICK k \in DOMAIN ops : k = f[i]
    BY <2>1
  <2>. PICK op : op = ops[k]
    OBVIOUS
  <2>2. /\ op \in Op /\ op.cmd \in Command /\ op.cmd.key \in Keys
        /\ Seen(ops, k).return = IF op.outcome = "ok" THEN op.end ELSE Horizon(ops)
    BY SeenIs
  <2>3. /\ d[m] \in Data /\ d[i] = ApplyData(d[m], op.cmd) /\ d[i] \in Data
        /\ op.outcome # "failed"
        /\ op.outcome = "ok" => SameVerdict(op, ApplyResult(d[m], op.cmd))
    BY <2>1
  <2>4. Linear(ops, Done(m), Reg(d[m][key]))
    BY <1>2
  <2>5. CASE k \notin J
    <3>1. Done(i) = Done(m)
      BY <2>1, <2>5
    <3>2. op.cmd.key # key \/ (op.outcome = "unknown" /\ op.cmd.op = "get")
      BY <2>3, <2>5 DEF Judged, Dropped
    <3>3. d[i][key] = d[m][key]
      BY <2>2, <2>3, <3>2 DEF ApplyData, Data, Command, Ops
    <3>. HIDE DEF Done
    <3>. QED  BY <2>1, <2>4, <3>1, <3>3
  <2>6. CASE k \in J
    <3>1. Done(i) = Done(m) \cup {k}
      BY <2>1, <2>6
    <3>2. k \notin Done(m)
      BY <2>1
    <3>3. op.cmd.key = key /\ ~Dropped(op)
      BY <2>6 DEF Judged
    <3>4. \A j \in Done(m) : ops[j].start <= Seen(ops, k).return
      <4>. SUFFICES ASSUME NEW j \in 1 .. m PROVE ops[f[j]].start <= Seen(ops, k).return
        OBVIOUS
      <4>1. CASE op.outcome = "ok"
        <5>1. ops[f[j]].start <= op.end
          BY <2>1, <4>1
        <5>. QED  BY <2>2, <4>1, <5>1
      <4>2. CASE op.outcome # "ok"
        <5>1. f[j] \in DOMAIN ops
          BY <2>1
        <5>2. ops[f[j]].start <= Horizon(ops)
          BY <5>1, SeenIs
        <5>. QED  BY <2>2, <4>2, <5>2
      <4>. QED  BY <4>1, <4>2
    <3>5. Reg(d[i][key]) \in Register /\ Reg(d[m][key]) \in Register
      BY <2>3, RegType
    <3>6. Step(Reg(d[m][key]), Seen(ops, k)) = Verdict(TRUE, Reg(d[i][key]))
      <4>. PICK e \in Data : e = d[m]
        BY <2>3
      <4>. PICK h \in Nat : h = Horizon(ops)
        BY SeenIs
      <4>1. op.outcome = "ok" => SameVerdict(op, ApplyResult(e, op.cmd))
        BY <2>3
      <4>2. Step(Reg(e[op.cmd.key]), Converted(op, h))
              = Verdict(TRUE, Reg(ApplyData(e, op.cmd)[op.cmd.key]))
        BY ONLY e \in Data, h \in Nat, <2>2, <3>3, <4>1, StepRight,
           Outcomes = {"ok", "failed", "unknown"}
      <4>. QED  BY <2>3, <3>3, <4>2 DEF Seen
    <3>. HIDE DEF Done
    <3>7. Linear(ops, Done(m) \cup {k}, Reg(d[i][key]))
      BY ONLY <2>4, <3>2, <3>4, <3>5, <3>6, LinearMore
    <3>8. i \in P
      BY ONLY <2>1, <3>1, <3>7
    <3>. QED  BY <3>8
  <2>. QED  BY <2>5, <2>6
<1>3. \A m \in 0 .. n : m \in P
  <2>. HIDE DEF P
  <2>. QED  BY <1>1, <1>2, Induction
<1>4. Linear(ops, Done(n), Reg(d[n][key]))
  <2>1. n \in 0 .. n
    OBVIOUS
  <2>2. n \in P
    <3>. HIDE DEF P
    <3>. QED  BY <1>3, <2>1
  <2>. QED  BY <2>2
<1>5. Done(n) \in SUBSET J
  OBVIOUS
<1>6. \A k \in J \ Done(n) : ops[k].outcome # "ok"
  BY DEF Judged
<1>7. d[n] \in Data
  OBVIOUS
<1>. HIDE DEF Done
<1>. QED  BY <1>4, <1>5, <1>6, <1>7, LeftOver

-----------------------------------------------------------------------------
(* What the recorder records                                               *)

\* The clock gives each call and each return a time of its own, and an answer
\* is one the state machine can give.
Recorded ==
  /\ pending \in [Clients -> {NoOp} \cup [cmd : Commands, start : Nat]]
  /\ Timed(history, now)
  /\ \A c \in UnderWay : /\ pending[c].start <= now
                         /\ \A k \in DOMAIN history : history[k].start # pending[c].start
  /\ \A c, e \in UnderWay : pending[c].start = pending[e].start => c = e
  /\ \A k \in DOMAIN history :
       history[k].outcome = "ok" => history[k].res \in Answers(history[k].cmd)

\* Every history is recorded like that.
LEMMA RecordedInv ==
  Spec => []Recorded
<1>1. Init => Recorded
  BY DEF Init, Recorded, Timed, UnderWay
<1>2. Recorded /\ [Next]_vars => Recorded'
  <2>. SUFFICES ASSUME Recorded, [Next]_vars PROVE Recorded'
    OBVIOUS
  <2>1. pending \in [Clients -> {NoOp} \cup [cmd : Commands, start : Nat]]
        /\ history \in Seq(Op) /\ now \in Nat
    BY DEF Recorded, Timed
  <2>2. \A k \in DOMAIN history : history[k] \in Op /\ history[k].start \in Nat /\ history[k].end \in Nat
    <3>1. \A k \in DOMAIN history : history[k] \in Op
      BY <2>1
    <3>. QED  BY <3>1 DEF Op
  <2>3. ASSUME NEW c \in Clients, NEW cmd \in Commands, Call(c, cmd) PROVE Recorded'
    <3>. DEFINE call == [cmd |-> cmd, start |-> now + 1]
    <3>1. /\ pending[c] = NoOp /\ now' = now + 1 /\ history' = history
          /\ pending' = [pending EXCEPT ![c] = call]
      BY <2>3 DEF Call
    <3>2. call \in [cmd : Commands, start : Nat] /\ call.start = now + 1
      BY <2>1
    <3>. HIDE DEF call
    <3>3. \A e \in Clients : pending'[e] = IF e = c THEN call ELSE pending[e]
      BY <2>1, <3>1
    <3>4. pending' \in [Clients -> {NoOp} \cup [cmd : Commands, start : Nat]]
      BY <2>1, <3>1, <3>2
    <3>5. Timed(history, now)'
      BY <2>1, <2>2, <3>1 DEF Timed, Recorded
    <3>6. \A e \in UnderWay' : e = c \/ (e \in UnderWay /\ pending'[e] = pending[e])
      BY <3>3 DEF UnderWay
    <3>7. \A e \in UnderWay : pending[e].start \in Nat /\ pending[e].start <= now
      BY <2>1 DEF UnderWay, Recorded
    <3>8. \A e \in UnderWay' : /\ pending'[e].start <= now'
                               /\ \A k \in DOMAIN history' : history'[k].start # pending'[e].start
      <4>. SUFFICES ASSUME NEW e \in UnderWay'
                    PROVE  /\ pending'[e].start <= now'
                           /\ \A k \in DOMAIN history : history[k].start # pending'[e].start
        BY <3>1
      <4>1. CASE e = c
        <5>1. pending'[e].start = now + 1
          BY <2>3, <3>2, <3>3, <4>1
        <5>2. \A k \in DOMAIN history : history[k].start <= now
          BY <2>1, <2>2 DEF Timed, Recorded
        <5>. QED  BY <2>1, <2>2, <3>1, <5>1, <5>2
      <4>2. CASE e # c
        BY <2>1, <3>1, <3>6, <3>7, <4>2 DEF Recorded
      <4>. QED  BY <4>1, <4>2
    <3>9. \A e, f \in UnderWay' : pending'[e].start = pending'[f].start => e = f
      <4>1. ASSUME NEW e \in UnderWay', e # c PROVE e \in UnderWay /\ pending'[e].start \in Nat
                                                   /\ pending'[e].start < now + 1
                                                   /\ pending'[e] = pending[e]
        BY <2>1, <3>6, <3>7, <4>1
      <4>2. pending'[c].start = now + 1
        BY <2>3, <3>2, <3>3
      <4>. QED  BY <2>1, <4>1, <4>2 DEF Recorded
    <3>. QED  BY <3>1, <3>4, <3>5, <3>8, <3>9 DEF Recorded
  <2>4. ASSUME NEW c \in Clients, NEW outcome \in Outcomes, NEW res \in Result,
               Return(c, outcome, res)
        PROVE  Recorded'
    <3>. DEFINE op == [cmd |-> pending[c].cmd, start |-> pending[c].start,
                       end |-> now + 1, outcome |-> outcome, res |-> res]
                n == Len(history)
    <3>1. /\ pending[c] # NoOp /\ now' = now + 1 /\ history' = Append(history, op)
          /\ pending' = [pending EXCEPT ![c] = NoOp]
          /\ outcome = "ok" => res \in Answers(pending[c].cmd)
      BY <2>4 DEF Return
    <3>2. c \in UnderWay /\ pending[c] \in [cmd : Commands, start : Nat]
      BY <2>1, <3>1 DEF UnderWay
    <3>3. op \in Op
      BY <2>1, <3>2 DEF Op
    <3>4. /\ op.start = pending[c].start /\ op.end = now + 1 /\ op.outcome = outcome
          /\ op.res = res /\ op.cmd = pending[c].cmd
      OBVIOUS
    <3>. HIDE DEF op
    <3>5. /\ history' \in Seq(Op) /\ n \in Nat /\ DOMAIN history = 1 .. n
          /\ DOMAIN history' = (1 .. n) \cup {n + 1}
          /\ history'[n + 1] = op /\ \A k \in 1 .. n : history'[k] = history[k]
      BY <2>1, <3>1, <3>3
    <3>. HIDE DEF n
    <3>6. \A e \in UnderWay' : e # c /\ e \in UnderWay /\ pending'[e] = pending[e]
      BY <2>1, <3>1 DEF UnderWay
    <3>7. pending' \in [Clients -> {NoOp} \cup [cmd : Commands, start : Nat]]
      BY <2>1, <3>1
    <3>8. \A e \in UnderWay : pending[e].start \in Nat /\ pending[e].start <= now
      BY <2>1 DEF UnderWay, Recorded
    <3>9. Timed(history, now)'
      <4>1. \A k \in DOMAIN history' : history'[k].start <= history'[k].end /\ history'[k].end <= now'
        <5>1. op.start <= op.end /\ op.end <= now'
          BY <2>1, <3>1, <3>2, <3>4, <3>8
        <5>2. \A k \in 1 .. n : history[k].start <= history[k].end /\ history[k].end <= now + 1
          <6>1. \A k \in 1 .. n : history[k].start <= history[k].end /\ history[k].end <= now
            BY <3>5 DEF Recorded, Timed
          <6>2. \A k \in 1 .. n : history[k].end \in Nat
            BY <2>2, <3>5
          <6>. QED  BY <2>1, <6>1, <6>2
        <5>. QED  BY <3>1, <3>5, <5>1, <5>2
      <4>2. \A j, k \in DOMAIN history' : history'[j].start = history'[k].start => j = k
        <5>1. \A k \in 1 .. n : history[k].start # op.start
          BY <3>2, <3>4, <3>5 DEF Recorded
        <5>2. \A j, k \in 1 .. n : history[j].start = history[k].start => j = k
          BY <3>5 DEF Recorded, Timed
        <5>. QED  BY <3>5, <5>1, <5>2
      <4>. QED  BY <2>1, <3>1, <3>5, <4>1, <4>2 DEF Timed
    <3>10. \A e \in UnderWay' : /\ pending'[e].start <= now'
                                /\ \A k \in DOMAIN history' : history'[k].start # pending'[e].start
      <4>. SUFFICES ASSUME NEW e \in UnderWay'
                    PROVE  /\ pending'[e].start <= now'
                           /\ \A k \in DOMAIN history' : history'[k].start # pending'[e].start
        OBVIOUS
      <4>1. pending'[e].start <= now'
        BY <2>1, <3>1, <3>6, <3>8
      <4>2. \A k \in 1 .. n : history[k].start # pending[e].start
        BY <3>5, <3>6 DEF Recorded
      <4>3. op.start # pending[e].start
        BY <3>2, <3>4, <3>6 DEF Recorded
      <4>. QED  BY <3>5, <3>6, <4>1, <4>2, <4>3
    <3>11. \A e, f \in UnderWay' : pending'[e].start = pending'[f].start => e = f
      BY <3>6 DEF Recorded
    <3>12. \A k \in DOMAIN history' :
             history'[k].outcome = "ok" => history'[k].res \in Answers(history'[k].cmd)
      BY <3>1, <3>4, <3>5 DEF Recorded
    <3>. QED  BY <3>7, <3>9, <3>10, <3>11, <3>12 DEF Recorded
  <2>5. CASE UNCHANGED vars
    BY <2>5 DEF vars, Recorded, UnderWay, Timed
  <2>. QED  BY <2>3, <2>4, <2>5 DEF Next
<1>. QED  BY <1>1, <1>2, PTL DEF Spec

\* The recorder's history is a sequence of operations, each with a command, two
\* times, an outcome and an answer.
THEOREM CheckerTypeOK ==
  Spec => []TypeOK
<1>1. Recorded => TypeOK
  BY DEF Recorded, Timed, TypeOK
<1>. QED  BY <1>1, RecordedInv, PTL

\* The orders of a finite set go through all of it.
LEMMA OrderIs ==
  ASSUME NEW S, IsFiniteSet(S), NEW order \in SetToSeqs(S)
  PROVE  \E n \in Nat : /\ order \in [1 .. n -> S]
                        /\ \A i, j \in 1 .. n : order[i] = order[j] => i = j
                        /\ \A k \in S : \E i \in 1 .. n : order[i] = k
<1>. PICK n : n = Cardinality(S)
  OBVIOUS
<1>1. n \in Nat
  BY FS_CardinalityType
<1>2. order \in [1 .. n -> S] /\ \A i, j \in 1 .. n : order[i] = order[j] => i = j
  BY DEF SetToSeqs
<1>3. order \in Injection(1 .. n, S)
  BY <1>2 DEF Injection, IsInjective
<1>4. Cardinality(1 .. n) = n
  BY <1>1, FS_Interval
<1>5. order \in Surjection(1 .. n, S)
  BY <1>3, <1>4, FS_Injection
<1>. QED  BY <1>1, <1>2, <1>5 DEF Surjection

\* A history that has an explanation is accepted if the search ends within its
\* timeout: windows left open and records left out by ToOperations never turn a
\* linearizable history into a reject, only porcupine.Unknown does.  A record
\* with an outcome that the recorder does not know may do that too, see
\* UnclassifiedIsUnknown.
THEOREM FalseAlarmIsTimeoutInv ==
  ASSUME Outcomes = {"ok", "failed", "unknown"}
  PROVE  Spec => []FalseAlarmIsTimeout
<1>1. ASSUME Recorded PROVE FalseAlarmIsTimeout
  <2>0. SUFFICES ASSUME NEW order \in Orders, Explains(order, SameAnswer)
                PROVE  Check(history, TRUE)
    BY DEF FalseAlarmIsTimeout
  <2>. DEFINE Sure  == {k \in DOMAIN history : history[k].outcome = "ok"}
              Maybe == {k \in DOMAIN history : history[k].outcome \notin {"ok", "failed"}}
  <2>1. Timed(history, now) /\ history \in Seq(Op)
    BY <1>1 DEF Recorded, Timed
  <2>2. PICK extra \in SUBSET Maybe : order \in SetToSeqs(Sure \cup extra)
    BY <2>0 DEF Orders
  <2>3. \A i, j \in DOMAIN order : i < j => ~Before(order[j], order[i])
    BY <2>0 DEF Orders
  <2>s. PICK S : S = Sure \cup extra
    OBVIOUS
  <2>4. /\ S \in SUBSET DOMAIN history
        /\ \A k \in DOMAIN history : history[k].outcome = "ok" => k \in S
        /\ \A k \in S : history[k].outcome # "failed"
    BY <2>s
  <2>. HIDE DEF Sure, Maybe
  <2>5. IsFiniteSet(S)
    <3>1. DOMAIN history = 1 .. Len(history) /\ Len(history) \in Nat
      BY <2>1
    <3>2. IsFiniteSet(1 .. Len(history))
      BY <3>1, FS_Interval
    <3>. QED  BY <2>4, <3>1, <3>2, FS_Subset
  <2>6. PICK n \in Nat : /\ order \in [1 .. n -> S]
                         /\ \A i, j \in 1 .. n : order[i] = order[j] => i = j
                         /\ \A k \in S : \E i \in 1 .. n : order[i] = k
    <3>1. order \in SetToSeqs(S)
      BY <2>2, <2>s
    <3>. QED  BY <2>5, <3>1, OrderIs
  <2>7. order \in [1 .. n -> DOMAIN history]
    BY <2>4, <2>6
  <2>8. PICK d \in [0 .. n -> Data] :
           /\ d[0] = EmptyData
           /\ \A i \in 1 .. n : d[i] = ApplyData(d[i - 1], history[order[i]].cmd)
           /\ Explains(order, SameAnswer) <=>
                \A i \in 1 .. n :
                  history[order[i]].outcome = "ok" =>
                    SameAnswer(history[order[i]], ApplyResult(d[i - 1], history[order[i]].cmd))
    BY <2>1, <2>7, ExplainsSameAnswer
  <2>9. \A i \in 1 .. n : history[order[i]].outcome = "ok" =>
          SameVerdict(history[order[i]], ApplyResult(d[i - 1], history[order[i]].cmd))
    <3>1. \A op, res : SameAnswer(op, res) => SameVerdict(op, res)
      BY DEF SameAnswer, SameVerdict
    <3>. QED  BY <2>0, <2>8, <3>1
  <2>10. \A i, j \in 1 .. n :
           i < j /\ history[order[j]].outcome = "ok" =>
             history[order[i]].start <= history[order[j]].end
    <3>. SUFFICES ASSUME NEW i \in 1 .. n, NEW j \in 1 .. n,
                         i < j, history[order[j]].outcome = "ok"
                  PROVE  history[order[i]].start <= history[order[j]].end
      OBVIOUS
    <3>1. history[order[i]].start \in Nat /\ history[order[j]].end \in Nat
      BY <2>1, <2>7, SeenIs
    <3>2. ~Before(order[j], order[i])
      BY <2>3, <2>6
    <3>. QED  BY <3>1, <3>2 DEF Before
  <2>11. /\ d \in [0 .. n -> Data] /\ d[0] = EmptyData
         /\ \A i \in 1 .. n : d[i] = ApplyData(d[i - 1], history[order[i]].cmd)
    BY <2>8
  <2>12. /\ \A k \in DOMAIN history : history[k].outcome = "ok" => \E i \in 1 .. n : order[i] = k
         /\ \A i \in 1 .. n : history[order[i]].outcome # "failed"
    BY <2>4, <2>6
  <2>13. Explanation(history, n, order, d)
    BY <2>6, <2>7, <2>9, <2>10, <2>11, <2>12 DEF Explanation
  <2>. QED  BY <2>1, <2>13, ExplainedAccepted
<1>. QED  BY <1>1, RecordedInv, PTL

-----------------------------------------------------------------------------
(* Sorting                                                                 *)

\* The first n numbers of a function have a bound.
LEMMA Bounded ==
  ASSUME NEW n \in Nat, NEW f \in [1 .. n -> Nat]
  PROVE  \E b \in Nat : \A i \in 1 .. n : f[i] <= b
<1>. DEFINE S == {m \in 0 .. n : \E b \in Nat : \A i \in 1 .. m : f[i] <= b}
<1>1. 0 \in S
  <2>1. 0 \in Nat /\ \A i \in 1 .. 0 : f[i] <= 0
    OBVIOUS
  <2>. QED  BY <2>1
<1>2. ASSUME NEW m \in 0 .. n, m # n, m \in S PROVE m + 1 \in S
  <2>1. PICK b \in Nat : \A i \in 1 .. m : f[i] <= b
    BY <1>2
  <2>2. m + 1 \in 1 .. n /\ m + 1 \in 0 .. n /\ 1 .. m + 1 = (1 .. m) \cup {m + 1}
        /\ \A i \in 1 .. m : i \in 1 .. n
    BY <1>2
  <2>3. \E e \in Nat : b <= e /\ f[m + 1] <= e
    <3>1. f[m + 1] \in Nat
      BY <2>2
    <3>2. CASE f[m + 1] <= b
      BY <3>2
    <3>3. CASE b <= f[m + 1]
      BY <3>1, <3>3
    <3>. QED  BY <3>1, <3>2, <3>3
  <2>4. PICK e \in Nat : b <= e /\ f[m + 1] <= e
    BY <2>3
  <2>5. \A i \in 1 .. m + 1 : f[i] <= e
    <3>1. \A i \in 1 .. m : f[i] \in Nat /\ f[i] <= b
      BY <2>1, <2>2
    <3>2. \A i \in 1 .. m : f[i] <= e
      BY <2>4, <3>1
    <3>. QED  BY <2>2, <2>4, <3>2
  <2>. QED  BY <2>2, <2>5
<1>3. n \in S
  <2>1. \A i \in 0 .. n : i \in S
    <3>. HIDE DEF S
    <3>. QED  BY <1>1, <1>2, Induction
  <2>. HIDE DEF S
  <2>. QED  BY <2>1
<1>. QED  BY <1>3

\* g lists T by the numbers m gives to its elements.
Sorts(m, T, n, g) ==
  /\ n \in Nat /\ g \in [1 .. n -> T]
  /\ \A k \in T : \E i \in 1 .. n : g[i] = k
  /\ \A i, j \in 1 .. n : i < j => m[g[i]] < m[g[j]]

\* Records can be sorted by a number each has for itself.
LEMMA Sorted ==
  ASSUME NEW n \in Nat, NEW J \in SUBSET (1 .. n), NEW m \in [J -> Nat],
         \A j, k \in J : m[j] = m[k] => j = k
  PROVE  \E c, g : Sorts(m, J, c, g)
<1>1. PICK b \in Nat : \A k \in J : m[k] < b
  <2>. DEFINE f == [k \in 1 .. n |-> IF k \in J THEN m[k] ELSE 0]
  <2>1. f \in [1 .. n -> Nat]
    OBVIOUS
  <2>2. \A k \in J : f[k] = m[k] /\ k \in 1 .. n /\ m[k] \in Nat
    OBVIOUS
  <2>. HIDE DEF f
  <2>3. PICK a \in Nat : \A k \in 1 .. n : f[k] <= a
    BY <2>1, Bounded
  <2>4. a + 1 \in Nat /\ \A k \in J : m[k] < a + 1
    BY <2>2, <2>3
  <2>. QED  BY <2>4
<1>. DEFINE Upto(a) == {k \in J : m[k] < a}
            P == {a \in 0 .. b : \E c, g : Sorts(m, Upto(a), c, g)}
<1>2. 0 \in P
  <2>. DEFINE g == [i \in 1 .. 0 |-> i]
  <2>1. Upto(0) = {}
    <3>1. \A k \in J : ~(m[k] < 0)
      <4>1. \A k \in J : m[k] \in Nat
        OBVIOUS
      <4>. QED  BY <4>1
    <3>. QED  BY <3>1
  <2>2. Sorts(m, {}, 0, g)
    BY DEF Sorts
  <2>. HIDE DEF Upto, g
  <2>. QED  BY <2>1, <2>2
<1>3. ASSUME NEW a \in 0 .. b, a # b, a \in P PROVE a + 1 \in P
  <2>. PICK a2 : a2 = a + 1
    OBVIOUS
  <2>1. a2 \in 0 .. b /\ a \in Nat
    BY <1>3
  <2>2. PICK c, g : Sorts(m, Upto(a), c, g)
    BY <1>3
  <2>3. \A k \in J : m[k] < a2 <=> m[k] < a \/ m[k] = a
    <3>1. \A k \in J : m[k] \in Nat
      OBVIOUS
    <3>. QED  BY <2>1, <3>1
  <2>4. CASE ~\E k \in J : m[k] = a
    <3>1. Upto(a2) = Upto(a)
      BY ONLY <2>3, <2>4, Zenon
    <3>. HIDE DEF Upto
    <3>. QED  BY <2>1, <2>2, <3>1
  <2>5. ASSUME NEW k \in J, m[k] = a PROVE a2 \in P
    <3>1. Upto(a2) = Upto(a) \cup {k}
      <4>1. \A j \in J : m[j] = a <=> j = k
        BY <2>5
      <4>. QED  BY ONLY k \in J, <2>3, <4>1, Zenon
    <3>. DEFINE e == c + 1
                h == [i \in 1 .. e |-> IF i = e THEN k ELSE g[i]]
    <3>2. c \in Nat /\ 1 .. e = (1 .. c) \cup {e} /\ e \in Nat /\ e \in 1 .. e
          /\ \A i \in 1 .. c : i # e /\ i \in 1 .. e
      BY <2>2 DEF Sorts
    <3>3. h[e] = k /\ \A i \in 1 .. c : h[i] = g[i] /\ g[i] \in Upto(a)
      BY <2>2, <3>2 DEF Sorts
    <3>4. h \in [1 .. e -> Upto(a2)]
      <4>. HIDE DEF Upto, e
      <4>. QED  BY <3>1, <3>2, <3>3
    <3>5. \A j \in Upto(a2) : \E i \in 1 .. e : h[i] = j
      <4>1. \A j \in Upto(a) : \E i \in 1 .. c : g[i] = j
        BY <2>2 DEF Sorts
      <4>. HIDE DEF Upto, e, h
      <4>. QED  BY <3>1, <3>2, <3>3, <4>1
    <3>6. \A i, j \in 1 .. e : i < j => m[h[i]] < m[h[j]]
      <4>1. \A i, j \in 1 .. c : i < j => m[h[i]] < m[h[j]]
        BY <2>2, <3>3 DEF Sorts
      <4>2. \A i \in 1 .. c : m[h[i]] < m[h[e]]
        BY <2>5, <3>3
      <4>3. \A i \in 1 .. c : ~(e < i)
        BY <3>2
      <4>. HIDE DEF h
      <4>. QED  BY <3>2, <4>1, <4>2, <4>3
    <3>7. Sorts(m, Upto(a2), e, h)
      <4>. HIDE DEF Upto, e, h
      <4>. QED  BY <3>2, <3>4, <3>5, <3>6 DEF Sorts
    <3>. HIDE DEF Upto, e, h
    <3>. QED  BY <2>1, <3>7
  <2>. HIDE DEF P
  <2>. QED  BY <2>4, <2>5
<1>4. b \in P
  <2>1. \A i \in 0 .. b : i \in P
    <3>. HIDE DEF P
    <3>. QED  BY <1>2, <1>3, Induction
  <2>. HIDE DEF P
  <2>. QED  BY <2>1
<1>5. Upto(b) = J
  BY <1>1
<1>. HIDE DEF Upto
<1>. QED  BY <1>4, <1>5

\* Numbers with two digits.
LEMMA TwoDigits ==
  ASSUME NEW b \in Nat, NEW p \in Nat, NEW q \in Nat, NEW x \in Nat, NEW y \in Nat,
         x < b, y < b
  PROVE  /\ p * b + x \in Nat
         /\ p * b + x < q * b + y <=> p < q \/ (p = q /\ x < y)
         /\ p * b + x = q * b + y <=> p = q /\ x = y
<1>1. \A i, j \in Nat : i * j \in Nat /\ i * j >= 0
  OBVIOUS
<1>2. \A i, j \in Nat : i < j => i * b + b <= j * b
  <2>. SUFFICES ASSUME NEW i \in Nat, NEW j \in Nat, i < j PROVE i * b + b <= j * b
    OBVIOUS
  <2>. PICK c \in Nat : j = i + 1 + c
    <3>1. j - (i + 1) \in Nat /\ j = i + 1 + (j - (i + 1))
      OBVIOUS
    <3>. QED  BY <3>1
  <2>1. j * b = i * b + b + c * b
    OBVIOUS
  <2>. QED  BY <1>1, <2>1
<1>. PICK pb \in Nat : pb = p * b
  BY <1>1
<1>. PICK qb \in Nat : qb = q * b
  BY <1>1
<1>3. p < q => pb + b <= qb
  BY <1>2
<1>4. q < p => qb + b <= pb
  BY <1>2
<1>5. p = q => pb = qb
  OBVIOUS
<1>. SUFFICES /\ pb + x \in Nat
              /\ pb + x < qb + y <=> p < q \/ (p = q /\ x < y)
              /\ pb + x = qb + y <=> p = q /\ x = y
  OBVIOUS
<1>6. CASE p < q
  BY <1>3, <1>6
<1>7. CASE q < p
  BY <1>4, <1>7
<1>8. CASE p = q
  BY <1>5, <1>8
<1>. QED  BY <1>6, <1>7, <1>8

-----------------------------------------------------------------------------
(* One order for all keys                                                  *)

\* Only a search that has ended has found an order for every key.
Found(ops) == \E finished \in BOOLEAN : Check(ops, finished)

\* The order porcupine finds for a key is an order of its records.
LEMMA AcceptedLinear ==
  ASSUME NEW ops, NEW t, Timed(ops, t), Found(ops), NEW key \in Keys
  PROVE  \E n, g, r : Takes(ops, Judged(ops, key), n, g, r)
<1>. DEFINE J    == Judged(ops, key)
            part == {o \in ToOperations(ops) : o.cmd.key = key}
<1>1. \A k \in J : k \in DOMAIN ops /\ ~Dropped(ops[k]) /\ ops[k].cmd.key = key
  BY DEF Judged
<1>2. \A k \in J : /\ Seen(ops, k).cmd = ops[k].cmd /\ Seen(ops, k).call = ops[k].start
                   /\ Seen(ops, k) \in POp
  BY <1>1, SeenIs
<1>3. \A o \in part : \E k \in J : o = Seen(ops, k)
  <2>. SUFFICES ASSUME NEW o \in part PROVE \E k \in J : o = Seen(ops, k)
    OBVIOUS
  <2>1. PICK k \in DOMAIN ops : ~Dropped(ops[k]) /\ o = Seen(ops, k) /\ o.cmd.key = key
    BY DEF ToOperations, Seen
  <2>2. Seen(ops, k).cmd = ops[k].cmd
    BY SeenIs
  <2>. QED  BY <2>1, <2>2 DEF Judged
<1>4. \A k \in J : Seen(ops, k) \in part
  <2>. SUFFICES ASSUME NEW k \in J PROVE Seen(ops, k) \in part
    OBVIOUS
  <2>1. Seen(ops, k) \in ToOperations(ops)
    BY <1>1 DEF ToOperations, Seen
  <2>. QED  BY <1>1, <1>2, <2>1
<1>5. CASE part = {}
  <2>1. J = {}
    <3>. HIDE DEF part, J
    <3>. QED  BY <1>4, <1>5
  <2>2. \E n, g, r : Takes(ops, {}, n, g, r)
    BY LinearNone DEF Linear
  <2>. QED  BY <2>1, <2>2
<1>6. CASE part # {}
  <2>1. PICK p \in part : TRUE
    BY <1>6
  <2>2. p \in ToOperations(ops) /\ p.cmd.key = key
    OBVIOUS
  <2>3. part \in Partition(ToOperations(ops))
    BY <2>2 DEF Partition
  <2>4. PICK order \in SetToSeqs(part) : RealTime(order) /\ Accepted(order)
    BY <2>3 DEF Found, Check, CheckOperations
  <2>. HIDE DEF part, J
  <2>5. IsFiniteSet(part)
    <3>. PICK m \in Nat : DOMAIN ops = 1 .. m
      BY DEF Timed
    <3>. DEFINE f == [k \in J |-> Seen(ops, k)]
    <3>1. f \in Surjection(J, part)
      BY <1>3, <1>4 DEF Surjection
    <3>2. J \in SUBSET (1 .. m)
      BY <1>1
    <3>3. IsFiniteSet(1 .. m)
      BY FS_Interval
    <3>4. IsFiniteSet(J)
      BY <3>2, <3>3, FS_Subset
    <3>. HIDE DEF f
    <3>. QED  BY <3>1, <3>4, FS_Surjection
  <2>6. PICK n \in Nat : /\ order \in [1 .. n -> part]
                         /\ \A i, j \in 1 .. n : order[i] = order[j] => i = j
                         /\ \A o \in part : \E i \in 1 .. n : order[i] = o
    BY <2>5, OrderIs
  <2>. DEFINE g == [i \in 1 .. n |-> CHOOSE k \in J : order[i] = Seen(ops, k)]
  <2>7. \A i \in 1 .. n : g[i] \in J /\ order[i] = Seen(ops, g[i])
    BY <1>3, <2>6
  <2>8. g \in [1 .. n -> J]
    BY <2>7
  <2>. HIDE DEF g
  <2>9. \A i, j \in 1 .. n : g[i] = g[j] => i = j
    BY <2>6, <2>7
  <2>10. \A k \in J : \E i \in 1 .. n : g[i] = k
    <3>. SUFFICES ASSUME NEW k \in J PROVE \E i \in 1 .. n : g[i] = k
      OBVIOUS
    <3>1. PICK i \in 1 .. n : order[i] = Seen(ops, k)
      BY <1>4, <2>6
    <3>2. Seen(ops, g[i]) = Seen(ops, k) /\ g[i] \in J
      BY <2>7, <3>1
    <3>3. ops[g[i]].start = ops[k].start
      BY <1>2, <3>2
    <3>4. g[i] = k
      BY <1>1, <3>2, <3>3 DEF Timed
    <3>. QED  BY <3>4
  <2>11. \A i, j \in 1 .. n : i < j => ops[g[i]].start <= Seen(ops, g[j]).return
    <3>. SUFFICES ASSUME NEW i \in 1 .. n, NEW j \in 1 .. n, i < j
                  PROVE  ops[g[i]].start <= Seen(ops, g[j]).return
      OBVIOUS
    <3>1. DOMAIN order = 1 .. n
      BY <2>6
    <3>2. order[i].call <= order[j].return
      BY <2>4, <3>1 DEF RealTime
    <3>. QED  BY <1>2, <2>7, <3>2
  <2>12. order \in [1 .. n -> POp]
    BY <1>2, <2>6, <2>7
  <2>13. PICK r \in [0 .. n -> Register] :
            /\ r[0] = InitState
            /\ \A i \in 1 .. n : Step(r[i - 1], order[i]) = Verdict(TRUE, r[i])
    BY <2>4, <2>12, AcceptedMeans
  <2>14. Takes(ops, J, n, g, r)
    BY <2>7, <2>8, <2>9, <2>10, <2>11, <2>13 DEF Takes
  <2>. QED  BY <2>14 DEF J
<1>. QED  BY <1>5, <1>6

\* The order way.g of the records of a key, with the place way.x[k] of record k
\* in it, and a time way.p[k] within its window at which it may have taken effect.
Way(ops, key, way) ==
  LET J == Judged(ops, key)
  IN  /\ Takes(ops, J, way.n, way.g, way.r)
      /\ way.x \in [J -> Nat] /\ way.p \in [J -> Nat]
      /\ \A k \in J : /\ way.x[k] \in 1 .. way.n /\ way.g[way.x[k]] = k
                      /\ ops[k].start <= way.p[k] /\ way.p[k] <= Seen(ops, k).return
                      /\ \E j \in J : way.p[k] = ops[j].start
      /\ \A j, k \in J : way.x[j] < way.x[k] => way.p[j] <= way.p[k]

\* The time is that of the last call among those that come first.
LEMMA WayExists ==
  ASSUME NEW ops, NEW t, Timed(ops, t), Found(ops), NEW key \in Keys
  PROVE  \E way : Way(ops, key, way)
<1>. PICK J : J = Judged(ops, key)
  OBVIOUS
<1>1. PICK n, g, r : Takes(ops, J, n, g, r)
  BY AcceptedLinear
<1>2. /\ n \in Nat /\ g \in [1 .. n -> J]
      /\ \A i, j \in 1 .. n : g[i] = g[j] => i = j
      /\ \A k \in J : \E i \in 1 .. n : g[i] = k
      /\ \A i, j \in 1 .. n : i < j => ops[g[i]].start <= Seen(ops, g[j]).return
  BY <1>1 DEF Takes
<1>3. \A k \in J : /\ k \in DOMAIN ops /\ ops[k].start \in Nat
                   /\ ops[k].start <= Seen(ops, k).return
  <2>. SUFFICES ASSUME NEW k \in J
                PROVE  k \in DOMAIN ops /\ ops[k].start \in Nat /\ ops[k].start <= Seen(ops, k).return
    OBVIOUS
  <2>1. k \in DOMAIN ops
    BY DEF Judged
  <2>2. ops[k].start <= ops[k].end
    BY <2>1 DEF Timed
  <2>. QED  BY <2>1, <2>2, SeenIs
<1>. DEFINE Calls(i) == {ops[g[j]].start : j \in 1 .. i}
            x == [k \in J |-> CHOOSE i \in 1 .. n : g[i] = k]
            p == [k \in J |-> Max(Calls(x[k]))]
<1>4. \A k \in J : x[k] \in 1 .. n /\ g[x[k]] = k
  BY <1>2
<1>5. x \in [J -> Nat]
  BY <1>4
<1>6. ASSUME NEW i \in 1 .. n
      PROVE  /\ Max(Calls(i)) \in Nat
             /\ \A j \in 1 .. i : ops[g[j]].start <= Max(Calls(i))
             /\ \E j \in 1 .. i : Max(Calls(i)) = ops[g[j]].start
  <2>1. \A j \in 1 .. i : j \in 1 .. n /\ g[j] \in J /\ ops[g[j]].start \in Nat
    BY <1>2, <1>3
  <2>2. PICK b \in Nat : \A j \in 1 .. i : ops[g[j]].start <= b
    <3>. DEFINE f == [j \in 1 .. i |-> ops[g[j]].start]
    <3>1. f \in [1 .. i -> Nat] /\ i \in Nat
      BY <1>2, <2>1
    <3>2. \A j \in 1 .. i : f[j] = ops[g[j]].start
      OBVIOUS
    <3>. HIDE DEF f
    <3>3. PICK b \in Nat : \A j \in 1 .. i : f[j] <= b
      BY <3>1, Bounded
    <3>. QED  BY <3>2, <3>3
  <2>. PICK C : C = Calls(i)
    OBVIOUS
  <2>3. /\ C \in SUBSET Nat /\ \A c \in C : c <= b
        /\ \A j \in 1 .. i : ops[g[j]].start \in C
        /\ \A c \in C : \E j \in 1 .. i : c = ops[g[j]].start
    BY <2>1, <2>2
  <2>4. C # {}
    <3>1. i \in 1 .. i
      BY <1>2
    <3>. QED  BY <2>3, <3>1
  <2>5. Max(C) \in C /\ \A c \in C : c <= Max(C)
    BY <2>3, <2>4, MaxIs
  <2>6. Max(C) \in Nat /\ (\A j \in 1 .. i : ops[g[j]].start <= Max(C))
        /\ \E j \in 1 .. i : Max(C) = ops[g[j]].start
    BY <2>3, <2>5
  <2>. HIDE DEF Calls
  <2>. QED  BY <2>6
<1>7. \A k \in J : p[k] = Max(Calls(x[k]))
  OBVIOUS
<1>8. p \in [J -> Nat]
  BY <1>4, <1>6
<1>. HIDE DEF Calls, x, p
<1>9. ASSUME NEW k \in J
      PROVE  /\ ops[k].start <= p[k] /\ p[k] <= Seen(ops, k).return
             /\ \E j \in J : p[k] = ops[j].start
  <2>1. x[k] \in 1 .. x[k] /\ x[k] \in Nat
    BY <1>2, <1>4
  <2>2. ops[k].start <= p[k]
    BY <1>4, <1>6, <1>7, <2>1
  <2>3. PICK j \in 1 .. x[k] : p[k] = ops[g[j]].start
    BY <1>4, <1>6, <1>7
  <2>4. j \in 1 .. n /\ (j < x[k] \/ j = x[k])
    BY <1>2, <1>4, <2>1
  <2>5. p[k] <= Seen(ops, k).return
    BY <1>2, <1>3, <1>4, <2>3, <2>4
  <2>. QED  BY <1>2, <2>2, <2>3, <2>4, <2>5
<1>10. ASSUME NEW j \in J, NEW k \in J, x[j] < x[k] PROVE p[j] <= p[k]
  <2>1. PICK i \in 1 .. x[j] : p[j] = ops[g[i]].start
    BY <1>4, <1>6, <1>7
  <2>2. i \in 1 .. x[k]
    BY <1>2, <1>4, <1>10
  <2>. QED  BY <1>4, <1>6, <1>7, <2>1, <2>2
<1>. DEFINE way == [n |-> n, g |-> g, r |-> r, x |-> x, p |-> p]
<1>11. Way(ops, key, way)
  BY <1>1, <1>4, <1>5, <1>8, <1>9, <1>10 DEF Way
<1>. QED  BY <1>11

\* g merges the orders of all keys, each of them a way.
Merges(ops, n, g, way) ==
  /\ n \in Nat /\ g \in [1 .. n -> {k \in DOMAIN ops : ~Dropped(ops[k])}]
  /\ \A key \in Keys : Way(ops, key, way[key])
  /\ \A i, j \in 1 .. n : g[i] = g[j] => i = j
  /\ \A k \in DOMAIN ops : ~Dropped(ops[k]) => \E i \in 1 .. n : g[i] = k
  /\ \A i, j \in 1 .. n : i < j => ops[g[i]].start <= Seen(ops, g[j]).return
  /\ \A key \in Keys : \A i, j \in 1 .. n :
       /\ ops[g[i]].cmd.key = key /\ ops[g[j]].cmd.key = key
       /\ way[key].x[g[i]] < way[key].x[g[j]]
       => i < j

\* Sorted by those times, the records respect real time across keys too.
LEMMA MergeExists ==
  ASSUME NEW ops, NEW t, Timed(ops, t), Found(ops)
  PROVE  \E n, g, way : Merges(ops, n, g, way)
<1>. DEFINE All == {k \in DOMAIN ops : ~Dropped(ops[k])}
            way == [key \in Keys |-> CHOOSE w : Way(ops, key, w)]
            key(k) == ops[k].cmd.key
            p(k) == way[key(k)].p[k]
            x(k) == way[key(k)].x[k]
<1>1. \A q \in Keys : Way(ops, q, way[q])
  BY WayExists
<1>. HIDE DEF way
<1>2. ASSUME NEW k \in All
      PROVE  /\ k \in DOMAIN ops /\ key(k) \in Keys /\ k \in Judged(ops, key(k))
             /\ p(k) \in Nat /\ x(k) \in Nat
             /\ way[key(k)].g[x(k)] = k
             /\ ops[k].start <= p(k) /\ p(k) <= Seen(ops, k).return
             /\ \E j \in All : key(j) = key(k) /\ p(k) = ops[j].start
             /\ ops[k].start \in Nat /\ Seen(ops, k).return \in Nat
             /\ \A j \in All : key(j) = key(k) /\ x(j) < x(k) => p(j) <= p(k)
  <2>1. k \in DOMAIN ops /\ key(k) \in Keys /\ ops[k].start \in Nat /\ Seen(ops, k) \in POp
    BY SeenIs
  <2>. PICK q \in Keys : q = key(k)
    BY <2>1
  <2>. PICK J : J = Judged(ops, q)
    OBVIOUS
  <2>2. \A j : j \in J <=> j \in All /\ key(j) = q
    BY DEF Judged
  <2>. PICK w : w = way[q]
    OBVIOUS
  <2>3. Way(ops, q, w)
    BY <1>1
  <2>4. /\ w.x \in [J -> Nat] /\ w.p \in [J -> Nat]
        /\ \A i \in J : /\ w.g[w.x[i]] = i
                        /\ ops[i].start <= w.p[i] /\ w.p[i] <= Seen(ops, i).return
                        /\ \E j \in J : w.p[i] = ops[j].start
        /\ \A j, i \in J : w.x[j] < w.x[i] => w.p[j] <= w.p[i]
    BY ONLY J = Judged(ops, q), <2>3 DEF Way
  <2>5. k \in J
    BY <2>2
  <2>6. p(k) = w.p[k] /\ x(k) = w.x[k] /\ \A j \in J : p(j) = w.p[j] /\ x(j) = w.x[j]
    BY <2>2
  <2>7. Seen(ops, k).return \in Nat
    BY <2>1 DEF POp
  <2>8. k \in Judged(ops, key(k))
    BY <2>5
  <2>9. w.p[k] \in Nat /\ w.x[k] \in Nat
    BY <2>4, <2>5
  <2>10. /\ w.g[w.x[k]] = k
         /\ ops[k].start <= w.p[k] /\ w.p[k] <= Seen(ops, k).return
         /\ \E j \in J : w.p[k] = ops[j].start
    BY <2>4, <2>5
  <2>11. \A j \in J : w.x[j] < w.x[k] => w.p[j] <= w.p[k]
    BY <2>4, <2>5
  <2>. HIDE DEF All, p, x
  <2>12. \A j \in All : key(j) = key(k) => j \in J
    BY <2>2
  <2>13. \A j \in J : j \in All /\ key(j) = key(k)
    BY <2>2
  <2>14. way[key(k)].g[x(k)] = k
    BY <2>6, <2>10
  <2>15. ops[k].start <= p(k) /\ p(k) <= Seen(ops, k).return /\ p(k) \in Nat /\ x(k) \in Nat
    BY <2>6, <2>9, <2>10
  <2>16. \E j \in All : key(j) = key(k) /\ p(k) = ops[j].start
    BY <2>6, <2>10, <2>13
  <2>17. \A j \in All : key(j) = key(k) /\ x(j) < x(k) => p(j) <= p(k)
    BY <2>6, <2>11, <2>12
  <2>. QED  BY <2>1, <2>7, <2>8, <2>14, <2>15, <2>16, <2>17
<1>. PICK n \in Nat : DOMAIN ops = 1 .. n
  BY DEF Timed
<1>3. All \in SUBSET (1 .. n)
  OBVIOUS
<1>. HIDE DEF All, p, x
<1>4. PICK b \in Nat : \A k \in All : x(k) < b
  <2>. DEFINE f == [k \in 1 .. n |-> IF k \in All THEN x(k) ELSE 0]
  <2>1. f \in [1 .. n -> Nat]
    BY <1>2
  <2>2. \A k \in All : f[k] = x(k) /\ k \in 1 .. n
    BY <1>3
  <2>. HIDE DEF f
  <2>3. PICK a \in Nat : \A k \in 1 .. n : f[k] <= a
    BY <2>1, Bounded
  <2>4. \A k \in All : x(k) \in Nat
    BY <1>2
  <2>5. \A k \in All : x(k) <= a
    BY <2>2, <2>3
  <2>6. a + 1 \in Nat /\ \A k \in All : x(k) < a + 1
    BY <2>4, <2>5
  <2>. QED  BY <2>6
<1>. DEFINE m == [k \in All |-> p(k) * b + x(k)]
<1>5. ASSUME NEW j \in All, NEW k \in All
      PROVE  /\ m[k] \in Nat
             /\ m[j] < m[k] <=> p(j) < p(k) \/ (p(j) = p(k) /\ x(j) < x(k))
             /\ m[j] = m[k] <=> p(j) = p(k) /\ x(j) = x(k)
  <2>1. /\ p(j) \in Nat /\ x(j) \in Nat /\ p(k) \in Nat /\ x(k) \in Nat
        /\ x(j) < b /\ x(k) < b
    BY <1>2, <1>4
  <2>2. m[j] = p(j) * b + x(j) /\ m[k] = p(k) * b + x(k)
    OBVIOUS
  <2>. PICK pj, xj, pk, xk : pj = p(j) /\ xj = x(j) /\ pk = p(k) /\ xk = x(k)
    OBVIOUS
  <2>3. /\ pj \in Nat /\ xj \in Nat /\ pk \in Nat /\ xk \in Nat /\ xj < b /\ xk < b
    BY <2>1
  <2>4. pk * b + xk \in Nat
    BY ONLY b \in Nat, <2>3, TwoDigits
  <2>5. pj * b + xj < pk * b + xk <=> pj < pk \/ (pj = pk /\ xj < xk)
    BY ONLY b \in Nat, <2>3, TwoDigits
  <2>6. pj * b + xj = pk * b + xk <=> pj = pk /\ xj = xk
    BY ONLY b \in Nat, <2>3, TwoDigits
  <2>. HIDE DEF m
  <2>. QED  BY <2>2, <2>4, <2>5, <2>6
<1>6. m \in [All -> Nat]
  BY <1>5
<1>. HIDE DEF m
<1>7. ASSUME NEW j \in All, NEW k \in All, p(j) = p(k), x(j) = x(k) PROVE j = k
  <2>1. PICK a \in All : key(a) = key(j) /\ p(j) = ops[a].start
    BY <1>2
  <2>2. PICK c \in All : key(c) = key(k) /\ p(k) = ops[c].start
    BY <1>2
  <2>3. a \in DOMAIN ops /\ c \in DOMAIN ops
    BY <1>2
  <2>4. a = c
    BY <1>7, <2>1, <2>2, <2>3 DEF Timed
  <2>5. key(j) = key(k)
    BY <2>1, <2>2, <2>4
  <2>. QED  BY <1>2, <1>7, <2>5
<1>8. \A j, k \in All : m[j] = m[k] => j = k
  BY <1>5, <1>7
<1>9. PICK c, g : Sorts(m, All, c, g)
  BY <1>3, <1>6, <1>8, Sorted
<1>10. /\ c \in Nat /\ g \in [1 .. c -> All]
       /\ \A k \in All : \E i \in 1 .. c : g[i] = k
       /\ \A i, j \in 1 .. c : i < j => m[g[i]] < m[g[j]]
  BY <1>9 DEF Sorts
<1>11. \A i \in 1 .. c : g[i] \in All /\ m[g[i]] \in Nat
  BY <1>6, <1>10
<1>12. \A i, j \in 1 .. c : g[i] = g[j] => i = j
  <2>. SUFFICES ASSUME NEW i \in 1 .. c, NEW j \in 1 .. c, i < j PROVE g[i] # g[j]
    OBVIOUS
  <2>1. m[g[i]] < m[g[j]] /\ m[g[i]] \in Nat
    BY <1>10, <1>11
  <2>. QED  BY <2>1
<1>13. ASSUME NEW i \in 1 .. c, NEW j \in 1 .. c, i < j
       PROVE  ops[g[i]].start <= Seen(ops, g[j]).return
  <2>1. p(g[i]) <= p(g[j])
    <3>1. m[g[i]] < m[g[j]]
      BY <1>10, <1>13
    <3>2. p(g[i]) \in Nat /\ p(g[j]) \in Nat
      BY <1>2, <1>11
    <3>. QED  BY <1>5, <1>11, <3>1, <3>2
  <2>2. /\ ops[g[i]].start <= p(g[i]) /\ p(g[j]) <= Seen(ops, g[j]).return
        /\ p(g[i]) \in Nat /\ p(g[j]) \in Nat /\ ops[g[i]].start \in Nat
        /\ Seen(ops, g[j]).return \in Nat
    BY <1>2, <1>11
  <2>. QED  BY <2>1, <2>2
<1>14. ASSUME NEW q \in Keys, NEW i \in 1 .. c, NEW j \in 1 .. c, key(g[i]) = q, key(g[j]) = q,
              way[q].x[g[i]] < way[q].x[g[j]]
       PROVE  i < j
  <2>1. x(g[i]) < x(g[j])
    BY <1>14 DEF x
  <2>2. p(g[i]) <= p(g[j]) /\ p(g[i]) \in Nat /\ p(g[j]) \in Nat /\ x(g[i]) \in Nat /\ x(g[j]) \in Nat
    BY <1>2, <1>11, <1>14, <2>1
  <2>3. m[g[i]] < m[g[j]]
    BY <1>5, <1>11, <2>1, <2>2
  <2>4. i # j /\ ~(j < i)
    BY <1>10, <1>11, <2>3
  <2>. QED  BY <1>10, <2>4
<1>. QED
  <2>1. g \in [1 .. c -> {k \in DOMAIN ops : ~Dropped(ops[k])}]
    BY <1>10 DEF All
  <2>2. \A k \in DOMAIN ops : ~Dropped(ops[k]) => \E i \in 1 .. c : g[i] = k
    BY <1>10 DEF All
  <2>3. \A q \in Keys : \A i, j \in 1 .. c :
          ops[g[i]].cmd.key = q /\ ops[g[j]].cmd.key = q /\ way[q].x[g[i]] < way[q].x[g[j]]
            => i < j
    BY <1>14
  <2>4. Merges(ops, c, g, way)
    BY <1>1, <1>10, <1>12, <1>13, <2>1, <2>2, <2>3 DEF Merges
  <2>. QED  BY <2>4

\* What the model tells of an operation it lets pass.
LEMMA StepTells ==
  ASSUME NEW d \in Data, NEW op \in Op, op.cmd \in Command, NEW h, NEW st,
         Step(Reg(d[op.cmd.key]), Converted(op, h)) = Verdict(TRUE, st),
         op.outcome = "ok" => op.res \in Answers(op.cmd)
  PROVE  /\ st = Reg(ApplyData(d, op.cmd)[op.cmd.key])
         /\ op.outcome = "ok" => SameVerdict(op, ApplyResult(d, op.cmd))
<1>. PICK w : w = Step(Reg(d[op.cmd.key]), Converted(op, h))
  OBVIOUS
<1>1. w.ok /\ w.st = st
  BY DEF Verdict
<1>2. CASE op.outcome = "ok"
  <2>1. /\ w.ok /\ op.res \in Answers(op.cmd) => SameVerdict(op, ApplyResult(d, op.cmd))
        /\ w.ok => w.st = Reg(ApplyData(d, op.cmd)[op.cmd.key])
    BY ONLY d \in Data, op \in Op, op.cmd \in Command, <1>2, StepKnown,
       w = Step(Reg(d[op.cmd.key]), Converted(op, h))
  <2>. QED  BY <1>1, <1>2, <2>1
<1>3. CASE op.outcome # "ok" /\ op.cmd.op # "get"
  <2>1. w = Verdict(TRUE, Reg(ApplyData(d, op.cmd)[op.cmd.key]))
    BY ONLY d \in Data, op \in Op, op.cmd \in Command, <1>3, StepUnknown,
       w = Step(Reg(d[op.cmd.key]), Converted(op, h))
  <2>. QED  BY <1>1, <1>3, <2>1 DEF Verdict
<1>4. CASE op.outcome # "ok" /\ op.cmd.op = "get"
  <2>1. Converted(op, h).cmd.op = "get"
    BY <1>4 DEF Converted
  <2>2. w.st = Reg(d[op.cmd.key])
    BY <2>1 DEF Step, Verdict
  <2>3. ApplyData(d, op.cmd) = d
    BY <1>4 DEF ApplyData
  <2>. QED  BY <1>1, <1>4, <2>2, <2>3
<1>. QED  BY <1>2, <1>3, <1>4

\* After c steps the map holds for a key what its way tells after the records
\* of that key among them.
Reached(ops, n, g, way, d, c) ==
  \A key \in Keys : \E x \in 0 .. way[key].n :
    /\ way[key].r[x] = Reg(d[c][key])
    /\ \A i \in 1 .. n : ops[g[i]].cmd.key = key => (i <= c <=> way[key].x[g[i]] <= x)

\* What a merged order tells of a record and its way.
LEMMA WayIs ==
  ASSUME NEW ops, NEW t, Timed(ops, t), NEW n, NEW g, NEW way, Merges(ops, n, g, way),
         NEW i \in 1 .. n, NEW key, ops[g[i]].cmd.key = key
  PROVE  /\ key \in Keys
         /\ g[i] \in DOMAIN ops /\ ~Dropped(ops[g[i]])
         /\ way[key].n \in Nat /\ way[key].x[g[i]] \in 1 .. way[key].n
         /\ way[key].g[way[key].x[g[i]]] = g[i]
<1>1. g[i] \in DOMAIN ops /\ ~Dropped(ops[g[i]])
  BY DEF Merges
<1>2. key \in Keys
  BY <1>1, SeenIs
<1>3. g[i] \in Judged(ops, key)
  BY <1>1 DEF Judged
<1>4. Way(ops, key, way[key])
  BY <1>2 DEF Merges
<1>. QED  BY <1>1, <1>2, <1>3, <1>4 DEF Way, Takes

\* The next record of a merged order is the next one of its way: the model's
\* verdict on it is the verdict of the state machine.
LEMMA ReachedNext ==
  ASSUME NEW ops, NEW t, Timed(ops, t), NEW n, NEW g, NEW way, Merges(ops, n, g, way),
         \A k \in DOMAIN ops : ops[k].outcome = "ok" => ops[k].res \in Answers(ops[k].cmd),
         NEW d \in [0 .. n -> Data],
         \A i \in 1 .. n : d[i] = ApplyData(d[i - 1], ops[g[i]].cmd),
         NEW c \in 0 .. n, c # n, Reached(ops, n, g, way, d, c)
  PROVE  /\ Reached(ops, n, g, way, d, c + 1)
         /\ ops[g[c + 1]].outcome = "ok" =>
              SameVerdict(ops[g[c + 1]], ApplyResult(d[c], ops[g[c + 1]].cmd))
<1>i. PICK i : i = c + 1
  OBVIOUS
<1>1. i \in 1 .. n /\ i \in 0 .. n /\ i - 1 = c /\ c \in Nat /\ n \in Nat
      /\ \A j \in 1 .. n : j <= i <=> j <= c \/ j = i
  BY <1>i DEF Merges
<1>k. PICK k : k = g[i]
  OBVIOUS
<1>o. PICK op : op = ops[k]
  OBVIOUS
<1>q. PICK q : q = op.cmd.key
  OBVIOUS
<1>w. PICK w : w = way[q]
  OBVIOUS
<1>2. /\ k \in DOMAIN ops /\ ~Dropped(op) /\ q \in Keys
      /\ w.n \in Nat /\ w.x[k] \in 1 .. w.n /\ w.g[w.x[k]] = k
  <2>0. i \in 1 .. n
    BY <1>1
  <2>1. ops[g[i]].cmd.key = q
    BY <1>k, <1>o, <1>q
  <2>2. /\ g[i] \in DOMAIN ops /\ ~Dropped(ops[g[i]]) /\ q \in Keys
        /\ way[q].n \in Nat /\ way[q].x[g[i]] \in 1 .. way[q].n
        /\ way[q].g[way[q].x[g[i]]] = g[i]
    BY ONLY Timed(ops, t), Merges(ops, n, g, way), <2>0, <2>1, WayIs
  <2>. QED  BY ONLY <1>k, <1>o, <1>w, <2>2
<1>3. op \in Op /\ op.cmd \in Command
  BY <1>2, <1>o, SeenIs
<1>4. /\ \A a, b \in 1 .. w.n : w.g[a] = w.g[b] => a = b
      /\ \A a \in 1 .. w.n : Step(w.r[a - 1], Seen(ops, w.g[a])) = Verdict(TRUE, w.r[a])
      /\ \A a \in 1 .. w.n : w.g[a] \in DOMAIN ops /\ ~Dropped(ops[w.g[a]])
                             /\ ops[w.g[a]].cmd.key = q
  <2>1. Way(ops, q, w)
    BY <1>2, <1>w DEF Merges
  <2>2. Takes(ops, Judged(ops, q), w.n, w.g, w.r)
    BY ONLY <2>1 DEF Way
  <2>3. \A a \in 1 .. w.n : w.g[a] \in Judged(ops, q)
    BY ONLY <2>2 DEF Takes
  <2>4. \A a \in 1 .. w.n : w.g[a] \in DOMAIN ops /\ ~Dropped(ops[w.g[a]])
                            /\ ops[w.g[a]].cmd.key = q
    BY ONLY <2>3 DEF Judged
  <2>. QED  BY ONLY <2>2, <2>4 DEF Takes
<1>5. PICK x \in 0 .. w.n :
         /\ w.r[x] = Reg(d[c][q])
         /\ \A j \in 1 .. n : ops[g[j]].cmd.key = q => (j <= c <=> w.x[g[j]] <= x)
  BY ONLY Reached(ops, n, g, way, d, c), <1>2, <1>w DEF Reached
<1>6. \A j \in 1 .. n : ops[g[j]].cmd.key = q =>
        /\ w.x[g[j]] \in 1 .. w.n /\ w.g[w.x[g[j]]] = g[j]
        /\ w.x[g[j]] < w.x[k] => j < i
  <2>1. \A j \in 1 .. n : ops[g[j]].cmd.key = q =>
          way[q].x[g[j]] \in 1 .. way[q].n /\ way[q].g[way[q].x[g[j]]] = g[j]
    <3>. SUFFICES ASSUME NEW j \in 1 .. n, ops[g[j]].cmd.key = q
                  PROVE  way[q].x[g[j]] \in 1 .. way[q].n /\ way[q].g[way[q].x[g[j]]] = g[j]
      OBVIOUS
    <3>. QED  BY ONLY Timed(ops, t), Merges(ops, n, g, way), j \in 1 .. n,
                      ops[g[j]].cmd.key = q, WayIs
  <2>2. \A j \in 1 .. n : ops[g[j]].cmd.key = q /\ w.x[g[j]] < w.x[k] => j < i
    <3>1. q \in Keys /\ i \in 1 .. n /\ g[i] = k /\ ops[g[i]].cmd.key = q
      BY ONLY <1>1, <1>2, <1>k, <1>o, <1>q
    <3>. QED  BY ONLY Merges(ops, n, g, way), <3>1, <1>w DEF Merges
  <2>. QED  BY ONLY <1>w, <2>1, <2>2
<1>7. w.x[k] = x + 1
  <2>1. ~(w.x[k] <= x)
    <3>1. ~(i <= c)
      BY ONLY <1>1
    <3>. QED  BY ONLY <1>1, <1>5, <1>k, <1>o, <1>q, <3>1
  <2>2. ASSUME x + 1 < w.x[k] PROVE FALSE
    <3>1. x + 1 \in 1 .. w.n
      BY ONLY x \in 0 .. w.n, <1>2, <2>2
    <3>l. PICK l : l = w.g[x + 1]
      OBVIOUS
    <3>2. l \in DOMAIN ops /\ ~Dropped(ops[l]) /\ ops[l].cmd.key = q
      BY ONLY <1>4, <3>1, <3>l
    <3>3. PICK j \in 1 .. n : g[j] = l
      BY ONLY Merges(ops, n, g, way), <3>2 DEF Merges
    <3>4. w.x[l] \in 1 .. w.n /\ w.g[w.x[l]] = l
      BY ONLY j \in 1 .. n, <1>6, <3>2, <3>3
    <3>5. w.x[l] = x + 1
      BY ONLY <1>4, <3>1, <3>4, <3>l
    <3>6. j < i
      BY ONLY j \in 1 .. n, <1>6, <2>2, <3>2, <3>3, <3>5
    <3>7. j <= c
      BY ONLY j \in 1 .. n, <1>1, <3>6
    <3>8. w.x[l] <= x
      BY ONLY j \in 1 .. n, <1>5, <3>2, <3>3, <3>7
    <3>. QED  BY ONLY x \in 0 .. w.n, <1>2, <3>5, <3>8
  <2>. QED  BY ONLY x \in 0 .. w.n, <1>2, <2>1, <2>2
<1>8. x + 1 \in 0 .. w.n /\ x + 1 \in 1 .. w.n /\ (x + 1) - 1 = x /\ w.g[x + 1] = k
  BY ONLY x \in 0 .. w.n, <1>2, <1>7
<1>9. d[c] \in Data /\ d[i] = ApplyData(d[c], op.cmd) /\ d[i] \in Data
  BY <1>1, <1>k, <1>o
<1>10. /\ w.r[x + 1] = Reg(d[i][q])
       /\ op.outcome = "ok" => SameVerdict(op, ApplyResult(d[c], op.cmd))
  <2>e. PICK e \in Data : e = d[c]
    BY <1>9
  <2>h. PICK h : h = Horizon(ops)
    OBVIOUS
  <2>s. PICK st : st = w.r[x + 1]
    OBVIOUS
  <2>1. Step(Reg(e[op.cmd.key]), Converted(op, h)) = Verdict(TRUE, st)
    <3>1. Step(w.r[x], Seen(ops, k)) = Verdict(TRUE, w.r[x + 1])
      BY ONLY <1>4, <1>8
    <3>2. Seen(ops, k) = Converted(op, h)
      BY <1>o, <2>h DEF Seen
    <3>3. w.r[x] = Reg(e[op.cmd.key])
      BY ONLY <1>5, <1>q, <2>e
    <3>. QED  BY ONLY <2>s, <3>1, <3>2, <3>3
  <2>2. op.outcome = "ok" => op.res \in Answers(op.cmd)
    BY <1>2, <1>o
  <2>3. /\ st = Reg(ApplyData(e, op.cmd)[op.cmd.key])
        /\ op.outcome = "ok" => SameVerdict(op, ApplyResult(e, op.cmd))
    BY ONLY e \in Data, <1>3, <2>1, <2>2, StepTells
  <2>. QED  BY ONLY <1>9, <1>q, <2>e, <2>s, <2>3
<1>11. \A j \in 1 .. n : ops[g[j]].cmd.key = q => (j <= i <=> w.x[g[j]] <= x + 1)
  <2>1. SUFFICES ASSUME NEW j \in 1 .. n, ops[g[j]].cmd.key = q
                 PROVE  j <= i <=> w.x[g[j]] <= x + 1
    OBVIOUS
  <2>2. w.x[g[j]] \in 1 .. w.n /\ w.g[w.x[g[j]]] = g[j]
    BY ONLY <1>6, <2>1
  <2>3. w.x[g[j]] <= x + 1 <=> w.x[g[j]] <= x \/ w.x[g[j]] = x + 1
    BY ONLY x \in 0 .. w.n, <1>2, <2>2
  <2>4. w.x[g[j]] = x + 1 <=> j = i
    <3>1. ASSUME w.x[g[j]] = x + 1 PROVE j = i
      <4>1. g[j] = g[i]
        BY ONLY <1>8, <1>k, <2>2, <3>1
      <4>. QED  BY ONLY Merges(ops, n, g, way), <1>1, <2>1, <4>1 DEF Merges
    <3>2. ASSUME j = i PROVE w.x[g[j]] = x + 1
      BY ONLY <1>7, <1>k, <3>2
    <3>. QED  BY <3>1, <3>2
  <2>5. j <= c <=> w.x[g[j]] <= x
    BY ONLY <1>5, <2>1
  <2>6. j <= i <=> j <= c \/ j = i
    BY ONLY <1>1, <2>1
  <2>. QED  BY ONLY <2>3, <2>4, <2>5, <2>6
<1>12. Reached(ops, n, g, way, d, i)
  <2>. SUFFICES ASSUME NEW key \in Keys
                PROVE  \E y \in 0 .. way[key].n :
                         /\ way[key].r[y] = Reg(d[i][key])
                         /\ \A j \in 1 .. n :
                              ops[g[j]].cmd.key = key => (j <= i <=> way[key].x[g[j]] <= y)
    BY DEF Reached
  <2>1. CASE key = q
    BY ONLY <1>8, <1>10, <1>11, <1>w, <2>1
  <2>2. CASE key # q
    <3>1. PICK y \in 0 .. way[key].n :
             /\ way[key].r[y] = Reg(d[c][key])
             /\ \A j \in 1 .. n :
                  ops[g[j]].cmd.key = key => (j <= c <=> way[key].x[g[j]] <= y)
      BY DEF Reached
    <3>2. d[i][key] = d[c][key]
      BY ONLY key \in Keys, <1>3, <1>9, <1>q, <2>2 DEF ApplyData, Data, Command, Ops
    <3>3. \A j \in 1 .. n : ops[g[j]].cmd.key = key => (j <= i <=> j <= c)
      BY ONLY <1>1, <1>k, <1>o, <1>q, <2>2
    <3>. QED  BY ONLY y \in 0 .. way[key].n, <3>1, <3>2, <3>3
  <2>. QED  BY <2>1, <2>2
<1>. QED  BY ONLY <1>i, <1>k, <1>o, <1>10, <1>12

\* A history that is accepted has an explanation in which every read and every
\* verdict of a CAS is right: neither the open windows of unknown operations, nor
\* the search key by key (porcupine's Partition), nor a timeout let anything else
\* pass.
THEOREM AcceptedIsExplainedInv ==
  Spec => []AcceptedIsExplained
<1>1. ASSUME Recorded, Found(history)
      PROVE  \E order \in Orders : Explains(order, SameVerdict)
  <2>. DEFINE Sure  == {k \in DOMAIN history : history[k].outcome = "ok"}
              Maybe == {k \in DOMAIN history : history[k].outcome \notin {"ok", "failed"}}
              All   == {k \in DOMAIN history : ~Dropped(history[k])}
  <2>1. /\ Timed(history, now) /\ history \in Seq(Op)
        /\ \A k \in DOMAIN history :
             history[k].outcome = "ok" => history[k].res \in Answers(history[k].cmd)
    BY <1>1 DEF Recorded, Timed
  <2>2. PICK n, g, way : Merges(history, n, g, way)
    BY <1>1, <2>1, MergeExists
  <2>3. /\ n \in Nat /\ g \in [1 .. n -> All]
        /\ \A i, j \in 1 .. n : g[i] = g[j] => i = j
        /\ \A k \in All : \E i \in 1 .. n : g[i] = k
    BY <2>2 DEF Merges
  <2>4. \A i, j \in 1 .. n : i < j => history[g[i]].start <= Seen(history, g[j]).return
    BY <2>2 DEF Merges
  <2>5. g \in [1 .. n -> DOMAIN history]
    BY <2>3
  <2>6. PICK d \in [0 .. n -> Data] :
           /\ d[0] = EmptyData
           /\ \A i \in 1 .. n : d[i] = ApplyData(d[i - 1], history[g[i]].cmd)
           /\ Explains(g, SameVerdict) <=>
                \A i \in 1 .. n :
                  history[g[i]].outcome = "ok" =>
                    SameVerdict(history[g[i]], ApplyResult(d[i - 1], history[g[i]].cmd))
    BY <2>1, <2>3, <2>5, ExplainsSameVerdict
  <2>7. d[0] = EmptyData /\ \A i \in 1 .. n : d[i] = ApplyData(d[i - 1], history[g[i]].cmd)
    BY <2>6
  <2>8. Reached(history, n, g, way, d, 0)
    <3>. SUFFICES ASSUME NEW key \in Keys
                  PROVE  \E x \in 0 .. way[key].n :
                           /\ way[key].r[x] = Reg(d[0][key])
                           /\ \A i \in 1 .. n : history[g[i]].cmd.key = key
                                => (i <= 0 <=> way[key].x[g[i]] <= x)
      BY DEF Reached
    <3>1. Way(history, key, way[key])
      BY <2>2 DEF Merges
    <3>2. Takes(history, Judged(history, key), way[key].n, way[key].g, way[key].r)
      BY <3>1 DEF Way
    <3>3. 0 \in 0 .. way[key].n /\ way[key].r[0] = InitState
      BY <3>2 DEF Takes
    <3>4. Reg(d[0][key]) = InitState
      BY <2>7 DEF Reg, EmptyData
    <3>5. ASSUME NEW i \in 1 .. n, history[g[i]].cmd.key = key
          PROVE  ~(i <= 0) /\ ~(way[key].x[g[i]] <= 0)
      <4>1. way[key].n \in Nat /\ way[key].x[g[i]] \in 1 .. way[key].n
        BY <2>1, <2>2, <3>5, WayIs
      <4>. QED  BY <2>3, <4>1
    <3>. QED  BY <3>3, <3>4, <3>5
  <2>. DEFINE S == {c \in 0 .. n : Reached(history, n, g, way, d, c)}
  <2>9. ASSUME NEW c \in 0 .. n, c # n, c \in S
        PROVE  /\ c + 1 \in S
               /\ history[g[c + 1]].outcome = "ok" =>
                    SameVerdict(history[g[c + 1]], ApplyResult(d[c], history[g[c + 1]].cmd))
    <3>1. c + 1 \in 0 .. n
      BY <2>3, <2>9
    <3>2. Reached(history, n, g, way, d, c)
      BY <2>9
    <3>3. /\ Reached(history, n, g, way, d, c + 1)
          /\ history[g[c + 1]].outcome = "ok" =>
               SameVerdict(history[g[c + 1]], ApplyResult(d[c], history[g[c + 1]].cmd))
      BY <2>1, <2>2, <2>7, <2>9, <3>2, ReachedNext
    <3>. QED  BY <3>1, <3>3
  <2>10. \A c \in 0 .. n : c \in S
    <3>1. 0 \in S
      BY <2>3, <2>8
    <3>. HIDE DEF S
    <3>. QED  BY <2>3, <2>9, <3>1, Induction
  <2>. HIDE DEF S
  <2>11. \A i \in 1 .. n :
           history[g[i]].outcome = "ok" =>
             SameVerdict(history[g[i]], ApplyResult(d[i - 1], history[g[i]].cmd))
    <3>. SUFFICES ASSUME NEW i \in 1 .. n
                  PROVE  history[g[i]].outcome = "ok" =>
                           SameVerdict(history[g[i]], ApplyResult(d[i - 1], history[g[i]].cmd))
      OBVIOUS
    <3>. PICK c : c = i - 1
      OBVIOUS
    <3>1. c \in 0 .. n /\ c # n /\ c + 1 = i
      BY <2>3
    <3>2. c \in S
      BY <2>10, <3>1
    <3>. QED  BY <2>9, <3>1, <3>2
  <2>12. Explains(g, SameVerdict)
    BY <2>6, <2>11
  <2>13. g \in SetToSeqs(All)
    <3>1. g \in Bijection(1 .. n, All)
      BY <2>3 DEF Bijection, Injection, Surjection, IsInjective
    <3>2. ExistsBijection(1 .. n, All)
      BY <3>1 DEF ExistsBijection
    <3>. HIDE DEF All
    <3>3. Cardinality(All) = n
      BY <2>3, <3>2, FS_CountingElements
    <3>. QED  BY <2>3, <3>3 DEF SetToSeqs
  <2>14. \A i, j \in DOMAIN g : i < j => ~Before(g[j], g[i])
    <3>. SUFFICES ASSUME NEW i \in 1 .. n, NEW j \in 1 .. n, i < j, Before(g[j], g[i])
                  PROVE  FALSE
      BY <2>3
    <3>1. /\ history[g[i]].start \in Nat /\ history[g[j]].end \in Nat
          /\ history[g[j]].outcome = "ok" => Seen(history, g[j]).return = history[g[j]].end
      BY <2>1, <2>5, SeenIs
    <3>2. history[g[j]].outcome = "ok" /\ history[g[j]].end < history[g[i]].start
      BY DEF Before
    <3>. QED  BY <2>4, <3>1, <3>2
  <2>15. All = Sure \cup (All \ Sure) /\ All \ Sure \in SUBSET Maybe
    BY DEF Dropped
  <2>16. g \in Orders
    <3>. HIDE DEF All
    <3>. QED  BY <2>13, <2>14, <2>15 DEF Orders
  <2>. QED  BY <2>12, <2>16
<1>2. Recorded => AcceptedIsExplained
  BY <1>1 DEF AcceptedIsExplained, Found
<1>. QED  BY <1>2, RecordedInv, PTL
===============================================================================
