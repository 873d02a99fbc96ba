---------------------------- MODULE HarnessProofs ----------------------------
(***************************************************************************)
(* What the verification run tells is true, for any number of nodes,       *)
(* clients, rounds and operations, over any store that keeps the promise   *)
(* of LinearizableKV: whatever a client believes to be in a key was there, *)
(* and a check never fails without a reason.                               *)
(***************************************************************************)
EXTENDS Harness, KVProofs, FiniteSetTheorems, SequenceTheorems, TLAPS

-----------------------------------------------------------------------------
(* The invariants                                                          *)

Checks == {"none", "PASS", "FAIL"}

ControlInv ==
  /\ \E plan \in Plans : checks \in [ToSet(plan) -> Checks]
  /\ todo \in Seq(Phases)
  /\ \A i \in DOMAIN todo : todo[i] \in DOMAIN checks
  /\ at \in Nat \ {0} /\ step \in {"first", "get", "race", "stopped"} /\ pass \in BOOLEAN
  /\ timedOut \in BOOLEAN

StoreInv ==
  /\ data \in Data
  /\ command \in [Invocations -> Command \cup {NoCommand}]
  /\ outcome \in [Invocations -> {"none", "pending", "ok", "failed", "unknown"}]
  /\ effect \in [Invocations -> Result \cup {NoResult}]
  /\ returned \in [Invocations -> Result \cup {NoResult}]

\* A goroutine waits for one operation at a time.
CallInv ==
  /\ busy \in [Threads -> 0 .. Len(calls)]
  /\ calls \in Seq([by : Threads, start : Nat])
  /\ now \in Nat
  /\ \A i \in DOMAIN calls :
       /\ i \in Invocations /\ command[i] \in Command /\ outcome[i] # "none"
       /\ calls[i].start <= now
       /\ outcome[i] = "pending" => busy[calls[i].by] = i
  /\ \A i \in Invocations \ DOMAIN calls : outcome[i] = "none" /\ effect[i] = NoResult
  /\ \A t \in Threads : busy[t] # 0 => calls[busy[t]].by = t /\ outcome[busy[t]] = "pending"

Record == [id : Nat, cmd : Command, start : Nat, end : Nat,
           outcome : {"ok", "failed", "unknown"}, res : Result]

\* A record tells what was called and answered; the operation a goroutine waits
\* for is later than all it has recorded.
RecordInv(h) ==
  /\ h.id \in DOMAIN calls
  /\ h.cmd = command[h.id] /\ h.outcome = outcome[h.id]
  /\ h.start = calls[h.id].start /\ h.start < h.end /\ h.end <= now
  /\ h.outcome = "ok" => effect[h.id] # NoResult /\ h.res = effect[h.id]
  /\ busy[calls[h.id].by] # 0 => h.id < busy[calls[h.id].by]

HistoryInv ==
  /\ history \in Seq(Record)
  /\ \A k \in DOMAIN history : RecordInv(history[k])
  /\ \A j, k \in DOMAIN history : history[j].id = history[k].id => j = k

LastSeenType == lastSeen \in [Clients -> [ChaosKeys -> Values \cup {Nil}]]

\* Every phase runs once, and only it works on its keys; phaseMinorityRefusesWrites
\* never runs out of values.
PlanInv ==
  /\ \A i, j \in DOMAIN todo : todo[i] = todo[j] => i = j
  /\ \A i \in DOMAIN calls, j \in DOMAIN todo : calls[i].by \notin Clients =>
       /\ command[i].op = "delete" => (todo[j] = "reset" => j = 1)
       /\ command[i].op # "delete" => (command[i].key \in Touched(todo[j]) => j = 1)
  /\ Phase = "majority" /\ at = 1 /\ step = "first" /\ busy[Main] = 0 =>
       Tries("put", Live) <= MaxTries

\* Clients work on the keys of phaseChaos; who else does, deletes.
KeysInv ==
  \A i \in DOMAIN calls :
    /\ calls[i].by \in Clients => command[i].key \in ChaosKeys
    /\ calls[i].by \notin Clients /\ command[i].key \in ChaosKeys => command[i].op = "delete"

Done(i) == calls[i].by \in Clients /\ effect[i] # NoResult

\* What a client that was told the answer would have seen.
Noted(i) == NoteSeen([cmd |-> command[i], res |-> effect[i]])

OrderInv ==
  /\ order \in Seq([id : Nat, val : Values \cup {Nil}])
  /\ \A p \in DOMAIN order :
       /\ order[p].id \in DOMAIN calls /\ Done(order[p].id)
       /\ order[p].val = Noted(order[p].id)
  /\ \A p, q \in DOMAIN order : order[p].id = order[q].id => p = q
  /\ \A i \in DOMAIN calls : Done(i) => \E p \in DOMAIN order : order[p].id = i

\* Client c's last answered operation on key k when the clock read t.
LastAnswered(p, c, k, t) ==
  /\ order[p].id \in Seen(c, k, t)
  /\ \A m \in Seen(c, k, t) : m <= order[p].id

SeenInv ==
  \A c \in Clients, k \in ChaosKeys :
    \/ Seen(c, k, now + 1) = {} /\ lastSeen[c][k] = Nil
    \/ \E p \in DOMAIN order :
         LastAnswered(p, c, k, now + 1) /\ lastSeen[c][k] = order[p].val

\* What a CAS of a client expects is what the client saw last.
ExpectInv ==
  \A i \in DOMAIN calls :
    calls[i].by \in Clients /\ command[i].op = "cas" /\ command[i].expect # Nil =>
      \E p \in DOMAIN order :
        /\ LastAnswered(p, calls[i].by, command[i].key, calls[i].start)
        /\ order[p].val = command[i].expect

\* An operation of phaseChaos that carries a value, and its value is its own.
Carries(i) == calls[i].by \in Clients /\ command[i].op \in {"put", "cas"}

FreshInv ==
  /\ \A i \in DOMAIN calls : Carries(i) =>
       \E n \in 1 .. ChaosOps :
         n <= Cardinality(OpsOf(calls[i].by)) /\ command[i].value = <<calls[i].by, n>>
  /\ \A i, j \in DOMAIN calls :
       Carries(i) /\ Carries(j) /\ command[i].value = command[j].value => i = j

\* Where a value in a key of phaseChaos may come from.
Origins ==
  PreRun \cup {Nil}
    \cup {command[i].value : i \in {j \in DOMAIN calls : Carries(j) /\ effect[j] # NoResult}}

OriginInv ==
  /\ \A k \in ChaosKeys \cap Keys : data[k] \in Origins
  /\ \A p \in DOMAIN order : order[p].val \in Origins

\* A value that was overwritten never comes back.
KeyAt(p) == command[order[p].id].key

OverwrittenInv ==
  \A p, q \in DOMAIN order :
    p < q /\ KeyAt(p) = KeyAt(q) /\ Writes(order[q].id) /\ order[p].val # Nil
      => data[KeyAt(p)] # order[p].val

\* When a CAS wins, its key still holds what it expected.
WonInv ==
  \A p, q, r \in DOMAIN order :
    LET cmd == command[order[r].id]
    IN  /\ cmd.op = "cas" /\ cmd.expect # Nil /\ effect[order[r].id].ok
        /\ p < q /\ q < r /\ KeyAt(p) = cmd.key /\ KeyAt(q) = cmd.key
        /\ order[p].val = cmd.expect
        => ~Writes(order[q].id)

TypeInv == ControlInv /\ PlanInv /\ StoreInv /\ CallInv /\ HistoryInv /\ LastSeenType

-----------------------------------------------------------------------------
(* The keys and values of a run                                            *)

\* What is assumed of a plan.
LEMMA PlanFacts ==
  ASSUME NEW plan \in Plans
  PROVE  /\ plan \in Seq(Phases) /\ ToSet(plan) \subseteq Phases
         /\ {"reset", "linearizability"} \subseteq ToSet(plan)
         /\ \A p \in ToSet(plan) : Touched(p) \subseteq Keys
<1>1. plan \in Seq(Phases)
  BY HarnessAssumption
<1>2. ToSet(plan) \subseteq Phases
  BY <1>1 DEF ToSet
<1>. QED  BY <1>1, <1>2, HarnessAssumption

\* What is assumed of the numbers and names.
LEMMA NamesFacts ==
  /\ PreRun \subseteq Values /\ Printed \subseteq Values /\ NoResult \notin Result
  /\ \A v \in PreRun : v \notin Clients \X (1 .. ChaosOps)
  /\ Main \notin Contenders /\ Main \notin Clients /\ Contenders \cap Clients = {}
  /\ \A p \in Phases \ {"chaos"} : Touched(p) \cap ChaosKeys = {}
  /\ Nodes \in Nat /\ Rounds \in Nat /\ Iterations \in Nat
  /\ MaxTries \in Nat /\ ChaosOps \in Nat
BY HarnessAssumption

\* The keys named by a number are finitely many.
LEMMA NumberedKeysFinite ==
  ASSUME NEW n \in Nat, NEW f, DOMAIN f = 1 .. n
  PROVE  IsFiniteSet({f[i] : i \in 1 .. n})
<1>. DEFINE T == {f[i] : i \in 1 .. n}
<1>. DEFINE g == [i \in 1 .. n |-> f[i]]
<1>1. g \in Surjection(1 .. n, T)
  BY DEF Surjection
<1>2. IsFiniteSet(1 .. n)
  BY FS_Interval
<1>. QED  BY <1>1, <1>2, FS_Surjection

\* So are the keys of a phase.
LEMMA TouchedFinite ==
  ASSUME NEW p \in Phases
  PROVE  IsFiniteSet(Touched(p))
<1>1. IsFiniteSet({Smoke}) /\ IsFiniteSet({Live}) /\ IsFiniteSet(ChaosKeys) /\ IsFiniteSet({})
  BY FS_Singleton, FS_EmptySet, HarnessAssumption
<1>2. Rounds \in Nat /\ Iterations \in Nat
  BY HarnessAssumption
<1>3. IsFiniteSet({Arena(r) : r \in 1 .. Rounds})
  <2>. DEFINE f == [r \in 1 .. Rounds |-> Arena(r)]
  <2>1. {f[r] : r \in 1 .. Rounds} = {Arena(r) : r \in 1 .. Rounds}
    OBVIOUS
  <2>2. IsFiniteSet({f[r] : r \in 1 .. Rounds})
    BY <1>2, NumberedKeysFinite
  <2>. QED  BY <2>1, <2>2
<1>4. IsFiniteSet({Durable(r) : r \in 1 .. Iterations})
  <2>. DEFINE f == [r \in 1 .. Iterations |-> Durable(r)]
  <2>1. {f[r] : r \in 1 .. Iterations} = {Durable(r) : r \in 1 .. Iterations}
    OBVIOUS
  <2>2. IsFiniteSet({f[r] : r \in 1 .. Iterations})
    BY <1>2, NumberedKeysFinite
  <2>. QED  BY <2>1, <2>2
<1>. QED  BY <1>1, <1>3, <1>4 DEF Touched, Phases

\* The reset deletes keys of the store, all that the run works on.
LEMMA ResetKeysType ==
  ASSUME ControlInv
  PROVE  /\ ResetKeys \in Seq(Keys)
         /\ Count("reset") = Len(ResetKeys)
         /\ \A k \in Workload : \E j \in DOMAIN ResetKeys : ResetKeys[j] = k
<1>1. PICK plan \in Plans : DOMAIN checks = ToSet(plan)
  BY DEF ControlInv
<1>2. /\ DOMAIN checks \subseteq Phases
      /\ \A p \in DOMAIN checks : Touched(p) \subseteq Keys
  BY <1>1, PlanFacts
<1>. PICK W : W = Workload
  OBVIOUS
<1>3. IsFiniteSet(W) /\ W \subseteq Keys
  <2>1. W \subseteq Keys
    BY <1>2 DEF Workload
  <2>2. W \subseteq Touched("smoke") \cup Touched("cas") \cup Touched("kill")
                     \cup Touched("majority") \cup Touched("chaos")
    <3>1. Touched("reset") = {} /\ Touched("linearizability") = {}
      BY DEF Touched
    <3>. QED  BY <1>2, <3>1 DEF Workload, Phases
  <2>3. IsFiniteSet(Touched("smoke")) /\ IsFiniteSet(Touched("cas"))
        /\ IsFiniteSet(Touched("kill")) /\ IsFiniteSet(Touched("majority"))
        /\ IsFiniteSet(Touched("chaos"))
    BY TouchedFinite DEF Phases
  <2>4. IsFiniteSet(Touched("smoke") \cup Touched("cas") \cup Touched("kill")
                      \cup Touched("majority") \cup Touched("chaos"))
    BY <2>3, FS_Union
  <2>. QED  BY <2>1, <2>2, <2>4, FS_Subset
<1>4. \E f \in [1 .. Cardinality(W) -> W] : IsInjective(f)
  BY <1>3, FS_CardinalityType DEF ExistsBijection, Bijection, Injection
<1>5. /\ SetToSeq(W) \in [1 .. Cardinality(W) -> W] /\ Cardinality(W) \in Nat
      /\ IsInjective(SetToSeq(W))
  BY <1>3, <1>4, FS_CardinalityType DEF SetToSeq
<1>6. SetToSeq(W) \in Seq(Keys)
  BY <1>3, <1>5, SeqDef
<1>7. Count("reset") = Len(ResetKeys)
  BY DEF Count
<1>8. PICK f : f = SetToSeq(W)
  OBVIOUS
<1>9. f \in Surjection(1 .. Cardinality(W), W)
  <2>1. f \in Injection(1 .. Cardinality(W), W)
    BY <1>5, <1>8 DEF Injection
  <2>2. IsFiniteSet(1 .. Cardinality(W)) /\ Cardinality(1 .. Cardinality(W)) = Cardinality(W)
    BY <1>5, FS_Interval
  <2>. QED  BY <1>3, <2>1, <2>2, FS_Injection
<1>10. \A k \in W : \E j \in DOMAIN f : f[j] = k
  BY <1>5, <1>8, <1>9 DEF Surjection
<1>. QED  BY <1>6, <1>7, <1>8, <1>10 DEF ResetKeys

\* A phase under way is one of this run.
LEMMA PhaseOfPlan ==
  ASSUME ControlInv, NEW p \in Phases, Phase = p
  PROVE  /\ p \in DOMAIN checks /\ todo # <<>>
         /\ Touched(p) \subseteq Keys
<1>1. todo # <<>> /\ p = todo[1] /\ 1 \in DOMAIN todo
  <2>1. todo # <<>>
    BY DEF Phase, Phases
  <2>. QED  BY <2>1 DEF ControlInv, Phase
<1>2. p \in DOMAIN checks
  BY <1>1 DEF ControlInv
<1>3. PICK plan \in Plans : DOMAIN checks = ToSet(plan)
  BY DEF ControlInv
<1>. QED  BY <1>1, <1>2, <1>3, PlanFacts

\* Which keys each phase works on.
LEMMA TouchedIs ==
  /\ Touched("smoke") = {Smoke}
  /\ Touched("cas") = {Arena(r) : r \in 1 .. Rounds}
  /\ Touched("kill") = {Durable(i) : i \in 1 .. Iterations}
  /\ Touched("majority") = {Live}
  /\ Touched("chaos") = ChaosKeys
BY DEF Touched

\* How often each loop goes round.
LEMMA CountIs ==
  /\ Count("smoke") = Nodes /\ Count("cas") = Rounds /\ Count("kill") = Iterations
  /\ Count("majority") = 1 /\ Count("chaos") = 1
BY DEF Count

\* No key is worked on by two phases.
LEMMA TouchedDisjoint ==
  ASSUME NEW p \in Phases, NEW q \in Phases, p # q
  PROVE  Touched(p) \cap Touched(q) = {}
<1>1. CASE p = "chaos" \/ q = "chaos"
  BY <1>1, NamesFacts, TouchedIs
<1>2. CASE p \in {"reset", "linearizability"} \/ q \in {"reset", "linearizability"}
  BY <1>2 DEF Touched
<1>3. CASE p \in {"smoke", "cas", "kill", "majority"} /\ q \in {"smoke", "cas", "kill", "majority"}
  <2>1. /\ Smoke[1] = "smoke" /\ Live[1] = "majority-live"
        /\ \A i : Arena(i)[1] = "cas-arena" /\ Durable(i)[1] = "durable"
    BY DEF Smoke, Live, Arena, Durable
  <2>2. /\ \A k \in Touched("smoke") : k[1] = "smoke"
        /\ \A k \in Touched("cas") : k[1] = "cas-arena"
        /\ \A k \in Touched("kill") : k[1] = "durable"
        /\ \A k \in Touched("majority") : k[1] = "majority-live"
    BY <2>1, TouchedIs
  <2>. QED  BY <1>3, <2>2
<1>. QED  BY <1>1, <1>2, <1>3 DEF Phases

\* The commands of the workload.
LEMMA CommandTypes ==
  ASSUME NEW k \in Keys, NEW v \in Values, NEW e \in Values \cup {Nil}
  PROVE  /\ Put(k, v) \in Command /\ Get(k) \in Command /\ Delete(k) \in Command
         /\ CAS(k, e, v) \in Command
BY KVAssumption DEF Put, Get, Delete, CAS, Command, Ops

\* What RandomOp may come up with.
LEMMA RandomOpIs ==
  ASSUME NEW c \in Clients, NEW cmd \in RandomOp(c)
  PROVE  /\ cmd.key \in ChaosKeys /\ cmd.op \in Ops
         /\ cmd.op \in {"put", "cas"} => cmd.value = FreshValue(c)
         /\ cmd.op = "cas" /\ cmd.expect # Nil => cmd.expect = lastSeen[c][cmd.key]
         /\ \/ cmd = Put(cmd.key, FreshValue(c)) \/ cmd = Get(cmd.key)
            \/ cmd = Delete(cmd.key)
            \/ \E e \in {lastSeen[c][cmd.key], Nil} : cmd = CAS(cmd.key, e, FreshValue(c))
<1>1. PICK k \in ChaosKeys :
        \/ cmd = Put(k, FreshValue(c)) \/ cmd = Get(k) \/ cmd = Delete(k)
        \/ \E e \in {lastSeen[c][k], Nil} : cmd = CAS(k, e, FreshValue(c))
  BY DEF RandomOp
<1>2. PICK v : v = FreshValue(c)
  OBVIOUS
<1>3. CASE cmd = Put(k, v)
  BY <1>2, <1>3 DEF Put, Ops
<1>4. CASE cmd = Get(k)
  BY <1>4 DEF Get, Ops
<1>5. CASE cmd = Delete(k)
  BY <1>5 DEF Delete, Ops
<1>6. ASSUME NEW e \in {lastSeen[c][k], Nil}, cmd = CAS(k, e, v)
      PROVE  /\ cmd.key = k /\ cmd.op = "cas" /\ cmd.value = v /\ cmd.expect = e
  BY <1>6 DEF CAS
<1>7. CASE \E e \in {lastSeen[c][k], Nil} : cmd = CAS(k, e, v)
  BY <1>2, <1>6, <1>7 DEF Ops
<1>. QED  BY <1>1, <1>2, <1>3, <1>4, <1>5, <1>7

\* The operations of a client are finitely many, and below the bound.
LEMMA OpsOfBound ==
  ASSUME CallInv, NEW c \in Clients
  PROVE  /\ IsFiniteSet(OpsOf(c)) /\ Cardinality(OpsOf(c)) \in Nat
         /\ Cardinality({i \in DOMAIN calls : calls[i].by \in Clients}) < ChaosOps
              => Cardinality(OpsOf(c)) < ChaosOps
<1>. PICK A : A = {i \in DOMAIN calls : calls[i].by \in Clients}
  OBVIOUS
<1>1. DOMAIN calls = 1 .. Len(calls) /\ Len(calls) \in Nat
  BY DEF CallInv
<1>2. IsFiniteSet(DOMAIN calls)
  BY <1>1, FS_Interval
<1>3. IsFiniteSet(A) /\ Cardinality(A) \in Nat
  BY <1>2, FS_Subset, FS_CardinalityType
<1>4. OpsOf(c) \subseteq A
  BY DEF OpsOf
<1>5. IsFiniteSet(OpsOf(c)) /\ Cardinality(OpsOf(c)) <= Cardinality(A)
  BY <1>3, <1>4, FS_Subset
<1>6. Cardinality(OpsOf(c)) \in Nat
  BY <1>5, FS_CardinalityType
<1>. QED  BY <1>3, <1>5, <1>6, NamesFacts

-----------------------------------------------------------------------------
(* The kinds of steps                                                      *)

\* What goroutine t calls in round n of phase p, at step s of the loop body.
Asked(p, s, n, t, cmd) ==
  \/ p = "reset" /\ t = Main /\ s = "first" /\ cmd.op = "delete"
  \/ /\ p = "smoke" /\ t = Main
     /\ \/ s = "first" /\ cmd = Put(Smoke, Numbered(n))
        \/ s = "get" /\ cmd = Get(Smoke)
  \/ /\ p = "cas"
     /\ \/ s = "first" /\ t = Main /\ cmd = Put(Arena(n), Base(n))
        \/ s = "race" /\ t \in Contenders /\ cmd = CAS(Arena(n), Base(n), Winner(n, t))
  \/ /\ p = "kill" /\ t = Main
     /\ \/ s = "first" /\ cmd = Put(Durable(n), Precious(n))
        \/ s = "get" /\ cmd = Get(Durable(n))
  \/ /\ p = "majority" /\ t = Main
     /\ \/ s = "first" /\ \E i \in 0 .. MaxTries : cmd = Put(Live, Served(i))
        \/ s = "get" /\ cmd = Get(Live)

\* Who may call what: the clients of phaseChaos any operation on their keys,
\* whoever else what the loop is at.
MayCall(t, cmd) ==
  /\ cmd \in Command
  /\ \/ t \in Clients /\ cmd \in RandomOp(t) /\ Cardinality(OpsOf(t)) < ChaosOps
     \/ /\ t \in {Main} \cup Contenders /\ Asked(Phase, step, at, t, cmd)
        /\ at <= Count(Phase)

Calls(t, cmd) == Call(t, cmd) /\ MayCall(t, cmd) /\ UNCHANGED <<control, lastSeen>>

\* Client.noteSeen is for the clients of phaseChaos.
Returns(t) ==
  /\ Return(t)
  /\ lastSeen' = IF t \in Clients /\ Answered
                   THEN [lastSeen EXCEPT ![t][Got.cmd.key] = NoteSeen(Got)] ELSE lastSeen

Stays == UNCHANGED <<absVars, busy, calls, now, history, lastSeen, order>>

\* A loop of the main goroutine calls and returns.
LEMMA MainKind ==
  ASSUME NEW p, NEW s, NEW cmd,
         \/ MainReturns(p, s)
         \/ /\ MainCalls(p, s, cmd) /\ cmd \in Command
            /\ Asked(p, s, at, Main, cmd)
  PROVE  Calls(Main, cmd) \/ Returns(Main)
BY NamesFacts DEF MainCalls, MainReturns, Calls, MayCall, Returns, At

\* A put or a get of the main goroutine.
LEMMA PutGet ==
  ASSUME NEW k \in Keys, NEW v \in Values
  PROVE  /\ Put(k, v) \in Command /\ Put(k, v).key = k /\ Put(k, v).op # "delete"
         /\ Get(k) \in Command /\ Get(k).key = k /\ Get(k).op # "delete"
<1>1. Put(k, v) \in Command /\ Get(k) \in Command
  BY CommandTypes, KVAssumption
<1>. QED  BY <1>1 DEF Put, Get

\* The reset deletes, and every other phase puts, gets and swaps on its keys.
LEMMA AskedKey ==
  ASSUME NEW t, NEW cmd, Asked(Phase, step, at, t, cmd), at \in Nat \ {0}, at <= Count(Phase)
  PROVE  \/ t = Main /\ Phase = "reset" /\ cmd.op = "delete"
         \/ /\ t \in {Main} \cup Contenders
            /\ Phase \in {"smoke", "cas", "kill", "majority"}
            /\ cmd.key \in Touched(Phase) /\ cmd.op # "delete"
<1>1. Phase = "cas" => at \in 1 .. Rounds
  BY CountIs, NamesFacts
<1>2. Phase = "kill" => at \in 1 .. Iterations
  BY CountIs, NamesFacts
<1>. QED  BY <1>1, <1>2, TouchedIs DEF Asked, Put, Get, CAS

\* Every step is a call, a return, an effect, or of the main goroutine alone.
LEMMA StepKinds ==
  ASSUME TypeInv, [Next]_vars
  PROVE  \/ \E t \in Threads, cmd \in Command : Calls(t, cmd)
         \/ \E t \in Threads : Returns(t)
         \/ \E i \in DOMAIN calls : Effect(i)
         \/ Stays
<1>. DEFINE Kind == \/ \E t \in Threads, cmd \in Command : Calls(t, cmd)
                    \/ \E t \in Threads : Returns(t)
                    \/ \E i \in DOMAIN calls : Effect(i)
                    \/ Stays
<1>0. Main \in Threads /\ Contenders \subseteq Threads /\ Clients \subseteq Threads
  BY DEF Threads
<1>1. ASSUME NEW cmd, Calls(Main, cmd) \/ Returns(Main) PROVE Kind
  BY <1>0, <1>1 DEF Calls, MayCall
<1>2. at \in Nat \ {0} /\ ControlInv /\ PlanInv /\ CallInv
  BY DEF TypeInv, ControlInv
<1>3. \A p \in Phases : \A s : At(p, s) => Touched(p) \subseteq Keys /\ at \in 1 .. Count(p)
  <2>. SUFFICES ASSUME NEW p \in Phases, NEW s, At(p, s)
                PROVE  Touched(p) \subseteq Keys /\ at \in 1 .. Count(p)
    OBVIOUS
  <2>1. Count(p) \in Nat
    <3>1. Len(ResetKeys) \in Nat
      BY <1>2, ResetKeysType
    <3>2. Count("reset") \in Nat /\ Count("linearizability") \in Nat
      BY <3>1 DEF Count
    <3>. QED  BY <3>2, CountIs, NamesFacts DEF Phases
  <2>2. at <= Count(p) /\ Phase = p
    BY DEF At
  <2>3. at \in 1 .. Count(p)
    BY <1>2, <2>1, <2>2
  <2>. QED  BY <1>2, <2>2, <2>3, PhaseOfPlan
<1>4. CASE Reset
  <2>1. ASSUME MainCalls("reset", "first", Delete(ResetKeys[at]))
        PROVE  /\ Delete(ResetKeys[at]) \in Command
               /\ Delete(ResetKeys[at]).op = "delete"
    <3>1. at \in 1 .. Count("reset")
      BY <1>3, <2>1 DEF MainCalls, Phases
    <3>2. ResetKeys \in Seq(Keys) /\ Count("reset") = Len(ResetKeys)
      BY <1>2, ResetKeysType
    <3>3. ResetKeys[at] \in Keys
      BY <3>1, <3>2
    <3>4. Delete(ResetKeys[at]) \in Command
      BY <3>3, KVAssumption, CommandTypes
    <3>. QED  BY <3>4 DEF Delete
  <2>2. PICK cmd : cmd = Delete(ResetKeys[at])
    OBVIOUS
  <2>3. \/ /\ MainCalls("reset", "first", cmd) /\ cmd \in Command
           /\ Asked("reset", "first", at, Main, cmd)
        \/ MainReturns("reset", "first")
    BY <1>4, <2>1, <2>2 DEF Reset, Asked
  <2>. QED  BY <1>1, <2>3, MainKind
<1>5. ASSUME NEW p \in {"smoke", "cas", "kill", "majority"}, NEW k \in Touched(p), NEW v,
             At(p, "first") => v \in Values /\ Asked(p, "first", at, Main, Put(k, v)),
             \/ MainCalls(p, "first", Put(k, v)) \/ MainReturns(p, "first")
             \/ MainCalls(p, "get", Get(k)) /\ Asked(p, "get", at, Main, Get(k))
             \/ MainReturns(p, "get")
      PROVE  Kind
  <2>1. PICK put, get : put = Put(k, v) /\ get = Get(k)
    OBVIOUS
  <2>2. CASE MainReturns(p, "first") \/ MainReturns(p, "get")
    BY <1>1, <2>2, MainKind
  <2>3. CASE MainCalls(p, "first", put)
    <3>1. k \in Keys /\ v \in Values /\ Asked(p, "first", at, Main, put)
      BY <1>3, <1>5, <2>1, <2>3 DEF MainCalls, Phases
    <3>2. put \in Command
      BY <2>1, <3>1, PutGet
    <3>. QED  BY <1>1, <2>3, <3>1, <3>2, MainKind
  <2>4. CASE MainCalls(p, "get", get) /\ Asked(p, "get", at, Main, get)
    <3>1. k \in Keys
      BY <1>3, <1>5, <2>4 DEF MainCalls, Phases
    <3>2. get \in Command
      BY <2>1, <3>1, PutGet, KVAssumption
    <3>. QED  BY <1>1, <2>4, <3>2, MainKind
  <2>. QED  BY <1>5, <2>1, <2>2, <2>3, <2>4
<1>6. CASE SmokePut \/ SmokeGet
  <2>1. At("smoke", "first") => Numbered(at) \in Values
    BY <1>3, CountIs, NamesFacts DEF Printed, Phases
  <2>3. /\ Asked("smoke", "first", at, Main, Put(Smoke, Numbered(at)))
        /\ Asked("smoke", "get", at, Main, Get(Smoke))
    BY DEF Asked
  <2>2. Smoke \in Touched("smoke")
    BY TouchedIs
  <2>. QED  BY <1>5, <1>6, <2>1, <2>2, <2>3 DEF SmokePut, SmokeGet
<1>7. CASE CASSetup
  <2>1. At("cas", "first") => Base(at) \in Values /\ Arena(at) \in Touched("cas")
    BY <1>3, CountIs, TouchedIs, NamesFacts DEF Printed, Phases
  <2>2. At("cas", "first")
    BY <1>7 DEF CASSetup, MainCalls, MainReturns
  <2>3. Asked("cas", "first", at, Main, Put(Arena(at), Base(at)))
    BY DEF Asked
  <2>. QED  BY <1>5, <1>7, <2>1, <2>2, <2>3 DEF CASSetup
<1>8. ASSUME NEW c \in Contenders, CASContend(c) PROVE Kind
  <2>1. c \in Threads /\ c \notin Clients
    BY <1>0, NamesFacts
  <2>2. CASE Return(c)
    BY <1>8, <2>1, <2>2 DEF CASContend, Returns
  <2>3. CASE Call(c, CAS(Arena(at), Base(at), Winner(at, c)))
    <3>1. Arena(at) \in Keys /\ Arena(at) \in Touched("cas") /\ at \in 1 .. Rounds
      BY <1>3, <1>8, TouchedIs, CountIs DEF Phases, CASContend
    <3>2. Base(at) \in Values /\ Winner(at, c) \in Values
      BY <3>1, NamesFacts DEF Printed
    <3>3. PICK cmd : cmd = CAS(Arena(at), Base(at), Winner(at, c))
      OBVIOUS
    <3>4. cmd \in Command
      BY <3>1, <3>2, <3>3, CommandTypes
    <3>5. Asked(Phase, step, at, c, cmd) /\ at <= Count(Phase)
      BY <1>8, <3>3 DEF CASContend, At, Asked
    <3>6. Calls(c, cmd)
      BY <1>8, <2>3, <3>1, <3>3, <3>4, <3>5 DEF Calls, MayCall, CASContend
    <3>. QED  BY <2>1, <3>4, <3>6
  <2>. QED  BY <1>8, <2>2, <2>3 DEF CASContend
<1>9. CASE KillPut \/ KillGet
  <2>1. \A s : At("kill", s) => Precious(at) \in Values /\ Durable(at) \in Touched("kill")
    BY <1>3, CountIs, TouchedIs, NamesFacts DEF Printed, Phases
  <2>2. \E s : At("kill", s)
    BY <1>9 DEF KillPut, KillGet, MainCalls, MainReturns
  <2>3. /\ Asked("kill", "first", at, Main, Put(Durable(at), Precious(at)))
        /\ Asked("kill", "get", at, Main, Get(Durable(at)))
    BY DEF Asked
  <2>. QED  BY <1>5, <1>9, <2>1, <2>2, <2>3 DEF KillPut, KillGet
<1>10. CASE MajorityPut \/ MajorityGet
  <2>1. Live \in Touched("majority")
    BY TouchedIs
  <2>2. CASE MainCalls("majority", "first", Put(Live, Served(Tries("put", Live))))
    <3>1. Phase = "majority" /\ at = 1 /\ step = "first" /\ busy[Main] = 0
      BY <1>2, <2>2, CountIs DEF MainCalls, At, Call
    <3>2. Tries("put", Live) \in Nat
      <4>1. IsFiniteSet(DOMAIN calls)
        BY <1>2, FS_Interval DEF CallInv
      <4>2. IsFiniteSet({i \in DOMAIN calls : /\ calls[i].by = Main
                                              /\ command[i].op = "put" /\ command[i].key = Live})
        BY <4>1, FS_Subset
      <4>. QED  BY <4>2, FS_CardinalityType DEF Tries
    <3>3. Tries("put", Live) \in 0 .. MaxTries
      BY <1>2, <3>1, <3>2, NamesFacts DEF PlanInv
    <3>4. Served(Tries("put", Live)) \in Values
      BY <3>3, NamesFacts DEF Printed
    <3>5. Asked("majority", "first", at, Main, Put(Live, Served(Tries("put", Live))))
      BY <3>3 DEF Asked
    <3>. QED  BY <1>5, <2>1, <2>2, <3>4, <3>5
  <2>3. CASE \/ MainReturns("majority", "first") \/ MainReturns("majority", "get")
             \/ MainCalls("majority", "get", Get(Live))
    <3>1. Asked("majority", "get", at, Main, Get(Live))
      BY DEF Asked
    <3>2. PICK i : i = 0
      OBVIOUS
    <3>3. Served(i) \in Values /\ Asked("majority", "first", at, Main, Put(Live, Served(i)))
      BY <3>2, NamesFacts DEF Printed, Asked
    <3>. QED  BY <1>5, <2>1, <2>3, <3>1, <3>3
  <2>. QED  BY <1>10, <2>2, <2>3 DEF MajorityPut, MajorityGet
<1>11. ASSUME NEW c \in Clients, ChaosCall(c) PROVE Kind
  <2>1. PICK cmd \in RandomOp(c) : Call(c, cmd)
    BY <1>11 DEF ChaosCall
  <2>2. ChaosKeys \subseteq Keys
    BY <1>3, <1>11, TouchedIs DEF ChaosCall, Phases
  <2>3. FreshValue(c) \in Values /\ Cardinality(OpsOf(c)) < ChaosOps
    <3>1. Cardinality(OpsOf(c)) + 1 \in 1 .. ChaosOps /\ Cardinality(OpsOf(c)) < ChaosOps
      BY <1>2, <1>11, OpsOfBound, NamesFacts DEF ChaosCall
    <3>. QED  BY <3>1, NamesFacts DEF FreshValue, Printed
  <2>4. cmd \in Command
    <3>1. PICK v \in Values : v = FreshValue(c)
      BY <2>3
    <3>2. cmd.key \in Keys /\ lastSeen[c][cmd.key] \in Values \cup {Nil}
      BY <2>1, <2>2, RandomOpIs DEF TypeInv, LastSeenType
    <3>3. Empty \in Values
      BY KVAssumption
    <3>4. \/ cmd = Put(cmd.key, v) \/ cmd = Get(cmd.key) \/ cmd = Delete(cmd.key)
          \/ \E e \in {lastSeen[c][cmd.key], Nil} : cmd = CAS(cmd.key, e, v)
      BY <2>1, <3>1, RandomOpIs
    <3>. QED  BY <3>2, <3>3, <3>4, CommandTypes
  <2>. QED  BY <1>0, <1>11, <2>1, <2>3, <2>4 DEF Calls, MayCall, ChaosCall
<1>12. ASSUME NEW c \in Clients, ChaosReturn(c) PROVE Kind
  BY <1>0, <1>12 DEF ChaosReturn, Returns
<1>13. CASE \/ CASRound \/ MajorityNoLeader \/ ChaosStop \/ ChaosWait \/ EndPhase
             \/ Linearizability
  BY <1>13 DEF CASRound, MajorityNoLeader, ChaosStop, ChaosWait, NothingElse, EndPhase,
               Linearizability, Stays
<1>14. CASE UNCHANGED vars
  BY <1>14 DEF vars, Stays
<1>. QED  BY <1>4, <1>6, <1>7, <1>8, <1>9, <1>10, <1>11, <1>12, <1>13, <1>14 DEF Next

-----------------------------------------------------------------------------
(* Types                                                                   *)

ClientInv == StoreInv /\ CallInv /\ HistoryInv /\ LastSeenType

\* What is known of an operation that was called.
LEMMA Called ==
  ASSUME CallInv, NEW i \in DOMAIN calls
  PROVE  /\ DOMAIN calls = 1 .. Len(calls) /\ Len(calls) \in Nat
         /\ i \in Nat \ {0} /\ i \in Invocations
         /\ calls[i].by \in Threads /\ calls[i].start \in Nat /\ calls[i].start <= now
<1>1. calls \in Seq([by : Threads, start : Nat])
  BY DEF CallInv
<1>2. DOMAIN calls = 1 .. Len(calls) /\ Len(calls) \in Nat
  BY <1>1
<1>3. calls[i] \in [by : Threads, start : Nat]
  BY <1>1, <1>2, ElementOfSeq
<1>. QED  BY <1>2, <1>3 DEF CallInv

\* What is known of a record.
LEMMA Recorded ==
  ASSUME CallInv, HistoryInv, NEW k \in DOMAIN history, NEW h, h = history[k]
  PROVE  /\ DOMAIN history = 1 .. Len(history) /\ Len(history) \in Nat /\ k \in Nat \ {0}
         /\ h \in Record /\ RecordInv(h) /\ h.id \in DOMAIN calls /\ h.end \in Nat
         /\ h.outcome \in {"ok", "failed", "unknown"} /\ h.id \in Nat \ {0}
         /\ calls[h.id].by \in Threads
<1>1. history \in Seq(Record)
  BY DEF HistoryInv
<1>2. h \in Record
  BY <1>1
<1>3. DOMAIN history = 1 .. Len(history) /\ Len(history) \in Nat
  BY <1>1
<1>4. RecordInv(h) /\ h.id \in DOMAIN calls
  BY DEF HistoryInv, RecordInv
<1>. QED  BY <1>2, <1>3, <1>4, Called DEF Record

\* One more element.
LEMMA AppendElements ==
  ASSUME NEW S, NEW s \in Seq(S), NEW e \in S, NEW t, t = Append(s, e)
  PROVE  /\ t \in Seq(S) /\ Len(s) \in Nat /\ Len(t) = Len(s) + 1
         /\ DOMAIN s = 1 .. Len(s) /\ DOMAIN t = DOMAIN s \cup {Len(s) + 1}
         /\ Len(s) + 1 \notin DOMAIN s /\ t[Len(s) + 1] = e
         /\ \A i \in DOMAIN s : t[i] = s[i]
<1>1. t \in Seq(S) /\ Len(s) \in Nat /\ Len(t) = Len(s) + 1
  OBVIOUS
<1>2. DOMAIN s = 1 .. Len(s) /\ DOMAIN t = 1 .. Len(s) + 1
  OBVIOUS
<1>3. t[Len(s) + 1] = e
  OBVIOUS
<1>4. \A i \in 1 .. Len(s) : t[i] = s[i]
  OBVIOUS
<1>5. 1 .. Len(s) + 1 = 1 .. Len(s) \cup {Len(s) + 1} /\ Len(s) + 1 \notin 1 .. Len(s)
  BY <1>1
<1>. QED  BY <1>1, <1>2, <1>3, <1>4, <1>5

\* What a call does.
LEMMA CallEffect ==
  ASSUME ClientInv, NEW t \in Threads, NEW cmd \in Command, Call(t, cmd), NEW n, n = Len(calls) + 1
  PROVE  /\ n \in Invocations /\ n \in Nat \ {0} /\ n \notin DOMAIN calls
         /\ outcome[n] = "none" /\ effect[n] = NoResult
         /\ outcome' = [outcome EXCEPT ![n] = "pending"]
         /\ command' = [command EXCEPT ![n] = cmd]
         /\ UNCHANGED <<data, effect, returned, history, order>>
         /\ busy[t] = 0 /\ busy' = [busy EXCEPT ![t] = n]
         /\ now' = now + 1
         /\ calls' \in Seq([by : Threads, start : Nat])
         /\ Len(calls') = n /\ DOMAIN calls = 1 .. Len(calls)
         /\ DOMAIN calls' = DOMAIN calls \cup {n}
         /\ calls'[n] = [by |-> t, start |-> now + 1]
         /\ \A i \in DOMAIN calls : calls'[i] = calls[i] /\ command'[i] = command[i]
                                    /\ outcome'[i] = outcome[i] /\ i < n
<1>1. PICK e : e = [by |-> t, start |-> now + 1]
  OBVIOUS
<1>2. calls \in Seq([by : Threads, start : Nat]) /\ e \in [by : Threads, start : Nat]
  BY <1>1 DEF ClientInv, CallInv
<1>3. calls' = Append(calls, e)
  BY <1>1 DEF Call
<1>4. /\ calls' \in Seq([by : Threads, start : Nat]) /\ Len(calls) \in Nat
      /\ Len(calls') = n /\ DOMAIN calls = 1 .. Len(calls)
      /\ DOMAIN calls' = DOMAIN calls \cup {n} /\ n \notin DOMAIN calls
      /\ calls'[n] = e /\ \A i \in DOMAIN calls : calls'[i] = calls[i]
  BY <1>2, <1>3, AppendElements
<1>5. /\ n \in Invocations /\ outcome[n] = "none"
      /\ outcome' = [outcome EXCEPT ![n] = "pending"]
      /\ command' = [command EXCEPT ![n] = cmd]
      /\ UNCHANGED <<data, effect, returned, history, order>>
      /\ busy[t] = 0 /\ busy' = [busy EXCEPT ![t] = n]
      /\ now' = now + 1
  BY DEF Call, Begin
<1>6. effect[n] = NoResult
  BY <1>4, <1>5 DEF ClientInv, CallInv
<1>7. ASSUME NEW i \in DOMAIN calls
      PROVE  command'[i] = command[i] /\ outcome'[i] = outcome[i]
  <2>1. i # n /\ i \in Invocations
    BY <1>4 DEF ClientInv, CallInv
  <2>2. /\ command \in [Invocations -> Command \cup {NoCommand}]
        /\ outcome \in [Invocations -> {"none", "pending", "ok", "failed", "unknown"}]
    BY DEF ClientInv, StoreInv
  <2>. QED  BY <1>5, <2>1, <2>2
<1>8. n \in Nat \ {0} /\ \A i \in DOMAIN calls : i < n
  BY <1>4
<1>. QED  BY <1>1, <1>4, <1>5, <1>6, <1>7, <1>8

\* A call keeps the types.
LEMMA CallTypes ==
  ASSUME ClientInv, NEW t \in Threads, NEW cmd \in Command, Calls(t, cmd)
  PROVE  ClientInv'
<1>1. PICK n : n = Len(calls) + 1
  OBVIOUS
<1>2. Call(t, cmd) /\ UNCHANGED lastSeen
  BY DEF Calls
<1>3. /\ n \in Invocations /\ n \in Nat \ {0} /\ n \notin DOMAIN calls
      /\ outcome' = [outcome EXCEPT ![n] = "pending"]
      /\ command' = [command EXCEPT ![n] = cmd]
      /\ UNCHANGED <<data, effect, returned, history, order>>
      /\ busy[t] = 0 /\ busy' = [busy EXCEPT ![t] = n]
      /\ now' = now + 1
      /\ calls' \in Seq([by : Threads, start : Nat])
      /\ Len(calls') = n /\ DOMAIN calls = 1 .. Len(calls)
      /\ DOMAIN calls' = DOMAIN calls \cup {n}
      /\ calls'[n] = [by |-> t, start |-> now + 1]
      /\ \A i \in DOMAIN calls : calls'[i] = calls[i] /\ command'[i] = command[i]
                                 /\ outcome'[i] = outcome[i] /\ i < n
  BY <1>1, <1>2, CallEffect, ZenonT(30)
<1>7. /\ command \in [Invocations -> Command \cup {NoCommand}]
      /\ outcome \in [Invocations -> {"none", "pending", "ok", "failed", "unknown"}]
      /\ busy \in [Threads -> 0 .. Len(calls)] /\ Len(calls) \in Nat /\ now \in Nat
  BY DEF ClientInv, StoreInv, CallInv
<1>8. /\ busy'[t] = n /\ \A u \in Threads \ {t} : busy'[u] = busy[u]
      /\ command'[n] = cmd /\ outcome'[n] = "pending"
      /\ \A i \in Invocations \ {n} : outcome'[i] = outcome[i]
  BY <1>3, <1>7
<1>4. StoreInv'
  BY <1>3 DEF ClientInv, StoreInv
<1>5. CallInv'
  <2>1. busy' \in [Threads -> 0 .. Len(calls')]
    <3>1. n \in 0 .. Len(calls') /\ 0 .. Len(calls) \subseteq 0 .. Len(calls')
      BY <1>1, <1>3, <1>7
    <3>. QED  BY <1>3, <1>7, <3>1
  <2>2. now' \in Nat /\ now' > now
    BY <1>3 DEF ClientInv, CallInv
  <2>3. ASSUME NEW i \in DOMAIN calls'
        PROVE  /\ i \in Invocations /\ command'[i] \in Command /\ outcome'[i] # "none"
               /\ calls'[i].start <= now'
               /\ outcome'[i] = "pending" => busy'[calls'[i].by] = i
    <3>1. CASE i = n
      BY <1>3, <1>7, <1>8, <3>1
    <3>2. CASE i \in DOMAIN calls
      <4>1. i \in Invocations /\ command'[i] \in Command /\ outcome'[i] # "none"
        <5>1. i \in Invocations /\ command[i] \in Command /\ outcome[i] # "none"
          BY <3>2 DEF ClientInv, CallInv
        <5>. QED  BY <1>3, <3>2, <5>1
      <4>2. calls'[i].start <= now'
        <5>1. calls[i].start \in Nat /\ calls[i].start <= now /\ now \in Nat
          BY <3>2, Called DEF ClientInv, CallInv
        <5>. QED  BY <1>3, <2>2, <3>2, <5>1
      <4>3. ASSUME outcome'[i] = "pending" PROVE busy'[calls'[i].by] = i
        <5>1. outcome[i] = "pending" /\ calls'[i] = calls[i]
          BY <1>3, <3>2, <4>3
        <5>2. busy[calls[i].by] = i
          BY <3>2, <5>1 DEF ClientInv, CallInv
        <5>3. calls[i].by \in Threads /\ i # 0
          BY <3>2, Called DEF ClientInv
        <5>4. calls[i].by # t
          BY <1>3, <5>2, <5>3
        <5>. QED  BY <1>8, <5>1, <5>2, <5>3, <5>4
      <4>. QED  BY <4>1, <4>2, <4>3
    <3>. QED  BY <1>3, <3>1, <3>2
  <2>4. \A i \in Invocations \ DOMAIN calls' : outcome'[i] = "none" /\ effect'[i] = NoResult
    BY <1>3, <1>8 DEF ClientInv, CallInv
  <2>5. ASSUME NEW u \in Threads, busy'[u] # 0
        PROVE  calls'[busy'[u]].by = u /\ outcome'[busy'[u]] = "pending"
    <3>1. CASE u = t
      BY <1>3, <1>8, <3>1
    <3>2. CASE u # t
      <4>1. busy'[u] = busy[u] /\ busy[u] \in DOMAIN calls
        BY <1>3, <1>7, <1>8, <2>5, <3>2
      <4>2. calls[busy[u]].by = u /\ outcome[busy[u]] = "pending"
        BY <2>5, <4>1 DEF ClientInv, CallInv
      <4>. QED  BY <1>3, <4>1, <4>2
    <3>. QED  BY <3>1, <3>2
  <2>. QED  BY <1>3, <2>1, <2>2, <2>3, <2>4, <2>5 DEF CallInv
<1>6. HistoryInv'
  <2>1. ASSUME NEW k \in DOMAIN history PROVE RecordInv(history[k])'
    <3>1. PICK h : h = history[k]
      OBVIOUS
    <3>2. /\ RecordInv(h) /\ h.id \in DOMAIN calls /\ h.end \in Nat /\ now \in Nat
          /\ calls[h.id].by \in Threads
      BY <3>1, Recorded DEF ClientInv, CallInv
    <3>3. busy'[calls[h.id].by] # 0 => h.id < busy'[calls[h.id].by]
      <4>1. busy[calls[h.id].by] # 0 => h.id < busy[calls[h.id].by]
        BY <3>2 DEF RecordInv
      <4>. QED  BY <1>3, <1>8, <3>2, <4>1
    <3>4. h.end <= now'
      BY <1>3, <3>2 DEF RecordInv
    <3>. QED  BY <1>3, <3>1, <3>2, <3>3, <3>4 DEF RecordInv
  <2>. QED  BY <1>3, <2>1 DEF ClientInv, HistoryInv
<1>. QED  BY <1>2, <1>4, <1>5, <1>6 DEF ClientInv, LastSeenType

\* What a return does: one more record.
LEMMA ReturnEffect ==
  ASSUME ClientInv, NEW t \in Threads, Return(t), NEW n, n = busy[t]
  PROVE  /\ n \in DOMAIN calls /\ n \in Nat \ {0} /\ n \in Invocations
         /\ calls[n].by = t /\ outcome[n] = "pending"
         /\ UNCHANGED <<data, command, effect, calls, order>>
         /\ busy' = [busy EXCEPT ![t] = 0] /\ now' = now + 1
         /\ returned' \in [Invocations -> Result \cup {NoResult}]
         /\ \E h \in Record :
              /\ h.id = n /\ h.cmd = command[n] /\ h.start = calls[n].start
              /\ h.end = now + 1
              /\ outcome' = [outcome EXCEPT ![n] = h.outcome]
              /\ h.outcome = "ok" => effect[n] # NoResult /\ h.res = effect[n]
              /\ h.outcome = "failed" => effect[n] = NoResult
              /\ history' = Append(history, h) /\ Got = h
<1>1. /\ n # 0
      /\ ReturnOk(n) \/ ReturnFailed(n) \/ ReturnUnknown(n)
      /\ busy' = [busy EXCEPT ![t] = 0] /\ now' = now + 1
      /\ UNCHANGED <<calls, order>>
  BY DEF Return
<1>2. /\ n \in DOMAIN calls /\ n \in Nat \ {0} /\ n \in Invocations
      /\ calls[n].by = t /\ outcome[n] = "pending"
  <2>1. calls[n].by = t /\ outcome[n] = "pending" /\ n \in 0 .. Len(calls)
    BY <1>1 DEF ClientInv, CallInv
  <2>2. DOMAIN calls = 1 .. Len(calls) /\ Len(calls) \in Nat
    BY DEF ClientInv, CallInv
  <2>3. n \in DOMAIN calls
    BY <1>1, <2>1, <2>2
  <2>. QED  BY <2>1, <2>3, Called DEF ClientInv
<1>3. PICK o : o = outcome'[n]
  OBVIOUS
<1>4. /\ o \in {"ok", "failed", "unknown"} /\ outcome' = [outcome EXCEPT ![n] = o]
      /\ UNCHANGED <<data, command, effect>>
      /\ returned' \in [Invocations -> Result \cup {NoResult}]
      /\ o = "ok" => effect[n] # NoResult /\ returned'[n] = effect[n]
      /\ o = "failed" => effect[n] = NoResult
  BY <1>1, <1>2, <1>3 DEF ReturnOk, ReturnFailed, ReturnUnknown, ClientInv, StoreInv
<1>5. PICK r : r = IF o = "ok" THEN returned'[n] ELSE ZeroResult
  OBVIOUS
<1>6. r \in Result /\ (o = "ok" => r = effect[n])
  BY <1>2, <1>4, <1>5, KVAssumption DEF ZeroResult, Res, Result, ClientInv, StoreInv
<1>7. PICK h : h = [id |-> n, cmd |-> command[n], start |-> calls[n].start, end |-> now + 1,
                    outcome |-> o, res |-> r]
  OBVIOUS
<1>8. history' = Append(history, h)
  BY <1>3, <1>5, <1>7 DEF Return
<1>9. h \in Record
  <2>1. command[n] \in Command /\ now + 1 \in Nat
    BY <1>2 DEF ClientInv, CallInv
  <2>2. calls[n].start \in Nat
    BY <1>2, Called DEF ClientInv
  <2>. QED  BY <1>2, <1>4, <1>6, <1>7, <2>1, <2>2 DEF Record
<1>10. Got = h
  <2>1. history \in Seq(Record)
    BY DEF ClientInv, HistoryInv
  <2>2. PICK s : s = Append(history, h)
    OBVIOUS
  <2>3. s[Len(s)] = h
    BY <1>9, <2>1, <2>2, AppendElements
  <2>4. s = history'
    BY <1>8, <2>2
  <2>. QED  BY <2>3, <2>4 DEF Got, Last
<1>. QED  BY <1>1, <1>2, <1>4, <1>6, <1>7, <1>8, <1>9, <1>10

\* A return keeps the types.
LEMMA ReturnTypes ==
  ASSUME ClientInv, NEW t \in Threads, Returns(t)
  PROVE  ClientInv'
<1>1. PICK n : n = busy[t]
  OBVIOUS
<1>2. Return(t)
  BY DEF Returns
<1>3. /\ n \in DOMAIN calls /\ n \in Nat \ {0} /\ n \in Invocations
      /\ calls[n].by = t /\ outcome[n] = "pending"
      /\ UNCHANGED <<data, command, effect, calls>>
      /\ busy' = [busy EXCEPT ![t] = 0] /\ now' = now + 1 /\ now \in Nat
      /\ returned' \in [Invocations -> Result \cup {NoResult}]
      /\ \A u \in Threads : busy'[u] = IF u = t THEN 0 ELSE busy[u]
  BY <1>1, <1>2, ReturnEffect DEF ClientInv, CallInv
<1>4. PICK h \in Record :
        /\ h.id = n /\ h.cmd = command[n] /\ h.start = calls[n].start /\ h.end = now + 1
        /\ outcome' = [outcome EXCEPT ![n] = h.outcome]
        /\ h.outcome = "ok" => effect[n] # NoResult /\ h.res = effect[n]
        /\ history' = Append(history, h) /\ Got = h
  BY <1>1, <1>2, ReturnEffect
<1>5. h.outcome \in {"ok", "failed", "unknown"} /\ h.res \in Result /\ h.cmd \in Command
  BY DEF Record
<1>6. \A i \in Invocations : outcome'[i] = IF i = n THEN h.outcome ELSE outcome[i]
  BY <1>3, <1>4 DEF ClientInv, StoreInv
<1>7. StoreInv'
  BY <1>3, <1>4, <1>5 DEF ClientInv, StoreInv
<1>8. CallInv'
  <2>1. busy' \in [Threads -> 0 .. Len(calls')]
    BY <1>3 DEF ClientInv, CallInv
  <2>2. ASSUME NEW i \in DOMAIN calls
        PROVE  /\ i \in Invocations /\ command'[i] \in Command /\ outcome'[i] # "none"
               /\ calls'[i].start <= now'
               /\ outcome'[i] = "pending" => busy'[calls'[i].by] = i
    <3>1. calls[i].start \in Nat /\ calls[i].start <= now /\ calls[i].by \in Threads
      BY Called DEF ClientInv
    <3>2. i \in Invocations /\ command[i] \in Command /\ outcome[i] # "none"
          /\ (outcome[i] = "pending" => busy[calls[i].by] = i)
      BY DEF ClientInv, CallInv
    <3>3. ASSUME outcome'[i] = "pending" PROVE busy'[calls'[i].by] = i
      <4>1. i # n /\ outcome[i] = "pending" /\ busy[calls[i].by] = i
        BY <1>5, <1>6, <3>2, <3>3
      <4>2. calls[i].by # t
        BY <1>1, <4>1
      <4>. QED  BY <1>3, <3>1, <4>1, <4>2
    <3>4. outcome'[i] # "none"
      BY <1>5, <1>6, <3>2
    <3>5. calls[i].start <= now + 1
      BY <1>3, <3>1
    <3>. QED  BY <1>3, <3>2, <3>3, <3>4, <3>5
  <2>3. \A i \in Invocations \ DOMAIN calls' : outcome'[i] = "none" /\ effect'[i] = NoResult
    BY <1>3, <1>6 DEF ClientInv, CallInv
  <2>4. ASSUME NEW u \in Threads, busy'[u] # 0
        PROVE  calls'[busy'[u]].by = u /\ outcome'[busy'[u]] = "pending"
    <3>1. u # t /\ busy'[u] = busy[u] /\ busy[u] # 0
      BY <1>3, <2>4
    <3>2. calls[busy[u]].by = u /\ outcome[busy[u]] = "pending" /\ busy[u] # n
      BY <1>3, <3>1 DEF ClientInv, CallInv
    <3>3. busy[u] \in Invocations
      <4>1. busy[u] \in 1 .. Len(calls) /\ DOMAIN calls = 1 .. Len(calls)
        BY <3>1 DEF ClientInv, CallInv
      <4>. QED  BY <4>1 DEF ClientInv, CallInv
    <3>. QED  BY <1>3, <1>6, <3>1, <3>2, <3>3
  <2>. QED  BY <1>3, <2>1, <2>2, <2>3, <2>4 DEF ClientInv, CallInv
<1>9. HistoryInv'
  <2>0. history \in Seq(Record)
    BY DEF ClientInv, HistoryInv
  <2>1. PICK s : s = Append(history, h)
    OBVIOUS
  <2>2. /\ s \in Seq(Record) /\ s = history'
        /\ DOMAIN s = DOMAIN history \cup {Len(history) + 1}
        /\ s[Len(history) + 1] = h /\ \A k \in DOMAIN history : s[k] = history[k]
    BY <1>4, <2>0, <2>1, AppendElements
  <2>3. RecordInv(h)'
    <3>1. outcome'[n] = h.outcome
      BY <1>3, <1>6
    <3>2. calls[n].start < now + 1
      BY <1>3, Called DEF ClientInv
    <3>3. busy'[calls'[n].by] = 0
      BY <1>3
    <3>. QED  BY <1>3, <1>4, <3>1, <3>2, <3>3 DEF RecordInv
  <2>4. ASSUME NEW k \in DOMAIN history, NEW g, g = history[k]
        PROVE  RecordInv(g)' /\ g.id # n
    <3>1. /\ RecordInv(g) /\ g.id \in DOMAIN calls /\ g.end \in Nat /\ calls[g.id].by \in Threads
          /\ g.outcome \in {"ok", "failed", "unknown"} /\ g.id \in Nat
      BY <2>4, Recorded DEF ClientInv
    <3>2. g.id # n
      BY <1>3, <3>1 DEF RecordInv
    <3>3. outcome'[g.id] = outcome[g.id]
      BY <1>6, <3>1, <3>2, Called DEF ClientInv
    <3>4. g.end <= now'
      BY <1>3, <3>1 DEF RecordInv
    <3>5. busy'[calls[g.id].by] # 0 => g.id < busy'[calls[g.id].by]
      BY <1>3, <3>1 DEF RecordInv
    <3>. QED  BY <1>3, <3>1, <3>2, <3>3, <3>4, <3>5 DEF RecordInv
  <2>5. \A k \in DOMAIN s : RecordInv(s[k])'
    BY <2>2, <2>3, <2>4
  <2>6. \A j, k \in DOMAIN s : s[j].id = s[k].id => j = k
    BY <1>4, <2>2, <2>4 DEF ClientInv, HistoryInv
  <2>. QED  BY <2>2, <2>5, <2>6 DEF HistoryInv
<1>10. LastSeenType'
  <2>1. CASE lastSeen' = lastSeen
    BY <2>1 DEF ClientInv, LastSeenType
  <2>2. CASE t \in Clients /\ lastSeen' = [lastSeen EXCEPT ![t][Got.cmd.key] = NoteSeen(Got)]
    <3>1. PICK v : v = NoteSeen(h)
      OBVIOUS
    <3>2. v \in Values \cup {Nil}
      BY <1>5, <3>1 DEF NoteSeen, Command, Result, Ops
    <3>3. lastSeen' = [lastSeen EXCEPT ![t][h.cmd.key] = v]
      BY <1>4, <2>2, <3>1
    <3>4. PICK k : k = h.cmd.key
      OBVIOUS
    <3>5. PICK f : f = [lastSeen[t] EXCEPT ![k] = v]
      OBVIOUS
    <3>6. lastSeen[t] \in [ChaosKeys -> Values \cup {Nil}]
      BY <2>2 DEF ClientInv, LastSeenType
    <3>7. f \in [ChaosKeys -> Values \cup {Nil}]
      BY <3>2, <3>5, <3>6
    <3>8. lastSeen' = [lastSeen EXCEPT ![t] = f]
      BY <3>3, <3>4, <3>5
    <3>. QED  BY <2>2, <3>7, <3>8 DEF ClientInv, LastSeenType
  <2>3. \/ lastSeen' = lastSeen
        \/ t \in Clients /\ lastSeen' = [lastSeen EXCEPT ![t][Got.cmd.key] = NoteSeen(Got)]
    BY Zenon DEF Returns
  <2>. QED  BY <2>1, <2>2, <2>3
<1>. QED  BY <1>7, <1>8, <1>9, <1>10 DEF ClientInv

\* What an operation does when it takes effect.
LEMMA TakesEffect ==
  ASSUME ClientInv, NEW i \in DOMAIN calls, Effect(i)
  PROVE  /\ i \in Invocations /\ outcome[i] \in {"pending", "unknown"} /\ effect[i] = NoResult
         /\ command[i] \in Command
         /\ ApplyResult(data, command[i]) \in Result
         /\ effect' = [effect EXCEPT ![i] = ApplyResult(data, command[i])]
         /\ effect'[i] # NoResult
         /\ data' = ApplyData(data, command[i]) /\ data' \in Data
         /\ UNCHANGED <<command, outcome, returned, busy, calls, now, history, lastSeen, control>>
<1>1. i \in Invocations /\ command[i] \in Command
  BY DEF ClientInv, CallInv
<1>2. /\ outcome[i] \in {"pending", "unknown"} /\ effect[i] = NoResult
      /\ effect' = [effect EXCEPT ![i] = ApplyResult(data, command[i])]
      /\ data' = ApplyData(data, command[i])
      /\ UNCHANGED <<command, outcome, returned, busy, calls, now, history, lastSeen, control>>
  BY DEF Effect, TakeEffect
<1>3. PICK d : d = ApplyData(data, command[i])
  OBVIOUS
<1>4. PICK r : r = ApplyResult(data, command[i])
  OBVIOUS
<1>5. d \in Data /\ r \in Result
  BY <1>1, <1>3, <1>4, ApplyDataType, ApplyResultType DEF ClientInv, StoreInv
<1>6. effect'[i] = r
  BY <1>1, <1>2, <1>4 DEF ClientInv, StoreInv
<1>. QED  BY <1>1, <1>2, <1>3, <1>4, <1>5, <1>6, NamesFacts

\* It keeps the types.
LEMMA EffectTypes ==
  ASSUME ClientInv, NEW i \in DOMAIN calls, Effect(i)
  PROVE  ClientInv'
<1>1. PICK r : r = ApplyResult(data, command[i])
  OBVIOUS
<1>2. /\ i \in Invocations /\ effect[i] = NoResult /\ r \in Result /\ r # NoResult
      /\ effect' = [effect EXCEPT ![i] = r] /\ data' \in Data
      /\ UNCHANGED <<command, outcome, returned, busy, calls, now, history, lastSeen>>
  BY <1>1, TakesEffect, NamesFacts
<1>3. StoreInv' /\ LastSeenType'
  BY <1>2 DEF ClientInv, StoreInv, LastSeenType
<1>4. CallInv'
  BY <1>2 DEF ClientInv, CallInv, StoreInv
<1>5. HistoryInv'
  <2>1. ASSUME NEW k \in DOMAIN history PROVE RecordInv(history[k])'
    <3>1. PICK h : h = history[k]
      OBVIOUS
    <3>2. RecordInv(h) /\ h.id \in Invocations
      BY <3>1, Recorded, Called DEF ClientInv
    <3>3. h.outcome = "ok" => effect'[h.id] # NoResult /\ h.res = effect'[h.id]
      BY <1>2, <3>2 DEF RecordInv, ClientInv, StoreInv
    <3>. QED  BY <1>2, <3>1, <3>2, <3>3 DEF RecordInv
  <2>. QED  BY <1>2, <2>1 DEF ClientInv, HistoryInv
<1>. QED  BY <1>3, <1>4, <1>5 DEF ClientInv

\* The main goroutine by itself keeps them.
LEMMA StaysTypes ==
  ASSUME ClientInv, Stays
  PROVE  ClientInv'
<1>1. StoreInv' /\ CallInv' /\ LastSeenType'
  BY DEF ClientInv, StoreInv, CallInv, LastSeenType, Stays, absVars
<1>2. HistoryInv'
  BY DEF ClientInv, HistoryInv, RecordInv, Stays, absVars
<1>. QED  BY <1>1, <1>2 DEF ClientInv

\* To the next phase.
NextPhase ==
  /\ Phase # "done" /\ todo' = Tail(todo)
  /\ \E v \in {"PASS", "FAIL"} : checks' = [checks EXCEPT ![Phase] = v]

\* What a step does to the control of the main goroutine.
LEMMA ControlKinds ==
  ASSUME ControlInv, [Next]_vars
  PROVE  /\ at' \in Nat \ {0} /\ step' \in {"first", "get", "race", "stopped"} /\ pass' \in BOOLEAN
         /\ \/ UNCHANGED <<todo, checks, timedOut>>
            \/ NextPhase /\ Stays /\ timedOut' \in BOOLEAN
<1>. DEFINE Control == at' \in Nat \ {0} /\ step' \in {"first", "get", "race", "stopped"}
                       /\ pass' \in BOOLEAN
<1>1. at \in Nat \ {0} /\ step \in {"first", "get", "race", "stopped"} /\ pass \in BOOLEAN
      /\ timedOut \in BOOLEAN
  BY DEF ControlInv
<1>2. \A b : NextRound(b) => Control
  BY <1>1 DEF NextRound
<1>3. \A s \in {"get", "race", "stopped"} : GoOn(s) => Control
  BY <1>1 DEF GoOn
<1>4. \A o, k : TryAgain(o, k) => Control
  BY <1>1, <1>2 DEF TryAgain
<1>5. \A p, s, c : MainCalls(p, s, c) => Control /\ UNCHANGED <<todo, checks, timedOut>>
  BY <1>1 DEF MainCalls, control
<1>6. \A p, s : MainReturns(p, s) => UNCHANGED <<todo, checks, timedOut>>
  BY DEF MainReturns
<1>7. CASE Reset
  BY <1>2, <1>5, <1>6, <1>7 DEF Reset
<1>8. CASE SmokePut \/ SmokeGet
  BY <1>2, <1>3, <1>5, <1>6, <1>8 DEF SmokePut, SmokeGet
<1>9. CASE CASSetup
  BY <1>2, <1>3, <1>5, <1>6, <1>9 DEF CASSetup
<1>10. CASE CASRound \/ MajorityNoLeader
  BY <1>2, <1>10 DEF CASRound, MajorityNoLeader, NothingElse
<1>11. CASE \E c \in Contenders : CASContend(c)
  BY <1>1, <1>11 DEF CASContend, control
<1>12. CASE KillPut \/ KillGet
  BY <1>2, <1>3, <1>4, <1>5, <1>6, <1>12 DEF KillPut, KillGet
<1>13. CASE MajorityPut \/ MajorityGet
  BY <1>2, <1>3, <1>4, <1>5, <1>6, <1>13 DEF MajorityPut, MajorityGet
<1>14. CASE \E c \in Clients : ChaosCall(c) \/ ChaosReturn(c)
  BY <1>1, <1>14 DEF ChaosCall, ChaosReturn, control
<1>15. CASE ChaosStop \/ ChaosWait
  BY <1>2, <1>3, <1>15 DEF ChaosStop, ChaosWait, NothingElse
<1>16. CASE EndPhase
  <2>1. PICK v : v = IF pass THEN "PASS" ELSE "FAIL"
    OBVIOUS
  <2>2. checks' = [checks EXCEPT ![Phase] = v] /\ v \in {"PASS", "FAIL"}
    BY <1>16, <2>1 DEF EndPhase
  <2>3. Phase # "done" /\ todo' = Tail(todo) /\ Control /\ Stays /\ timedOut' \in BOOLEAN
    BY <1>1, <1>16 DEF EndPhase, Stays
  <2>. QED  BY <2>2, <2>3 DEF NextPhase
<1>17. CASE Linearizability
  <2>0. PICK finished \in BOOLEAN :
          /\ timedOut' = ~finished
          /\ checks' = [checks EXCEPT ![Phase] = IF Verdict!Check(history, finished)
                                                  THEN "PASS" ELSE "FAIL"]
    BY <1>17 DEF Linearizability
  <2>1. PICK v : v = IF Verdict!Check(history, finished) THEN "PASS" ELSE "FAIL"
    OBVIOUS
  <2>2. checks' = [checks EXCEPT ![Phase] = v] /\ v \in {"PASS", "FAIL"}
    BY <2>0, <2>1
  <2>3. Phase # "done" /\ todo' = Tail(todo) /\ Control /\ Stays /\ timedOut' \in BOOLEAN
    BY <1>1, <1>17, <2>0 DEF Linearizability, Stays
  <2>. QED  BY <2>2, <2>3 DEF NextPhase
<1>18. CASE \E i \in DOMAIN calls : Effect(i)
  BY <1>1, <1>18 DEF Effect, control
<1>19. CASE UNCHANGED vars
  BY <1>1, <1>19 DEF vars, control
<1>. QED
  BY <1>7, <1>8, <1>9, <1>10, <1>11, <1>12, <1>13, <1>14, <1>15, <1>16, <1>17, <1>18, <1>19
  DEF Next

\* The tail of the plan.
LEMMA TailOf ==
  ASSUME ControlInv, NextPhase
  PROVE  /\ todo' \in Seq(Phases) /\ Phase = todo[1] /\ 1 \in DOMAIN todo
         /\ \A j \in DOMAIN todo' : j \in Nat \ {0} /\ j + 1 \in DOMAIN todo /\ todo'[j] = todo[j + 1]
<1>1. todo \in Seq(Phases) /\ todo # <<>> /\ todo' = Tail(todo)
  BY DEF ControlInv, NextPhase, Phase
<1>2. /\ Tail(todo) \in Seq(Phases) /\ Len(Tail(todo)) = Len(todo) - 1
      /\ \A j \in 1 .. Len(Tail(todo)) : Tail(todo)[j] = todo[j + 1]
  BY <1>1, HeadTailProperties
<1>3. DOMAIN todo = 1 .. Len(todo) /\ Len(todo) \in Nat \ {0}
  BY <1>1, EmptySeq
<1>4. DOMAIN todo' = 1 .. Len(todo')
  BY <1>1, <1>2
<1>5. Phase = todo[1]
  BY <1>1 DEF Phase
<1>. QED  BY <1>1, <1>2, <1>3, <1>4, <1>5

\* The report has a check for every phase of the plan.
LEMMA ControlStep ==
  ASSUME ControlInv, [Next]_vars
  PROVE  ControlInv'
<1>1. CASE UNCHANGED <<todo, checks, timedOut>>
  BY <1>1, ControlKinds DEF ControlInv
<1>2. CASE NextPhase /\ timedOut' \in BOOLEAN
  <2>1. PICK v \in {"PASS", "FAIL"} : checks' = [checks EXCEPT ![Phase] = v]
    BY <1>2 DEF NextPhase
  <2>2. \E plan \in Plans : checks' \in [ToSet(plan) -> Checks]
    BY <2>1 DEF ControlInv, Checks
  <2>3. DOMAIN checks' = DOMAIN checks
    BY <2>1
  <2>4. \A j \in DOMAIN todo' : todo'[j] \in DOMAIN checks'
    BY <1>2, <2>3, TailOf DEF ControlInv
  <2>. QED  BY <1>2, <2>2, <2>4, ControlKinds, TailOf DEF ControlInv
<1>. QED  BY <1>1, <1>2, ControlKinds

TriesBound ==
  Phase = "majority" /\ at = 1 /\ step = "first" /\ busy[Main] = 0 => Tries("put", Live) <= MaxTries

\* A loop that ends with its deadline.
LEMMA TriesStay ==
  ASSUME TypeInv, TriesBound, [Next]_vars, UNCHANGED <<calls, command, todo>>
  PROVE  TriesBound'
<1>. SUFFICES ASSUME Phase = "majority", at' = 1, step' = "first", busy'[Main] = 0
              PROVE  Tries("put", Live) <= MaxTries
  BY DEF TriesBound, Phase, Tries
<1>. PICK n : n = Tries("put", Live)
  OBVIOUS
<1>1. at \in Nat \ {0} /\ n \in Nat /\ MaxTries \in Nat
  <2>1. IsFiniteSet(DOMAIN calls)
    <3>1. calls \in Seq([by : Threads, start : Nat])
      BY DEF TypeInv, CallInv
    <3>2. DOMAIN calls = 1 .. Len(calls) /\ Len(calls) \in Nat
      BY <3>1
    <3>. QED  BY <3>2, FS_Interval
  <2>2. IsFiniteSet({i \in DOMAIN calls : /\ calls[i].by = Main
                                          /\ command[i].op = "put" /\ command[i].key = Live})
    BY <2>1, FS_Subset
  <2>. QED  BY <2>2, FS_CardinalityType, NamesFacts DEF Tries, TypeInv, ControlInv
<1>2. \A b : ~NextRound(b)
  BY <1>1 DEF NextRound
<1>3. \A s \in {"get", "race", "stopped"} : ~GoOn(s)
  BY DEF GoOn
<1>4. CASE UNCHANGED <<at, step, busy>>
  BY <1>4 DEF TriesBound
<1>5. CASE MajorityPut \/ MajorityGet
  <2>1. ASSUME NEW cmd, NEW s PROVE ~MainCalls("majority", s, cmd)
    <3>1. \A t : Call(t, cmd) => calls' # calls
      <4>1. calls \in Seq([by : Threads, start : Nat])
        BY DEF TypeInv, CallInv
      <4>2. ASSUME NEW e, calls' = Append(calls, e) PROVE calls' # calls
        <5>1. Len(Append(calls, e)) = Len(calls) + 1 /\ Len(calls) \in Nat
          BY <4>1
        <5>. QED  BY <4>2, <5>1
      <4>. QED  BY <4>2 DEF Call
    <3>. QED  BY <3>1 DEF MainCalls
  <2>2. CASE MajorityPut
    <3>1. TryAgain("put", Live)
      BY <1>3, <2>1, <2>2 DEF MajorityPut
    <3>2. n < MaxTries
      BY <1>2, <3>1 DEF TryAgain
    <3>. QED  BY <1>1, <3>2
  <2>3. CASE MajorityGet
    <3>1. At("majority", "get") /\ (TryAgain("get", Live) \/ NextRound(TRUE))
      BY <2>1, <2>3 DEF MajorityGet, MainReturns
    <3>. QED  BY <1>2, <3>1 DEF TryAgain, At
  <2>. QED  BY <1>5, <2>2, <2>3
<1>6. CASE \E i \in DOMAIN calls : Effect(i)
  BY <1>4, <1>6 DEF Effect, control
<1>7. CASE UNCHANGED vars
  BY <1>4, <1>7 DEF vars, control
<1>8. CASE EndPhase \/ Linearizability
  <2>1. Tail(todo) # todo
    <3>1. todo \in Seq(Phases) /\ todo # <<>>
      BY DEF TypeInv, ControlInv, Phase
    <3>2. Len(Tail(todo)) = Len(todo) - 1 /\ Len(todo) \in Nat
      BY <3>1, HeadTailProperties
    <3>3. Len(Tail(todo)) # Len(todo)
      BY <3>2
    <3>. QED  BY <3>3
  <2>. QED  BY <1>8, <2>1 DEF EndPhase, Linearizability
<1>9. ~MajorityNoLeader
  BY <1>2 DEF MajorityNoLeader
<1>. QED
  BY <1>5, <1>6, <1>7, <1>8, <1>9
  DEF Next, Reset, SmokePut, SmokeGet, CASSetup, CASRound, CASContend, KillPut, KillGet,
      ChaosCall, ChaosReturn, ChaosStop, ChaosWait, MainCalls, MainReturns, At

\* The plan is kept.
LEMMA PlanStep ==
  ASSUME TypeInv, [Next]_vars
  PROVE  PlanInv'
<1>. DEFINE NoRepeat == \A i, j \in DOMAIN todo : todo[i] = todo[j] => i = j
            OwnKeys == \A i \in DOMAIN calls, j \in DOMAIN todo : calls[i].by \notin Clients =>
              /\ command[i].op = "delete" => (todo[j] = "reset" => j = 1)
              /\ command[i].op # "delete" => (command[i].key \in Touched(todo[j]) => j = 1)
<1>0. PlanInv <=> NoRepeat /\ OwnKeys /\ TriesBound
  BY DEF PlanInv, TriesBound
<1>1. NoRepeat /\ OwnKeys /\ TriesBound /\ ControlInv /\ ClientInv
  BY <1>0 DEF TypeInv, ClientInv
<1>2. CASE UNCHANGED <<calls, command, todo>>
  BY <1>1, <1>2, TriesStay DEF TypeInv, PlanInv, TriesBound
<1>3. ASSUME NEW t \in Threads, NEW cmd \in Command, Calls(t, cmd)
      PROVE  PlanInv'
  <2>1. PICK n : n = Len(calls) + 1
    OBVIOUS
  <2>2. UNCHANGED control
    BY <1>3 DEF Calls
  <2>3. /\ busy' = [busy EXCEPT ![t] = n] /\ n # 0 /\ n \in Invocations
        /\ command' = [command EXCEPT ![n] = cmd]
        /\ DOMAIN calls' = DOMAIN calls \cup {n} /\ calls'[n].by = t
        /\ \A i \in DOMAIN calls : calls'[i] = calls[i] /\ command'[i] = command[i]
    <3>1. /\ DOMAIN calls' = DOMAIN calls \cup {n} /\ calls'[n] = [by |-> t, start |-> now + 1]
          /\ \A i \in DOMAIN calls : calls'[i] = calls[i] /\ command'[i] = command[i]
          /\ n \in Nat \ {0} /\ n \in Invocations /\ busy' = [busy EXCEPT ![t] = n]
          /\ command' = [command EXCEPT ![n] = cmd]
      <4>1. Call(t, cmd) /\ ClientInv
        BY <1>1, <1>3 DEF Calls
      <4>. QED  BY <2>1, <4>1, CallEffect
    <3>. QED  BY <3>1
  <2>4. command'[n] = cmd
    BY <1>1, <2>3 DEF ClientInv, StoreInv
  <2>5. ASSUME NEW i \in DOMAIN calls', NEW j \in DOMAIN todo', calls'[i].by \notin Clients
        PROVE  /\ command'[i].op = "delete" => (todo'[j] = "reset" => j = 1)
               /\ command'[i].op # "delete" => (command'[i].key \in Touched(todo'[j]) => j = 1)
    <3>1. CASE i \in DOMAIN calls
      BY <1>1, <2>2, <2>3, <2>5, <3>1 DEF control
    <3>2. CASE i = n
      <4>1. t \notin Clients /\ MayCall(t, cmd) /\ todo' = todo
        BY <1>3, <2>2, <2>3, <2>5, <3>2 DEF control, Calls
      <4>2. Phase = todo[1] /\ 1 \in DOMAIN todo /\ todo[1] \in Phases /\ todo[j] \in Phases
        <5>1. todo # <<>> /\ todo \in Seq(Phases)
          BY <1>1, <4>1 DEF MayCall, Asked, Phase, ControlInv
        <5>. QED  BY <4>1, <5>1 DEF Phase
      <4>3. CASE Phase = "reset" /\ cmd.op = "delete"
        BY <1>1, <2>4, <3>2, <4>1, <4>2, <4>3
      <4>4. CASE cmd.key \in Touched(Phase) /\ cmd.op # "delete"
        <5>1. todo[j] # todo[1] => cmd.key \notin Touched(todo[j])
          BY <4>2, <4>4, TouchedDisjoint
        <5>. QED  BY <1>1, <2>4, <3>2, <4>1, <4>2, <4>4, <5>1
      <4>5. at \in Nat \ {0}
        BY <1>1 DEF ControlInv
      <4>. QED  BY <4>1, <4>3, <4>4, <4>5, AskedKey DEF MayCall
    <3>. QED  BY <2>3, <3>1, <3>2
  <2>6. TriesBound'
    <3>1. CASE t = Main
      BY <1>1, <2>3, <3>1 DEF TriesBound, ClientInv, CallInv
    <3>2. CASE t # Main
      <4>. DEFINE S == {i \in DOMAIN calls : /\ calls[i].by = Main
                                             /\ command[i].op = "put" /\ command[i].key = Live}
      <4>1. S' = S
        BY <2>3, <3>2
      <4>2. UNCHANGED <<at, step, todo>> /\ busy'[Main] = busy[Main]
        BY <1>1, <2>2, <2>3, <3>2 DEF control, ClientInv, CallInv, Threads
      <4>. QED  BY <1>1, <4>1, <4>2 DEF TriesBound, Tries, Phase
    <3>. QED  BY <3>1, <3>2
  <2>7. NoRepeat'
    BY <1>1, <2>2 DEF control
  <2>. QED  BY <2>5, <2>6, <2>7 DEF PlanInv, TriesBound
<1>4. CASE NextPhase /\ Stays
  <2>1. /\ \A j \in DOMAIN todo' : j \in Nat \ {0} /\ j + 1 \in DOMAIN todo /\ todo'[j] = todo[j + 1]
        /\ UNCHANGED <<calls, command>> /\ todo' \in Seq(Phases)
    BY <1>1, <1>4, TailOf DEF Stays, absVars
  <2>2. NoRepeat'
    BY <1>1, <2>1
  <2>3. OwnKeys'
    BY <1>1, <2>1
  <2>4. ASSUME Phase' = "majority" PROVE Tries("put", Live)' = 0
    <3>1. todo' # <<>> /\ todo'[1] = "majority"
      BY <2>4 DEF Phase
    <3>2. 1 \in DOMAIN todo'
      BY <2>1, <3>1
    <3>3. 2 \in DOMAIN todo /\ todo[2] = "majority"
      BY <2>1, <3>1, <3>2
    <3>4. \A i \in DOMAIN calls : calls[i].by = Main /\ command[i].op # "delete"
            => command[i].key # Live
      BY <1>1, <3>3, TouchedIs, NamesFacts
    <3>5. {i \in DOMAIN calls' : /\ calls'[i].by = Main
                                 /\ command'[i].op = "put" /\ command'[i].key = Live} = {}
      BY <2>1, <3>4
    <3>. QED  BY <3>5, FS_EmptySet DEF Tries
  <2>5. TriesBound'
    BY <2>4, NamesFacts DEF TriesBound
  <2>. QED  BY <2>2, <2>3, <2>5 DEF PlanInv, TriesBound
<1>5. UNCHANGED <<calls, command>> \/ \E t \in Threads, cmd \in Command : Calls(t, cmd)
  <2>1. ASSUME NEW t \in Threads, Returns(t) PROVE UNCHANGED <<calls, command>>
    BY <2>1 DEF Returns, Return, ReturnOk, ReturnFailed, ReturnUnknown
  <2>2. ASSUME NEW i \in DOMAIN calls, Effect(i) PROVE UNCHANGED <<calls, command>>
    BY <2>2 DEF Effect, TakeEffect
  <2>3. Stays => UNCHANGED <<calls, command>>
    BY DEF Stays, absVars
  <2>. QED  BY <2>1, <2>2, <2>3, StepKinds
<1>. QED  BY <1>1, <1>2, <1>3, <1>4, <1>5, ControlKinds

\* The phases of Run, in their order.
LEMMA FullPlanIs ==
  \E full :
    /\ full = FullPlan(FALSE) /\ DOMAIN full = 1 .. 7
    /\ full[1] = "reset" /\ full[2] = "smoke" /\ full[3] = "cas" /\ full[4] = "kill"
    /\ full[5] = "majority" /\ full[6] = "chaos" /\ full[7] = "linearizability"
<1>. DEFINE s1 == <<"reset", "smoke", "cas">>
            s2 == <<"kill", "majority", "chaos">>
            s3 == <<"linearizability">>
<1>0. PICK full : full = FullPlan(FALSE)
  OBVIOUS
<1>1. s1 \in Seq(Phases) /\ s2 \in Seq(Phases) /\ s3 \in Seq(Phases)
      /\ Len(s1) = 3 /\ Len(s2) = 3 /\ Len(s3) = 1
  BY DEF Phases
<1>2. PICK s12 : s12 = s1 \o s2
  OBVIOUS
<1>3. /\ s12 \in Seq(Phases) /\ Len(s12) = 6
      /\ \A i \in 1 .. 6 : s12[i] = IF i <= 3 THEN s1[i] ELSE s2[i - 3]
  BY <1>1, <1>2, ConcatProperties
<1>4. PICK last : last = s3
  OBVIOUS
<1>5. /\ full \in Seq(Phases) /\ Len(full) = 7
      /\ \A i \in 1 .. 7 : full[i] = IF i <= 6 THEN s12[i] ELSE last[i - 6]
  <2>1. full = s12 \o last
    BY <1>0, <1>2, <1>4 DEF FullPlan
  <2>2. last \in Seq(Phases) /\ Len(last) = 1
    BY <1>1, <1>4
  <2>3. /\ s12 \o last \in Seq(Phases) /\ Len(s12 \o last) = Len(s12) + Len(last)
        /\ \A i \in 1 .. Len(s12) + Len(last) :
             (s12 \o last)[i] = IF i <= Len(s12) THEN s12[i] ELSE last[i - Len(s12)]
    BY <1>3, <2>2, ConcatProperties
  <2>. QED  BY <1>3, <2>1, <2>2, <2>3
<1>6. DOMAIN full = 1 .. 7
  BY <1>5
<1>7. /\ s12[1] = "reset" /\ s12[2] = "smoke" /\ s12[3] = "cas" /\ s12[4] = "kill"
      /\ s12[5] = "majority" /\ s12[6] = "chaos"
  BY <1>3
<1>8. last[1] = "linearizability"
  BY <1>4
<1>9. /\ DOMAIN full = 1 .. 7
      /\ full[1] = "reset" /\ full[2] = "smoke" /\ full[3] = "cas" /\ full[4] = "kill"
      /\ full[5] = "majority" /\ full[6] = "chaos" /\ full[7] = "linearizability"
  BY <1>5, <1>6, <1>7, <1>8
<1>. QED  BY <1>0, <1>9, Zenon

\* No phase of a plan comes twice; the reset comes first, the check of the
\* history last.
LEMMA PlanOrder ==
  ASSUME NEW plan \in Plans, NEW i \in DOMAIN plan, NEW j \in DOMAIN plan
  PROVE  /\ plan[i] = plan[j] => i = j
         /\ plan[i] = "reset" => i <= j
         /\ plan[i] = "linearizability" => j <= i
<1>1. PICK full :
        /\ full = FullPlan(FALSE) /\ DOMAIN full = 1 .. 7
        /\ full[1] = "reset" /\ full[2] = "smoke" /\ full[3] = "cas" /\ full[4] = "kill"
        /\ full[5] = "majority" /\ full[6] = "chaos" /\ full[7] = "linearizability"
  BY FullPlanIs
<1>2. /\ DOMAIN full = 1 .. 7
      /\ full[1] = "reset" /\ full[2] = "smoke" /\ full[3] = "cas" /\ full[4] = "kill"
      /\ full[5] = "majority" /\ full[6] = "chaos" /\ full[7] = "linearizability"
  BY <1>1, Zenon
<1>3. /\ \A a, b \in 1 .. 7 : a < b => full[a] # full[b]
      /\ \A a, b \in 1 .. 7 : a < b => full[b] # "reset" /\ full[a] # "linearizability"
  BY <1>2
<1>4. i \in Nat /\ j \in Nat
  <2>1. plan \in Seq(Phases)
    BY PlanFacts
  <2>. QED  BY <2>1
<1>5. ASSUME NEW i_1 \in DOMAIN plan, NEW j_1 \in DOMAIN plan, i_1 < j_1
      PROVE  \E a, b \in DOMAIN full : a < b /\ full[a] = plan[i_1] /\ full[b] = plan[j_1]
  <2>0. \A k, l \in DOMAIN plan : k < l =>
          \E a, b \in DOMAIN FullPlan(FALSE) :
            a < b /\ FullPlan(FALSE)[a] = plan[k] /\ FullPlan(FALSE)[b] = plan[l]
    BY HarnessAssumption, Zenon
  <2>1. PICK a, b \in DOMAIN FullPlan(FALSE) :
          a < b /\ FullPlan(FALSE)[a] = plan[i_1] /\ FullPlan(FALSE)[b] = plan[j_1]
    BY <1>5, <2>0, Zenon
  <2>2. full = FullPlan(FALSE)
    BY <1>1, Zenon
  <2>3. a \in DOMAIN full /\ b \in DOMAIN full /\ a < b
    BY <2>1, <2>2, Zenon
  <2>4. full[a] = plan[i_1] /\ full[b] = plan[j_1]
    BY <2>1, <2>2, Zenon
  <2>. QED  BY <2>3, <2>4
<1>6. /\ i < j => plan[i] # plan[j] /\ plan[j] # "reset" /\ plan[i] # "linearizability"
      /\ j < i => plan[i] # plan[j] /\ plan[i] # "reset" /\ plan[j] # "linearizability"
  BY <1>2, <1>3, <1>5
<1>. QED  BY <1>4, <1>6

LEMMA InitTypes ==
  ASSUME Init
  PROVE  TypeInv
<1>1. todo \in Plans /\ todo \in Seq(Phases)
  BY PlanFacts DEF Init
<1>2. ControlInv
  <2>1. checks \in [ToSet(todo) -> Checks]
    BY DEF Init, Checks
  <2>2. \A i \in DOMAIN todo : todo[i] \in DOMAIN checks
    BY <2>1 DEF ToSet
  <2>3. pass \in BOOLEAN /\ timedOut \in BOOLEAN
    BY DEF Init
  <2>4. at \in Nat \ {0} /\ step \in {"first", "get", "race", "stopped"}
    BY DEF Init
  <2>. QED  BY <1>1, <2>1, <2>2, <2>3, <2>4 DEF ControlInv
<1>3. StoreInv
  BY NamesFacts DEF Init, StoreInv, Data
<1>4. CallInv
  BY DEF Init, CallInv
<1>5. HistoryInv
  BY DEF Init, HistoryInv
<1>6. LastSeenType
  BY DEF Init, LastSeenType
<1>7. PlanInv
  <2>1. Tries("put", Live) = 0
    <3>1. {i \in DOMAIN calls : /\ calls[i].by = Main
                                /\ command[i].op = "put" /\ command[i].key = Live} = {}
      BY DEF Init
    <3>. QED  BY <3>1, FS_EmptySet DEF Tries
  <2>2. \A i, j \in DOMAIN todo : todo[i] = todo[j] => i = j
    BY <1>1, PlanOrder
  <2>3. DOMAIN calls = {}
    BY DEF Init
  <2>. QED  BY <2>1, <2>2, <2>3, NamesFacts DEF PlanInv
<1>. QED  BY <1>2, <1>3, <1>4, <1>5, <1>6, <1>7 DEF TypeInv

LEMMA TypeStep ==
  ASSUME TypeInv, [Next]_vars
  PROVE  TypeInv'
<1>1. ClientInv' 
  BY StepKinds, CallTypes, ReturnTypes, EffectTypes, StaysTypes DEF TypeInv, ClientInv
<1>. QED  BY <1>1, ControlStep, PlanStep DEF TypeInv, ClientInv

LEMMA TypeHolds == Spec => []TypeInv
BY InitTypes, TypeStep, PTL DEF Spec

\* The types of a run: a check for every phase of the plan, one operation at a
\* time for each goroutine, and a history whose records are complete and whose
\* windows are closed (Recorder.Invoke).
THEOREM HarnessTypeOK == Spec => []TypeOK
<1>1. TypeInv => TypeOK
  <2>. SUFFICES ASSUME TypeInv PROVE TypeOK
    OBVIOUS
  <2>1. ASSUME NEW k \in DOMAIN history
        PROVE  /\ history[k].outcome \in {"ok", "failed", "unknown"}
               /\ history[k].cmd \in Command /\ history[k].res \in Result
               /\ history[k].start < history[k].end /\ history[k].end <= now
    <3>1. PICK h : h = history[k]
      OBVIOUS
    <3>2. h \in Record /\ RecordInv(h)
      BY <3>1, Recorded DEF TypeInv
    <3>. QED  BY <3>1, <3>2 DEF Record, RecordInv
  <2>. QED  BY <2>1 DEF TypeInv, ControlInv, CallInv, LastSeenType, TypeOK, Checks
<1>. QED  BY <1>1, TypeHolds, PTL

-----------------------------------------------------------------------------
(* What a client has seen                                                  *)

\* No answer is newer than the clock.
LEMMA SeenAll ==
  ASSUME ClientInv, NEW c, NEW k, NEW t \in Nat, t > now
  PROVE  Seen(c, k, t) = Seen(c, k, now + 1)
<1>1. ASSUME NEW j \in DOMAIN history PROVE history[j].end < t /\ history[j].end < now + 1
  <2>1. PICK h : h = history[j]
    OBVIOUS
  <2>2. h.end \in Nat /\ h.end <= now /\ now \in Nat
    BY <2>1, Recorded DEF ClientInv, RecordInv, CallInv
  <2>. QED  BY <2>1, <2>2
<1>. QED  BY <1>1 DEF Seen

\* What was seen stays as it is when nothing returns,
LEMMA SeenStays ==
  ASSUME ClientInv, NEW c, NEW k, NEW t, UNCHANGED history,
         \A i \in DOMAIN calls : calls'[i] = calls[i]
  PROVE  Seen(c, k, t)' = Seen(c, k, t)
<1>1. \A j \in DOMAIN history : history[j].id \in DOMAIN calls
  BY DEF ClientInv, HistoryInv, RecordInv
<1>. QED  BY <1>1 DEF Seen

\* and grows by a returning operation of this client on this key.
LEMMA SeenReturn ==
  ASSUME ClientInv, NEW c, NEW k, NEW t, NEW h \in Record, UNCHANGED calls,
         history' = Append(history, h)
  PROVE  Seen(c, k, t)' =
           Seen(c, k, t) \cup
             (IF /\ calls[h.id].by = c /\ h.cmd.key = k
                 /\ h.outcome = "ok" /\ h.end < t THEN {h.id} ELSE {})
<1>1. history \in Seq(Record)
  BY DEF ClientInv, HistoryInv
<1>2. PICK s : s = history'
  OBVIOUS
<1>3. PICK n : n = Len(history) + 1
  OBVIOUS
<1>4. /\ DOMAIN s = DOMAIN history \cup {n} /\ s[n] = h /\ n \notin DOMAIN history
      /\ \A i \in DOMAIN history : s[i] = history[i]
  BY <1>1, <1>2, <1>3, AppendElements
<1>. DEFINE Fits(g) == calls[g.id].by = c /\ g.cmd.key = k /\ g.outcome = "ok" /\ g.end < t
<1>5. Seen(c, k, t) = {history[j].id : j \in {i \in DOMAIN history : Fits(history[i])}}
  BY DEF Seen
<1>6. Seen(c, k, t)' = {s[j].id : j \in {i \in DOMAIN s : Fits(s[i])}}
  BY <1>2 DEF Seen
<1>7. \A m : m \in Seen(c, k, t)' <=> \/ m \in Seen(c, k, t)
                                      \/ Fits(h) /\ m = h.id
  <2>. HIDE DEF Fits
  <2>. QED  BY <1>4, <1>5, <1>6
<1>. QED  BY <1>7

\* Clients ask for their keys only.
LEMMA KeysStep ==
  ASSUME TypeInv, KeysInv, [Next]_vars
  PROVE  KeysInv'
<1>1. ClientInv
  BY DEF TypeInv, ClientInv
<1>2. ASSUME NEW t \in Threads, NEW cmd \in Command, Calls(t, cmd)
      PROVE  KeysInv'
  <2>1. PICK n : n = Len(calls) + 1
    OBVIOUS
  <2>2. /\ DOMAIN calls' = DOMAIN calls \cup {n} /\ calls'[n] = [by |-> t, start |-> now + 1]
        /\ \A i \in DOMAIN calls : calls'[i] = calls[i] /\ command'[i] = command[i]
        /\ n \in Invocations /\ command' = [command EXCEPT ![n] = cmd]
    BY <1>1, <1>2, <2>1, CallEffect DEF Calls
  <2>3. command'[n] = cmd /\ calls'[n].by = t
    BY <1>1, <2>2 DEF ClientInv, StoreInv
  <2>4. t \in Clients => cmd.key \in ChaosKeys
    <3>. SUFFICES ASSUME t \in Clients PROVE cmd.key \in ChaosKeys
      OBVIOUS
    <3>1. cmd \in RandomOp(t)
      BY <1>2, NamesFacts DEF Calls, MayCall
    <3>. QED  BY <3>1, RandomOpIs
  <2>5. t \notin Clients /\ cmd.key \in ChaosKeys => cmd.op = "delete"
    <3>1. \A p \in {"smoke", "cas", "kill", "majority"} : Touched(p) \cap ChaosKeys = {}
      BY NamesFacts DEF Phases
    <3>2. at \in Nat \ {0}
      BY DEF TypeInv, ControlInv
    <3>. QED  BY <1>2, <3>1, <3>2, AskedKey DEF Calls, MayCall
  <2>. QED  BY <2>2, <2>3, <2>4, <2>5 DEF KeysInv
<1>3. ASSUME NEW t \in Threads, Returns(t) PROVE KeysInv'
  BY <1>3 DEF KeysInv, Returns, Return, ReturnOk, ReturnFailed, ReturnUnknown
<1>4. ASSUME NEW i \in DOMAIN calls, Effect(i) PROVE KeysInv'
  BY <1>4 DEF KeysInv, Effect, TakeEffect
<1>5. CASE Stays
  BY <1>5 DEF KeysInv, Stays, absVars
<1>. QED  BY <1>2, <1>3, <1>4, <1>5, StepKinds

\* What is noted, case by case.
LEMMA NoteSeenIs ==
  ASSUME NEW op
  PROVE  /\ op.cmd.op = "put" => NoteSeen(op) = op.cmd.value
         /\ op.cmd.op = "cas" /\ op.res.ok /\ ~op.res.present => NoteSeen(op) = op.cmd.value
         /\ op.cmd.op = "cas" /\ ~op.res.ok /\ op.res.present => NoteSeen(op) = op.res.value
         /\ op.cmd.op = "get" /\ op.res.present => NoteSeen(op) = op.res.value
         /\ op.cmd.op = "delete" => NoteSeen(op) = Nil
         /\ op.cmd.op = "cas" /\ ~op.res.ok /\ ~op.res.present => NoteSeen(op) = Nil
         /\ op.cmd.op = "get" /\ ~op.res.present => NoteSeen(op) = Nil
<1>1. ASSUME op.cmd.op = "put" PROVE NoteSeen(op) = op.cmd.value
  BY <1>1, Zenon DEF NoteSeen
<1>2. ASSUME op.cmd.op = "cas", op.res.ok, ~op.res.present PROVE NoteSeen(op) = op.cmd.value
  BY <1>2, Zenon DEF NoteSeen
<1>3. ASSUME op.cmd.op = "cas", ~op.res.ok, op.res.present PROVE NoteSeen(op) = op.res.value
  BY <1>3, Zenon DEF NoteSeen
<1>4. ASSUME op.cmd.op = "get", op.res.present PROVE NoteSeen(op) = op.res.value
  BY <1>4, Zenon DEF NoteSeen
<1>5. ASSUME op.cmd.op = "delete" PROVE NoteSeen(op) = Nil
  BY <1>5, Zenon DEF NoteSeen
<1>6. ASSUME op.cmd.op = "cas", ~op.res.ok, ~op.res.present PROVE NoteSeen(op) = Nil
  BY <1>6, Zenon DEF NoteSeen
<1>7. ASSUME op.cmd.op = "get", ~op.res.present PROVE NoteSeen(op) = Nil
  BY <1>7, Zenon DEF NoteSeen
<1>. QED  BY <1>1, <1>2, <1>3, <1>4, <1>5, <1>6, <1>7

\* The state machine's answer lets the client note what the key then holds.
LEMMA NotedIsTrue ==
  ASSUME NEW d \in Data, NEW cmd \in Command
  PROVE  ApplyData(d, cmd)[cmd.key] = NoteSeen([cmd |-> cmd, res |-> ApplyResult(d, cmd)])
<1>1. cmd.key \in Keys /\ cmd.op \in Ops
  BY DEF Command
<1>2. PICK r : r = ApplyResult(d, cmd)
  OBVIOUS
<1>. PICK op : op = [cmd |-> cmd, res |-> r]
  OBVIOUS
<1>3. PICK v : v = NoteSeen(op)
  OBVIOUS
<1>0. op.cmd = cmd /\ op.res = r
  OBVIOUS
<1>4. CASE cmd.op = "put"
  BY <1>0, <1>1, <1>2, <1>3, <1>4, NoteSeenIs DEF ApplyData, Data
<1>5. CASE cmd.op = "delete"
  BY <1>0, <1>1, <1>2, <1>3, <1>5, NoteSeenIs DEF ApplyData, Data
<1>6. CASE cmd.op = "get"
  <2>1. r.present = (d[cmd.key] # Nil) /\ (r.present => r.value = d[cmd.key])
    BY <1>1, <1>2, <1>6 DEF ApplyResult, Res, Present, Lookup
  <2>2. v = d[cmd.key]
    BY <1>0, <1>3, <1>6, <2>1, NoteSeenIs
  <2>. QED  BY <1>2, <1>3, <1>6, <2>2 DEF ApplyData
<1>7. CASE cmd.op = "cas" /\ CASMatches(d, cmd)
  <2>1. r.ok = TRUE /\ r.present = FALSE
    BY <1>2, <1>7 DEF ApplyResult, Res
  <2>2. v = cmd.value
    BY <1>0, <1>3, <1>7, <2>1, NoteSeenIs
  <2>. QED  BY <1>1, <1>2, <1>3, <1>7, <2>2 DEF ApplyData, Data
<1>8. CASE cmd.op = "cas" /\ ~CASMatches(d, cmd)
  <2>1. r.ok = FALSE /\ r.present = (d[cmd.key] # Nil) /\ (r.present => r.value = d[cmd.key])
    BY <1>1, <1>2, <1>8 DEF ApplyResult, Res, Present, Lookup
  <2>2. v = d[cmd.key]
    BY <1>0, <1>3, <1>8, <2>1, NoteSeenIs
  <2>. QED  BY <1>2, <1>3, <1>8, <2>2 DEF ApplyData
<1>. QED  BY <1>1, <1>4, <1>5, <1>6, <1>7, <1>8 DEF Ops

\* Neither a return nor the main goroutine by itself changes what was called and done.
LEMMA NothingDone ==
  ASSUME (\E t \in Threads : Returns(t)) \/ Stays
  PROVE  UNCHANGED <<data, calls, command, effect, order>>
BY DEF Returns, Return, ReturnOk, ReturnFailed, ReturnUnknown, Stays, absVars

\* A client's operation that takes effect is next in order.
LEMMA EffectOrder ==
  ASSUME TypeInv, OrderInv, NEW i \in DOMAIN calls, Effect(i), calls[i].by \in Clients,
         NEW n, n = Len(order) + 1
  PROVE  /\ order' \in Seq([id : Nat, val : Values \cup {Nil}])
         /\ DOMAIN order' = DOMAIN order \cup {n} /\ n \notin DOMAIN order
         /\ n \in Nat /\ \A p \in DOMAIN order : p \in Nat /\ p < n
         /\ order'[n].id = i /\ order'[n].val = data'[command[i].key]
         /\ order'[n].val = Noted(i)'
         /\ \A p \in DOMAIN order : order'[p] = order[p]
<1>1. ClientInv
  BY DEF TypeInv, ClientInv
<1>2. /\ i \in Invocations /\ command[i] \in Command
      /\ effect' = [effect EXCEPT ![i] = ApplyResult(data, command[i])]
      /\ data' = ApplyData(data, command[i]) /\ data' \in Data /\ UNCHANGED command
  BY <1>1, TakesEffect
<1>3. PICK v : v = data'[command[i].key]
  OBVIOUS
<1>4. PICK e : e = [id |-> i, val |-> v]
  OBVIOUS
<1>5. v \in Values \cup {Nil}
  BY <1>2, <1>3 DEF Data, Command
<1>6. order' = Append(order, e)
  BY <1>3, <1>4 DEF Effect
<1>7. order \in Seq([id : Nat, val : Values \cup {Nil}])
      /\ e \in [id : Nat, val : Values \cup {Nil}]
  <2>1. i \in Nat
    BY <1>1, Called DEF ClientInv
  <2>. QED  BY <1>4, <1>5, <2>1 DEF OrderInv
<1>8. /\ order' \in Seq([id : Nat, val : Values \cup {Nil}]) /\ Len(order) \in Nat
      /\ DOMAIN order = 1 .. Len(order)
      /\ DOMAIN order' = DOMAIN order \cup {n} /\ n \notin DOMAIN order
      /\ order'[n] = e /\ \A p \in DOMAIN order : order'[p] = order[p]
  BY <1>6, <1>7, AppendElements
<1>9. v = Noted(i)'
  <2>1. PICK cmd \in Command : cmd = command[i]
    BY <1>2
  <2>2. ApplyData(data, cmd)[cmd.key] = NoteSeen([cmd |-> cmd, res |-> ApplyResult(data, cmd)])
    BY NotedIsTrue DEF TypeInv, StoreInv
  <2>3. PICK r : r = ApplyResult(data, cmd)
    OBVIOUS
  <2>4. effect'[i] = r /\ command'[i] = cmd
    BY <1>1, <1>2, <2>1, <2>3 DEF ClientInv, StoreInv
  <2>5. Noted(i)' = NoteSeen([cmd |-> cmd, res |-> r])
    BY <2>4 DEF Noted, NoteSeen
  <2>. QED  BY <1>2, <1>3, <2>1, <2>2, <2>3, <2>5
<1>10. n \in Nat /\ \A p \in DOMAIN order : p \in Nat /\ p < n
  BY <1>8
<1>. QED  BY <1>3, <1>4, <1>8, <1>9, <1>10

\* The order has every operation of a client that took effect, once.
LEMMA OrderStep ==
  ASSUME TypeInv, OrderInv, [Next]_vars
  PROVE  OrderInv'
<1>1. ClientInv
  BY DEF TypeInv, ClientInv
<1>2. ASSUME UNCHANGED order, DOMAIN calls \subseteq DOMAIN calls',
             \A i \in DOMAIN calls : calls'[i] = calls[i] /\ command'[i] = command[i],
             \A i \in DOMAIN calls : calls[i].by \in Clients => effect'[i] = effect[i],
             \A i \in DOMAIN calls' \ DOMAIN calls : ~Done(i)'
      PROVE  OrderInv'
  <2>1. \A i \in DOMAIN calls : Done(i)' = Done(i) /\ (Done(i) => Noted(i)' = Noted(i))
    BY <1>2 DEF Done, Noted, NoteSeen
  <2>. QED  BY <1>2, <2>1 DEF OrderInv
<1>3. ASSUME NEW t \in Threads, NEW cmd \in Command, Calls(t, cmd)
      PROVE  OrderInv'
  <2>1. PICK n : n = Len(calls) + 1
    OBVIOUS
  <2>2. /\ DOMAIN calls' = DOMAIN calls \cup {n}
        /\ \A i \in DOMAIN calls : calls'[i] = calls[i] /\ command'[i] = command[i]
        /\ UNCHANGED <<order, effect>> /\ effect[n] = NoResult
    BY <1>1, <1>3, <2>1, CallEffect DEF Calls
  <2>3. ~Done(n)'
    BY <2>2 DEF Done
  <2>. QED  BY <1>2, <2>2, <2>3
<1>4. CASE UNCHANGED <<data, calls, command, effect, order>>
  BY <1>2, <1>4
<1>5. ASSUME NEW i \in DOMAIN calls, Effect(i)
      PROVE  OrderInv'
  <2>1. /\ i \in Invocations /\ effect[i] = NoResult /\ effect'[i] # NoResult
        /\ \A j \in DOMAIN calls : j # i => effect'[j] = effect[j]
        /\ UNCHANGED <<command, calls>>
    BY <1>1, <1>5, TakesEffect DEF ClientInv, CallInv, StoreInv
  <2>2. CASE calls[i].by \notin Clients
    <3>1. UNCHANGED order
      BY <1>5, <2>2 DEF Effect
    <3>. QED  BY <1>2, <2>1, <2>2, <3>1
  <2>3. CASE calls[i].by \in Clients
    <3>1. PICK n : n = Len(order) + 1
      OBVIOUS
    <3>2. /\ order' \in Seq([id : Nat, val : Values \cup {Nil}])
          /\ DOMAIN order' = DOMAIN order \cup {n} /\ n \notin DOMAIN order
          /\ order'[n].id = i /\ order'[n].val = Noted(i)'
          /\ \A p \in DOMAIN order : order'[p] = order[p]
      BY <1>5, <2>3, <3>1, EffectOrder
    <3>3. \A p \in DOMAIN order : order[p].id # i
      BY <2>1 DEF OrderInv, Done
    <3>4. \A j \in DOMAIN calls : j # i => Done(j)' = Done(j) /\ Noted(j)' = Noted(j)
      BY <2>1 DEF Done, Noted, NoteSeen
    <3>5. Done(i)'
      BY <2>1, <2>3 DEF Done
    <3>6. ASSUME NEW p \in DOMAIN order', NEW m, m = order'[p].id
          PROVE  m \in DOMAIN calls' /\ Done(m)' /\ order'[p].val = Noted(m)'
      <4>1. CASE p = n
        BY <2>1, <3>2, <3>5, <3>6, <4>1
      <4>2. CASE p \in DOMAIN order
        <5>1. m = order[p].id /\ m # i /\ order'[p].val = order[p].val
          BY <3>2, <3>3, <3>6, <4>2
        <5>2. m \in DOMAIN calls /\ Done(m) /\ order[p].val = Noted(m)
          BY <4>2, <5>1 DEF OrderInv
        <5>. QED  BY <2>1, <3>4, <5>1, <5>2
      <4>. QED  BY <3>2, <4>1, <4>2
    <3>7. \A p, q \in DOMAIN order' : order'[p].id = order'[q].id => p = q
      BY <3>2, <3>3 DEF OrderInv
    <3>8. \A j \in DOMAIN calls' : Done(j)' => \E p \in DOMAIN order' : order'[p].id = j
      <4>. SUFFICES ASSUME NEW j \in DOMAIN calls, Done(j)'
                    PROVE  \E p \in DOMAIN order' : order'[p].id = j
        BY <2>1
      <4>1. CASE j = i
        BY <3>2, <4>1
      <4>2. CASE j # i
        BY <3>2, <3>4, <4>2 DEF OrderInv
      <4>. QED  BY <4>1, <4>2
    <3>9. \A p \in DOMAIN order' : /\ order'[p].id \in DOMAIN calls' /\ Done(order[p].id)'
                                   /\ order'[p].val = Noted(order[p].id)'
      BY <3>6
    <3>. QED  BY <3>2, <3>7, <3>8, <3>9 DEF OrderInv
  <2>. QED  BY <2>2, <2>3
<1>. QED  BY <1>3, <1>4, <1>5, NothingDone, StepKinds

\* What every step does to the calls and to the order: they only grow.
LEMMA Grows ==
  ASSUME TypeInv, OrderInv, [Next]_vars
  PROVE  /\ DOMAIN calls \subseteq DOMAIN calls'
         /\ \A i \in DOMAIN calls : calls'[i] = calls[i] /\ command'[i] = command[i]
         /\ DOMAIN order \subseteq DOMAIN order'
         /\ \A p \in DOMAIN order : order'[p] = order[p]
         /\ \A i \in DOMAIN calls : effect[i] # NoResult => effect'[i] = effect[i]
         /\ now \in Nat /\ now' \in Nat /\ now' >= now
<1>. DEFINE G == /\ DOMAIN calls \subseteq DOMAIN calls'
                 /\ \A i \in DOMAIN calls : calls'[i] = calls[i] /\ command'[i] = command[i]
                 /\ DOMAIN order \subseteq DOMAIN order'
                 /\ \A p \in DOMAIN order : order'[p] = order[p]
                 /\ \A i \in DOMAIN calls : effect[i] # NoResult => effect'[i] = effect[i]
                 /\ now' >= now
<1>1. ClientInv /\ now \in Nat /\ now' \in Nat
  <2>1. TypeInv'
    BY TypeStep
  <2>. QED  BY <2>1 DEF TypeInv, ClientInv, CallInv
<1>2. ASSUME NEW t \in Threads, NEW cmd \in Command, Calls(t, cmd) PROVE G
  <2>1. PICK n : n = Len(calls) + 1
    OBVIOUS
  <2>2. /\ DOMAIN calls' = DOMAIN calls \cup {n}
        /\ \A i \in DOMAIN calls : calls'[i] = calls[i] /\ command'[i] = command[i]
        /\ UNCHANGED <<order, effect>> /\ now' = now + 1
    BY <1>1, <1>2, <2>1, CallEffect DEF Calls
  <2>. QED  BY <1>1, <2>2
<1>3. ASSUME NEW t \in Threads, Returns(t) PROVE G
  <2>1. now' = now + 1
    BY <1>3 DEF Returns, Return
  <2>. QED  BY <1>1, <1>3, <2>1, NothingDone
<1>4. ASSUME NEW i \in DOMAIN calls, Effect(i) PROVE G
  <2>1. /\ effect[i] = NoResult /\ UNCHANGED <<calls, command, now>>
        /\ effect' = [effect EXCEPT ![i] = ApplyResult(data, command[i])]
    BY <1>1, <1>4, TakesEffect
  <2>2. CASE calls[i].by \in Clients
    <3>1. PICK n : n = Len(order) + 1
      OBVIOUS
    <3>2. /\ DOMAIN order' = DOMAIN order \cup {n}
          /\ \A p \in DOMAIN order : order'[p] = order[p]
      BY <1>4, <2>2, <3>1, EffectOrder
    <3>3. \A j \in DOMAIN calls : effect[j] # NoResult => effect'[j] = effect[j]
      BY <2>1
    <3>. QED  BY <1>1, <2>1, <3>2, <3>3
  <2>3. CASE calls[i].by \notin Clients
    <3>1. UNCHANGED order
      BY <1>4, <2>3 DEF Effect
    <3>3. \A j \in DOMAIN calls : effect[j] # NoResult => effect'[j] = effect[j]
      BY <2>1
    <3>. QED  BY <1>1, <2>1, <3>1, <3>3
  <2>. QED  BY <2>2, <2>3
<1>5. CASE Stays
  BY <1>1, <1>5, NothingDone DEF Stays
<1>. QED  BY <1>1, <1>2, <1>3, <1>4, <1>5, StepKinds

\* A client's last answer stays its last until the next one.
LEMMA LastStays ==
  ASSUME NEW p \in DOMAIN order, NEW c, NEW k, NEW t, Seen(c, k, t)' = Seen(c, k, t),
         order'[p] = order[p]
  PROVE  LastAnswered(p, c, k, t)' <=> LastAnswered(p, c, k, t)
BY DEF LastAnswered

\* A client believes what its last answer showed.
LEMMA SeenStep ==
  ASSUME TypeInv, KeysInv, OrderInv, SeenInv, [Next]_vars
  PROVE  SeenInv'
<1>1. ClientInv
  BY DEF TypeInv, ClientInv
<1>2. PICK u : u = now' + 1
  OBVIOUS
<1>3. /\ DOMAIN order \subseteq DOMAIN order' /\ \A p \in DOMAIN order : order'[p] = order[p]
      /\ \A i \in DOMAIN calls : calls'[i] = calls[i] /\ command'[i] = command[i]
      /\ u \in Nat /\ u > now
  BY <1>2, Grows
<1>4. \A c \in Clients, k \in ChaosKeys : Seen(c, k, u) = Seen(c, k, now + 1)
  BY <1>1, <1>3, SeenAll
<1>5. SeenInv' <=> \A c \in Clients, k \in ChaosKeys :
                     \/ Seen(c, k, u)' = {} /\ lastSeen'[c][k] = Nil
                     \/ \E p \in DOMAIN order' :
                          LastAnswered(p, c, k, u)' /\ lastSeen'[c][k] = order'[p].val
  BY <1>2 DEF SeenInv, LastAnswered, Seen
<1>6. ASSUME NEW c \in Clients, NEW k \in ChaosKeys, Seen(c, k, u)' = Seen(c, k, u),
             lastSeen'[c][k] = lastSeen[c][k]
      PROVE  \/ Seen(c, k, u)' = {} /\ lastSeen'[c][k] = Nil
             \/ \E p \in DOMAIN order' :
                  LastAnswered(p, c, k, u)' /\ lastSeen'[c][k] = order'[p].val
  <2>1. CASE Seen(c, k, now + 1) = {} /\ lastSeen[c][k] = Nil
    BY <1>4, <1>6, <2>1
  <2>2. ASSUME NEW p \in DOMAIN order, LastAnswered(p, c, k, now + 1),
               lastSeen[c][k] = order[p].val
        PROVE  /\ p \in DOMAIN order' /\ LastAnswered(p, c, k, u)'
               /\ lastSeen'[c][k] = order'[p].val
    <3>1. LastAnswered(p, c, k, u)
      BY <1>4, <2>2 DEF LastAnswered
    <3>. QED  BY <1>3, <1>6, <2>2, <3>1, LastStays
  <2>. QED  BY <2>1, <2>2 DEF SeenInv
<1>7. CASE UNCHANGED <<history, lastSeen>>
  <2>1. \A c \in Clients, k \in ChaosKeys : Seen(c, k, u)' = Seen(c, k, u)
    BY <1>1, <1>3, <1>7, SeenStays
  <2>. QED  BY <1>5, <1>6, <1>7, <2>1
<1>8. ASSUME NEW t \in Threads, Returns(t)
      PROVE  SeenInv'
  <2>1. PICK n : n = busy[t]
    OBVIOUS
  <2>2. Return(t)
    BY <1>8 DEF Returns
  <2>3. /\ n \in DOMAIN calls /\ n \in Nat \ {0} /\ calls[n].by = t
        /\ UNCHANGED <<calls, order>> /\ now' = now + 1 /\ busy[t] # 0
    BY <1>1, <2>1, <2>2, ReturnEffect
  <2>4. PICK h \in Record :
          /\ h.id = n /\ h.cmd = command[n] /\ h.end = now + 1
          /\ h.outcome = "ok" => effect[n] # NoResult /\ h.res = effect[n]
          /\ history' = Append(history, h) /\ Got = h
    BY <1>1, <2>1, <2>2, ReturnEffect
  <2>5. Answered <=> h.outcome = "ok"
    BY <2>4 DEF Answered
  <2>6. \A c, k : Seen(c, k, u)' =
                    Seen(c, k, u) \cup
                      (IF t = c /\ h.cmd.key = k /\ h.outcome = "ok" THEN {n} ELSE {})
    <3>1. h.end < u
      BY <1>2, <2>3, <2>4, Grows
    <3>. QED  BY <1>1, <2>3, <2>4, <3>1, SeenReturn
  <2>7. CASE ~(t \in Clients /\ h.outcome = "ok")
    <3>1. UNCHANGED lastSeen
      BY <1>8, <2>5, <2>7 DEF Returns
    <3>2. \A c \in Clients, k \in ChaosKeys : Seen(c, k, u)' = Seen(c, k, u)
      BY <2>6, <2>7
    <3>. QED  BY <1>5, <1>6, <3>1, <3>2
  <2>8. CASE t \in Clients /\ h.outcome = "ok"
    <3>1. PICK v : v = NoteSeen(h)
      OBVIOUS
    <3>2. lastSeen' = [lastSeen EXCEPT ![t][h.cmd.key] = v]
      BY <1>8, <2>4, <2>5, <2>8, <3>1 DEF Returns
    <3>3. h.cmd.key \in ChaosKeys
      BY <2>3, <2>4, <2>8 DEF KeysInv
    <3>4. PICK p \in DOMAIN order : order[p].id = n /\ order[p].val = Noted(n)
      <4>1. Done(n)
        BY <2>3, <2>4, <2>8 DEF Done
      <4>2. PICK p \in DOMAIN order : order[p].id = n
        BY <2>3, <4>1 DEF OrderInv
      <4>. QED  BY <4>2 DEF OrderInv
    <3>5. v = order[p].val
      <4>1. PICK g : g = [cmd |-> command[n], res |-> effect[n]]
        OBVIOUS
      <4>2. h.cmd = g.cmd /\ h.res = g.res
        BY <2>4, <2>8, <4>1
      <4>3. NoteSeen(h) = NoteSeen(g)
        BY <4>2 DEF NoteSeen
      <4>. QED  BY <3>1, <3>4, <4>1, <4>3 DEF Noted
    <3>6. ASSUME NEW c \in Clients, NEW k \in ChaosKeys
          PROVE  \/ Seen(c, k, u)' = {} /\ lastSeen'[c][k] = Nil
                 \/ \E q \in DOMAIN order' :
                      LastAnswered(q, c, k, u)' /\ lastSeen'[c][k] = order'[q].val
      <4>1. CASE c = t /\ k = h.cmd.key
        <5>1. lastSeen'[c][k] = v
          BY <1>1, <2>8, <3>2, <3>3, <4>1 DEF ClientInv, LastSeenType
        <5>2. Seen(c, k, u)' = Seen(c, k, u) \cup {n}
          BY <2>6, <2>8, <4>1
        <5>3. ASSUME NEW m \in Seen(c, k, u) PROVE m <= n
          <6>1. PICK j \in DOMAIN history : history[j].id = m /\ calls[m].by = c
            BY DEF Seen
          <6>2. PICK g : g = history[j]
            OBVIOUS
          <6>3. RecordInv(g) /\ g.id = m /\ m \in Nat
            BY <1>1, <6>1, <6>2, Recorded DEF ClientInv
          <6>4. m < busy[t]
            BY <2>3, <4>1, <6>1, <6>3 DEF RecordInv
          <6>. QED  BY <2>1, <2>3, <6>3, <6>4
        <5>4. LastAnswered(p, c, k, u)'
          BY <2>3, <3>4, <5>2, <5>3 DEF LastAnswered
        <5>. QED  BY <2>3, <3>5, <5>1, <5>4
      <4>2. CASE ~(c = t /\ k = h.cmd.key)
        <5>1. lastSeen'[c][k] = lastSeen[c][k]
          BY <1>1, <3>2, <4>2 DEF ClientInv, LastSeenType
        <5>2. Seen(c, k, u)' = Seen(c, k, u)
          <6>1. Seen(c, k, u)' = Seen(c, k, u) \cup {}
            BY <2>6, <4>2
          <6>. QED  BY <6>1
        <5>. QED  BY <1>6, <5>1, <5>2
      <4>. QED  BY <4>1, <4>2
    <3>. QED  BY <1>5, <3>6
  <2>. QED  BY <2>7, <2>8
<1>9. UNCHANGED <<history, lastSeen>> \/ \E t \in Threads : Returns(t)
  <2>1. ASSUME NEW t \in Threads, NEW cmd \in Command, Calls(t, cmd)
        PROVE  UNCHANGED <<history, lastSeen>>
    BY <2>1 DEF Calls, Call
  <2>2. ASSUME NEW i \in DOMAIN calls, Effect(i) PROVE UNCHANGED <<history, lastSeen>>
    BY <2>2 DEF Effect
  <2>3. CASE Stays
    BY <2>3 DEF Stays
  <2>. QED  BY <2>1, <2>2, <2>3, StepKinds
<1>. QED  BY <1>7, <1>8, <1>9

\* Where the last answered operation took effect.
LEMMA PosOfLast ==
  ASSUME ClientInv, OrderInv, NEW p \in DOMAIN order, NEW c, NEW k, NEW t,
         LastAnswered(p, c, k, t)
  PROVE  Pos(Max(Seen(c, k, t))) = p
<1>1. PICK S : S = Seen(c, k, t)
  OBVIOUS
<1>2. PICK m : m = order[p].id
  OBVIOUS
<1>3. S \subseteq Nat
  <2>. SUFFICES ASSUME NEW i \in S PROVE i \in Nat
    OBVIOUS
  <2>1. PICK j \in DOMAIN history : history[j].id = i
    BY <1>1 DEF Seen
  <2>. QED  BY <2>1, Recorded DEF ClientInv
<1>4. m \in S /\ \A i \in S : i <= m
  BY <1>1, <1>2 DEF LastAnswered
<1>5. Max(S) = m
  <2>1. m \in S /\ \A i \in S : m >= i
    BY <1>3, <1>4
  <2>2. Max(S) \in S /\ \A i \in S : Max(S) >= i
    BY <2>1 DEF Max
  <2>3. PICK x : x = Max(S)
    OBVIOUS
  <2>4. x \in Nat /\ m \in Nat /\ x >= m /\ m >= x
    BY <1>3, <2>1, <2>2, <2>3
  <2>. QED  BY <2>3, <2>4
<1>6. Pos(m) \in DOMAIN order /\ order[Pos(m)].id = m
  BY <1>2 DEF Pos
<1>7. Pos(m) = p
  BY <1>2, <1>6 DEF OrderInv
<1>. QED  BY <1>1, <1>5, <1>7

ReadInv == TypeInv /\ KeysInv /\ OrderInv /\ SeenInv

LEMMA InitRead ==
  ASSUME Init
  PROVE  ReadInv
<1>1. KeysInv /\ OrderInv
  BY DEF Init, KeysInv, OrderInv
<1>2. \A c, k, t : Seen(c, k, t) = {}
  BY DEF Init, Seen
<1>3. SeenInv
  BY <1>2 DEF Init, SeenInv
<1>. QED  BY <1>1, <1>3, InitTypes DEF ReadInv

LEMMA ReadHolds == Spec => []ReadInv
<1>1. ReadInv /\ [Next]_vars => ReadInv'
  BY TypeStep, KeysStep, OrderStep, SeenStep DEF ReadInv
<1>. QED  BY <1>1, InitRead, PTL DEF Spec

\* Client.noteSeen: what a client believes to be in a key is what the key held
\* when its last answered operation on it took effect, however the operations of
\* all clients were interleaved and whatever became of those without an answer.
THEOREM HarnessLastSeenIsTrue == Spec => []LastSeenIsTrue
<1>1. ReadInv => LastSeenIsTrue
  <2>. SUFFICES ASSUME ReadInv, NEW c \in Clients, NEW k \in ChaosKeys,
                       Seen(c, k, now + 1) # {}
                PROVE  lastSeen[c][k] = order[Pos(Max(Seen(c, k, now + 1)))].val
    BY DEF LastSeenIsTrue
  <2>1. PICK p \in DOMAIN order :
          LastAnswered(p, c, k, now + 1) /\ lastSeen[c][k] = order[p].val
    BY DEF ReadInv, SeenInv
  <2>2. Pos(Max(Seen(c, k, now + 1))) = p
    BY <2>1, PosOfLast DEF ReadInv, TypeInv, ClientInv
  <2>. QED  BY <2>1, <2>2
<1>. QED  BY <1>1, ReadHolds, PTL

-----------------------------------------------------------------------------
(* What a won CAS tells                                                    *)

\* What was answered before now stays as it is.
LEMMA SeenOld ==
  ASSUME ReadInv, [Next]_vars, NEW c, NEW k, NEW t \in Nat, t <= now + 1
  PROVE  Seen(c, k, t)' = Seen(c, k, t)
<1>1. ClientInv /\ now \in Nat
  BY DEF ReadInv, TypeInv, ClientInv, CallInv
<1>2. \A i \in DOMAIN calls : calls'[i] = calls[i]
  BY Grows DEF ReadInv
<1>3. ASSUME UNCHANGED history PROVE Seen(c, k, t)' = Seen(c, k, t)
  BY <1>1, <1>2, <1>3, SeenStays
<1>4. ASSUME NEW u \in Threads, Returns(u) PROVE Seen(c, k, t)' = Seen(c, k, t)
  <2>1. Return(u) /\ UNCHANGED calls
    BY <1>4, NothingDone DEF Returns
  <2>2. PICK h \in Record : h.end = now + 1 /\ history' = Append(history, h)
    BY <1>1, <2>1, ReturnEffect
  <2>3. ~(h.end < t)
    BY <1>1, <2>2
  <2>4. Seen(c, k, t)' = Seen(c, k, t) \cup {}
    BY <1>1, <2>1, <2>2, <2>3, SeenReturn
  <2>. QED  BY <2>4
<1>5. ASSUME NEW u \in Threads, NEW cmd \in Command, Calls(u, cmd) PROVE UNCHANGED history
  BY <1>5 DEF Calls, Call
<1>6. ASSUME NEW i \in DOMAIN calls, Effect(i) PROVE UNCHANGED history
  BY <1>6 DEF Effect
<1>7. CASE Stays
  BY <1>3, <1>7 DEF Stays
<1>. QED  BY <1>3, <1>4, <1>5, <1>6, <1>7, StepKinds DEF ReadInv

\* A CAS expects what its client believes.
LEMMA ExpectStep ==
  ASSUME ReadInv, ExpectInv, [Next]_vars
  PROVE  ExpectInv'
<1>1. ClientInv /\ TypeInv /\ OrderInv
  BY DEF ReadInv, TypeInv, ClientInv
<1>2. /\ DOMAIN order \subseteq DOMAIN order' /\ \A p \in DOMAIN order : order'[p] = order[p]
      /\ \A i \in DOMAIN calls : calls'[i] = calls[i] /\ command'[i] = command[i]
      /\ now \in Nat
  BY <1>1, Grows
<1>. DEFINE Fits(i) == calls[i].by \in Clients /\ command[i].op = "cas" /\ command[i].expect # Nil
<1>3. ASSUME NEW i \in DOMAIN calls, Fits(i)
      PROVE  \E p \in DOMAIN order' :
               /\ LastAnswered(p, calls[i].by, command[i].key, calls[i].start)'
               /\ order'[p].val = command[i].expect
  <2>1. PICK c, k, t : c = calls[i].by /\ k = command[i].key /\ t = calls[i].start
    OBVIOUS
  <2>2. PICK p \in DOMAIN order : LastAnswered(p, c, k, t) /\ order[p].val = command[i].expect
    BY <1>3, <2>1 DEF ExpectInv
  <2>3. Seen(c, k, t)' = Seen(c, k, t)
    <3>1. t \in Nat /\ t <= now
      BY <1>1, <2>1, Called DEF ClientInv
    <3>. QED  BY <1>2, <3>1, SeenOld
  <2>4. LastAnswered(p, c, k, t)'
    BY <1>2, <2>2, <2>3, LastStays
  <2>5. c = calls'[i].by /\ k = command'[i].key /\ t = calls'[i].start
    BY <1>2, <2>1
  <2>6. LastAnswered(p, calls[i].by, command[i].key, calls[i].start)'
    BY <2>4, <2>5 DEF LastAnswered, Seen
  <2>. QED  BY <1>2, <2>2, <2>6
<1>4. CASE UNCHANGED calls
  BY <1>2, <1>3, <1>4 DEF ExpectInv
<1>5. ASSUME NEW u \in Threads, NEW cmd \in Command, Calls(u, cmd)
      PROVE  ExpectInv'
  <2>1. PICK n : n = Len(calls) + 1
    OBVIOUS
  <2>2. /\ DOMAIN calls' = DOMAIN calls \cup {n} /\ calls'[n] = [by |-> u, start |-> now + 1]
        /\ n \in Invocations /\ command' = [command EXCEPT ![n] = cmd]
        /\ UNCHANGED <<history, order>>
    BY <1>1, <1>5, <2>1, CallEffect DEF Calls
  <2>3. command'[n] = cmd /\ calls'[n].by = u /\ calls'[n].start = now + 1
    BY <1>1, <2>2 DEF ClientInv, StoreInv
  <2>4. ASSUME u \in Clients, cmd.op = "cas", cmd.expect # Nil
        PROVE  \E p \in DOMAIN order' :
                 /\ LastAnswered(p, calls[n].by, command[n].key, calls[n].start)'
                 /\ order'[p].val = command'[n].expect
    <3>1. cmd \in RandomOp(u)
      BY <1>5, <2>4, NamesFacts DEF Calls, MayCall
    <3>2. cmd.key \in ChaosKeys /\ cmd.expect = lastSeen[u][cmd.key]
      BY <2>4, <3>1, RandomOpIs
    <3>3. PICK k : k = cmd.key
      OBVIOUS
    <3>4. PICK p \in DOMAIN order :
            LastAnswered(p, u, k, now + 1) /\ lastSeen[u][k] = order[p].val
      BY <2>4, <3>2, <3>3 DEF ReadInv, SeenInv
    <3>5. PICK t : t = now + 1
      OBVIOUS
    <3>6. Seen(u, k, t)' = Seen(u, k, t)
      BY <1>2, <3>5, SeenOld
    <3>7. LastAnswered(p, u, k, t)'
      BY <1>2, <3>4, <3>5, <3>6, LastStays
    <3>8. u = calls'[n].by /\ k = command'[n].key /\ t = calls'[n].start
      BY <2>3, <3>3, <3>5
    <3>9. LastAnswered(p, calls[n].by, command[n].key, calls[n].start)'
      BY <3>7, <3>8 DEF LastAnswered, Seen
    <3>. QED  BY <1>2, <2>3, <3>2, <3>3, <3>4, <3>9
  <2>. QED  BY <1>2, <1>3, <2>2, <2>3, <2>4 DEF ExpectInv
<1>6. ASSUME NEW i \in DOMAIN calls, Effect(i) PROVE UNCHANGED calls
  BY <1>6 DEF Effect
<1>. QED  BY <1>1, <1>4, <1>5, <1>6, NothingDone, StepKinds

\* No value is written by two operations.
LEMMA FreshStep ==
  ASSUME ReadInv, FreshInv, [Next]_vars
  PROVE  FreshInv'
<1>1. ClientInv /\ TypeInv /\ OrderInv /\ CallInv
  BY DEF ReadInv, TypeInv, ClientInv
<1>2. ASSUME UNCHANGED <<calls, command>> PROVE FreshInv'
  BY <1>2 DEF FreshInv, Carries, OpsOf
<1>3. ASSUME NEW u \in Threads, NEW cmd \in Command, Calls(u, cmd)
      PROVE  FreshInv'
  <2>1. PICK n : n = Len(calls) + 1
    OBVIOUS
  <2>2. /\ DOMAIN calls' = DOMAIN calls \cup {n} /\ calls'[n] = [by |-> u, start |-> now + 1]
        /\ n \in Invocations /\ command' = [command EXCEPT ![n] = cmd] /\ n \notin DOMAIN calls
        /\ \A i \in DOMAIN calls : calls'[i] = calls[i] /\ command'[i] = command[i]
    BY <1>1, <1>3, <2>1, CallEffect DEF Calls
  <2>3. command'[n] = cmd /\ calls'[n].by = u
    BY <1>1, <2>2 DEF ClientInv, StoreInv
  <2>4. ASSUME NEW c \in Clients
        PROVE  /\ Cardinality(OpsOf(c)) \in Nat /\ Cardinality(OpsOf(c)') \in Nat
               /\ Cardinality(OpsOf(c)') = Cardinality(OpsOf(c)) + (IF c = u THEN 1 ELSE 0)
    <3>1. PICK S : S = OpsOf(c)
      OBVIOUS
    <3>2. IsFiniteSet(S) /\ Cardinality(S) \in Nat
      BY <1>1, <3>1, OpsOfBound
    <3>3. OpsOf(c)' = IF c = u THEN S \cup {n} ELSE S
      BY <2>2, <2>3, <3>1 DEF OpsOf
    <3>4. n \notin S
      BY <2>2, <3>1 DEF OpsOf
    <3>5. Cardinality(S \cup {n}) = Cardinality(S) + 1
      BY <3>2, <3>4, FS_AddElement
    <3>. QED  BY <3>1, <3>2, <3>3, <3>5
  <2>5. \A i \in DOMAIN calls : Carries(i)' = Carries(i)
    BY <2>2 DEF Carries
  <2>6. ASSUME NEW i \in DOMAIN calls, Carries(i)
        PROVE  \E m \in 1 .. ChaosOps : /\ m <= Cardinality(OpsOf(calls[i].by))
                                        /\ m <= Cardinality(OpsOf(calls[i].by)')
                                        /\ command[i].value = <<calls[i].by, m>>
    <3>1. calls[i].by \in Clients /\ calls'[i].by = calls[i].by
      BY <2>2, <2>6 DEF Carries
    <3>2. PICK m \in 1 .. ChaosOps :
            m <= Cardinality(OpsOf(calls[i].by)) /\ command[i].value = <<calls[i].by, m>>
      BY <2>6 DEF FreshInv
    <3>3. PICK c \in Clients : c = calls[i].by
      BY <3>1
    <3>4. m <= Cardinality(OpsOf(c)')
      BY <2>4, <3>2, <3>3, NamesFacts
    <3>5. OpsOf(calls[i].by)' = OpsOf(c)'
      BY <3>1, <3>3 DEF OpsOf
    <3>. QED  BY <3>2, <3>3, <3>4, <3>5
  <2>7. ASSUME Carries(n)'
        PROVE  /\ u \in Clients /\ cmd.value = <<u, Cardinality(OpsOf(u)) + 1>>
               /\ Cardinality(OpsOf(u)) + 1 \in 1 .. ChaosOps
    <3>1. u \in Clients /\ cmd.op \in {"put", "cas"}
      BY <2>3, <2>7 DEF Carries
    <3>2. cmd \in RandomOp(u) /\ Cardinality(OpsOf(u)) < ChaosOps
      BY <1>3, <3>1, NamesFacts DEF Calls, MayCall
    <3>3. cmd.value = FreshValue(u)
      BY <3>1, <3>2, RandomOpIs
    <3>4. Cardinality(OpsOf(u)) \in Nat /\ ChaosOps \in Nat
      BY <2>4, <3>1, NamesFacts
    <3>. QED  BY <3>1, <3>2, <3>3, <3>4 DEF FreshValue
  <2>8. \A i \in DOMAIN calls' : Carries(i)' =>
          \E m \in 1 .. ChaosOps :
            m <= Cardinality(OpsOf(calls[i].by)') /\ command'[i].value = <<calls'[i].by, m>>
    <3>1. ASSUME Carries(n)'
          PROVE  \E m \in 1 .. ChaosOps :
                   m <= Cardinality(OpsOf(calls[n].by)') /\ command'[n].value = <<calls'[n].by, m>>
      <4>1. PICK m \in 1 .. ChaosOps : m = Cardinality(OpsOf(u)) + 1
        BY <2>7, <3>1
      <4>2. m = Cardinality(OpsOf(u)')
        BY <2>4, <2>7, <3>1, <4>1
      <4>3. m <= Cardinality(OpsOf(calls[n].by)')
        BY <2>3, <4>2 DEF OpsOf
      <4>. QED  BY <2>3, <2>7, <3>1, <4>1, <4>3
    <3>. QED  BY <2>2, <2>5, <2>6, <3>1
  <2>9. ASSUME Carries(n)', NEW j \in DOMAIN calls, Carries(j)
        PROVE  cmd.value # command[j].value
    <3>1. PICK m \in 1 .. ChaosOps :
            m <= Cardinality(OpsOf(calls[j].by)) /\ command[j].value = <<calls[j].by, m>>
      BY <2>6, <2>9
    <3>2. CASE calls[j].by = u
      BY <2>4, <2>7, <2>9, <3>1, <3>2
    <3>3. CASE calls[j].by # u
      BY <2>7, <2>9, <3>1, <3>3
    <3>. QED  BY <3>2, <3>3
  <2>10. \A i, j \in DOMAIN calls' :
           Carries(i)' /\ Carries(j)' /\ command'[i].value = command'[j].value => i = j
    <3>1. ASSUME NEW i \in DOMAIN calls, NEW j \in DOMAIN calls,
                 Carries(i)', Carries(j)', command'[i].value = command'[j].value
          PROVE  i = j
      BY <2>2, <2>5, <3>1 DEF FreshInv
    <3>2. ASSUME NEW i \in DOMAIN calls, Carries(i)', Carries(n)'
          PROVE  command'[i].value # command'[n].value
      BY <2>2, <2>3, <2>5, <2>9, <3>2
    <3>. QED  BY <2>2, <3>1, <3>2
  <2>. QED  BY <2>8, <2>10 DEF FreshInv
<1>4. ASSUME NEW i \in DOMAIN calls, Effect(i) PROVE UNCHANGED <<calls, command>>
  BY <1>4 DEF Effect, TakeEffect
<1>. QED  BY <1>1, <1>2, <1>3, <1>4, NothingDone, StepKinds

\* A value is new until its operation takes effect.
LEMMA FreshValueIsNew ==
  ASSUME TypeInv, FreshInv, NEW i \in DOMAIN calls, Carries(i), effect[i] = NoResult
  PROVE  command[i].value \notin Origins
<1>1. command[i].value \in Clients \X (1 .. ChaosOps)
  <2>1. PICK n \in 1 .. ChaosOps : command[i].value = <<calls[i].by, n>>
    BY DEF FreshInv
  <2>. QED  BY <2>1 DEF Carries
<1>2. command[i].value \notin PreRun
  BY <1>1, NamesFacts
<1>3. command[i].value # Nil
  BY KVAssumption DEF TypeInv, CallInv, Command
<1>4. \A j \in DOMAIN calls : Carries(j) /\ effect[j] # NoResult
        => command[i].value # command[j].value
  BY DEF FreshInv
<1>. QED  BY <1>2, <1>3, <1>4 DEF Origins

\* What an operation does to the data when it takes effect.
LEMMA EffectData ==
  ASSUME ClientInv, NEW i \in DOMAIN calls, Effect(i), NEW cmd, cmd = command[i]
  PROVE  /\ cmd.key \in Keys
         /\ \A k \in Keys \ {cmd.key} : data'[k] = data[k]
         /\ Writes(i)' => data'[cmd.key] = IF cmd.op = "delete" THEN Nil ELSE cmd.value
         /\ ~Writes(i)' => data' = data
         /\ cmd.op = "cas" /\ cmd.expect # Nil /\ effect'[i].ok => data[cmd.key] = cmd.expect
<1>1. /\ i \in Invocations /\ cmd \in Command
      /\ effect' = [effect EXCEPT ![i] = ApplyResult(data, cmd)]
      /\ data' = ApplyData(data, cmd) /\ UNCHANGED command /\ data \in Data
  BY TakesEffect DEF ClientInv, StoreInv
<1>2. PICK r : r = ApplyResult(data, cmd)
  OBVIOUS
<1>3. effect'[i] = r /\ command'[i] = cmd
  BY <1>1, <1>2 DEF ClientInv, StoreInv
<1>4. cmd.key \in Keys /\ cmd.op \in Ops
  BY <1>1 DEF Command
<1>5. Writes(i)' <=> cmd.op \in {"put", "delete"} \/ (cmd.op = "cas" /\ r.ok)
  BY <1>3 DEF Writes
<1>6. cmd.op = "cas" => r.ok = CASMatches(data, cmd)
  BY <1>2 DEF ApplyResult, Res, CASMatches
<1>7. CASE cmd.op = "put"
  BY <1>1, <1>4, <1>5, <1>7 DEF ApplyData, Data
<1>8. CASE cmd.op = "delete"
  BY <1>1, <1>4, <1>5, <1>8 DEF ApplyData, Data
<1>9. CASE cmd.op = "get"
  BY <1>1, <1>4, <1>5, <1>9 DEF ApplyData, Data
<1>10. CASE cmd.op = "cas" /\ CASMatches(data, cmd)
  <2>1. r.ok
    BY <1>6, <1>10
  <2>2. data' = [data EXCEPT ![cmd.key] = cmd.value]
    BY <1>1, <1>10 DEF ApplyData
  <2>3. cmd.expect # Nil => data[cmd.key] = cmd.expect
    BY <1>10 DEF CASMatches
  <2>. QED  BY <1>1, <1>4, <1>5, <1>10, <2>1, <2>2, <2>3 DEF Data
<1>11. CASE cmd.op = "cas" /\ ~CASMatches(data, cmd)
  <2>1. ~r.ok
    BY <1>6, <1>11
  <2>2. data' = data
    BY <1>1, <1>11 DEF ApplyData
  <2>. QED  BY <1>3, <1>4, <1>5, <1>11, <2>1, <2>2
<1>. QED  BY <1>4, <1>7, <1>8, <1>9, <1>10, <1>11 DEF Ops

ValueInv == ReadInv /\ ExpectInv /\ FreshInv /\ OriginInv /\ OverwrittenInv /\ WonInv

\* The origins of values only grow.
LEMMA OriginsGrow ==
  ASSUME TypeInv, OrderInv, [Next]_vars
  PROVE  Origins \subseteq Origins'
<1>1. /\ DOMAIN calls \subseteq DOMAIN calls'
      /\ \A i \in DOMAIN calls : calls'[i] = calls[i] /\ command'[i] = command[i]
      /\ \A i \in DOMAIN calls : effect[i] # NoResult => effect'[i] = effect[i]
  BY Grows
<1>2. \A i \in DOMAIN calls : Carries(i) => Carries(i)'
  BY <1>1 DEF Carries
<1>. QED  BY <1>1, <1>2 DEF Origins

\* What an effect does to a key of phaseChaos: a client leaves in it what it was,
\* nothing, or its own value; whoever else does not leave a value.
LEMMA ChaosEffect ==
  ASSUME TypeInv, KeysInv, NEW i \in DOMAIN calls, Effect(i), NEW k \in ChaosKeys \cap Keys
  PROVE  \/ data'[k] = data[k] \/ data'[k] = Nil
         \/ Carries(i) /\ data'[k] = command[i].value
<1>1. PICK cmd : cmd = command[i]
  OBVIOUS
<1>2. /\ \A j \in Keys \ {cmd.key} : data'[j] = data[j]
      /\ Writes(i)' => data'[cmd.key] = IF cmd.op = "delete" THEN Nil ELSE cmd.value
      /\ ~Writes(i)' => data' = data
  BY <1>1, EffectData DEF TypeInv, ClientInv
<1>3. Writes(i)' => cmd.op \in {"put", "delete", "cas"}
  <2>1. UNCHANGED command
    BY DEF Effect, TakeEffect
  <2>. QED  BY <1>1, <2>1 DEF Writes
<1>. QED  BY <1>1, <1>2, <1>3 DEF KeysInv, Carries

\* Every value in a key of phaseChaos was put there by an operation, or is older
\* than the run.
LEMMA OriginStep ==
  ASSUME ReadInv, OriginInv, [Next]_vars
  PROVE  OriginInv'
<1>1. ClientInv /\ TypeInv /\ OrderInv /\ KeysInv
  BY DEF ReadInv, TypeInv, ClientInv
<1>2. Origins \subseteq Origins' /\ Nil \in Origins'
  BY <1>1, OriginsGrow DEF Origins
<1>3. ASSUME UNCHANGED <<data, order>> PROVE OriginInv'
  BY <1>2, <1>3 DEF OriginInv
<1>4. ASSUME NEW i \in DOMAIN calls, Effect(i) PROVE OriginInv'
  <2>1. ASSUME NEW k \in ChaosKeys \cap Keys PROVE data'[k] \in Origins'
    <3>1. CASE Carries(i) /\ data'[k] = command[i].value
      <4>1. UNCHANGED <<calls, command>> /\ effect'[i] # NoResult
        BY <1>1, <1>4, TakesEffect
      <4>2. Carries(i)' /\ command'[i].value = data'[k]
        BY <3>1, <4>1 DEF Carries
      <4>. QED  BY <4>1, <4>2 DEF Origins
    <3>2. CASE data'[k] \in {data[k], Nil}
      BY <1>2, <3>2 DEF OriginInv
    <3>. QED  BY <1>1, <1>4, <3>1, <3>2, ChaosEffect
  <2>2. CASE calls[i].by \notin Clients
    BY <1>2, <1>4, <2>1, <2>2 DEF Effect, OriginInv
  <2>3. CASE calls[i].by \in Clients
    <3>1. PICK n : n = Len(order) + 1
      OBVIOUS
    <3>2. /\ DOMAIN order' = DOMAIN order \cup {n}
          /\ order'[n].val = data'[command[i].key]
          /\ \A p \in DOMAIN order : order'[p] = order[p]
      BY <1>1, <1>4, <2>3, <3>1, EffectOrder
    <3>3. command[i].key \in ChaosKeys \cap Keys
      BY <1>1, <1>4, <2>3, EffectData DEF KeysInv
    <3>. QED  BY <1>2, <2>1, <3>2, <3>3 DEF OriginInv
  <2>. QED  BY <2>2, <2>3
<1>5. ASSUME NEW u \in Threads, NEW cmd \in Command, Calls(u, cmd)
      PROVE  UNCHANGED <<data, order>>
  BY <1>5 DEF Calls, Call, Begin
<1>. QED  BY <1>1, <1>3, <1>4, <1>5, NothingDone, StepKinds

\* An operation overwrites what others left, for good.
LEMMA OverwrittenStep ==
  ASSUME ReadInv, FreshInv, OriginInv, OverwrittenInv, [Next]_vars
  PROVE  OverwrittenInv'
<1>1. ClientInv /\ TypeInv /\ OrderInv /\ KeysInv /\ CallInv
  BY DEF ReadInv, TypeInv, ClientInv
<1>2. /\ \A p \in DOMAIN order : order'[p] = order[p] /\ order[p].id \in DOMAIN calls
      /\ \A i \in DOMAIN calls : calls'[i] = calls[i] /\ command'[i] = command[i]
      /\ \A i \in DOMAIN calls : effect[i] # NoResult => effect'[i] = effect[i]
  BY <1>1, Grows DEF OrderInv
<1>3. \A p \in DOMAIN order : KeyAt(p)' = KeyAt(p) /\ KeyAt(p) \in ChaosKeys \cap Keys
  <2>. SUFFICES ASSUME NEW p \in DOMAIN order, NEW i, i = order[p].id
                PROVE  KeyAt(p)' = KeyAt(p) /\ KeyAt(p) \in ChaosKeys \cap Keys
    OBVIOUS
  <2>1. i \in DOMAIN calls /\ calls[i].by \in Clients /\ KeyAt(p) = command[i].key
    BY <1>1 DEF KeyAt, OrderInv, Done
  <2>2. command[i] \in Command /\ command[i].key \in ChaosKeys
    BY <1>1, <2>1 DEF CallInv, KeysInv
  <2>. QED  BY <1>2, <2>1, <2>2 DEF KeyAt, Command
<1>4. \A q \in DOMAIN order : Writes(order[q].id)' <=> Writes(order[q].id)
  <2>1. \A q \in DOMAIN order : effect'[order[q].id] = effect[order[q].id]
    BY <1>1, <1>2 DEF OrderInv, Done
  <2>. QED  BY <1>2, <2>1 DEF Writes
<1>5. ASSUME \A p \in DOMAIN order : order[p].val # Nil /\ data[KeyAt(p)] # order[p].val
               => data'[KeyAt(p)] # order[p].val,
             NEW p \in DOMAIN order, NEW q \in DOMAIN order,
             p < q, KeyAt(p) = KeyAt(q), Writes(order[q].id)', order[p].val # Nil
      PROVE  data'[KeyAt(p)] # order[p].val
  BY <1>4, <1>5 DEF OverwrittenInv
<1>6. ASSUME UNCHANGED <<data, order>> PROVE OverwrittenInv'
  BY <1>3, <1>5, <1>6 DEF OverwrittenInv
<1>7. ASSUME NEW i \in DOMAIN calls, Effect(i) PROVE OverwrittenInv'
  <2>1. PICK cmd : cmd = command[i]
    OBVIOUS
  <2>2. /\ Writes(i)' => data'[cmd.key] = IF cmd.op = "delete" THEN Nil ELSE cmd.value
        /\ effect[i] = NoResult /\ command'[i] = cmd
    BY <1>1, <1>2, <1>7, <2>1, EffectData, TakesEffect
  <2>3. ASSUME NEW p \in DOMAIN order, order[p].val # Nil, Carries(i)
        PROVE  cmd.value # order[p].val
    BY <1>1, <2>1, <2>2, <2>3, FreshValueIsNew DEF OriginInv
  <2>4. \A p \in DOMAIN order : order[p].val # Nil /\ data[KeyAt(p)] # order[p].val
               => data'[KeyAt(p)] # order[p].val
    BY <1>1, <1>3, <1>7, <2>1, <2>3, ChaosEffect
  <2>5. CASE calls[i].by \notin Clients
    <3>1. UNCHANGED order
      BY <1>7, <2>5 DEF Effect
    <3>. QED  BY <1>3, <1>5, <2>4, <3>1 DEF OverwrittenInv
  <2>6. CASE calls[i].by \in Clients
    <3>1. PICK n : n = Len(order) + 1
      OBVIOUS
    <3>2. /\ DOMAIN order' = DOMAIN order \cup {n} /\ order'[n].id = i /\ n \in Nat
          /\ \A p \in DOMAIN order : p \in Nat /\ p < n
      BY <1>1, <1>7, <2>6, <3>1, EffectOrder
    <3>3. ASSUME NEW p \in DOMAIN order, KeyAt(p) = cmd.key, Writes(i)', order[p].val # Nil
          PROVE  data'[KeyAt(p)] # order[p].val
      <4>1. cmd.op = "delete" \/ Carries(i)
        BY <2>1, <2>2, <2>6, <3>3 DEF Writes, Carries
      <4>. QED  BY <2>2, <2>3, <3>3, <4>1
    <3>4. KeyAt(n)' = cmd.key
      BY <2>2, <3>2 DEF KeyAt
    <3>5. ASSUME NEW p \in DOMAIN order', NEW q \in DOMAIN order', p < q, KeyAt(p)' = KeyAt(q)',
                 Writes(order[q].id)', order'[p].val # Nil
          PROVE  data'[KeyAt(p)'] # order'[p].val
      <4>1. p \in DOMAIN order /\ order'[p] = order[p] /\ KeyAt(p)' = KeyAt(p)
        BY <1>2, <1>3, <3>2, <3>5
      <4>2. CASE q \in DOMAIN order
        <5>1. Writes(order[q].id)' <=> Writes(order[q].id)
          BY <1>4, <4>2
        <5>. QED  BY <1>3, <2>4, <3>5, <4>1, <4>2, <5>1 DEF OverwrittenInv
      <4>3. CASE q = n
        <5>1. Writes(i)'
          BY <3>2, <3>5, <4>3 DEF Writes
        <5>. QED  BY <3>3, <3>4, <3>5, <4>1, <4>3, <5>1
      <4>. QED  BY <3>2, <4>2, <4>3
    <3>. QED  BY <3>5 DEF OverwrittenInv, KeyAt
  <2>. QED  BY <2>5, <2>6
<1>8. ASSUME NEW u \in Threads, NEW cmd \in Command, Calls(u, cmd)
      PROVE  UNCHANGED <<data, order>>
  BY <1>8 DEF Calls, Call, Begin
<1>. QED  BY <1>1, <1>6, <1>7, <1>8, NothingDone, StepKinds

\* A CAS that wins finds the key as its client saw it, not written since.
LEMMA WonStep ==
  ASSUME ReadInv, OverwrittenInv, WonInv, [Next]_vars
  PROVE  WonInv'
<1>1. ClientInv /\ TypeInv /\ OrderInv /\ KeysInv
  BY DEF ReadInv, TypeInv, ClientInv
<1>2. /\ \A p \in DOMAIN order : order'[p] = order[p] /\ order[p].id \in DOMAIN calls
      /\ \A i \in DOMAIN calls : calls'[i] = calls[i] /\ command'[i] = command[i]
      /\ \A i \in DOMAIN calls : effect[i] # NoResult => effect'[i] = effect[i]
  BY <1>1, Grows DEF OrderInv
<1>3. \A p \in DOMAIN order : KeyAt(p)' = KeyAt(p)
  BY <1>2 DEF KeyAt
<1>4. \A q \in DOMAIN order : /\ effect'[order[q].id] = effect[order[q].id]
                              /\ command'[order[q].id] = command[order[q].id]
                              /\ Writes(order[q].id)' <=> Writes(order[q].id)
  <2>1. \A q \in DOMAIN order : effect'[order[q].id] = effect[order[q].id]
    BY <1>1, <1>2 DEF OrderInv, Done
  <2>. QED  BY <1>2, <2>1 DEF Writes
<1>. DEFINE Won(p, q, r, cmd, ok) == /\ cmd.op = "cas" /\ cmd.expect # Nil /\ ok
                                     /\ p < q /\ q < r /\ KeyAt(p) = cmd.key /\ KeyAt(q) = cmd.key
                                     /\ order[p].val = cmd.expect
<1>5. ASSUME NEW p \in DOMAIN order, NEW q \in DOMAIN order, NEW r \in DOMAIN order,
             NEW cmd, cmd = command[order[r].id],
             Won(p, q, r, cmd, effect'[order[r].id].ok)
      PROVE  ~Writes(order[q].id)'
  BY <1>4, <1>5 DEF WonInv
<1>6. ASSUME UNCHANGED order PROVE WonInv'
  <2>. SUFFICES ASSUME NEW p \in DOMAIN order, NEW q \in DOMAIN order, NEW r \in DOMAIN order,
                       NEW cmd, cmd = command'[order[r].id],
                       Won(p, q, r, cmd, effect'[order[r].id].ok)
                PROVE  ~Writes(order[q].id)'
    BY <1>3, <1>6 DEF WonInv, KeyAt
  <2>. QED  BY <1>4, <1>5
<1>7. ASSUME NEW i \in DOMAIN calls, Effect(i) PROVE WonInv'
  <2>1. CASE calls[i].by \notin Clients
    BY <1>6, <1>7, <2>1 DEF Effect
  <2>2. CASE calls[i].by \in Clients
    <3>1. PICK n : n = Len(order) + 1
      OBVIOUS
    <3>2. /\ DOMAIN order' = DOMAIN order \cup {n} /\ order'[n].id = i /\ n \in Nat
          /\ \A p \in DOMAIN order : p \in Nat /\ p < n
      BY <1>1, <1>7, <2>2, <3>1, EffectOrder
    <3>3. ASSUME NEW p \in DOMAIN order', NEW q \in DOMAIN order', NEW r \in DOMAIN order',
                 NEW cmd, cmd = command'[order'[r].id],
                 cmd.op = "cas", cmd.expect # Nil, effect'[order'[r].id].ok, p < q, q < r,
                 KeyAt(p)' = cmd.key, KeyAt(q)' = cmd.key, order'[p].val = cmd.expect
          PROVE  ~Writes(order[q].id)'
      <4>1. /\ p \in DOMAIN order /\ q \in DOMAIN order /\ order'[p] = order[p]
            /\ KeyAt(p) = cmd.key /\ KeyAt(q) = cmd.key
        BY <1>2, <1>3, <3>2, <3>3
      <4>2. CASE r \in DOMAIN order
        <5>1. cmd = command[order[r].id] /\ effect'[order[r].id].ok
          BY <1>2, <1>4, <3>3, <4>2
        <5>2. Won(p, q, r, cmd, effect'[order[r].id].ok)
          BY <3>3, <4>1, <5>1
        <5>. QED  BY <1>5, <4>1, <4>2, <5>1, <5>2
      <4>3. CASE r = n
        <5>1. cmd = command[i] /\ effect'[i].ok
          BY <1>2, <3>2, <3>3, <4>3
        <5>2. data[cmd.key] = order[p].val
          BY <1>1, <1>7, <3>3, <4>1, <5>1, EffectData
        <5>3. ~Writes(order[q].id)
          BY <3>3, <4>1, <5>2 DEF OverwrittenInv
        <5>4. Writes(order[q].id)' <=> Writes(order[q].id)
          BY <1>4, <4>1
        <5>. QED  BY <5>3, <5>4
      <4>. QED  BY <3>2, <4>2, <4>3
    <3>. QED  BY <3>3 DEF WonInv, KeyAt
  <2>. QED  BY <2>1, <2>2
<1>8. ASSUME NEW u \in Threads, NEW cmd \in Command, Calls(u, cmd)
      PROVE  UNCHANGED order
  BY <1>8 DEF Calls, Call
<1>. QED  BY <1>1, <1>6, <1>7, <1>8, NothingDone, StepKinds

LEMMA InitValue ==
  ASSUME Init
  PROVE  ValueInv
<1>1. calls = <<>> /\ order = <<>> /\ DOMAIN calls = {} /\ DOMAIN order = {}
  BY DEF Init
<1>2. ExpectInv /\ FreshInv /\ OverwrittenInv /\ WonInv
  BY <1>1 DEF ExpectInv, FreshInv, OverwrittenInv, WonInv
<1>3. OriginInv
  BY <1>1 DEF Init, OriginInv, Origins
<1>. QED  BY <1>2, <1>3, InitRead DEF ValueInv

LEMMA ValueHolds == Spec => []ValueInv
<1>1. ReadInv /\ [Next]_vars => ReadInv'
  BY TypeStep, KeysStep, OrderStep, SeenStep DEF ReadInv
<1>2. ValueInv /\ [Next]_vars => ValueInv'
  BY <1>1, ExpectStep, FreshStep, OriginStep, OverwrittenStep, WonStep DEF ValueInv
<1>. QED  BY <1>2, InitValue, PTL DEF Spec

\* Client.RandomOp, "values unique": a CAS that expects what its client saw and
\* wins proves that nobody wrote the key in between, neither with an operation
\* whose outcome was never learnt nor by putting an old value back.
THEOREM HarnessWonCASMeansUntouched == Spec => []WonCASMeansUntouched
<1>1. ValueInv => WonCASMeansUntouched
  <2>. SUFFICES ASSUME ValueInv, NEW r \in DOMAIN order, NEW i, i = order[r].id,
                       NEW cmd, cmd = command[i],
                       NEW S, S = Seen(calls[i].by, cmd.key, calls[i].start),
                       cmd.op = "cas", cmd.expect # Nil, effect[i].ok,
                       NEW q \in DOMAIN order, Pos(Max(S)) < q, q < r,
                       command[order[q].id].key = cmd.key
                PROVE  ~Writes(order[q].id)
    BY DEF WonCASMeansUntouched
  <2>1. i \in DOMAIN calls /\ calls[i].by \in Clients
    BY DEF ValueInv, ReadInv, OrderInv, Done
  <2>2. PICK p \in DOMAIN order : /\ LastAnswered(p, calls[i].by, cmd.key, calls[i].start)
                                  /\ order[p].val = cmd.expect
    BY <2>1 DEF ValueInv, ExpectInv
  <2>3. Pos(Max(S)) = p
    BY <2>2, PosOfLast DEF ValueInv, ReadInv, TypeInv, ClientInv
  <2>4. KeyAt(p) = cmd.key
    <3>1. PICK j \in DOMAIN history : history[j].id = order[p].id /\ history[j].cmd.key = cmd.key
      BY <2>2 DEF LastAnswered, Seen
    <3>2. PICK h : h = history[j]
      OBVIOUS
    <3>3. h.cmd = command[h.id]
      BY <3>2, Recorded DEF ValueInv, ReadInv, TypeInv, RecordInv
    <3>. QED  BY <3>1, <3>2, <3>3 DEF KeyAt
  <2>. QED  BY <2>2, <2>3, <2>4 DEF ValueInv, WonInv, KeyAt
<1>. QED  BY <1>1, ValueHolds, PTL
=============================================================================
