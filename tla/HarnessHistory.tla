---------------------------- MODULE HarnessHistory ----------------------------
(***************************************************************************)
(* Over a store that keeps its promise, and after a reset that succeeded,  *)
(* the verification run reports a linearizability violation only when the  *)
(* search ran into its five minutes, for any number of rounds, attempts    *)
(* and goroutines: the operations have an order in which they took effect, *)
(* and the checker, if it gets to the end, accepts a history that has one  *)
(* (module CheckerProofs).                                                 *)
(***************************************************************************)
EXTENDS HarnessAlarms

Checked == INSTANCE CheckerProofs WITH
             Commands <- Command, Outcomes <- {"ok", "failed", "unknown"},
             MaxOps <- ChaosOps, pending <- busy

-----------------------------------------------------------------------------
(* The invariants                                                          *)

\* phaseChaos waits for its clients.
ClientsInv == \A c \in Clients : busy[c] # 0 => Phase = "chaos" /\ at <= 1

\* No two calls at the same time.
StartInv == \A i, j \in DOMAIN calls : calls[i].start = calls[j].start => i = j

\* The reset clears its keys one after another, and all it does is delete.
ClearedInv ==
  Phase = "reset" =>
    /\ \A i \in DOMAIN calls : command[i].op = "delete"
    /\ \A k \in Keys \ Workload : data[k] = Nil
    /\ busy[Main] # 0 => at \in DOMAIN ResetKeys /\ command[busy[Main]].key = ResetKeys[at]
    /\ TookEffect(Main) => data[ResetKeys[at]] = Nil
    /\ pass => \A j \in DOMAIN ResetKeys : j < at => data[ResetKeys[j]] = Nil

\* The first n effects, from an empty map: which operations they are of, and
\* the maps they leave.
Effects(n, e, d) ==
  /\ n \in Nat /\ e \in [1 .. n -> DOMAIN calls] /\ d \in [0 .. n -> Data]
  /\ \A p, q \in 1 .. n : e[p] = e[q] => p = q
  /\ \A i \in DOMAIN calls : effect[i] # NoResult => \E p \in 1 .. n : e[p] = i
  /\ \A p \in 1 .. n : effect[e[p]] # NoResult
  /\ d[0] = EmptyData
  /\ \A p \in 1 .. n : d[p] = ApplyData(d[p - 1], command[e[p]])
  /\ \A p \in 1 .. n : command[e[p]].op # "delete" =>
       effect[e[p]] = ApplyResult(d[p - 1], command[e[p]])

\* An operation that was answered took effect before everything that was
\* called later.
InTime(n, e) ==
  \A p, q \in 1 .. n : p < q =>
    \A k \in DOMAIN history : history[k].id = e[q] /\ history[k].outcome = "ok" =>
      calls[e[p]].start <= history[k].end

\* What the recorded operations alone would have made of an empty map.
Cleared == IF Phase = "reset" THEN EmptyData ELSE data

EffectsInv ==
  checks["reset"] # "FAIL" =>
    \E n, e, d : Effects(n, e, d) /\ InTime(n, e) /\ d[n] = Cleared

ExplainedInv ==
  BaseInv /\ ClientsInv /\ StartInv /\ ClearedInv /\ EffectsInv /\ HistoryAlarmIsTimeout

-----------------------------------------------------------------------------
(* Calls and phases                                                        *)

\* Who calls in which phase.
LEMMA CallAt ==
  ASSUME TypeInv, [Next]_vars, calls' # calls
  PROVE  /\ UNCHANGED control
         /\ \/ At("reset", "first") /\ Call(Main, Delete(ResetKeys[at]))
            \/ /\ Phase \in {"smoke", "cas", "kill", "majority"}
               /\ \E t \in {Main} \cup Contenders : \E cmd : Call(t, cmd)
            \/ At("chaos", "first") /\ \E c \in Clients : \E cmd : Call(c, cmd)
<1>. DEFINE Third == At("chaos", "first") /\ \E c \in Clients : \E cmd : Call(c, cmd)
            Second == /\ Phase \in {"smoke", "cas", "kill", "majority"}
                      /\ \E t \in {Main} \cup Contenders : \E cmd : Call(t, cmd)
            First == At("reset", "first") /\ Call(Main, Delete(ResetKeys[at]))
            Goal == UNCHANGED control /\ (First \/ Second \/ Third)
<1>1. \A t : ~Return(t)
  BY DEF Return
<1>2. \A p, s : ~MainReturns(p, s)
  BY <1>1 DEF MainReturns
<1>3. \A p, s, cmd : MainCalls(p, s, cmd) => UNCHANGED control /\ At(p, s) /\ Call(Main, cmd)
  BY DEF MainCalls
<1>4. \A p, s, cmd : MainCalls(p, s, cmd) /\ p \in {"smoke", "cas", "kill", "majority"} => Goal
  BY <1>3 DEF At
<1>5. CASE Reset
  BY <1>2, <1>3, <1>5 DEF Reset
<1>6. CASE SmokePut \/ SmokeGet
  BY <1>2, <1>4, <1>6 DEF SmokePut, SmokeGet
<1>7. CASE CASSetup
  BY <1>2, <1>4, <1>7 DEF CASSetup
<1>8. CASE KillPut \/ KillGet
  BY <1>2, <1>4, <1>8 DEF KillPut, KillGet
<1>9. CASE MajorityPut \/ MajorityGet
  BY <1>2, <1>4, <1>9 DEF MajorityPut, MajorityGet
<1>10. CASE \E c \in Contenders : CASContend(c)
  BY <1>1, <1>10 DEF CASContend, At
<1>11. CASE \E c \in Clients : ChaosCall(c) \/ ChaosReturn(c)
  BY <1>1, <1>11 DEF ChaosCall, ChaosReturn
<1>12. /\ ~CASRound /\ ~MajorityNoLeader /\ ~ChaosStop /\ ~ChaosWait
       /\ ~EndPhase /\ ~Linearizability
  BY DEF CASRound, MajorityNoLeader, ChaosStop, ChaosWait, NothingElse, EndPhase, Linearizability
<1>13. \A i : ~Effect(i)
  BY DEF Effect
<1>14. ~UNCHANGED vars
  BY DEF vars
<1>. QED
  BY <1>5, <1>6, <1>7, <1>8, <1>9, <1>10, <1>11, <1>12, <1>13, <1>14 DEF Next

\* The reset does not come again.
LEMMA ResetIsFirst ==
  ASSUME ControlInv, TodoInv, NextPhase
  PROVE  Phase' # "reset"
<1>1. todo' \in Seq(Phases)
      /\ \A j \in DOMAIN todo' : j \in Nat \ {0} /\ j + 1 \in DOMAIN todo /\ todo'[j] = todo[j + 1]
  BY TailOf
<1>2. ASSUME Phase' = "reset" PROVE FALSE
  <2>1. todo' # <<>> /\ todo'[1] = "reset" /\ 1 \in DOMAIN todo'
    BY <1>1, <1>2 DEF Phase
  <2>2. 1 + 1 \in DOMAIN todo /\ todo[1 + 1] = "reset"
    BY <1>1, <2>1
  <2>. QED  BY <2>2 DEF TodoInv
<1>. QED  BY <1>2

\* A verdict is the end of a phase.
LEMMA PhaseEnds ==
  ASSUME ControlInv, [Next]_vars, NextPhase
  PROVE  EndPhase \/ Linearizability
<1>1. todo' # todo
  <2>1. todo \in Seq(Phases) /\ todo # <<>> /\ todo' = Tail(todo)
    BY DEF ControlInv, NextPhase, Phase
  <2>2. Len(Tail(todo)) = Len(todo) - 1 /\ Len(todo) \in Nat
    BY <2>1, HeadTailProperties
  <2>3. Len(todo') = Len(todo) - 1
    BY <2>1, <2>2
  <2>. QED  BY <2>2, <2>3
<1>2. \A p, s, cmd : ~MainCalls(p, s, cmd) /\ ~MainReturns(p, s)
  BY <1>1 DEF MainCalls, MainReturns, control
<1>3. ~Reset /\ ~SmokePut /\ ~SmokeGet /\ ~CASSetup
  BY <1>2 DEF Reset, SmokePut, SmokeGet, CASSetup
<1>4. ~KillPut /\ ~KillGet /\ ~MajorityPut /\ ~MajorityGet
  BY <1>2 DEF KillPut, KillGet, MajorityPut, MajorityGet
<1>5. ~CASRound /\ ~MajorityNoLeader /\ ~ChaosStop /\ ~ChaosWait /\ \A i : ~Effect(i)
  BY <1>1 DEF CASRound, MajorityNoLeader, ChaosStop, ChaosWait, NothingElse, Effect, control
<1>6. \A c : ~CASContend(c) /\ ~ChaosCall(c) /\ ~ChaosReturn(c)
  BY <1>1 DEF CASContend, ChaosCall, ChaosReturn, control
<1>7. ~UNCHANGED vars
  BY <1>1 DEF vars, control
<1>. QED  BY <1>3, <1>4, <1>5, <1>6, <1>7 DEF Next

\* The keys of a run are those it starts with.
LEMMA ResetKeysStay ==
  ASSUME ControlInv, [Next]_vars
  PROVE  Workload' = Workload /\ ResetKeys' = ResetKeys
<1>1. DOMAIN checks' = DOMAIN checks
  BY ControlKinds DEF NextPhase
<1>. QED  BY <1>1 DEF Workload, ResetKeys

\* Calls are made one after another.
LEMMA StartStep ==
  ASSUME TypeInv, StartInv, [Next]_vars
  PROVE  StartInv'
<1>0. ClientInv
  BY DEF TypeInv, ClientInv
<1>1. ASSUME NEW t \in Threads, NEW cmd \in Command, Calls(t, cmd) PROVE StartInv'
  <2>1. PICK n : n = Len(calls) + 1
    OBVIOUS
  <2>2. /\ DOMAIN calls' = DOMAIN calls \cup {n}
        /\ calls'[n] = [by |-> t, start |-> now + 1]
        /\ \A i \in DOMAIN calls : calls'[i] = calls[i]
    BY <1>0, <1>1, <2>1, CallEffect DEF Calls
  <2>3. now \in Nat /\ \A i \in DOMAIN calls : calls[i].start \in Nat /\ calls[i].start <= now
    BY <1>0, Called DEF ClientInv, CallInv
  <2>4. calls'[n].start = now + 1
    BY <2>2
  <2>5. \A i \in DOMAIN calls : calls'[i].start # now + 1
    BY <2>2, <2>3
  <2>. QED  BY <2>2, <2>4, <2>5 DEF StartInv
<1>2. CASE UNCHANGED calls
  BY <1>2 DEF StartInv
<1>. QED
  BY <1>0, <1>1, <1>2, StepKinds, TakesEffect, AnswerEffect DEF Returns, Stays

\* phaseChaos ends when its clients have returned.
LEMMA ClientsStep ==
  ASSUME TypeInv, ClientsInv, [Next]_vars
  PROVE  ClientsInv'
<1>0. ClientInv /\ ControlInv
  BY DEF TypeInv, ClientInv
<1>1. \A c \in Clients : c \in Threads /\ c # Main
  BY NamesFacts DEF Threads
<1>2. ASSUME NEW t \in Threads, NEW cmd \in Command, Calls(t, cmd) PROVE ClientsInv'
  <2>1. PICK n : n = Len(calls) + 1
    OBVIOUS
  <2>2. /\ DOMAIN calls' = DOMAIN calls \cup {n} /\ n \notin DOMAIN calls
        /\ busy' = [busy EXCEPT ![t] = n]
    BY <1>0, <1>2, <2>1, CallEffect DEF Calls
  <2>3. UNCHANGED control
    BY <1>2 DEF Calls
  <2>4. calls' # calls
    BY <2>2
  <2>5. CASE At("chaos", "first")
    <3>1. Phase' = "chaos" /\ at' <= 1
      BY <2>3, <2>5, CountIs DEF At, control, Phase
    <3>. QED  BY <3>1 DEF ClientsInv
  <2>6. ASSUME NEW u \in {Main} \cup Contenders, NEW x, Call(u, x) PROVE ClientsInv'
    <3>1. busy' = [busy EXCEPT ![u] = Len(calls) + 1] /\ u \notin Clients
      BY <2>6, NamesFacts DEF Call
    <3>2. \A c \in Clients : busy'[c] = busy[c]
      BY <1>0, <1>1, <3>1 DEF ClientInv, CallInv
    <3>. QED  BY <2>3, <3>2 DEF ClientsInv, control, Phase
  <2>. QED  BY <2>4, <2>5, <2>6, CallAt
<1>3. ASSUME NEW t \in Threads, Returns(t), UNCHANGED control PROVE ClientsInv'
  <2>1. \A u \in Threads : busy'[u] = IF u = t THEN 0 ELSE busy[u]
    BY <1>3, AnswerEffect DEF Returns
  <2>. QED  BY <1>1, <1>3, <2>1 DEF ClientsInv, control, Phase
<1>4. CASE Returns(Main) /\ Heard
  <2>1. \A u \in Threads : busy'[u] = IF u = Main THEN 0 ELSE busy[u]
    BY <1>4, AnswerEffect DEF Returns, Threads
  <2>2. Phase # "chaos"
    BY <1>4 DEF Heard, MainReturns, At
  <2>. QED  BY <1>1, <2>1, <2>2 DEF ClientsInv
<1>5. ASSUME NEW i \in DOMAIN calls, Effect(i) PROVE ClientsInv'
  <2>1. UNCHANGED <<busy, control>>
    BY <1>0, <1>5, TakesEffect
  <2>. QED  BY <2>1 DEF ClientsInv, control, Phase
<1>6. CASE ByItself
  <2>1. busy' = busy
    BY <1>6 DEF ByItself, CASRound, MajorityNoLeader, ChaosStop, ChaosWait, NothingElse, EndPhase,
                Linearizability
  <2>2. CASE ChaosStop
    <3>1. UNCHANGED <<todo, at>>
      BY <2>2 DEF ChaosStop, GoOn, NothingElse
    <3>. QED  BY <2>1, <3>1 DEF ClientsInv, Phase
  <2>3. ASSUME NEW c \in Clients, busy[c] # 0, ~ChaosStop PROVE FALSE
    <3>1. Phase = "chaos" /\ at <= 1 /\ at \in Nat
      BY <1>0, <2>3 DEF ClientsInv, ControlInv
    <3>2. EndPhase \/ ChaosWait
      BY <1>6, <2>3, <3>1 DEF ByItself, CASRound, MajorityNoLeader, Linearizability, At
    <3>3. EndPhase
      BY <2>3, <3>2 DEF ChaosWait
    <3>. QED  BY <3>1, <3>3, CountIs DEF EndPhase
  <2>. QED  BY <2>1, <2>2, <2>3 DEF ClientsInv
<1>7. CASE UNCHANGED vars
  BY <1>7 DEF ClientsInv, vars, control, Phase
<1>. QED  BY <1>2, <1>3, <1>4, <1>5, <1>6, <1>7, Steps

\* The reset clears its keys.
LEMMA ClearedStep ==
  ASSUME BaseInv, ClientsInv, ClearedInv, [Next]_vars
  PROVE  ClearedInv'
<1>. DEFINE M == busy[Main]
            R == ResetKeys
<1>0. /\ TypeInv /\ ClientInv /\ ControlInv /\ TodoInv /\ Main \in Threads
      /\ at \in Nat \ {0} /\ data \in Data
  BY DEF BaseInv, TypeInv, ClientInv, ControlInv, StoreInv, Threads
<1>1. /\ R \in Seq(Keys) /\ DOMAIN R = 1 .. Len(R) /\ Len(R) \in Nat /\ Count("reset") = Len(R)
      /\ \A j \in DOMAIN R : R[j] \in Keys /\ j \in Nat
  BY <1>0, ResetKeysType
<1>2. ResetKeys' = R /\ Workload' = Workload
  BY <1>0, ResetKeysStay
<1>. SUFFICES ASSUME Phase' = "reset" PROVE ClearedInv'
  BY DEF ClearedInv
<1>3. Phase = "reset" /\ UNCHANGED <<todo, checks>>
  BY <1>0, ControlKinds, ResetIsFirst DEF Phase
<1>4. /\ \A i \in DOMAIN calls : command[i].op = "delete"
      /\ \A k \in Keys \ Workload : data[k] = Nil
      /\ M # 0 => at \in DOMAIN R /\ command[M].key = R[at]
      /\ TookEffect(Main) => data[R[at]] = Nil
      /\ pass => \A j \in DOMAIN R : j < at => data[R[j]] = Nil
  BY <1>3 DEF ClearedInv
<1>. HIDE DEF R, M
<1>5. ASSUME NEW t \in Threads, NEW cmd \in Command, Calls(t, cmd) PROVE ClearedInv'
  <2>1. PICK n : n = Len(calls) + 1
    OBVIOUS
  <2>2. /\ DOMAIN calls' = DOMAIN calls \cup {n} /\ n \notin DOMAIN calls /\ n \in Invocations
        /\ UNCHANGED <<data, effect>> /\ effect[n] = NoResult
        /\ \A i \in DOMAIN calls : command'[i] = command[i]
    BY <1>0, <1>5, <2>1, CallEffect DEF Calls
  <2>3. At("reset", "first") /\ Call(Main, Delete(ResetKeys[at])) /\ UNCHANGED control
    BY <1>0, <1>3, <2>2, CallAt DEF At
  <2>4. /\ command' = [command EXCEPT ![n] = Delete(R[at])]
        /\ busy' = [busy EXCEPT ![Main] = n]
    BY <2>1, <2>3 DEF Call, Begin, R
  <2>5. command'[n] = Delete(R[at]) /\ busy'[Main] = n
    BY <1>0, <2>2, <2>4 DEF ClientInv, StoreInv, CallInv
  <2>6. command'[n].op = "delete" /\ command'[n].key = R[at]
    BY <2>5 DEF Delete
  <2>7. at \in DOMAIN R
    BY <1>0, <1>1, <2>3 DEF At
  <2>8. ~TookEffect(Main)'
    BY <2>2, <2>5 DEF TookEffect
  <2>9. UNCHANGED <<at, pass>>
    BY <2>3 DEF control
  <2>. QED  BY <1>2, <1>4, <2>2, <2>5, <2>6, <2>7, <2>8, <2>9 DEF ClearedInv
<1>6. ASSUME NEW t \in Threads \ {Main}, Returns(t), UNCHANGED control PROVE ClearedInv'
  <2>1. /\ UNCHANGED <<calls, command, data, effect>> /\ busy'[Main] = busy[Main]
    BY <1>0, <1>6, AnswerEffect DEF Returns
  <2>2. UNCHANGED <<at, pass>> /\ TookEffect(Main)' = TookEffect(Main)
    BY <1>6, <2>1 DEF control, TookEffect
  <2>. QED  BY <1>2, <1>4, <2>1, <2>2 DEF ClearedInv, M
<1>7. CASE Returns(Main) /\ Heard
  <2>1. /\ UNCHANGED <<calls, command, data, effect>> /\ busy'[Main] = 0 /\ M # 0
        /\ Answered => effect[M] # NoResult
    BY <1>0, <1>7, AnswerEffect DEF Returns, M
  <2>2. NextRound(Answered)
    BY <1>3, <1>7 DEF Heard, MainReturns, At
  <2>3. at' = at + 1 /\ (pass' => pass /\ Answered)
    BY <2>2 DEF NextRound
  <2>4. ASSUME pass', NEW j \in DOMAIN R, j < at + 1 PROVE data[R[j]] = Nil
    <3>1. TookEffect(Main)
      BY <2>1, <2>3, <2>4 DEF TookEffect, M
    <3>2. j = at \/ j < at
      BY <1>0, <1>1, <2>4
    <3>. QED  BY <1>4, <2>3, <2>4, <3>1, <3>2
  <2>5. ~TookEffect(Main)'
    BY <2>1 DEF TookEffect
  <2>. QED  BY <1>2, <1>4, <2>1, <2>3, <2>4, <2>5 DEF ClearedInv
<1>8. ASSUME NEW i \in DOMAIN calls, Effect(i) PROVE ClearedInv'
  <2>1. /\ UNCHANGED <<calls, command, busy, control>> /\ command[i] \in Command
        /\ data' = ApplyData(data, command[i])
        /\ effect[i] = NoResult /\ i \in Invocations
        /\ effect' = [effect EXCEPT ![i] = ApplyResult(data, command[i])]
    BY <1>0, <1>8, TakesEffect
  <2>2. data' = [data EXCEPT ![command[i].key] = Nil] /\ command[i].key \in Keys
    BY <1>4, <2>1 DEF ApplyData, Command
  <2>3. /\ data'[command[i].key] = Nil
        /\ \A k \in Keys : data[k] = Nil => data'[k] = Nil
    BY <1>0, <2>2 DEF Data
  <2>4. ASSUME TookEffect(Main)' PROVE data'[R[at]] = Nil
    <3>1. M # 0 /\ effect'[M] # NoResult
      BY <2>1, <2>4 DEF TookEffect, M
    <3>2. at \in DOMAIN R /\ command[M].key = R[at]
      BY <1>4, <3>1
    <3>3. CASE M = i
      BY <2>3, <3>2, <3>3
    <3>4. CASE M # i
      <4>1. effect'[M] = effect[M]
        BY <1>0, <2>1, <3>4 DEF ClientInv, StoreInv
      <4>. QED  BY <1>1, <1>4, <2>3, <3>1, <3>2, <4>1 DEF TookEffect, M
    <3>. QED  BY <3>3, <3>4
  <2>5. UNCHANGED <<at, pass>>
    BY <2>1 DEF control
  <2>. QED  BY <1>1, <1>2, <1>4, <2>1, <2>3, <2>4, <2>5 DEF ClearedInv, M
<1>9. CASE ByItself
  <2>1. EndPhase
    BY <1>3, <1>9
    DEF ByItself, CASRound, MajorityNoLeader, ChaosStop, ChaosWait, Linearizability, At
  <2>2. NextPhase
    BY <2>1 DEF EndPhase, NextPhase
  <2>. QED  BY <1>0, <2>2, ResetIsFirst
<1>10. CASE UNCHANGED vars
  <2>1. TookEffect(Main)' = TookEffect(Main)
    BY <1>10 DEF TookEffect, vars, absVars
  <2>. QED  BY <1>2, <1>4, <1>10, <2>1 DEF ClearedInv, vars, absVars, control, M
<1>. QED  BY <1>0, <1>5, <1>6, <1>7, <1>8, <1>9, <1>10, Steps

-----------------------------------------------------------------------------
(* The order of the effects                                                *)

\* What leaves calls, effects and answers alone, or only adds to them without
\* an effect or an early answer, keeps an order.
LEMMA EffectsStay ==
  ASSUME NEW n, NEW e, NEW d, Effects(n, e, d), InTime(n, e),
         DOMAIN calls \subseteq DOMAIN calls',
         \A i \in DOMAIN calls : /\ calls'[i] = calls[i] /\ command'[i] = command[i]
                                 /\ effect'[i] = effect[i],
         \A i \in DOMAIN calls' \ DOMAIN calls : effect'[i] = NoResult,
         \A k \in DOMAIN history' :
           \/ k \in DOMAIN history /\ history'[k] = history[k]
           \/ \A i \in DOMAIN calls : calls[i].start <= history'[k].end
  PROVE  Effects(n, e, d)' /\ InTime(n, e)'
<1>1. /\ n \in Nat /\ e \in [1 .. n -> DOMAIN calls] /\ d \in [0 .. n -> Data]
      /\ \A p, q \in 1 .. n : e[p] = e[q] => p = q
      /\ \A i \in DOMAIN calls : effect[i] # NoResult => \E p \in 1 .. n : e[p] = i
      /\ \A p \in 1 .. n : effect[e[p]] # NoResult
      /\ d[0] = EmptyData
      /\ \A p \in 1 .. n : d[p] = ApplyData(d[p - 1], command[e[p]])
      /\ \A p \in 1 .. n : command[e[p]].op # "delete" =>
           effect[e[p]] = ApplyResult(d[p - 1], command[e[p]])
  BY DEF Effects
<1>2. \A p \in 1 .. n : /\ e[p] \in DOMAIN calls /\ calls'[e[p]] = calls[e[p]]
                        /\ command'[e[p]] = command[e[p]] /\ effect'[e[p]] = effect[e[p]]
  BY <1>1
<1>3. e \in [1 .. n -> DOMAIN calls']
  BY <1>1
<1>4. \A i \in DOMAIN calls' : effect'[i] # NoResult => \E p \in 1 .. n : e[p] = i
  BY <1>1
<1>5. Effects(n, e, d)'
  <2>1. \A p \in 1 .. n : effect'[e[p]] # NoResult
    BY <1>1, <1>2
  <2>2. \A p \in 1 .. n : d[p] = ApplyData(d[p - 1], command'[e[p]])
    BY <1>1, <1>2
  <2>3. \A p \in 1 .. n : command'[e[p]].op # "delete" =>
          effect'[e[p]] = ApplyResult(d[p - 1], command'[e[p]])
    BY <1>1, <1>2
  <2>. QED  BY <1>1, <1>3, <1>4, <2>1, <2>2, <2>3 DEF Effects
<1>6. InTime(n, e)'
  <2>. SUFFICES ASSUME NEW p \in 1 .. n, NEW q \in 1 .. n, p < q, NEW k \in DOMAIN history',
                       history'[k].id = e[q], history'[k].outcome = "ok"
                PROVE  calls'[e[p]].start <= history'[k].end
    BY DEF InTime
  <2>. QED  BY <1>2 DEF InTime
<1>. QED  BY <1>5, <1>6

\* One more effect.
LEMMA EffectsGrow ==
  ASSUME ClientInv, NEW n, NEW e, NEW d, Effects(n, e, d), InTime(n, e),
         NEW i \in DOMAIN calls, Effect(i),
         command[i].op # "delete" => d[n] = data
  PROVE  \E e_1, d_1 : /\ Effects(n + 1, e_1, d_1)' /\ InTime(n + 1, e_1)'
                       /\ d_1[n + 1] = ApplyData(d[n], command[i])
<1>1. /\ n \in Nat /\ e \in [1 .. n -> DOMAIN calls] /\ d \in [0 .. n -> Data]
      /\ \A p, q \in 1 .. n : e[p] = e[q] => p = q
      /\ \A j \in DOMAIN calls : effect[j] # NoResult => \E p \in 1 .. n : e[p] = j
      /\ \A p \in 1 .. n : effect[e[p]] # NoResult
      /\ d[0] = EmptyData
      /\ \A p \in 1 .. n : d[p] = ApplyData(d[p - 1], command[e[p]])
      /\ \A p \in 1 .. n : command[e[p]].op # "delete" =>
           effect[e[p]] = ApplyResult(d[p - 1], command[e[p]])
  BY DEF Effects
<1>2. /\ outcome[i] \in {"pending", "unknown"} /\ effect[i] = NoResult /\ i \in Invocations
      /\ command[i] \in Command /\ effect'[i] # NoResult
      /\ effect' = [effect EXCEPT ![i] = ApplyResult(data, command[i])]
      /\ UNCHANGED <<calls, command, history>>
  BY TakesEffect
<1>3. effect'[i] = ApplyResult(data, command[i])
  BY <1>2 DEF ClientInv, StoreInv
<1>4. \A j \in DOMAIN calls : j # i => effect'[j] = effect[j]
  BY <1>2 DEF ClientInv, StoreInv, CallInv
<1>5. PICK m : m = n + 1
  OBVIOUS
<1>6. PICK e_1, d_1 : /\ e_1 = [p \in 1 .. m |-> IF p = m THEN i ELSE e[p]]
                      /\ d_1 = [p \in 0 .. m |->
                                  IF p = m THEN ApplyData(d[n], command[i]) ELSE d[p]]
  OBVIOUS
<1>7. /\ m \in Nat /\ m \in 1 .. m /\ m \in 0 .. m /\ m - 1 = n
      /\ \A p \in 1 .. m : p = m \/ p \in 1 .. n
      /\ \A p \in 1 .. n : /\ p \in 1 .. m /\ p # m /\ p \in 0 .. m
                           /\ p - 1 \in 0 .. m /\ p - 1 # m /\ p - 1 \in 0 .. n
      /\ \A p \in 0 .. m : p = m \/ p \in 0 .. n
      /\ n \in 0 .. m /\ n # m /\ 0 \in 0 .. m /\ 0 # m
  BY <1>1, <1>5
<1>8. /\ e_1[m] = i /\ \A p \in 1 .. n : e_1[p] = e[p]
      /\ d_1[m] = ApplyData(d[n], command[i]) /\ \A p \in 0 .. n : p \in 0 .. m /\ p # m => d_1[p] = d[p]
      /\ d_1[0] = d[0] /\ d_1[n] = d[n] /\ \A p \in 1 .. n : d_1[p] = d[p] /\ d_1[p - 1] = d[p - 1]
  BY <1>6, <1>7
<1>9. \A p \in 1 .. n : e[p] \in DOMAIN calls /\ e[p] # i /\ effect'[e[p]] = effect[e[p]]
  BY <1>1, <1>2, <1>4
<1>10. e_1 \in [1 .. m -> DOMAIN calls]
  BY <1>1, <1>6, <1>7
<1>11. d_1 \in [0 .. m -> Data]
  <2>1. ApplyData(d[n], command[i]) \in Data
    BY <1>1, <1>2, ApplyDataType
  <2>. QED  BY <1>1, <1>6, <1>7, <2>1
<1>12. ASSUME NEW p \in 1 .. m, NEW q \in 1 .. m, e_1[p] = e_1[q] PROVE p = q
  <2>1. CASE p \in 1 .. n /\ q \in 1 .. n
    <3>1. e[p] = e[q]
      BY <1>8, <1>12, <2>1
    <3>. QED  BY <1>1, <2>1, <3>1
  <2>2. CASE p = m /\ q \in 1 .. n
    BY <1>8, <1>9, <1>12, <2>2
  <2>3. CASE p \in 1 .. n /\ q = m
    BY <1>8, <1>9, <1>12, <2>3
  <2>. QED  BY <1>7, <2>1, <2>2, <2>3
<1>13. ASSUME NEW j \in DOMAIN calls, effect'[j] # NoResult PROVE \E p \in 1 .. m : e_1[p] = j
  <2>1. CASE j = i
    BY <1>7, <1>8, <2>1
  <2>2. CASE j # i
    <3>1. PICK p \in 1 .. n : e[p] = j
      BY <1>1, <1>4, <1>13, <2>2
    <3>. QED  BY <1>7, <1>8, <3>1
  <2>. QED  BY <2>1, <2>2
<1>14. ASSUME NEW p \in 1 .. m PROVE effect'[e_1[p]] # NoResult
  <2>1. CASE p = m
    BY <1>2, <1>8, <2>1
  <2>2. CASE p \in 1 .. n
    <3>1. e_1[p] = e[p] /\ effect'[e[p]] = effect[e[p]]
      BY <1>8, <1>9, <2>2
    <3>. QED  BY <1>1, <2>2, <3>1
  <2>. QED  BY <1>7, <2>1, <2>2
<1>15. ASSUME NEW p \in 1 .. m PROVE d_1[p] = ApplyData(d_1[p - 1], command[e_1[p]])
  <2>1. CASE p = m
    BY <1>7, <1>8, <2>1
  <2>2. CASE p \in 1 .. n
    <3>1. e_1[p] = e[p] /\ d_1[p] = d[p] /\ d_1[p - 1] = d[p - 1]
      BY <1>8, <2>2
    <3>. QED  BY <1>1, <2>2, <3>1
  <2>. QED  BY <1>7, <2>1, <2>2
<1>16. ASSUME NEW p \in 1 .. m, command[e_1[p]].op # "delete"
       PROVE  effect'[e_1[p]] = ApplyResult(d_1[p - 1], command[e_1[p]])
  <2>1. CASE p = m
    BY <1>3, <1>7, <1>8, <1>16, <2>1
  <2>2. CASE p \in 1 .. n
    <3>1. e_1[p] = e[p] /\ d_1[p - 1] = d[p - 1] /\ effect'[e[p]] = effect[e[p]]
      BY <1>8, <1>9, <2>2
    <3>. QED  BY <1>1, <1>16, <2>2, <3>1
  <2>. QED  BY <1>7, <2>1, <2>2
<1>17. Effects(m, e_1, d_1)'
  BY <1>1, <1>2, <1>7, <1>8, <1>10, <1>11, <1>12, <1>13, <1>14, <1>15, <1>16 DEF Effects
<1>18. InTime(m, e_1)'
  <2>1. \A k \in DOMAIN history : history[k].id = i => history[k].outcome # "ok"
    BY <1>2, Recorded DEF ClientInv, RecordInv
  <2>2. ASSUME NEW p \in 1 .. m, NEW q \in 1 .. m, p < q, NEW k \in DOMAIN history,
               history[k].id = e_1[q], history[k].outcome = "ok"
        PROVE  calls[e_1[p]].start <= history[k].end
    <3>1. q # m /\ q \in 1 .. n
      BY <1>7, <1>8, <2>1, <2>2
    <3>2. p \in 1 .. n
      BY <1>1, <2>2, <3>1
    <3>. QED  BY <1>8, <2>2, <3>1, <3>2 DEF InTime
  <2>. QED  BY <1>2, <2>2 DEF InTime
<1>. QED  BY <1>5, <1>8, <1>17, <1>18

\* In the reset nothing but deletes takes effect, after it every effect is
\* on the map that the recorded operations have made.
LEMMA EffectsStep ==
  ASSUME BaseInv, ClientsInv, ClearedInv, EffectsInv, [Next]_vars
  PROVE  EffectsInv'
<1>0. /\ TypeInv /\ ClientInv /\ ControlInv /\ TodoInv /\ "reset" \in DOMAIN checks
      /\ data \in Data
  BY ResetPlanned DEF BaseInv, TypeInv, ClientInv, StoreInv
<1>1. CASE UNCHANGED <<todo, checks>>
  <2>. SUFFICES ASSUME checks["reset"] # "FAIL"
                PROVE  \E n, e, d : Effects(n, e, d)' /\ InTime(n, e)' /\ d[n] = Cleared'
    BY <1>1 DEF EffectsInv
  <2>1. PICK n, e, d : Effects(n, e, d) /\ InTime(n, e) /\ d[n] = Cleared
    BY DEF EffectsInv
  <2>2. Phase' = Phase
    BY <1>1 DEF Phase
  <2>3. ASSUME UNCHANGED data,
               DOMAIN calls \subseteq DOMAIN calls',
               \A i \in DOMAIN calls : /\ calls'[i] = calls[i] /\ command'[i] = command[i]
                                       /\ effect'[i] = effect[i],
               \A i \in DOMAIN calls' \ DOMAIN calls : effect'[i] = NoResult,
               \A k \in DOMAIN history' :
                 \/ k \in DOMAIN history /\ history'[k] = history[k]
                 \/ \A i \in DOMAIN calls : calls[i].start <= history'[k].end
        PROVE  \E n_1, e_1, d_1 :
                 Effects(n_1, e_1, d_1)' /\ InTime(n_1, e_1)' /\ d_1[n_1] = Cleared'
    <3>1. Effects(n, e, d)' /\ InTime(n, e)'
      BY <2>1, <2>3, EffectsStay
    <3>2. Cleared' = Cleared
      BY <2>2, <2>3 DEF Cleared
    <3>. QED  BY <2>1, <3>1, <3>2
  <2>4. ASSUME NEW t \in Threads, NEW cmd \in Command, Calls(t, cmd)
        PROVE  \E n_1, e_1, d_1 :
                 Effects(n_1, e_1, d_1)' /\ InTime(n_1, e_1)' /\ d_1[n_1] = Cleared'
    <3>1. PICK i : i = Len(calls) + 1
      OBVIOUS
    <3>2. /\ DOMAIN calls' = DOMAIN calls \cup {i} /\ effect[i] = NoResult
          /\ UNCHANGED <<data, effect, history>>
          /\ \A j \in DOMAIN calls : calls'[j] = calls[j] /\ command'[j] = command[j]
      BY <1>0, <2>4, <3>1, CallEffect DEF Calls
    <3>. QED  BY <2>3, <3>2
  <2>5. ASSUME NEW t \in Threads, Returns(t)
        PROVE  \E n_1, e_1, d_1 :
                 Effects(n_1, e_1, d_1)' /\ InTime(n_1, e_1)' /\ d_1[n_1] = Cleared'
    <3>1. PICK i : i = busy[t]
      OBVIOUS
    <3>2. PICK h \in Record : h.end = now + 1 /\ history' = Append(history, h)
      BY <1>0, <2>5, <3>1, ReturnEffect DEF Returns
    <3>3. UNCHANGED <<data, command, effect, calls>>
      BY <1>0, <2>5, <3>1, ReturnEffect DEF Returns
    <3>4. PICK s : s = history'
      OBVIOUS
    <3>5. /\ DOMAIN s = DOMAIN history \cup {Len(history) + 1} /\ s[Len(history) + 1] = h
          /\ \A k \in DOMAIN history : s[k] = history[k]
      BY <1>0, <3>2, <3>4, AppendElements DEF ClientInv, HistoryInv
    <3>6. \A j \in DOMAIN calls : calls[j].start <= now + 1
      BY <1>0, Called DEF ClientInv, CallInv
    <3>7. \A k \in DOMAIN history' :
            \/ k \in DOMAIN history /\ history'[k] = history[k]
            \/ \A j \in DOMAIN calls : calls[j].start <= history'[k].end
      BY <3>2, <3>4, <3>5, <3>6
    <3>. QED  BY <2>3, <3>3, <3>7
  <2>6. ASSUME NEW i \in DOMAIN calls, Effect(i)
        PROVE  \E n_1, e_1, d_1 :
                 Effects(n_1, e_1, d_1)' /\ InTime(n_1, e_1)' /\ d_1[n_1] = Cleared'
    <3>1. data' = ApplyData(data, command[i]) /\ command[i] \in Command
      BY <1>0, <2>6, TakesEffect
    <3>2. Phase = "reset" => command[i].op = "delete"
      BY DEF ClearedInv
    <3>3. command[i].op # "delete" => d[n] = data
      BY <2>1, <3>2 DEF Cleared
    <3>4. PICK e_1, d_1 : /\ Effects(n + 1, e_1, d_1)' /\ InTime(n + 1, e_1)'
                          /\ d_1[n + 1] = ApplyData(d[n], command[i])
      BY <1>0, <2>1, <2>6, <3>3, EffectsGrow
    <3>5. ApplyData(d[n], command[i]) = Cleared'
      <4>1. CASE Phase = "reset"
        <5>1. d[n] = EmptyData /\ Cleared' = EmptyData
          BY <2>1, <2>2, <4>1 DEF Cleared
        <5>2. ApplyData(EmptyData, command[i]) = EmptyData
          BY <3>2, <4>1 DEF ApplyData, EmptyData
        <5>. QED  BY <5>1, <5>2
      <4>2. CASE Phase # "reset"
        BY <2>1, <2>2, <3>1, <4>2 DEF Cleared
      <4>. QED  BY <4>1, <4>2
    <3>. QED  BY <3>4, <3>5
  <2>7. CASE Stays
    BY <2>3, <2>7 DEF Stays, absVars
  <2>. QED  BY <1>0, <2>4, <2>5, <2>6, <2>7, StepKinds
<1>2. CASE NextPhase /\ Stays
  <2>. SUFFICES ASSUME checks'["reset"] # "FAIL"
                PROVE  \E n, e, d : Effects(n, e, d)' /\ InTime(n, e)' /\ d[n] = Cleared'
    BY DEF EffectsInv
  <2>1. PICK v \in {"PASS", "FAIL"} : checks' = [checks EXCEPT ![Phase] = v]
    BY <1>2 DEF NextPhase
  <2>2. Phase' # "reset" /\ UNCHANGED <<data, command, effect, calls, history>>
    BY <1>0, <1>2, ResetIsFirst DEF Stays, absVars
  <2>3. checks["reset"] # "FAIL"
    <3>1. CASE Phase = "reset"
      <4>1. 1 \in DOMAIN todo /\ todo[1] = "reset"
        BY <1>0, <3>1, PhaseOfPlan DEF Phase, Phases, ControlInv
      <4>. QED  BY <1>0, <4>1 DEF TodoInv
    <3>2. CASE Phase # "reset"
      <4>1. checks'["reset"] = checks["reset"]
        BY <1>0, <2>1, <3>2 DEF ControlInv
      <4>. QED  BY <4>1
    <3>. QED  BY <3>1, <3>2
  <2>4. PICK n, e, d : Effects(n, e, d) /\ InTime(n, e) /\ d[n] = Cleared
    BY <2>3 DEF EffectsInv
  <2>5. Cleared = data
    <3>1. CASE Phase # "reset"
      BY <3>1 DEF Cleared
    <3>2. CASE Phase = "reset"
      <4>1. EndPhase
        BY <1>0, <1>2, <3>2, PhaseEnds DEF Linearizability
      <4>2. pass /\ at > Count("reset")
        <5>1. PICK w : w = IF pass THEN "PASS" ELSE "FAIL"
          OBVIOUS
        <5>2. checks' = [checks EXCEPT !["reset"] = w]
          BY <3>2, <4>1, <5>1 DEF EndPhase
        <5>3. w # "FAIL"
          BY <1>0, <5>2 DEF ControlInv
        <5>. QED  BY <3>2, <4>1, <5>1, <5>3 DEF EndPhase
      <4>3. \A j \in DOMAIN ResetKeys : j < at
        BY <1>0, <4>2, ResetKeysType DEF ControlInv
      <4>4. \A k \in Workload : data[k] = Nil
        <5>1. \A j \in DOMAIN ResetKeys : data[ResetKeys[j]] = Nil
          BY <3>2, <4>2, <4>3 DEF ClearedInv
        <5>. QED  BY <1>0, <5>1, ResetKeysType
      <4>5. \A k \in Keys : data[k] = Nil
        BY <3>2, <4>4 DEF ClearedInv
      <4>. QED  BY <1>0, <3>2, <4>5 DEF Cleared, EmptyData, Data
    <3>. QED  BY <3>1, <3>2
  <2>6. Effects(n, e, d)' /\ InTime(n, e)'
    BY <2>2, <2>4, EffectsStay
  <2>7. Cleared' = data
    BY <2>2 DEF Cleared
  <2>. QED  BY <2>4, <2>5, <2>6, <2>7
<1>. QED  BY <1>0, <1>1, <1>2, ControlKinds

-----------------------------------------------------------------------------
(* The verdict                                                             *)

\* The history as module Checker has it, without the identities.
Anonymous ==
  [k \in DOMAIN history |->
     [cmd |-> history[k].cmd, start |-> history[k].start, end |-> history[k].end,
      outcome |-> history[k].outcome, res |-> history[k].res]]

\* The verdict does not depend on the instance it is asked of.
LEMMA CheckIs ==
  ASSUME NEW ops, NEW finished
  PROVE  Checked!Check(ops, finished) = Verdict!Check(ops, finished)
BY DEF Checked!Check, Verdict!Check, Checked!CheckOperations, Verdict!CheckOperations,
       Checked!Partition, Verdict!Partition,
       Checked!ToOperations, Verdict!ToOperations, Checked!Horizon, Verdict!Horizon,
       Checked!Max, Verdict!Max, Checked!Converted, Verdict!Converted,
       Checked!ZeroResult, Verdict!ZeroResult, Checked!Res, Verdict!Res,
       Checked!Dropped, Verdict!Dropped, Checked!SetToSeqs, Verdict!SetToSeqs,
       Checked!Cardinality, Verdict!Cardinality, Checked!IsFiniteSet, Verdict!IsFiniteSet,
       Checked!RealTime, Verdict!RealTime, Checked!Accepted, Verdict!Accepted,
       Checked!FoldLeft, Verdict!FoldLeft, Checked!MapThenFoldSet, Verdict!MapThenFoldSet,
       Checked!Verdict, Verdict!Verdict, Checked!Step, Verdict!Step,
       Checked!StepCAS, Verdict!StepCAS, Checked!StateMatches, Verdict!StateMatches,
       Checked!InitState, Verdict!InitState, Checked!KVState, Verdict!KVState

\* Nor on the identities.
LEMMA CheckAnonymous ==
  ASSUME NEW finished
  PROVE  Checked!Check(Anonymous, finished) = Checked!Check(history, finished)
<1>. PICK a : a = Anonymous
  OBVIOUS
<1>1. /\ DOMAIN a = DOMAIN history
      /\ \A k \in DOMAIN history :
           /\ a[k].cmd = history[k].cmd /\ a[k].start = history[k].start
           /\ a[k].end = history[k].end /\ a[k].outcome = history[k].outcome
           /\ a[k].res = history[k].res
  BY DEF Anonymous
<1>2. {a[k].end : k \in DOMAIN a} = {history[k].end : k \in DOMAIN history}
  BY <1>1
<1>3. {a[k].start : k \in DOMAIN a} = {history[k].start : k \in DOMAIN history}
  BY <1>1
<1>4. Checked!Horizon(a) = Checked!Horizon(history)
  BY <1>2, <1>3 DEF Checked!Horizon
<1>. PICK t : t = Checked!Horizon(history)
  OBVIOUS
<1>5. \A k \in DOMAIN history : Checked!Dropped(a[k]) <=> Checked!Dropped(history[k])
  BY <1>1 DEF Checked!Dropped
<1>6. \A k \in DOMAIN history : Checked!Converted(a[k], t) = Checked!Converted(history[k], t)
  BY <1>1 DEF Checked!Converted
<1>7. Checked!ToOperations(a) = Checked!ToOperations(history)
  BY <1>1, <1>4, <1>5, <1>6 DEF Checked!ToOperations
<1>. QED  BY <1>7 DEF Checked!Check

\* The anonymous history has the types the checker needs.
LEMMA AnonymousTimed ==
  ASSUME BaseInv, StartInv
  PROVE  Checked!Timed(Anonymous, now)
<1>. PICK a : a = Anonymous
  OBVIOUS
<1>0. ClientInv /\ now \in Nat
  BY DEF BaseInv, TypeInv, ClientInv, CallInv
<1>1. history \in Seq(Record) /\ DOMAIN history = 1 .. Len(history) /\ Len(history) \in Nat
  BY <1>0 DEF ClientInv, HistoryInv
<1>2. ASSUME NEW k \in DOMAIN history
      PROVE  /\ history[k] \in Record /\ RecordInv(history[k])
  BY <1>0, <1>2, Recorded DEF ClientInv
<1>3. DOMAIN a = DOMAIN history
  BY DEF Anonymous
<1>4. ASSUME NEW k \in DOMAIN history
      PROVE  /\ a[k] \in Checked!Op /\ a[k].start <= a[k].end /\ a[k].end <= now
             /\ a[k].start = calls[history[k].id].start /\ history[k].id \in DOMAIN calls
  <2>1. a[k] = [cmd |-> history[k].cmd, start |-> history[k].start, end |-> history[k].end,
                outcome |-> history[k].outcome, res |-> history[k].res]
    BY DEF Anonymous
  <2>2. a[k] \in Checked!Op
    BY <1>2, <2>1 DEF Record, Checked!Op, Checked!Result, Result
  <2>3. history[k].start < history[k].end /\ history[k].end <= now
        /\ history[k].start \in Nat /\ history[k].end \in Nat
    BY <1>2 DEF RecordInv, Record
  <2>4. a[k].start <= a[k].end /\ a[k].end <= now
    BY <2>1, <2>3
  <2>. QED  BY <1>2, <2>1, <2>2, <2>4 DEF RecordInv
<1>5. a \in Seq(Checked!Op)
  BY <1>1, <1>3, <1>4, SeqDef DEF Anonymous
<1>6. ASSUME NEW j \in DOMAIN a, NEW k \in DOMAIN a, a[j].start = a[k].start PROVE j = k
  <2>1. history[j].id = history[k].id
    BY <1>3, <1>4, <1>6 DEF StartInv
  <2>. QED  BY <1>0, <1>3, <2>1 DEF ClientInv, HistoryInv
<1>. QED  BY <1>0, <1>3, <1>4, <1>5, <1>6 DEF Checked!Timed

\* The checker's state machine is the store's.
LEMMA SameMachine ==
  ASSUME NEW d, NEW cmd
  PROVE  /\ Checked!ApplyData(d, cmd) = ApplyData(d, cmd)
         /\ Checked!ApplyResult(d, cmd) = ApplyResult(d, cmd)
         /\ Checked!Data = Data /\ Checked!EmptyData = EmptyData
BY DEF Checked!ApplyData, ApplyData, Checked!ApplyResult, ApplyResult, Checked!Data, Data,
       Checked!EmptyData, EmptyData, Checked!CASMatches, CASMatches, Checked!Lookup, Lookup,
       Checked!Present, Present, Checked!Res, Res

\* When the history is checked, everybody has returned.
LEMMA AllReturned ==
  ASSUME BaseInv, ClientsInv, Phase = "linearizability", NEW i \in DOMAIN calls
  PROVE  \E k \in DOMAIN history : history[k].id = i
<1>1. \A t \in Threads : busy[t] = 0
  <2>1. \A t \in {Main} \cup Contenders : busy[t] = 0
    BY DEF BaseInv, WaitInv, Asked
  <2>2. \A c \in Clients : busy[c] = 0
    BY DEF ClientsInv
  <2>. QED  BY <2>1, <2>2 DEF Threads
<1>2. calls[i].by \in Threads /\ i # 0
  BY Called DEF BaseInv, TypeInv
<1>3. outcome[i] # "pending"
  BY <1>1, <1>2 DEF BaseInv, TypeInv, CallInv
<1>. QED  BY <1>3 DEF BaseInv, OutcomeInv

\* The order of the effects explains the history.
LEMMA HistoryExplained ==
  ASSUME BaseInv, ClientsInv, Phase = "linearizability",
         NEW n, NEW e, NEW d, Effects(n, e, d), InTime(n, e)
  PROVE  \E f : Checked!Explanation(Anonymous, n, f, d)
<1>. PICK a : a = Anonymous
  OBVIOUS
<1>0. ClientInv /\ OutcomeInv
  BY DEF BaseInv, TypeInv, ClientInv
<1>1. /\ n \in Nat /\ e \in [1 .. n -> DOMAIN calls] /\ d \in [0 .. n -> Data]
      /\ \A p, q \in 1 .. n : e[p] = e[q] => p = q
      /\ \A i \in DOMAIN calls : effect[i] # NoResult => \E p \in 1 .. n : e[p] = i
      /\ \A p \in 1 .. n : effect[e[p]] # NoResult
      /\ d[0] = EmptyData
      /\ \A p \in 1 .. n : d[p] = ApplyData(d[p - 1], command[e[p]])
      /\ \A p \in 1 .. n : command[e[p]].op # "delete" =>
           effect[e[p]] = ApplyResult(d[p - 1], command[e[p]])
  BY DEF Effects
<1>2. /\ DOMAIN a = DOMAIN history
      /\ \A k \in DOMAIN history :
           /\ a[k].cmd = history[k].cmd /\ a[k].start = history[k].start
           /\ a[k].end = history[k].end /\ a[k].outcome = history[k].outcome
           /\ a[k].res = history[k].res
  BY DEF Anonymous
<1>3. ASSUME NEW k \in DOMAIN history
      PROVE  /\ history[k].id \in DOMAIN calls
             /\ history[k].cmd = command[history[k].id]
             /\ history[k].start = calls[history[k].id].start
             /\ history[k].outcome = outcome[history[k].id]
             /\ history[k].outcome = "ok" =>
                  effect[history[k].id] # NoResult /\ history[k].res = effect[history[k].id]
  BY <1>0, <1>3, Recorded DEF ClientInv, RecordInv
<1>4. PICK f : f = [p \in 1 .. n |-> CHOOSE k \in DOMAIN history : history[k].id = e[p]]
  OBVIOUS
<1>5. ASSUME NEW p \in 1 .. n
      PROVE  f[p] \in DOMAIN history /\ history[f[p]].id = e[p] /\ e[p] \in DOMAIN calls
  BY <1>1, <1>4, <1>5, AllReturned
<1>6. f \in [1 .. n -> DOMAIN a]
  BY <1>2, <1>4, <1>5
<1>7. \A p, q \in 1 .. n : f[p] = f[q] => p = q
  <2>. SUFFICES ASSUME NEW p \in 1 .. n, NEW q \in 1 .. n, f[p] = f[q] PROVE p = q
    OBVIOUS
  <2>1. e[p] = e[q]
    BY <1>5
  <2>. QED  BY <1>1, <2>1
<1>8. ASSUME NEW k \in DOMAIN a, a[k].outcome = "ok" PROVE \E p \in 1 .. n : f[p] = k
  <2>1. PICK p \in 1 .. n : e[p] = history[k].id
    BY <1>1, <1>2, <1>3, <1>8
  <2>2. f[p] = k
    BY <1>0, <1>2, <1>5, <2>1 DEF ClientInv, HistoryInv
  <2>. QED  BY <2>2
<1>9. ASSUME NEW p \in 1 .. n PROVE a[f[p]].outcome # "failed"
  <2>1. a[f[p]].outcome = outcome[e[p]]
    BY <1>2, <1>3, <1>5
  <2>2. effect[e[p]] # NoResult
    BY <1>1
  <2>. QED  BY <1>0, <1>5, <2>1, <2>2 DEF OutcomeInv
<1>10. ASSUME NEW p \in 1 .. n, NEW q \in 1 .. n, p < q, a[f[q]].outcome = "ok"
       PROVE  a[f[p]].start <= a[f[q]].end
  <2>1. calls[e[p]].start <= history[f[q]].end
    BY <1>2, <1>5, <1>10 DEF InTime
  <2>. QED  BY <1>2, <1>3, <1>5, <2>1
<1>11. \A p \in 1 .. n : a[f[p]].cmd = command[e[p]]
  BY <1>2, <1>3, <1>5
<1>12. ASSUME NEW p \in 1 .. n, a[f[p]].outcome = "ok"
       PROVE  Checked!SameVerdict(a[f[p]], ApplyResult(d[p - 1], a[f[p]].cmd))
  <2>1. a[f[p]].res = effect[e[p]]
    BY <1>2, <1>3, <1>5, <1>12
  <2>2. a[f[p]].cmd.op # "delete" => a[f[p]].res = ApplyResult(d[p - 1], a[f[p]].cmd)
    BY <1>1, <1>11, <2>1
  <2>. QED  BY <2>2 DEF Checked!SameVerdict
<1>13. Checked!Explanation(a, n, f, d)
  <2>1. d \in [0 .. n -> Checked!Data] /\ d[0] = Checked!EmptyData
    BY <1>1, SameMachine
  <2>2. \A p \in 1 .. n : d[p] = Checked!ApplyData(d[p - 1], a[f[p]].cmd)
    BY <1>1, <1>11, SameMachine
  <2>3. ASSUME NEW p \in 1 .. n, a[f[p]].outcome = "ok"
        PROVE  Checked!SameVerdict(a[f[p]], Checked!ApplyResult(d[p - 1], a[f[p]].cmd))
    BY <1>12, <2>3, SameMachine
  <2>. QED
    BY <1>1, <1>6, <1>7, <1>8, <1>9, <1>10, <2>1, <2>2, <2>3, Zenon DEF Checked!Explanation
<1>. QED  BY <1>13

\* phaseLinearizability passes when its history is explained and the search ends.
LEMMA HistoryPasses ==
  ASSUME BaseInv, ClientsInv, StartInv, Phase = "linearizability",
         NEW n, NEW e, NEW d, Effects(n, e, d), InTime(n, e)
  PROVE  Verdict!Check(history, TRUE)
<1>1. PICK f : Checked!Explanation(Anonymous, n, f, d)
  BY HistoryExplained
<1>2. Checked!Timed(Anonymous, now)
  BY AnonymousTimed
<1>3. Command \subseteq Checked!Command /\ ChaosOps \in Nat
  BY NamesFacts DEF Command, Checked!Command, Ops, Checked!Ops
<1>4. Checked!Check(Anonymous, TRUE)
  BY <1>1, <1>2, <1>3, KVAssumption, Checked!ExplainedAccepted
<1>. QED  BY <1>4, CheckAnonymous, CheckIs

\* A verdict is not revised, and that of the history is the right one.
LEMMA AcceptedStep ==
  ASSUME BaseInv, ClientsInv, StartInv, EffectsInv, HistoryAlarmIsTimeout, [Next]_vars
  PROVE  HistoryAlarmIsTimeout'
<1>0. /\ TypeInv /\ ControlInv /\ TodoInv /\ "reset" \in DOMAIN checks
      /\ "linearizability" \in DOMAIN checks
  <2>1. ControlInv
    BY DEF BaseInv, TypeInv
  <2>2. PICK plan \in Plans : DOMAIN checks = ToSet(plan)
    BY <2>1 DEF ControlInv
  <2>. QED  BY <2>1, <2>2, PlanFacts DEF BaseInv, TypeInv
<1>1. CASE UNCHANGED <<todo, checks, timedOut>>
  BY <1>1 DEF HistoryAlarmIsTimeout
<1>2. CASE NextPhase
  <2>. SUFFICES ASSUME checks'["reset"] = "PASS", checks'["linearizability"] = "FAIL"
                PROVE  timedOut'
    BY DEF HistoryAlarmIsTimeout
  <2>1. PICK v \in {"PASS", "FAIL"} : checks' = [checks EXCEPT ![Phase] = v]
    BY <1>2 DEF NextPhase
  <2>2. /\ Phase # "reset" => checks'["reset"] = checks["reset"]
        /\ Phase # "linearizability" => checks'["linearizability"] = checks["linearizability"]
        /\ Phase \in DOMAIN checks => checks'[Phase] = v
    BY <1>0, <2>1 DEF ControlInv
  <2>3. CASE Phase = "reset"
    <3>1. 1 \in DOMAIN todo /\ todo[1] = "reset"
      BY <1>0, <2>3, PhaseOfPlan DEF Phase, Phases, ControlInv
    <3>2. checks["linearizability"] = "none"
      BY <1>0, <3>1 DEF TodoInv
    <3>. QED  BY <2>2, <2>3, <3>2
  <2>4. CASE Phase = "linearizability"
    <3>1. checks["reset"] # "FAIL"
      BY <2>2, <2>4
    <3>2. PICK n, e, d : Effects(n, e, d) /\ InTime(n, e)
      BY <3>1 DEF EffectsInv
    <3>3. Verdict!Check(history, TRUE)
      BY <2>4, <3>2, HistoryPasses
    <3>4. Linearizability
      BY <1>0, <1>2, <2>4, PhaseEnds DEF EndPhase
    <3>5. PICK finished \in BOOLEAN :
            /\ timedOut' = ~finished
            /\ checks' = [checks EXCEPT ![Phase] = IF Verdict!Check(history, finished)
                                                    THEN "PASS" ELSE "FAIL"]
      BY <3>4 DEF Linearizability
    <3>6. CASE finished = TRUE
      <4>1. checks' = [checks EXCEPT !["linearizability"] = "PASS"]
        BY <2>4, <3>3, <3>5, <3>6
      <4>. QED  BY <1>0, <4>1 DEF ControlInv
    <3>7. CASE finished = FALSE
      BY <3>5, <3>7
    <3>. QED  BY <3>5, <3>6, <3>7
  <2>5. CASE Phase # "reset" /\ Phase # "linearizability"
    <3>1. timedOut' = timedOut
      BY <1>0, <1>2, <2>5, PhaseEnds DEF EndPhase, Linearizability
    <3>. QED  BY <2>2, <2>5, <3>1 DEF HistoryAlarmIsTimeout
  <2>. QED  BY <2>3, <2>4, <2>5
<1>. QED  BY <1>0, <1>1, <1>2, ControlKinds

LEMMA InitExplained ==
  ASSUME Init
  PROVE  ExplainedInv
<1>1. BaseInv
  BY InitBase
<1>2. /\ DOMAIN calls = {} /\ DOMAIN history = {} /\ at = 1 /\ todo \in Plans
      /\ checks = [p \in ToSet(todo) |-> "none"]
      /\ \A k \in Keys \ Workload : data[k] = Nil
      /\ \A t \in Threads : busy[t] = 0
  BY DEF Init
<1>3. ClientsInv
  BY <1>2 DEF ClientsInv, Threads
<1>4. StartInv
  BY <1>2 DEF StartInv
<1>5. ControlInv /\ "reset" \in DOMAIN checks
  BY <1>1, ResetPlanned DEF BaseInv, TypeInv
<1>6. ClearedInv
  <2>1. busy[Main] = 0 /\ ~TookEffect(Main)
    BY <1>2 DEF Threads, TookEffect
  <2>2. \A j \in DOMAIN ResetKeys : ~(j < 1)
    BY <1>5, ResetKeysType
  <2>. QED  BY <1>2, <2>1, <2>2 DEF ClearedInv
<1>7. Phase = "reset"
  <2>1. todo \in Seq(Phases) /\ "reset" \in ToSet(todo)
    BY <1>2, PlanFacts
  <2>2. PICK i \in DOMAIN todo : todo[i] = "reset"
    BY <2>1 DEF ToSet
  <2>3. i = 1
    BY <1>1, <2>2 DEF BaseInv, TodoInv
  <2>4. todo # <<>>
    BY <2>1, <2>2
  <2>. QED  BY <2>2, <2>3, <2>4 DEF Phase
<1>8. EffectsInv
  <2>. DEFINE e == [p \in 1 .. 0 |-> 0]
              d == [p \in 0 .. 0 |-> EmptyData]
  <2>1. e \in [1 .. 0 -> DOMAIN calls] /\ 1 .. 0 = {}
    OBVIOUS
  <2>2. d \in [0 .. 0 -> Data] /\ d[0] = EmptyData
    BY DEF EmptyData, Data
  <2>. HIDE DEF e, d
  <2>3. Effects(0, e, d) /\ InTime(0, e)
    BY <1>2, <2>1, <2>2 DEF Effects, InTime
  <2>4. d[0] = Cleared
    BY <1>7, <2>2 DEF Cleared
  <2>. QED  BY <2>3, <2>4 DEF EffectsInv
<1>9. HistoryAlarmIsTimeout
  <2>1. checks["reset"] = "none"
    BY <1>2, <1>5
  <2>. QED  BY <2>1 DEF HistoryAlarmIsTimeout
<1>. QED  BY <1>1, <1>3, <1>4, <1>6, <1>8, <1>9 DEF ExplainedInv

LEMMA ExplainedStep ==
  ASSUME ExplainedInv, [Next]_vars
  PROVE  ExplainedInv'
<1>1. BaseInv' /\ ClientsInv' /\ StartInv'
  BY BaseStep, ClientsStep, StartStep DEF ExplainedInv, BaseInv
<1>2. ClearedInv' /\ EffectsInv'
  BY ClearedStep, EffectsStep DEF ExplainedInv
<1>3. HistoryAlarmIsTimeout'
  BY AcceptedStep DEF ExplainedInv
<1>. QED  BY <1>1, <1>2, <1>3 DEF ExplainedInv

\* phaseReset and phaseLinearizability: whatever the volumes held before, and
\* however late effects come, a run whose reset succeeded reports that a store
\* which keeps its promise is not linearizable only if the search of the checker
\* ran into its five minutes.  For any number of nodes, goroutines, keys, rounds
\* and operations.
THEOREM HarnessHistoryAlarmIsTimeout == Spec => []HistoryAlarmIsTimeout
<1>1. ExplainedInv => HistoryAlarmIsTimeout
  BY DEF ExplainedInv
<1>2. Spec => []ExplainedInv
  BY InitExplained, ExplainedStep, PTL DEF Spec
<1>. QED  BY <1>1, <1>2, PTL
===============================================================================
