---------------------------- MODULE HarnessAlarms ----------------------------
(***************************************************************************)
(* The checks of the verification run never fail without a reason: over a  *)
(* store that keeps its promise, and after a reset that succeeded, every   *)
(* failed check of smoke, CAS contention, leader kill and majority can be  *)
(* laid to operations the store did not answer, for any number of rounds,  *)
(* attempts and goroutines.                                                *)
(***************************************************************************)
EXTENDS HarnessProofs

-----------------------------------------------------------------------------
(* The invariants                                                          *)

\* What the main goroutine and the contenders wait for is what the loop is at.
WaitInv ==
  \A t \in {Main} \cup Contenders :
    busy[t] # 0 => Asked(Phase, step, at, t, command[busy[t]]) /\ at <= Count(Phase)

\* What they have called.
AskedInv ==
  \A i \in DOMAIN calls : calls[i].by \notin Clients =>
    \E p \in Phases, s \in {"first", "get", "race"}, n \in Nat :
      Asked(p, s, n, calls[i].by, command[i])

\* What returned is recorded, and the outcomes mean what they say.
OutcomeInv ==
  \A i \in DOMAIN calls :
    /\ outcome[i] # "pending" => \E k \in DOMAIN history : history[k].id = i
    /\ outcome[i] = "ok" => effect[i] # NoResult
    /\ outcome[i] = "failed" => effect[i] = NoResult

\* A phase still to come has no verdict; the reset comes first, and the check of
\* the history last.
TodoInv ==
  \A i \in DOMAIN todo :
    /\ checks[todo[i]] = "none"
    /\ todo[i] = "reset" => i = 1 /\ \A p \in DOMAIN checks : checks[p] = "none"
    /\ todo[i] = "linearizability" => \A j \in DOMAIN todo : j <= i

Deletes(i) == calls[i].by \notin Clients /\ command[i].op = "delete"

\* After a reset that succeeded none of its deletes is left to take effect.
ResetInv ==
  (Phase = "reset" /\ pass) \/ checks["reset"] = "PASS" =>
    \A i \in DOMAIN calls : Deletes(i) => outcome[i] = "ok" \/ i = busy[Main]

BaseInv == TypeInv /\ KeysInv /\ WaitInv /\ AskedInv /\ OutcomeInv /\ TodoInv /\ ResetInv

\* Goroutine t's operation has taken effect, and it has not been told.
TookEffect(t) == busy[t] # 0 /\ effect[busy[t]] # NoResult

Found(v) == Res(TRUE, TRUE, v)

\* Smoke: what was put stays, and is what the get finds.
SmokeAnswered == \A k \in DOMAIN history : history[k].cmd.key = Smoke => history[k].outcome = "ok"

SmokeLoop ==
  /\ pass
  /\ step = "get" \/ TookEffect(Main) => data[Smoke] = Numbered(at)
  /\ step = "get" /\ TookEffect(Main) => effect[busy[Main]] = Found(Numbered(at))

SmokeInv ==
  checks["reset"] = "PASS" /\ SmokeAnswered =>
    (Phase = "smoke" => SmokeLoop) /\ ~Failed("smoke")

\* Leader kill: each round has a key of its own, which holds what was put.
Lost(i) == Unanswered(Put(Durable(i), Precious(i))) \/ Unanswered(Get(Durable(i)))

KillKeys ==
  /\ \A i \in DOMAIN calls, j \in 1 .. Iterations : ~Deletes(i) /\ command[i].key = Durable(j) =>
       j < at \/ (j = at /\ (step = "get" \/ i = busy[Main]))
  /\ step = "get" =>
       /\ at <= Iterations /\ Unanswered(Get(Durable(at)))
       /\ \A i \in DOMAIN calls :
            command[i] = Put(Durable(at), Precious(at)) => outcome[i] = "ok"

KillLoop ==
  /\ step = "get" \/ TookEffect(Main) => data[Durable(at)] = Precious(at)
  /\ step = "get" /\ TookEffect(Main) => effect[busy[Main]] = Found(Precious(at))
  /\ ~pass => \E i \in 1 .. Iterations : i < at /\ Lost(i)

KillInv ==
  /\ Phase = "kill" => KillKeys /\ (checks["reset"] = "PASS" => KillLoop)
  /\ checks["reset"] = "PASS" /\ Failed("kill") => \E i \in 1 .. Iterations : Lost(i)

\* Majority: whatever attempt took effect last, it served.
NoPut == \A i \in 0 .. MaxTries : Unanswered(Put(Live, Served(i)))

Unserved == NoPut \/ Unanswered(Get(Live))

MajorityLoop ==
  /\ at = 1 => Unanswered(Get(Live)) /\ (step = "first" => NoPut)
  /\ step = "get" \/ TookEffect(Main) => IsServed(data[Live])
  /\ step = "get" /\ TookEffect(Main) =>
       \E i \in 0 .. MaxTries : effect[busy[Main]] = Found(Served(i))
  /\ ~pass => at > 1 /\ Unserved

MajorityInv ==
  checks["reset"] = "PASS" =>
    (Phase = "majority" => MajorityLoop) /\ (Failed("majority") => Unserved)

\* CAS contention: the first that takes effect wins, and no other.
Contends(i, r) == command[i].op = "cas" /\ command[i].key = Arena(r)

Won(i, r) == Contends(i, r) /\ effect[i] # NoResult /\ effect[i].ok

Refused(r) == \A op \in Results(r) : op.outcome = "failed"

Void(r) == Unanswered(Put(Arena(r), Base(r))) \/ Refused(r)

CASKeys ==
  /\ \A i \in DOMAIN calls, r \in 1 .. Rounds : ~Deletes(i) /\ command[i].key = Arena(r) =>
       r < at \/ (r = at /\ (step = "race" \/ i = busy[Main]))
  /\ step = "race" =>
       /\ at <= Rounds
       /\ \A i \in DOMAIN calls : command[i] = Put(Arena(at), Base(at)) => outcome[i] = "ok"

Race ==
  /\ data[Arena(at)] = Base(at) => \A i \in DOMAIN calls : Contends(i, at) => effect[i] = NoResult
  /\ data[Arena(at)] # Base(at) => \E w \in DOMAIN calls : Won(w, at)
  /\ \A i, w \in DOMAIN calls : Won(i, at) /\ Won(w, at) => i = w

CASLoop ==
  /\ step = "first" /\ TookEffect(Main) => data[Arena(at)] = Base(at)
  /\ step = "race" => Race
  /\ ~pass => \E r \in 1 .. Rounds : r < at /\ Void(r)

CASInv ==
  /\ Phase = "cas" => CASKeys /\ (checks["reset"] = "PASS" => CASLoop)
  /\ checks["reset"] = "PASS" /\ Failed("cas") => \E r \in 1 .. Rounds : Void(r)

-----------------------------------------------------------------------------
(* The steps, with what they do to the main goroutine                      *)

\* The main goroutine got an answer, and goes on.
Heard ==
  \/ MainReturns("reset", "first") /\ NextRound(Answered)
  \/ /\ MainReturns("smoke", "first")
     /\ \/ Answered /\ GoOn("get")
        \/ ~Answered /\ NextRound(FALSE)
  \/ /\ MainReturns("smoke", "get")
     /\ NextRound(Answered /\ Got.res.present /\ Got.res.value = Numbered(at))
  \/ /\ MainReturns("cas", "first")
     /\ \/ Answered /\ GoOn("race")
        \/ ~Answered /\ NextRound(FALSE)
  \/ /\ MainReturns("kill", "first")
     /\ \/ Answered /\ GoOn("get")
        \/ ~Answered /\ NextRound(FALSE)
  \/ /\ MainReturns("kill", "get")
     /\ \/ Answered /\ NextRound(Got.res.present /\ Got.res.value = Precious(at))
        \/ ~Answered /\ TryAgain("get", Durable(at))
  \/ /\ MainReturns("majority", "first")
     /\ \/ Answered /\ GoOn("get")
        \/ ~Answered /\ TryAgain("put", Live)
  \/ /\ MainReturns("majority", "get")
     /\ LET served == Answered /\ IsServed(Got.res.value)
        IN  \/ served /\ NextRound(TRUE)
            \/ ~served /\ TryAgain("get", Live)

\* The main goroutine goes on by itself.
ByItself ==
  CASRound \/ MajorityNoLeader \/ ChaosStop \/ ChaosWait \/ EndPhase \/ Linearizability

\* Every step is a call, an answer, an effect, or of the main goroutine alone.
LEMMA Steps ==
  ASSUME TypeInv, [Next]_vars
  PROVE  \/ \E t \in Threads, cmd \in Command : Calls(t, cmd)
         \/ \E t \in Threads \ {Main} : Returns(t) /\ UNCHANGED control
         \/ Returns(Main) /\ Heard
         \/ \E i \in DOMAIN calls : Effect(i)
         \/ ByItself
         \/ UNCHANGED vars
<1>. DEFINE SomeCall == \E t \in Threads, cmd \in Command : Calls(t, cmd)
            Goal == \/ SomeCall
                    \/ \E t \in Threads \ {Main} : Returns(t) /\ UNCHANGED control
                    \/ Returns(Main) /\ Heard
                    \/ \E i \in DOMAIN calls : Effect(i)
                    \/ ByItself
                    \/ UNCHANGED vars
<1>1. ASSUME NEW t, NEW cmd, Call(t, cmd) PROVE SomeCall
  <2>1. calls' # calls
    <3>1. calls \in Seq([by : Threads, start : Nat])
      BY DEF TypeInv, CallInv
    <3>2. ASSUME NEW e, calls' = Append(calls, e) PROVE calls' # calls
      <4>1. Len(Append(calls, e)) = Len(calls) + 1 /\ Len(calls) \in Nat
        BY <3>1
      <4>. QED  BY <3>2, <4>1
    <3>. QED  BY <1>1, <3>2 DEF Call
  <2>2. \A i \in DOMAIN calls : ~Effect(i)
    BY <2>1 DEF Effect
  <2>. QED  BY <2>1, <2>2, StepKinds, NothingDone
<1>2. \A p, s, cmd : MainCalls(p, s, cmd) => SomeCall
  BY <1>1 DEF MainCalls
<1>3. \A p, s : MainReturns(p, s) => Returns(Main)
  BY NamesFacts DEF MainReturns, Returns
<1>4. CASE Reset
  BY <1>2, <1>3, <1>4 DEF Reset, Heard
<1>5. CASE SmokePut \/ SmokeGet
  BY <1>2, <1>3, <1>5 DEF SmokePut, SmokeGet, Heard
<1>6. CASE CASSetup
  BY <1>2, <1>3, <1>6 DEF CASSetup, Heard
<1>7. CASE \E c \in Contenders : CASContend(c)
  <2>1. PICK c \in Contenders : CASContend(c)
    BY <1>7
  <2>2. c \in Threads \ {Main} /\ c \notin Clients
    BY NamesFacts DEF Threads
  <2>3. UNCHANGED <<control, lastSeen>>
    BY <2>1 DEF CASContend
  <2>4. CASE Return(c)
    BY <2>2, <2>3, <2>4 DEF Returns
  <2>. QED  BY <1>1, <2>1, <2>4 DEF CASContend
<1>8. CASE KillPut \/ KillGet
  BY <1>2, <1>3, <1>8 DEF KillPut, KillGet, Heard
<1>9. CASE MajorityPut \/ MajorityGet
  BY <1>2, <1>3, <1>9 DEF MajorityPut, MajorityGet, Heard
<1>10. CASE \E c \in Clients : ChaosCall(c) \/ ChaosReturn(c)
  <2>1. PICK c \in Clients : ChaosCall(c) \/ ChaosReturn(c)
    BY <1>10
  <2>2. c \in Threads \ {Main}
    BY NamesFacts DEF Threads
  <2>3. CASE ChaosCall(c)
    BY <1>1, <2>3 DEF ChaosCall
  <2>4. CASE ChaosReturn(c)
    BY <2>2, <2>4 DEF ChaosReturn, Returns
  <2>. QED  BY <2>1, <2>3, <2>4
<1>11. CASE \/ CASRound \/ MajorityNoLeader \/ ChaosStop \/ ChaosWait \/ EndPhase
             \/ Linearizability
  BY <1>11 DEF ByItself
<1>. QED
  BY <1>4, <1>5, <1>6, <1>7, <1>8, <1>9, <1>10, <1>11 DEF Next

\* What an answer is: the outcome of the operation waited for, and its record.
LEMMA AnswerEffect ==
  ASSUME TypeInv, NEW t \in Threads, Return(t), NEW n, n = busy[t]
  PROVE  /\ n \in DOMAIN calls /\ n # 0 /\ calls[n].by = t /\ outcome[n] = "pending"
         /\ UNCHANGED <<data, command, effect, calls>>
         /\ \A u \in Threads : busy'[u] = IF u = t THEN 0 ELSE busy[u]
         /\ outcome'[n] \in {"ok", "failed", "unknown"} /\ (Answered <=> outcome'[n] = "ok")
         /\ outcome'[n] = "ok" => effect[n] # NoResult /\ Got.res = effect[n]
         /\ outcome'[n] = "failed" => effect[n] = NoResult
         /\ \A i \in DOMAIN calls \ {n} : outcome'[i] = outcome[i]
         /\ \E k \in DOMAIN history' : history'[k].id = n
         /\ \A k \in DOMAIN history : k \in DOMAIN history' /\ history'[k] = history[k]
<1>0. ClientInv /\ history \in Seq(Record)
  BY DEF TypeInv, ClientInv, HistoryInv
<1>1. /\ n \in DOMAIN calls /\ n \in Nat \ {0} /\ n \in Invocations
      /\ calls[n].by = t /\ outcome[n] = "pending"
      /\ UNCHANGED <<data, command, effect, calls>>
      /\ busy' = [busy EXCEPT ![t] = 0]
  BY <1>0, ReturnEffect
<1>2. PICK h \in Record :
        /\ h.id = n
        /\ outcome' = [outcome EXCEPT ![n] = h.outcome]
        /\ h.outcome = "ok" => effect[n] # NoResult /\ h.res = effect[n]
        /\ h.outcome = "failed" => effect[n] = NoResult
        /\ history' = Append(history, h) /\ Got = h
  BY <1>0, ReturnEffect
<1>3. outcome'[n] = h.outcome /\ \A i \in DOMAIN calls \ {n} : outcome'[i] = outcome[i]
  BY <1>0, <1>1, <1>2 DEF ClientInv, StoreInv, CallInv
<1>4. PICK s : s = history'
  OBVIOUS
<1>5. /\ DOMAIN s = DOMAIN history \cup {Len(history) + 1} /\ s[Len(history) + 1] = h
      /\ \A k \in DOMAIN history : s[k] = history[k]
  BY <1>0, <1>2, <1>4, AppendElements
<1>6. \A u \in Threads : busy'[u] = IF u = t THEN 0 ELSE busy[u]
  BY <1>0, <1>1 DEF ClientInv, CallInv
<1>7. h.outcome \in {"ok", "failed", "unknown"} /\ (Answered <=> h.outcome = "ok")
  BY <1>2 DEF Record, Answered
<1>8. /\ \E k \in DOMAIN history' : history'[k].id = n
      /\ \A k \in DOMAIN history : k \in DOMAIN history' /\ history'[k] = history[k]
  BY <1>2, <1>4, <1>5
<1>. QED  BY <1>1, <1>2, <1>3, <1>6, <1>7, <1>8

\* Calls stay what they are, and change their outcome when they return.
LEMMA OutcomeChanges ==
  ASSUME TypeInv, [Next]_vars
  PROVE  /\ DOMAIN calls \subseteq DOMAIN calls'
         /\ \A i \in DOMAIN calls : calls'[i] = calls[i] /\ command'[i] = command[i]
         /\ \A i \in DOMAIN calls :
              \/ outcome'[i] = outcome[i]
              \/ /\ outcome[i] = "pending" /\ busy[calls[i].by] = i
                 /\ Returns(calls[i].by)
         /\ \A i \in DOMAIN calls' \ DOMAIN calls : outcome'[i] = "pending"
<1>0. ClientInv
  BY DEF TypeInv, ClientInv
<1>1. ASSUME NEW t \in Threads, NEW cmd \in Command, Calls(t, cmd)
      PROVE  /\ DOMAIN calls \subseteq DOMAIN calls'
             /\ \A i \in DOMAIN calls : calls'[i] = calls[i] /\ command'[i] = command[i]
             /\ \A i \in DOMAIN calls : outcome'[i] = outcome[i]
             /\ \A i \in DOMAIN calls' \ DOMAIN calls : outcome'[i] = "pending"
  <2>1. PICK n : n = Len(calls) + 1
    OBVIOUS
  <2>2. /\ DOMAIN calls' = DOMAIN calls \cup {n} /\ n \in Invocations
        /\ outcome' = [outcome EXCEPT ![n] = "pending"]
        /\ \A i \in DOMAIN calls : calls'[i] = calls[i] /\ command'[i] = command[i]
        /\ \A i \in DOMAIN calls : outcome'[i] = outcome[i]
    BY <1>0, <1>1, <2>1, CallEffect DEF Calls
  <2>. QED  BY <1>0, <2>2 DEF ClientInv, StoreInv
<1>2. ASSUME NEW t \in Threads, Returns(t)
      PROVE  /\ UNCHANGED <<calls, command>>
             /\ \A i \in DOMAIN calls :
                  \/ outcome'[i] = outcome[i]
                  \/ /\ outcome[i] = "pending" /\ busy[calls[i].by] = i
                     /\ Returns(calls[i].by)
  <2>1. Return(t)
    BY <1>2 DEF Returns
  <2>2. /\ calls[busy[t]].by = t /\ outcome[busy[t]] = "pending" /\ UNCHANGED <<calls, command>>
        /\ \A i \in DOMAIN calls \ {busy[t]} : outcome'[i] = outcome[i]
    BY <2>1, AnswerEffect
  <2>. QED  BY <1>2, <2>2
<1>3. ASSUME NEW i \in DOMAIN calls, Effect(i) PROVE UNCHANGED <<calls, command, outcome>>
  BY <1>0, <1>3, TakesEffect
<1>4. Stays => UNCHANGED <<calls, command, outcome>>
  BY DEF Stays, absVars
<1>. QED  BY <1>1, <1>2, <1>3, <1>4, StepKinds

\* What has no answer is not recorded as answered.
LEMMA OutcomeStep ==
  ASSUME TypeInv, OutcomeInv, [Next]_vars
  PROVE  OutcomeInv'
<1>0. ClientInv
  BY DEF TypeInv, ClientInv
<1>1. ASSUME NEW t \in Threads, NEW cmd \in Command, Calls(t, cmd) PROVE OutcomeInv'
  <2>1. PICK n : n = Len(calls) + 1
    OBVIOUS
  <2>2. /\ DOMAIN calls' = DOMAIN calls \cup {n} /\ n \in Invocations
        /\ outcome' = [outcome EXCEPT ![n] = "pending"]
        /\ UNCHANGED <<effect, history>>
        /\ \A i \in DOMAIN calls : outcome'[i] = outcome[i]
    BY <1>0, <1>1, <2>1, CallEffect DEF Calls
  <2>3. outcome'[n] = "pending"
    BY <1>0, <2>2 DEF ClientInv, StoreInv
  <2>. QED  BY <2>2, <2>3 DEF OutcomeInv
<1>2. ASSUME NEW t \in Threads, Returns(t) PROVE OutcomeInv'
  <2>1. Return(t)
    BY <1>2 DEF Returns
  <2>2. PICK n : n = busy[t]
    OBVIOUS
  <2>3. /\ n \in DOMAIN calls /\ UNCHANGED <<effect, calls>>
        /\ outcome'[n] \in {"ok", "failed", "unknown"}
        /\ outcome'[n] = "ok" => effect[n] # NoResult
        /\ outcome'[n] = "failed" => effect[n] = NoResult
        /\ \A i \in DOMAIN calls \ {n} : outcome'[i] = outcome[i]
        /\ \E k \in DOMAIN history' : history'[k].id = n
        /\ \A k \in DOMAIN history : k \in DOMAIN history' /\ history'[k] = history[k]
    BY <2>1, <2>2, AnswerEffect
  <2>4. ASSUME NEW i \in DOMAIN calls, outcome'[i] # "pending"
        PROVE  \E k \in DOMAIN history' : history'[k].id = i
    <3>1. CASE i = n
      BY <2>3, <3>1
    <3>2. CASE i # n
      <4>1. PICK k \in DOMAIN history : history[k].id = i
        BY <2>3, <2>4, <3>2 DEF OutcomeInv
      <4>. QED  BY <2>3, <4>1
    <3>. QED  BY <3>1, <3>2
  <2>5. \A i \in DOMAIN calls : /\ outcome'[i] = "ok" => effect'[i] # NoResult
                                /\ outcome'[i] = "failed" => effect'[i] = NoResult
    BY <2>3 DEF OutcomeInv
  <2>. QED  BY <2>3, <2>4, <2>5 DEF OutcomeInv
<1>3. ASSUME NEW i \in DOMAIN calls, Effect(i) PROVE OutcomeInv'
  <2>1. /\ outcome[i] \in {"pending", "unknown"} /\ UNCHANGED <<calls, outcome, history>>
        /\ effect' = [effect EXCEPT ![i] = ApplyResult(data, command[i])]
    BY <1>0, <1>3, TakesEffect
  <2>2. \A j \in DOMAIN calls \ {i} : effect'[j] = effect[j]
    BY <2>1
  <2>. QED  BY <2>1, <2>2 DEF OutcomeInv
<1>4. CASE Stays
  BY <1>4 DEF OutcomeInv, Stays, absVars
<1>. QED  BY <1>1, <1>2, <1>3, <1>4, StepKinds

\* What the main goroutine and the contenders called is what they were asked to.
LEMMA AskedStep ==
  ASSUME TypeInv, AskedInv, [Next]_vars
  PROVE  AskedInv'
<1>0. ClientInv
  BY DEF TypeInv, ClientInv
<1>1. ASSUME NEW t \in Threads, NEW cmd \in Command, Calls(t, cmd) PROVE AskedInv'
  <2>1. PICK n : n = Len(calls) + 1
    OBVIOUS
  <2>2. /\ DOMAIN calls' = DOMAIN calls \cup {n} /\ n \in Invocations
        /\ calls'[n] = [by |-> t, start |-> now + 1]
        /\ command' = [command EXCEPT ![n] = cmd]
        /\ \A i \in DOMAIN calls : calls'[i] = calls[i] /\ command'[i] = command[i]
    BY <1>0, <1>1, <2>1, CallEffect DEF Calls
  <2>3. command'[n] = cmd /\ calls'[n].by = t
    BY <1>0, <2>2 DEF ClientInv, StoreInv
  <2>4. ASSUME t \notin Clients
        PROVE  \E p \in Phases, s \in {"first", "get", "race"}, m \in Nat : Asked(p, s, m, t, cmd)
    <3>1. Asked(Phase, step, at, t, cmd) /\ at \in Nat
      BY <1>1, <2>4 DEF Calls, MayCall, TypeInv, ControlInv
    <3>2. Phase \in Phases /\ step \in {"first", "get", "race"}
      BY <3>1 DEF Asked, Phases
    <3>. QED  BY <3>1, <3>2
  <2>5. ASSUME NEW i \in DOMAIN calls', calls'[i].by \notin Clients
        PROVE  \E p \in Phases, s \in {"first", "get", "race"}, m \in Nat :
                 Asked(p, s, m, calls'[i].by, command'[i])
    <3>1. CASE i = n
      BY <2>3, <2>4, <2>5, <3>1
    <3>2. CASE i \in DOMAIN calls
      BY <2>2, <2>5, <3>2 DEF AskedInv
    <3>. QED  BY <2>2, <3>1, <3>2
  <2>. QED  BY <2>5 DEF AskedInv, Asked
<1>2. CASE UNCHANGED <<calls, command>>
  BY <1>2 DEF AskedInv, Asked
<1>3. ASSUME NEW i \in DOMAIN calls, Effect(i) PROVE UNCHANGED <<calls, command>>
  BY <1>0, <1>3, TakesEffect
<1>. QED  BY <1>1, <1>2, <1>3, NothingDone, StepKinds

\* The loops are finite.
LEMMA CountType ==
  ASSUME ControlInv, NEW p \in Phases
  PROVE  Count(p) \in Nat
<1>1. Len(ResetKeys) \in Nat
  BY ResetKeysType
<1>2. Count("reset") \in Nat /\ Count("linearizability") \in Nat
  BY <1>1 DEF Count
<1>. QED  BY <1>2, CountIs, NamesFacts DEF Phases

\* The main goroutine and the contenders work by turns, and the main goroutine
\* goes on by itself when nobody is waited for.
LEMMA Idle ==
  ASSUME TypeInv, WaitInv, ByItself \/ Returns(Main)
  PROVE  /\ \A c \in Contenders : busy[c] = 0
         /\ ByItself => busy[Main] = 0
<1>1. CASE Returns(Main)
  <2>1. busy[Main] # 0
    BY <1>1 DEF Returns, Return
  <2>2. step # "race"
    BY <2>1, NamesFacts DEF WaitInv, Asked
  <2>3. ASSUME NEW c \in Contenders, busy[c] # 0 PROVE FALSE
    BY <2>2, <2>3, NamesFacts DEF WaitInv, Asked
  <2>4. ByItself => busy[Main] = 0
    <3>1. busy'[Main] = 0
      <4>1. busy' = [busy EXCEPT ![Main] = 0] /\ busy \in [Threads -> 0 .. Len(calls)]
        BY <1>1 DEF Returns, Return, TypeInv, CallInv
      <4>. QED  BY <4>1 DEF Threads
    <3>. QED
      BY <3>1 DEF ByItself, CASRound, MajorityNoLeader, ChaosStop, ChaosWait, NothingElse,
                  EndPhase, Linearizability
  <2>. QED  BY <2>3, <2>4
<1>2. CASE CASRound
  BY <1>2, NamesFacts DEF CASRound, At, WaitInv, Asked
<1>3. CASE ChaosStop \/ ChaosWait \/ Linearizability
  BY <1>3 DEF ChaosStop, ChaosWait, NothingElse, Linearizability, At, WaitInv, Asked
<1>5. CASE MajorityNoLeader
  BY <1>5, NamesFacts DEF MajorityNoLeader, At, WaitInv, Asked
<1>4. CASE EndPhase
  <2>1. ASSUME NEW t \in {Main} \cup Contenders, busy[t] # 0 PROVE FALSE
    <3>1. Phase \in Phases /\ at <= Count(Phase)
      BY <2>1 DEF WaitInv, Asked, Phases
    <3>2. Count(Phase) \in Nat /\ at \in Nat
      BY <3>1, CountType DEF TypeInv, ControlInv
    <3>. QED  BY <1>4, <3>1, <3>2 DEF EndPhase
  <2>. QED  BY <2>1
<1>. QED  BY <1>1, <1>2, <1>3, <1>4, <1>5 DEF ByItself

\* What is waited for is what the loop is at.
LEMMA WaitStep ==
  ASSUME TypeInv, WaitInv, [Next]_vars
  PROVE  WaitInv'
<1>0. ClientInv
  BY DEF TypeInv, ClientInv
<1>. PICK count : count = Count(Phase)
  OBVIOUS
<1>. PICK p : p = Phase
  OBVIOUS
<1>1. UNCHANGED control => Count(Phase)' = count /\ Phase' = p
  BY DEF control, Count, Phase, ResetKeys, Workload
<1>2. ASSUME UNCHANGED control,
             \A t \in {Main} \cup Contenders : busy'[t] # 0 =>
               Asked(p, step, at, t, command'[busy'[t]]) /\ at <= count
      PROVE  WaitInv'
  BY <1>1, <1>2 DEF WaitInv, Asked, control
<1>3. \A t \in {Main} \cup Contenders : busy[t] # 0 =>
        Asked(p, step, at, t, command[busy[t]]) /\ at <= count
  BY DEF WaitInv
<1>4. {Main} \cup Contenders \subseteq Threads
  BY DEF Threads
<1>5. ASSUME NEW t \in Threads, NEW cmd \in Command, Calls(t, cmd) PROVE WaitInv'
  <2>1. PICK n : n = Len(calls) + 1
    OBVIOUS
  <2>2. /\ busy' = [busy EXCEPT ![t] = n] /\ n \in Invocations
        /\ command' = [command EXCEPT ![n] = cmd]
        /\ \A i \in DOMAIN calls : command'[i] = command[i]
    BY <1>0, <1>5, <2>1, CallEffect DEF Calls
  <2>3. command'[n] = cmd /\ \A u \in Threads : busy'[u] = IF u = t THEN n ELSE busy[u]
    BY <1>0, <2>2 DEF ClientInv, StoreInv, CallInv
  <2>4. UNCHANGED control /\ MayCall(t, cmd)
    BY <1>5 DEF Calls
  <2>5. ASSUME NEW u \in {Main} \cup Contenders, busy'[u] # 0
        PROVE  Asked(p, step, at, u, command'[busy'[u]]) /\ at <= count
    <3>1. CASE u = t
      BY <1>4, <2>3, <2>4, <3>1, NamesFacts DEF MayCall
    <3>2. CASE u # t
      <4>1. busy'[u] = busy[u] /\ busy[u] \in DOMAIN calls
        BY <1>0, <1>4, <2>3, <2>5, <3>2 DEF ClientInv, CallInv
      <4>. QED  BY <1>3, <2>2, <2>5, <4>1
    <3>. QED  BY <3>1, <3>2
  <2>. QED  BY <1>2, <2>4, <2>5
<1>6. ASSUME NEW t \in Threads, Returns(t), UNCHANGED control PROVE WaitInv'
  <2>1. UNCHANGED command /\ \A u \in Threads : busy'[u] = IF u = t THEN 0 ELSE busy[u]
    BY <1>6, AnswerEffect DEF Returns
  <2>. QED  BY <1>2, <1>3, <1>4, <1>6, <2>1
<1>7. CASE Returns(Main)
  <2>1. \A u \in Threads : busy'[u] = IF u = Main THEN 0 ELSE busy[u]
    BY <1>4, <1>7, AnswerEffect DEF Returns
  <2>2. \A c \in Contenders : busy[c] = 0
    BY <1>7, Idle
  <2>. QED  BY <1>4, <2>1, <2>2 DEF WaitInv
<1>8. ASSUME NEW i \in DOMAIN calls, Effect(i) PROVE WaitInv'
  <2>1. UNCHANGED <<command, busy, control>>
    BY <1>0, <1>8, TakesEffect
  <2>. QED  BY <1>2, <1>3, <2>1
<1>9. CASE ByItself
  <2>1. UNCHANGED busy
    BY <1>9 DEF ByItself, CASRound, MajorityNoLeader, ChaosStop, ChaosWait, NothingElse, EndPhase,
                Linearizability
  <2>2. \A t \in {Main} \cup Contenders : busy[t] = 0
    BY <1>9, Idle
  <2>. QED  BY <2>1, <2>2 DEF WaitInv
<1>10. CASE UNCHANGED vars
  BY <1>2, <1>3, <1>10 DEF vars, absVars
<1>. QED  BY <1>5, <1>6, <1>7, <1>8, <1>9, <1>10, Steps

\* The phases come in their order.
LEMMA TodoStep ==
  ASSUME TypeInv, TodoInv, [Next]_vars
  PROVE  TodoInv'
<1>1. ControlInv /\ PlanInv
  BY DEF TypeInv
<1>2. CASE UNCHANGED <<todo, checks>>
  BY <1>2 DEF TodoInv
<1>3. CASE NextPhase
  <2>1. /\ Phase = todo[1] /\ 1 \in DOMAIN todo
        /\ \A j \in DOMAIN todo' : j \in Nat \ {0} /\ j + 1 \in DOMAIN todo /\ todo'[j] = todo[j + 1]
    BY <1>1, <1>3, TailOf
  <2>2. PICK v : checks' = [checks EXCEPT ![Phase] = v]
    BY <1>3 DEF NextPhase
  <2>3. ASSUME NEW j \in DOMAIN todo'
        PROVE  /\ checks'[todo'[j]] = "none" /\ todo'[j] # "reset"
               /\ todo'[j] = "linearizability" => \A i \in DOMAIN todo' : i <= j
    <3>1. j + 1 # 1 /\ j \in Nat /\ todo[j + 1] # Phase
      BY <1>1, <2>1 DEF PlanInv
    <3>2. checks'[todo[j + 1]] = checks[todo[j + 1]]
      BY <1>1, <2>1, <2>2, <3>1 DEF ControlInv
    <3>3. \A i \in DOMAIN todo' : i + 1 <= j + 1 => i <= j
      BY <2>1
    <3>. QED  BY <2>1, <3>1, <3>2, <3>3 DEF TodoInv
  <2>. QED  BY <2>3 DEF TodoInv
<1>. QED  BY <1>1, <1>2, <1>3, ControlKinds

\* The reset is a phase of every run.
LEMMA ResetPlanned ==
  ASSUME ControlInv
  PROVE  "reset" \in DOMAIN checks
<1>1. PICK plan \in Plans : DOMAIN checks = ToSet(plan)
  BY DEF ControlInv
<1>. QED  BY <1>1, PlanFacts

\* Deletes are of the reset.
LEMMA DeletesAsked ==
  ASSUME NEW p, NEW s, NEW n, NEW t, NEW cmd, Asked(p, s, n, t, cmd), cmd.op = "delete"
  PROVE  p = "reset" /\ t = Main
BY DEF Asked, Put, Get, CAS

\* A reset that succeeded left nothing behind.
LEMMA ResetStep ==
  ASSUME TypeInv, WaitInv, AskedInv, TodoInv, ResetInv, [Next]_vars
  PROVE  ResetInv'
<1>. DEFINE Clean == (Phase = "reset" /\ pass) \/ checks["reset"] = "PASS"
            Gone(i) == outcome[i] = "ok" \/ i = busy[Main]
<1>0. ClientInv /\ ControlInv /\ PlanInv /\ Main \in Threads /\ "reset" \in DOMAIN checks
  BY ResetPlanned DEF TypeInv, ClientInv, Threads
<1>1. Clean => \A i \in DOMAIN calls : Deletes(i) => Gone(i)
  BY DEF ResetInv
<1>2. \A i \in DOMAIN calls : Deletes(i) => calls[i].by = Main
  BY DeletesAsked DEF AskedInv, Deletes
<1>3. UNCHANGED control => Clean' = Clean
  BY DEF control, Phase
<1>4. ASSUME NEW t \in Threads, NEW cmd \in Command, Calls(t, cmd) PROVE ResetInv'
  <2>1. PICK n : n = Len(calls) + 1
    OBVIOUS
  <2>2. /\ DOMAIN calls' = DOMAIN calls \cup {n} /\ n \in Invocations
        /\ calls'[n] = [by |-> t, start |-> now + 1]
        /\ command' = [command EXCEPT ![n] = cmd]
        /\ busy[t] = 0 /\ busy' = [busy EXCEPT ![t] = n]
        /\ \A i \in DOMAIN calls : calls'[i] = calls[i] /\ command'[i] = command[i]
                                   /\ outcome'[i] = outcome[i] /\ i # 0
    <3>1. \A i \in DOMAIN calls : i # 0
      BY <1>0, Called DEF ClientInv
    <3>. QED  BY <1>0, <1>4, <2>1, <3>1, CallEffect DEF Calls
  <2>3. /\ command'[n] = cmd /\ calls'[n].by = t
        /\ \A u \in Threads : busy'[u] = IF u = t THEN n ELSE busy[u]
    BY <1>0, <2>2 DEF ClientInv, StoreInv, CallInv
  <2>4. UNCHANGED control /\ MayCall(t, cmd)
    BY <1>4 DEF Calls
  <2>5. t \notin Clients /\ cmd.op = "delete" => t = Main
    BY <2>4, DeletesAsked DEF MayCall
  <2>6. ASSUME Clean, NEW i \in DOMAIN calls', Deletes(i)' PROVE Gone(i)'
    <3>1. CASE i = n
      BY <1>0, <2>3, <2>5, <2>6, <3>1 DEF Deletes
    <3>2. CASE i \in DOMAIN calls
      <4>1. Deletes(i)
        BY <2>2, <2>6, <3>2 DEF Deletes
      <4>. QED  BY <1>0, <1>1, <2>2, <2>3, <2>6, <3>2, <4>1
    <3>. QED  BY <2>2, <3>1, <3>2
  <2>. QED  BY <1>3, <2>4, <2>6 DEF ResetInv
<1>5. ASSUME NEW t \in Threads \ {Main}, Returns(t), UNCHANGED control PROVE ResetInv'
  <2>1. PICK n : n = busy[t]
    OBVIOUS
  <2>2. /\ calls[n].by = t /\ UNCHANGED <<calls, command>>
        /\ \A i \in DOMAIN calls \ {n} : outcome'[i] = outcome[i]
        /\ busy'[Main] = busy[Main]
    BY <1>0, <1>5, <2>1, AnswerEffect DEF Returns
  <2>3. \A i \in DOMAIN calls : Deletes(i)' = Deletes(i)
    BY <2>2 DEF Deletes
  <2>4. \A i \in DOMAIN calls : Deletes(i) => i # n
    BY <1>2, <2>2
  <2>. QED  BY <1>1, <1>3, <1>5, <2>2, <2>3, <2>4 DEF ResetInv
<1>6. CASE Returns(Main) /\ Heard
  <2>1. PICK n : n = busy[Main]
    OBVIOUS
  <2>2. /\ n \in DOMAIN calls /\ n # 0 /\ UNCHANGED <<calls, command>>
        /\ \A i \in DOMAIN calls \ {n} : outcome'[i] = outcome[i]
        /\ Answered <=> outcome'[n] = "ok"
    BY <1>0, <1>6, <2>1, AnswerEffect DEF Returns
  <2>3. \A i \in DOMAIN calls : Deletes(i)' = Deletes(i)
    BY <2>2 DEF Deletes
  <2>4. Asked(Phase, step, at, Main, command[n])
    BY <2>1, <2>2 DEF WaitInv
  <2>5. UNCHANGED <<todo, checks>>
    BY <1>6 DEF Heard, MainReturns
  <2>6. CASE Phase = "reset"
    <3>1. NextRound(Answered)
      BY <1>6, <2>6 DEF Heard, MainReturns, At
    <3>2. pass' => pass /\ outcome'[n] = "ok"
      BY <2>2, <3>1 DEF NextRound
    <3>3. checks["reset"] = "none"
      <4>1. 1 \in DOMAIN todo /\ todo[1] = "reset"
        BY <1>0, <2>6, PhaseOfPlan DEF Phase, Phases, ControlInv
      <4>. QED  BY <4>1 DEF TodoInv
    <3>4. Clean' => Clean /\ outcome'[n] = "ok"
      BY <2>5, <2>6, <3>2, <3>3 DEF Phase
    <3>. QED  BY <1>1, <2>1, <2>2, <2>3, <3>4 DEF ResetInv
  <2>7. CASE Phase # "reset"
    <3>1. ~Deletes(n)
      BY <2>4, <2>7, DeletesAsked DEF Deletes
    <3>2. Clean' => Clean
      BY <2>5, <2>7 DEF Phase
    <3>. QED  BY <1>1, <2>1, <2>2, <2>3, <3>1, <3>2 DEF ResetInv
  <2>. QED  BY <2>6, <2>7
<1>7. ASSUME NEW i \in DOMAIN calls, Effect(i) PROVE ResetInv'
  <2>1. UNCHANGED <<calls, command, outcome, busy, control>>
    BY <1>0, <1>7, TakesEffect
  <2>. QED  BY <1>1, <1>3, <2>1 DEF ResetInv, Deletes
<1>8. CASE ByItself
  <2>1. UNCHANGED <<calls, command, outcome, busy>>
    BY <1>8 DEF ByItself, CASRound, MajorityNoLeader, ChaosStop, ChaosWait, NothingElse, EndPhase,
                Linearizability, absVars
  <2>2. CASE UNCHANGED <<todo, checks>> /\ Phase # "reset"
    <3>1. Clean' => Clean
      BY <2>2 DEF Phase
    <3>. QED  BY <1>1, <2>1, <3>1 DEF ResetInv, Deletes
  <2>3. CASE EndPhase \/ Linearizability
    <3>1. NextPhase
      BY <2>3, ControlKinds, <1>0
      DEF EndPhase, Linearizability, NextPhase
    <3>2. Phase' # "reset"
      <4>1. todo' \in Seq(Phases)
            /\ \A j \in DOMAIN todo' : j \in Nat \ {0} /\ j + 1 \in DOMAIN todo /\ todo'[j] = todo[j + 1]
        BY <1>0, <3>1, TailOf
      <4>2. ASSUME Phase' = "reset" PROVE FALSE
        <5>1. todo' # <<>> /\ todo'[1] = "reset" /\ 1 \in DOMAIN todo'
          BY <4>1, <4>2 DEF Phase
        <5>2. 1 + 1 \in DOMAIN todo /\ todo[1 + 1] = "reset"
          BY <4>1, <5>1
        <5>. QED  BY <5>2 DEF TodoInv
      <4>. QED  BY <4>2
    <3>3. checks'["reset"] = "PASS" => Clean
      <4>1. CASE Phase = "reset"
        <5>1. EndPhase
          BY <2>3, <4>1 DEF Linearizability
        <5>2. PICK v : v = IF pass THEN "PASS" ELSE "FAIL"
          OBVIOUS
        <5>3. checks' = [checks EXCEPT !["reset"] = v]
          BY <4>1, <5>1, <5>2 DEF EndPhase
        <5>. QED  BY <1>0, <4>1, <5>2, <5>3 DEF ControlInv
      <4>2. CASE Phase # "reset"
        <5>1. PICK v : checks' = [checks EXCEPT ![Phase] = v]
          BY <3>1 DEF NextPhase
        <5>2. checks'["reset"] = checks["reset"]
          BY <1>0, <4>2, <5>1 DEF ControlInv
        <5>. QED  BY <5>2
      <4>. QED  BY <4>1, <4>2
    <3>. QED  BY <1>1, <2>1, <3>2, <3>3 DEF ResetInv, Deletes
  <2>. QED
    BY <1>8, <2>2, <2>3
    DEF ByItself, CASRound, MajorityNoLeader, ChaosStop, ChaosWait, NothingElse, NextRound, GoOn, At
<1>9. CASE UNCHANGED vars
  BY <1>1, <1>3, <1>9 DEF ResetInv, Deletes, vars, absVars
<1>. QED  BY <1>4, <1>5, <1>6, <1>7, <1>8, <1>9, Steps

LEMMA InitBase ==
  ASSUME Init
  PROVE  BaseInv
<1>1. TypeInv
  BY InitTypes
<1>2. \A t \in {Main} \cup Contenders : busy[t] = 0
  BY DEF Init, Threads
<1>3. DOMAIN calls = {}
  BY DEF Init
<1>4. KeysInv /\ WaitInv /\ AskedInv /\ OutcomeInv /\ ResetInv
  BY <1>2, <1>3 DEF KeysInv, WaitInv, AskedInv, OutcomeInv, ResetInv
<1>5. TodoInv
  <2>1. todo \in Plans /\ todo \in Seq(Phases) /\ \A p \in ToSet(todo) : checks[p] = "none"
    BY PlanFacts DEF Init
  <2>2. DOMAIN checks = ToSet(todo)
    BY DEF Init
  <2>3. \A i \in DOMAIN todo : checks[todo[i]] = "none"
    BY <2>1 DEF ToSet
  <2>4. ASSUME NEW i \in DOMAIN todo, todo[i] = "reset" PROVE i = 1
    <3>1. DOMAIN todo = 1 .. Len(todo) /\ Len(todo) \in Nat
      BY <2>1
    <3>2. 1 \in DOMAIN todo /\ i \in Nat /\ 1 <= i
      BY <3>1
    <3>3. i <= 1
      BY <2>1, <2>4, <3>2, PlanOrder
    <3>. QED  BY <3>2, <3>3
  <2>5. \A i, j \in DOMAIN todo : todo[i] = "linearizability" => j <= i
    BY <2>1, PlanOrder
  <2>. QED  BY <2>1, <2>2, <2>3, <2>4, <2>5 DEF TodoInv
<1>. QED  BY <1>1, <1>4, <1>5 DEF BaseInv

LEMMA BaseStep ==
  ASSUME BaseInv, [Next]_vars
  PROVE  BaseInv'
BY TypeStep, KeysStep, WaitStep, AskedStep, OutcomeStep, TodoStep, ResetStep DEF BaseInv

-----------------------------------------------------------------------------
(* What has been answered                                                  *)

\* What is known of a record and of the operation it is about.
LEMMA RecordIs ==
  ASSUME BaseInv, NEW k \in DOMAIN history, NEW i, i = history[k].id
  PROVE  /\ i \in DOMAIN calls /\ history[k].cmd = command[i]
         /\ history[k].outcome = outcome[i] /\ outcome[i] \in {"ok", "failed", "unknown"}
<1>. PICK h : h = history[k]
  OBVIOUS
<1>1. /\ h.id \in DOMAIN calls /\ h.cmd = command[h.id] /\ h.outcome = outcome[h.id]
      /\ h.outcome \in {"ok", "failed", "unknown"}
  BY Recorded DEF BaseInv, TypeInv, RecordInv
<1>. QED  BY <1>1

\* The outcomes of an operation that was called.
LEMMA OutcomeType ==
  ASSUME BaseInv, NEW i \in DOMAIN calls
  PROVE  outcome[i] \in {"pending", "ok", "failed", "unknown"}
BY DEF BaseInv, TypeInv, StoreInv, CallInv

\* What has not been answered, in terms of outcomes.
Open(cmd) == \A i \in DOMAIN calls : calls[i].by = Main /\ command[i] = cmd => outcome[i] # "ok"

UnansweredMeans == \A cmd : Unanswered(cmd) <=> Open(cmd)

LEMMA UnansweredIs == BaseInv => UnansweredMeans
<1>. SUFFICES ASSUME BaseInv, NEW cmd PROVE Unanswered(cmd) <=> Open(cmd)
  BY DEF UnansweredMeans
<1>1. ASSUME Unanswered(cmd), NEW i \in DOMAIN calls, calls[i].by = Main, command[i] = cmd,
             outcome[i] = "ok"
      PROVE  FALSE
  <2>1. PICK k \in DOMAIN history : history[k].id = i
    BY <1>1 DEF BaseInv, OutcomeInv
  <2>2. history[k].cmd = cmd /\ history[k].outcome = "ok"
    BY <1>1, <2>1, RecordIs
  <2>. QED  BY <1>1, <2>1, <2>2 DEF Unanswered, Answers
<1>2. ASSUME NEW k \in Answers(Main, cmd)
      PROVE  \E i \in DOMAIN calls : calls[i].by = Main /\ command[i] = cmd /\ outcome[i] = "ok"
  <2>1. k \in DOMAIN history /\ calls[history[k].id].by = Main /\ history[k].cmd = cmd
        /\ history[k].outcome = "ok"
    BY DEF Answers
  <2>. QED  BY <2>1, RecordIs
<1>. QED  BY <1>1, <1>2 DEF Unanswered, Open

\* Neither have contenders that were refused, nor those that are still waiting.
Denied(r) == \A i \in DOMAIN calls : Contends(i, r) => outcome[i] \in {"pending", "failed"}

RefusedMeans == \A r : Refused(r) <=> Denied(r)

LEMMA RefusedIs == BaseInv => RefusedMeans
<1>. SUFFICES ASSUME BaseInv, NEW r PROVE Refused(r) <=> Denied(r)
  BY DEF RefusedMeans
<1>1. ASSUME Refused(r), NEW i \in DOMAIN calls, Contends(i, r), outcome[i] \notin {"pending", "failed"}
      PROVE  FALSE
  <2>1. PICK k \in DOMAIN history : history[k].id = i
    BY <1>1 DEF BaseInv, OutcomeInv
  <2>2. history[k].cmd = command[i] /\ history[k].outcome = outcome[i]
    BY <2>1, RecordIs
  <2>3. history[k] \in Results(r)
    BY <1>1, <2>2 DEF Results, Contends
  <2>. QED  BY <1>1, <2>2, <2>3 DEF Refused
<1>2. ASSUME NEW op \in Results(r)
      PROVE  \E i \in DOMAIN calls :
               Contends(i, r) /\ outcome[i] = op.outcome /\ outcome[i] # "pending"
  <2>1. PICK k \in DOMAIN history :
          op = history[k] /\ history[k].cmd.op = "cas" /\ history[k].cmd.key = Arena(r)
    BY DEF Results
  <2>2. PICK i : i = history[k].id
    OBVIOUS
  <2>3. /\ i \in DOMAIN calls /\ history[k].cmd = command[i]
        /\ history[k].outcome = outcome[i] /\ outcome[i] # "pending"
    BY <2>2, RecordIs
  <2>. QED  BY <2>1, <2>3 DEF Contends
<1>. QED  BY <1>1, <1>2 DEF Refused, Denied, Contends

\* Smoke's operations that returned were answered.
SmokeServed ==
  \A i \in DOMAIN calls : command[i].key = Smoke => outcome[i] \in {"pending", "ok"}

LEMMA SmokeAnsweredIs == BaseInv => (SmokeAnswered <=> SmokeServed)
<1>. SUFFICES ASSUME BaseInv PROVE SmokeAnswered <=> SmokeServed
  OBVIOUS
<1>1. ASSUME SmokeAnswered, NEW i \in DOMAIN calls, command[i].key = Smoke,
             outcome[i] \notin {"pending", "ok"}
      PROVE  FALSE
  <2>1. PICK k \in DOMAIN history : history[k].id = i
    BY <1>1 DEF BaseInv, OutcomeInv
  <2>2. history[k].cmd = command[i] /\ history[k].outcome = outcome[i]
    BY <2>1, RecordIs
  <2>. QED  BY <1>1, <2>2 DEF SmokeAnswered
<1>2. ASSUME NEW k \in DOMAIN history, history[k].cmd.key = Smoke, history[k].outcome # "ok"
      PROVE  \E i \in DOMAIN calls : command[i].key = Smoke /\ outcome[i] \notin {"pending", "ok"}
  BY <1>2, RecordIs
<1>. QED  BY <1>1, <1>2 DEF SmokeAnswered, SmokeServed

\* What has not been answered stays so until the main goroutine hears of it.
LEMMA UnansweredStays ==
  ASSUME BaseInv, [Next]_vars, NEW cmd, Unanswered(cmd),
         ~(Returns(Main) /\ Answered /\ command[busy[Main]] = cmd)
  PROVE  Unanswered(cmd)'
<1>1. Open(cmd)
  BY UnansweredIs DEF UnansweredMeans
<1>2. ASSUME NEW i \in DOMAIN calls', calls'[i].by = Main, command'[i] = cmd, outcome'[i] = "ok"
      PROVE  FALSE
  <2>1. i \in DOMAIN calls /\ calls[i].by = Main /\ command[i] = cmd /\ outcome[i] # "ok"
    BY <1>1, <1>2, OutcomeChanges DEF BaseInv, Open
  <2>2. busy[Main] = i /\ Returns(Main)
    BY <1>2, <2>1, OutcomeChanges DEF BaseInv
  <2>3. Return(Main) /\ Main \in Threads
    BY <2>2 DEF Returns, Threads
  <2>4. Answered
    BY <1>2, <2>2, <2>3, AnswerEffect DEF BaseInv
  <2>. QED  BY <2>1, <2>2, <2>4
<1>3. Open(cmd)'
  BY <1>2 DEF Open
<1>4. BaseInv' => UnansweredMeans'
  BY UnansweredIs, PTL
<1>. QED  BY <1>3, <1>4, BaseStep DEF UnansweredMeans

-----------------------------------------------------------------------------
(* A phase that works on keys of its own                                   *)

Judged == {"smoke", "cas", "kill", "majority"}

\* It begins with nothing done to its keys and nobody waiting, and its check is
\* what its loop came to.
LEMMA PhaseSteps ==
  ASSUME BaseInv, [Next]_vars, NEW p \in Judged
  PROVE  /\ Phase = p /\ Phase' = p => UNCHANGED <<todo, checks>> /\ ~EndPhase /\ ~Linearizability
         /\ Phase # p /\ Phase' = p =>
              /\ at' = 1 /\ step' = "first" /\ pass' = TRUE /\ Stays
              /\ \A t \in {Main} \cup Contenders : busy[t] = 0
              /\ \A i \in DOMAIN calls : calls[i].by \notin Clients /\ command[i].op # "delete"
                   => command[i].key \notin Touched(p)
         /\ Phase' = p => ~Failed(p)'
         /\ Failed(p)' =>
              /\ checks'["reset"] = checks["reset"]
              /\ (Failed(p) /\ Phase # p) \/ (Phase = p /\ EndPhase /\ ~pass /\ Stays)
         /\ Phase = p => checks["reset"] = checks'["reset"]
<1>0. /\ TypeInv /\ ControlInv /\ PlanInv /\ TodoInv /\ WaitInv /\ "reset" \in DOMAIN checks
      /\ p \in Phases /\ p \notin {"reset", "linearizability", "chaos"}
  BY ResetPlanned DEF BaseInv, TypeInv, Judged, Phases
<1>1. ASSUME NextPhase
      PROVE  /\ Phase = todo[1] /\ 1 \in DOMAIN todo /\ todo' \in Seq(Phases)
             /\ \A j \in DOMAIN todo' : j \in Nat \ {0} /\ j + 1 \in DOMAIN todo /\ todo'[j] = todo[j + 1]
             /\ Phase \in DOMAIN checks
             /\ \E v : checks' = [checks EXCEPT ![Phase] = v]
  <2>1. /\ Phase = todo[1] /\ 1 \in DOMAIN todo /\ todo' \in Seq(Phases)
        /\ \A j \in DOMAIN todo' : j \in Nat \ {0} /\ j + 1 \in DOMAIN todo /\ todo'[j] = todo[j + 1]
    BY <1>0, <1>1, TailOf, Zenon
  <2>2. Phase \in DOMAIN checks
    BY <1>0, <2>1 DEF ControlInv
  <2>3. \E v : checks' = [checks EXCEPT ![Phase] = v]
    BY <1>1 DEF NextPhase
  <2>. QED  BY <2>1, <2>2, <2>3
<1>2. Phase' = p => todo' # <<>> /\ todo'[1] = p
  BY <1>0 DEF Phase, Phases
<1>3. NextPhase /\ Phase' = p => 2 \in DOMAIN todo /\ todo[2] = p /\ Phase # p
  <2>. SUFFICES ASSUME NextPhase, Phase' = p
                PROVE  2 \in DOMAIN todo /\ todo[2] = p /\ Phase # p
    OBVIOUS
  <2>1. 1 \in DOMAIN todo'
    BY <1>1, <1>2
  <2>2. 1 + 1 \in DOMAIN todo /\ todo[1 + 1] = p
    BY <1>1, <1>2, <2>1
  <2>. QED  BY <1>0, <1>1, <2>2 DEF PlanInv
<1>4. UNCHANGED <<todo, checks>> \/ (NextPhase /\ Stays)
  BY <1>0, ControlKinds
<1>5. Phase = p /\ Phase' = p => UNCHANGED <<todo, checks>> /\ ~EndPhase /\ ~Linearizability
  <2>1. ASSUME EndPhase PROVE NextPhase
    <3>1. PICK v : v = IF pass THEN "PASS" ELSE "FAIL"
      OBVIOUS
    <3>. QED  BY <2>1, <3>1 DEF EndPhase, NextPhase
  <2>. QED  BY <1>0, <1>3, <1>4, <2>1 DEF Linearizability
<1>6. ASSUME NextPhase, Phase # "linearizability" PROVE EndPhase
  <2>1. todo' # todo
    <3>1. todo # <<>> /\ todo \in Seq(Phases) /\ todo' = Tail(todo)
      BY <1>0, <1>6 DEF NextPhase, Phase, ControlInv
    <3>2. Len(Tail(todo)) = Len(todo) - 1 /\ Len(todo) \in Nat
      BY <3>1, HeadTailProperties
    <3>3. Len(Tail(todo)) # Len(todo)
      BY <3>2
    <3>. QED  BY <3>1, <3>3
  <2>2. ByItself
    <3>1. UNCHANGED control => todo' = todo
      BY DEF control
    <3>2. Heard => todo' = todo
      BY DEF Heard, MainReturns
    <3>3. \A i : Effect(i) => todo' = todo
      BY <3>1 DEF Effect
    <3>4. \A t, cmd : Calls(t, cmd) => todo' = todo
      BY <3>1 DEF Calls
    <3>5. UNCHANGED vars => todo' = todo
      BY <3>1 DEF vars
    <3>. QED  BY <1>0, <2>1, <3>1, <3>2, <3>3, <3>4, <3>5, Steps
  <2>. QED  BY <1>6, <2>1, <2>2
            DEF ByItself, CASRound, MajorityNoLeader, ChaosStop, ChaosWait, NothingElse,
                Linearizability
<1>7. ASSUME Phase # p, Phase' = p
      PROVE  /\ at' = 1 /\ step' = "first" /\ pass' = TRUE /\ Stays
             /\ \A t \in {Main} \cup Contenders : busy[t] = 0
             /\ \A i \in DOMAIN calls : calls[i].by \notin Clients /\ command[i].op # "delete"
                  => command[i].key \notin Touched(p)
  <2>1. NextPhase /\ Stays
    BY <1>4, <1>7 DEF Phase
  <2>2. 2 \in DOMAIN todo /\ todo[2] = p
    BY <1>3, <1>7, <2>1
  <2>3. Phase # "linearizability"
    <3>1. 1 \in DOMAIN todo /\ todo[1] = Phase
      BY <1>1, <2>1
    <3>2. ~(2 <= 1)
      OBVIOUS
    <3>. QED  BY <1>0, <2>2, <3>1, <3>2 DEF TodoInv
  <2>4. EndPhase
    BY <1>6, <2>1, <2>3
  <2>5. \A t \in {Main} \cup Contenders : busy[t] = 0
    BY <1>0, <2>4, Idle DEF ByItself
  <2>6. \A i \in DOMAIN calls : calls[i].by \notin Clients /\ command[i].op # "delete"
          => command[i].key \notin Touched(p)
    BY <1>0, <2>2 DEF PlanInv
  <2>. QED  BY <2>1, <2>4, <2>5, <2>6 DEF EndPhase
<1>8. Phase' = p => ~Failed(p)'
  <2>. SUFFICES ASSUME Phase' = p PROVE checks'[p] = "none"
    BY DEF Failed
  <2>1. TodoInv' /\ ControlInv'
    BY <1>0, TodoStep, ControlStep
  <2>2. 1 \in DOMAIN todo'
    BY <1>2, <2>1 DEF ControlInv
  <2>. QED  BY <1>2, <2>1, <2>2 DEF TodoInv
<1>9. ASSUME Failed(p)'
      PROVE  /\ checks'["reset"] = checks["reset"]
             /\ (Failed(p) /\ Phase # p) \/ (Phase = p /\ EndPhase /\ ~pass /\ Stays)
  <2>1. CASE UNCHANGED <<todo, checks>>
    BY <1>8, <1>9, <2>1 DEF Failed, Phase
  <2>2. CASE NextPhase /\ Stays
    <3>1. PICK v : checks' = [checks EXCEPT ![Phase] = v]
      BY <1>1, <2>2
    <3>2. p \in DOMAIN checks /\ checks'[p] = "FAIL"
      BY <1>9, <3>1 DEF Failed
    <3>3. CASE Phase = p
      <4>1. EndPhase
        BY <1>0, <1>6, <2>2, <3>3
      <4>2. PICK w : w = IF pass THEN "PASS" ELSE "FAIL"
        OBVIOUS
      <4>3. checks' = [checks EXCEPT ![p] = w]
        BY <3>3, <4>1, <4>2 DEF EndPhase
      <4>4. ~pass /\ checks'["reset"] = checks["reset"]
        BY <1>0, <3>2, <4>2, <4>3
      <4>. QED  BY <2>2, <3>3, <4>1, <4>4
    <3>4. CASE Phase # p
      <4>1. Failed(p)
        BY <3>1, <3>2, <3>4 DEF Failed
      <4>2. Phase # "reset"
        <5>1. 1 \in DOMAIN todo /\ todo[1] = Phase
          BY <1>1, <2>2
        <5>. QED  BY <1>0, <4>1, <5>1 DEF TodoInv, Failed
      <4>3. checks'["reset"] = checks["reset"]
        BY <1>0, <3>1, <4>2
      <4>. QED  BY <3>4, <4>1, <4>3
    <3>. QED  BY <3>3, <3>4
  <2>. QED  BY <1>4, <2>1, <2>2
<1>10. ASSUME Phase = p PROVE checks["reset"] = checks'["reset"]
  <2>1. CASE NextPhase
    <3>1. PICK v : checks' = [checks EXCEPT ![p] = v]
      BY <1>1, <1>10, <2>1
    <3>. QED  BY <1>0, <3>1
  <2>. QED  BY <1>4, <2>1
<1>. QED  BY <1>5, <1>7, <1>8, <1>9, <1>10

\* The keys of different phases are different ones.
LEMMA KeyNames ==
  ASSUME NEW i, NEW j
  PROVE  /\ Smoke # Arena(j) /\ Smoke # Durable(j) /\ Smoke # Live /\ Live # Arena(j)
         /\ Live # Durable(j) /\ Arena(i) # Durable(j)
<1>1. /\ Smoke[1] = "smoke" /\ Live[1] = "majority-live"
      /\ \A n : Arena(n)[1] = "cas-arena" /\ Durable(n)[1] = "durable"
  BY DEF Smoke, Live, Arena, Durable
<1>. QED  BY <1>1

\* Who works on the keys of a phase, and how.
Works(k, t, cmd) ==
  \/ /\ k = Smoke /\ t = Main
     /\ cmd = Get(Smoke) \/ \E n \in Nat : cmd = Put(Smoke, Numbered(n))
  \/ \E r \in Nat : /\ k = Arena(r)
                    /\ \/ t = Main /\ cmd = Put(Arena(r), Base(r))
                       \/ t \in Contenders /\ cmd = CAS(Arena(r), Base(r), Winner(r, t))
  \/ \E j \in Nat : /\ k = Durable(j) /\ t = Main
                    /\ cmd = Get(Durable(j)) \/ cmd = Put(Durable(j), Precious(j))
  \/ /\ k = Live /\ t = Main
     /\ cmd = Get(Live) \/ \E i \in 0 .. MaxTries : cmd = Put(Live, Served(i))

LEMMA DurableWorks ==
  ASSUME NEW j, NEW t, NEW cmd, Works(Durable(j), t, cmd)
  PROVE  t = Main /\ (cmd = Get(Durable(j)) \/ cmd = Put(Durable(j), Precious(j)))
<1>1. ASSUME NEW m, Durable(j) = Durable(m) PROVE j = m
  BY <1>1 DEF Durable
<1>2. Durable(j) # Smoke /\ Durable(j) # Live /\ \A r : Durable(j) # Arena(r)
  BY KeyNames
<1>. QED  BY <1>1, <1>2 DEF Works

LEMMA LiveWorks ==
  ASSUME NEW t, NEW cmd, Works(Live, t, cmd)
  PROVE  t = Main /\ (cmd = Get(Live) \/ \E i \in 0 .. MaxTries : cmd = Put(Live, Served(i)))
<1>1. Live # Smoke /\ \A r : Live # Arena(r) /\ Live # Durable(r)
  BY KeyNames
<1>. QED  BY <1>1 DEF Works

LEMMA ArenaWorks ==
  ASSUME NEW r, NEW t, NEW cmd, Works(Arena(r), t, cmd)
  PROVE  \/ t = Main /\ cmd = Put(Arena(r), Base(r))
         \/ t \in Contenders /\ cmd = CAS(Arena(r), Base(r), Winner(r, t))
<1>1. ASSUME NEW m, Arena(r) = Arena(m) PROVE r = m
  BY <1>1 DEF Arena
<1>2. Arena(r) # Smoke /\ Arena(r) # Live /\ \A j : Arena(r) # Durable(j)
  BY KeyNames
<1>. QED  BY <1>1, <1>2 DEF Works

LEMMA KeyWorks ==
  ASSUME BaseInv, NEW p \in Judged, NEW i \in DOMAIN calls, command[i].key \in Touched(p),
         command[i].op # "delete"
  PROVE  Works(command[i].key, calls[i].by, command[i])
<1>1. calls[i].by \notin Clients
  <2>1. Touched(p) \cap ChaosKeys = {}
    BY NamesFacts DEF Judged, Phases
  <2>. QED  BY <2>1 DEF BaseInv, KeysInv
<1>2. PICK q \in Phases, s \in {"first", "get", "race"}, n \in Nat :
        Asked(q, s, n, calls[i].by, command[i])
  BY <1>1 DEF BaseInv, AskedInv
<1>3. PICK t : t = calls[i].by
  OBVIOUS
<1>4. PICK cmd : cmd = command[i]
  OBVIOUS
<1>5. \A k, v, e : Put(k, v).key = k /\ Get(k).key = k /\ CAS(k, e, v).key = k
  BY DEF Put, Get, CAS
<1>6. Works(cmd.key, t, cmd)
  <2>1. CASE q = "smoke" /\ t = Main
             /\ (cmd = Put(Smoke, Numbered(n)) \/ cmd = Get(Smoke))
    BY <1>5, <2>1 DEF Works
  <2>2. CASE t = Main /\ cmd = Put(Arena(n), Base(n))
    BY <1>5, <2>2 DEF Works
  <2>3. CASE t \in Contenders /\ cmd = CAS(Arena(n), Base(n), Winner(n, t))
    BY <1>5, <2>3 DEF Works
  <2>4. CASE t = Main /\ (cmd = Put(Durable(n), Precious(n)) \/ cmd = Get(Durable(n)))
    BY <1>5, <2>4 DEF Works
  <2>5. CASE t = Main /\ (cmd = Get(Live) \/ \E m \in 0 .. MaxTries : cmd = Put(Live, Served(m)))
    BY <1>5, <2>5 DEF Works
  <2>. QED  BY <1>2, <1>3, <1>4, <2>1, <2>2, <2>3, <2>4, <2>5 DEF Asked
<1>. QED  BY <1>3, <1>4, <1>6

\* What those operations do.
LEMMA Applied ==
  ASSUME NEW d \in Data, NEW k \in Keys, NEW v \in Values
  PROVE  /\ ApplyData(d, Put(k, v))[k] = v
         /\ ApplyData(d, Get(k)) = d
         /\ d[k] # Nil => ApplyResult(d, Get(k)) = Found(d[k])
         /\ \A e \in Values : d[k] = e =>
              ApplyData(d, CAS(k, e, v))[k] = v /\ ApplyResult(d, CAS(k, e, v)).ok
         /\ \A e \in Values : d[k] # e =>
              ApplyData(d, CAS(k, e, v)) = d /\ ~ApplyResult(d, CAS(k, e, v)).ok
<1>1. ApplyData(d, Put(k, v))[k] = v
  BY DEF ApplyData, Put, Data
<1>2. ApplyData(d, Get(k)) = d
  BY DEF ApplyData, Get
<1>3. d[k] # Nil => ApplyResult(d, Get(k)) = Found(d[k])
  BY DEF ApplyResult, Get, Found, Res, Present, Lookup
<1>4. ASSUME NEW e \in Values, NEW cmd, cmd = CAS(k, e, v)
      PROVE  /\ cmd.op = "cas" /\ cmd.key = k /\ cmd.value = v
             /\ CASMatches(d, cmd) <=> d[k] = e
  BY <1>4, KVAssumption DEF CAS, CASMatches, Present
<1>5. ASSUME NEW e \in Values, d[k] = e
      PROVE  ApplyData(d, CAS(k, e, v))[k] = v /\ ApplyResult(d, CAS(k, e, v)).ok
  <2>1. PICK cmd : cmd = CAS(k, e, v)
    OBVIOUS
  <2>2. cmd.op = "cas" /\ cmd.key = k /\ cmd.value = v /\ CASMatches(d, cmd)
    BY <1>4, <1>5, <2>1
  <2>3. ApplyData(d, cmd) = [d EXCEPT ![k] = v] /\ ApplyResult(d, cmd) = Res(TRUE, FALSE, Empty)
    BY <2>2 DEF ApplyData, ApplyResult
  <2>. QED  BY <2>1, <2>3 DEF Res, Data
<1>6. ASSUME NEW e \in Values, d[k] # e
      PROVE  ApplyData(d, CAS(k, e, v)) = d /\ ~ApplyResult(d, CAS(k, e, v)).ok
  <2>1. PICK cmd : cmd = CAS(k, e, v)
    OBVIOUS
  <2>2. cmd.op = "cas" /\ cmd.key = k /\ ~CASMatches(d, cmd)
    BY <1>4, <1>6, <2>1
  <2>3. ApplyData(d, cmd) = d /\ ApplyResult(d, cmd) = Res(FALSE, Present(d, k), Lookup(d, k))
    BY <2>2 DEF ApplyData, ApplyResult
  <2>. QED  BY <2>1, <2>3 DEF Res
<1>. QED  BY <1>1, <1>2, <1>3, <1>5, <1>6

\* What takes effect on a key of the present phase, after a reset that succeeded.
LEMMA PhaseEffect ==
  ASSUME BaseInv, NEW p \in Judged, Phase = p, NEW i \in DOMAIN calls, Effect(i),
         NEW k \in Touched(p)
  PROVE  /\ k \in Keys /\ data \in Data
         /\ command[i].key # k => data'[k] = data[k]
         /\ UNCHANGED <<control, calls, command, outcome, busy, history>>
         /\ \A j \in DOMAIN calls \ {i} : effect'[j] = effect[j]
         /\ effect'[i] = ApplyResult(data, command[i]) /\ effect'[i] # NoResult
         /\ data' = ApplyData(data, command[i])
         /\ effect[i] = NoResult /\ outcome[i] \in {"pending", "unknown"}
         /\ outcome[i] = "pending" => busy[calls[i].by] = i
         /\ command[i].key = k /\ checks["reset"] = "PASS" =>
              command[i].op # "delete" /\ Works(k, calls[i].by, command[i])
<1>0. ClientInv /\ ControlInv /\ CallInv
  BY DEF BaseInv, TypeInv, ClientInv
<1>1. /\ i \in Invocations /\ outcome[i] \in {"pending", "unknown"} /\ effect[i] = NoResult
      /\ effect' = [effect EXCEPT ![i] = ApplyResult(data, command[i])]
      /\ effect'[i] # NoResult /\ data' = ApplyData(data, command[i])
      /\ UNCHANGED <<control, calls, command, outcome, busy, history>>
  BY <1>0, TakesEffect
<1>2. k \in Keys
  <2>1. p \in Phases
    BY DEF Judged, Phases
  <2>. QED  BY <1>0, <2>1, PhaseOfPlan
<1>3. command[i].key # k => data'[k] = data[k]
  <2>1. PICK cmd : cmd = command[i]
    OBVIOUS
  <2>2. \A j \in Keys \ {cmd.key} : data'[j] = data[j]
    BY <1>0, <2>1, EffectData
  <2>. QED  BY <1>2, <2>1, <2>2
<1>4. /\ \A j \in DOMAIN calls \ {i} : effect'[j] = effect[j]
      /\ effect'[i] = ApplyResult(data, command[i])
  <2>1. effect \in [Invocations -> Result \cup {NoResult}] /\ DOMAIN calls \subseteq Invocations
    BY <1>0 DEF ClientInv, StoreInv, CallInv
  <2>. QED  BY <1>1, <2>1
<1>5. outcome[i] = "pending" => busy[calls[i].by] = i
  BY <1>0 DEF CallInv
<1>6. ASSUME command[i].key = k, checks["reset"] = "PASS"
      PROVE  command[i].op # "delete" /\ Works(k, calls[i].by, command[i])
  <2>1. Touched(p) \cap ChaosKeys = {}
    BY NamesFacts DEF Judged, Phases
  <2>2. calls[i].by \notin Clients
    BY <1>6, <2>1 DEF BaseInv, KeysInv
  <2>3. i # 0
    BY <1>0, Called
  <2>4. command[i].op # "delete"
    <3>. SUFFICES ASSUME command[i].op = "delete" PROVE FALSE
      OBVIOUS
    <3>1. i = busy[Main]
      BY <1>1, <1>6, <2>2 DEF BaseInv, ResetInv, Deletes
    <3>2. Asked(Phase, step, at, Main, command[i])
      BY <2>3, <3>1 DEF BaseInv, WaitInv
    <3>3. Phase = "reset"
      BY <3>2, DeletesAsked
    <3>. QED  BY <3>3 DEF Judged
  <2>. QED  BY <1>6, <2>4, KeyWorks
<1>7. data \in Data
  BY <1>0 DEF ClientInv, StoreInv
<1>. QED  BY <1>1, <1>2, <1>3, <1>4, <1>5, <1>6, <1>7

\* What a call leaves as it was.
LEMMA CallIs ==
  ASSUME TypeInv, NEW t \in Threads, NEW cmd \in Command, Calls(t, cmd), NEW n, n = Len(calls) + 1
  PROVE  /\ n \notin DOMAIN calls /\ DOMAIN calls' = DOMAIN calls \cup {n} /\ n # 0
         /\ calls'[n].by = t /\ command'[n] = cmd
         /\ outcome'[n] = "pending" /\ effect'[n] = NoResult
         /\ UNCHANGED <<data, effect, history, control>> /\ busy[t] = 0
         /\ busy'[t] = n /\ \A u \in Threads \ {t} : busy'[u] = busy[u]
         /\ \A i \in DOMAIN calls : calls'[i] = calls[i] /\ command'[i] = command[i]
                                    /\ outcome'[i] = outcome[i]
<1>0. ClientInv
  BY DEF TypeInv, ClientInv
<1>1. /\ n \in Invocations /\ n \in Nat \ {0} /\ n \notin DOMAIN calls /\ effect[n] = NoResult
      /\ outcome' = [outcome EXCEPT ![n] = "pending"]
      /\ command' = [command EXCEPT ![n] = cmd]
      /\ UNCHANGED <<data, effect, history>>
      /\ busy[t] = 0 /\ busy' = [busy EXCEPT ![t] = n]
      /\ DOMAIN calls' = DOMAIN calls \cup {n}
      /\ calls'[n] = [by |-> t, start |-> now + 1]
      /\ \A i \in DOMAIN calls : calls'[i] = calls[i] /\ command'[i] = command[i]
                                 /\ outcome'[i] = outcome[i]
  BY <1>0, CallEffect DEF Calls
<1>2. UNCHANGED control
  BY DEF Calls
<1>. QED  BY <1>0, <1>1, <1>2 DEF ClientInv, StoreInv, CallInv

\* A call does not take effect at once.
LEMMA CallStays ==
  ASSUME TypeInv, NEW t \in Threads, NEW cmd \in Command, Calls(t, cmd)
  PROVE  /\ UNCHANGED <<data, effect, control>>
         /\ TookEffect(Main)' => TookEffect(Main) /\ busy'[Main] = busy[Main]
<1>1. PICK n : n = Len(calls) + 1
  OBVIOUS
<1>2. UNCHANGED control
  BY DEF Calls
<1>3. /\ UNCHANGED data /\ UNCHANGED effect /\ effect'[n] = NoResult
      /\ busy'[t] = n /\ \A u \in Threads \ {t} : busy'[u] = busy[u]
  BY <1>1, CallIs
<1>. QED  BY <1>2, <1>3 DEF TookEffect, Threads

\* Goroutines that hear of nothing keep what the main goroutine waits for.
LEMMA OthersStay ==
  ASSUME TypeInv, \/ \E t \in Threads, cmd \in Command : Calls(t, cmd)
                  \/ \E t \in Threads \ {Main} : Returns(t) /\ UNCHANGED control
                  \/ UNCHANGED vars
  PROVE  /\ UNCHANGED <<data, effect, control>>
         /\ TookEffect(Main)' => TookEffect(Main) /\ busy'[Main] = busy[Main]
<1>1. ASSUME NEW t \in Threads, NEW cmd \in Command, Calls(t, cmd)
      PROVE  /\ UNCHANGED <<data, effect, control>>
             /\ TookEffect(Main)' => TookEffect(Main) /\ busy'[Main] = busy[Main]
  BY <1>1, CallStays
<1>2. ASSUME NEW t \in Threads \ {Main}, Returns(t), UNCHANGED control
      PROVE  /\ UNCHANGED <<data, effect, control>>
             /\ TookEffect(Main)' => TookEffect(Main) /\ busy'[Main] = busy[Main]
  <2>1. /\ UNCHANGED <<data, effect>>
        /\ \A u \in Threads : busy'[u] = IF u = t THEN 0 ELSE busy[u]
    BY <1>2, AnswerEffect DEF Returns
  <2>. QED  BY <1>2, <2>1 DEF TookEffect, Threads
<1>3. CASE UNCHANGED vars
  BY <1>3 DEF vars, absVars, control, TookEffect
<1>. QED  BY <1>1, <1>2, <1>3

-----------------------------------------------------------------------------
(* Smoke                                                                   *)

LEMMA SmokeStep ==
  ASSUME BaseInv, SmokeInv, [Next]_vars
  PROVE  SmokeInv'
<1>. SUFFICES ASSUME checks'["reset"] = "PASS", SmokeAnswered'
              PROVE  (Phase' = "smoke" => SmokeLoop') /\ ~Failed("smoke")'
  BY DEF SmokeInv
<1>0. TypeInv /\ CallInv /\ StoreInv /\ "smoke" \in Judged /\ Main \in Threads /\ Smoke \in Touched("smoke")
  BY TouchedIs DEF BaseInv, TypeInv, Judged, Threads
<1>1. SmokeServed'
  <2>1. BaseInv' => (SmokeAnswered' <=> SmokeServed')
    BY SmokeAnsweredIs, PTL
  <2>. QED  BY <2>1, BaseStep
<1>2. SmokeServed
  BY <1>0, <1>1, OutcomeChanges DEF SmokeServed
<1>3. SmokeAnswered
  BY <1>2, SmokeAnsweredIs
<1>4. CASE Phase # "smoke" /\ Phase' = "smoke"
  <2>1. step' = "first" /\ pass' = TRUE /\ Stays /\ busy[Main] = 0
    BY <1>0, <1>4, PhaseSteps
  <2>. QED  BY <1>0, <1>4, <2>1, PhaseSteps DEF SmokeLoop, TookEffect, Stays
<1>5. CASE Phase = "smoke" /\ Phase' = "smoke"
  <2>0. /\ ~EndPhase /\ ~Linearizability /\ checks["reset"] = "PASS" /\ ~Failed("smoke")'
        /\ UNCHANGED <<todo, checks>>
    BY <1>0, <1>5, PhaseSteps
  <2>1. SmokeLoop
    BY <1>3, <1>5, <2>0 DEF SmokeInv
  <2>2. CASE \/ \E t \in Threads, cmd \in Command : Calls(t, cmd)
             \/ \E t \in Threads \ {Main} : Returns(t) /\ UNCHANGED control
             \/ UNCHANGED vars
    <3>1. /\ UNCHANGED <<data, effect, control>>
          /\ TookEffect(Main)' => TookEffect(Main) /\ busy'[Main] = busy[Main]
      BY <1>0, <2>2, OthersStay
    <3>. QED  BY <2>0, <2>1, <3>1 DEF SmokeLoop, control
  <2>3. CASE Returns(Main) /\ Heard
    <3>1. PICK n : n = busy[Main]
      OBVIOUS
    <3>2. /\ n \in DOMAIN calls /\ n # 0 /\ UNCHANGED <<data, effect, calls, command>>
          /\ busy'[Main] = 0
          /\ outcome'[n] \in {"ok", "failed", "unknown"} /\ (Answered <=> outcome'[n] = "ok")
          /\ outcome'[n] = "ok" => effect[n] # NoResult /\ Got.res = effect[n]
      BY <1>0, <2>3, <3>1, AnswerEffect DEF Returns
    <3>3. Asked("smoke", step, at, Main, command[n])
      BY <1>5, <3>1, <3>2 DEF BaseInv, WaitInv
    <3>4. command[n].key = Smoke
      BY <3>3 DEF Asked, Put, Get
    <3>5. Answered
      BY <1>1, <3>2, <3>4 DEF SmokeServed
    <3>6. TookEffect(Main)
      BY <3>1, <3>2, <3>5 DEF TookEffect
    <3>7. CASE step = "first" /\ GoOn("get")
      BY <2>0, <2>1, <3>2, <3>6, <3>7 DEF SmokeLoop, GoOn, TookEffect
    <3>8. CASE step = "get" /\ NextRound(Answered /\ Got.res.present /\ Got.res.value = Numbered(at))
      <4>1. Got.res.present /\ Got.res.value = Numbered(at)
        BY <2>1, <3>1, <3>2, <3>5, <3>6, <3>8 DEF SmokeLoop, Found, Res
      <4>2. pass' /\ step' = "first"
        BY <2>1, <3>5, <3>8, <4>1 DEF NextRound, SmokeLoop
      <4>. QED  BY <2>0, <3>2, <4>2 DEF SmokeLoop, TookEffect
    <3>. QED  BY <1>5, <2>3, <3>5, <3>7, <3>8 DEF Heard, MainReturns, At
  <2>4. ASSUME NEW i \in DOMAIN calls, Effect(i) PROVE SmokeLoop'
    <3>0. PICK k : k = Smoke
      OBVIOUS
    <3>1. /\ k \in Keys /\ data \in Data
          /\ command[i].key # k => data'[k] = data[k]
          /\ UNCHANGED <<control, calls, command, outcome, busy, history>>
          /\ \A j \in DOMAIN calls \ {i} : effect'[j] = effect[j]
          /\ effect'[i] = ApplyResult(data, command[i])
          /\ data' = ApplyData(data, command[i])
          /\ effect[i] = NoResult /\ outcome[i] \in {"pending", "unknown"}
          /\ outcome[i] = "pending" => busy[calls[i].by] = i
          /\ command[i].key = k => Works(k, calls[i].by, command[i])
      BY <1>0, <1>5, <2>0, <2>4, <3>0, PhaseEffect
    <3>2. busy[Main] # 0 => /\ Asked("smoke", step, at, Main, command[busy[Main]])
                            /\ busy[Main] \in DOMAIN calls
      BY <1>0, <1>5 DEF BaseInv, WaitInv, CallInv
    <3>3. CASE command[i].key # k
      <4>1. busy[Main] # i
        <5>1. i # 0
          BY <1>0, Called
        <5>. QED  BY <3>0, <3>2, <3>3, <5>1 DEF Asked, Put, Get
      <4>. QED  BY <2>1, <3>0, <3>1, <3>2, <3>3, <4>1 DEF SmokeLoop, TookEffect, control
    <3>4. CASE command[i].key = k
      <4>1. outcome[i] = "pending" /\ calls[i].by = Main
        BY <1>2, <3>0, <3>1, <3>4, KeyNames DEF SmokeServed, Works
      <4>2. busy[Main] = i /\ Asked("smoke", step, at, Main, command[i])
        <5>1. i # 0
          BY <1>0, Called
        <5>. QED  BY <3>1, <3>2, <4>1, <5>1
      <4>3. CASE step = "first" /\ command[i] = Put(k, Numbered(at))
        <5>1. PICK v : v = Numbered(at)
          OBVIOUS
        <5>2. ApplyData(data, Put(k, v))[k] = v
          BY <3>1 DEF ApplyData, Put, Data
        <5>. QED  BY <2>1, <3>0, <3>1, <4>3, <5>1, <5>2 DEF SmokeLoop, control
      <4>4. CASE step = "get" /\ command[i] = Get(k)
        <5>1. data[k] = Numbered(at)
          BY <2>1, <3>0, <4>4 DEF SmokeLoop
        <5>2. data[k] # Nil
          <6>1. at \in 1 .. Nodes
            <7>1. at <= Count("smoke") /\ at \in Nat \ {0}
              BY <1>0, <1>5, <4>2, Called DEF BaseInv, WaitInv, TypeInv, ControlInv
            <7>. QED  BY <7>1, CountIs, NamesFacts
          <6>2. Numbered(at) \in Printed
            BY <6>1 DEF Printed
          <6>. QED  BY <5>1, <6>2, NamesFacts, KVAssumption
        <5>3. ApplyData(data, Get(k)) = data /\ ApplyResult(data, Get(k)) = Found(data[k])
          BY <3>1, <5>2, Applied, KVAssumption
        <5>. QED  BY <2>1, <3>0, <3>1, <4>2, <4>4, <5>1, <5>3 DEF SmokeLoop, control
      <4>. QED  BY <3>0, <4>2, <4>3, <4>4 DEF Asked
    <3>. QED  BY <3>3, <3>4
  <2>5. ~ByItself
    BY <1>5, <2>0 DEF ByItself, CASRound, MajorityNoLeader, ChaosStop, ChaosWait, At
  <2>. QED  BY <1>0, <2>0, <2>2, <2>3, <2>4, <2>5, Steps
<1>6. CASE Phase' # "smoke"
  <2>. SUFFICES ASSUME Failed("smoke")' PROVE FALSE
    BY <1>6
  <2>1. /\ checks'["reset"] = checks["reset"]
        /\ Failed("smoke") \/ (Phase = "smoke" /\ ~pass)
    BY <1>0, PhaseSteps
  <2>. QED  BY <1>3, <2>1 DEF SmokeInv, SmokeLoop
<1>. QED  BY <1>4, <1>5, <1>6

-----------------------------------------------------------------------------
(* Leader kill                                                             *)

\* A key of the phase is the main goroutine's.
LEMMA DurableIs ==
  ASSUME BaseInv, NEW j \in 1 .. Iterations
  PROVE  /\ Durable(j) \in Touched("kill") /\ Precious(j) \in Values /\ Precious(j) # Nil
         /\ \A i \in DOMAIN calls : command[i].key = Durable(j) => calls[i].by \notin Clients
<1>1. Durable(j) \in Touched("kill")
  BY TouchedIs
<1>2. Precious(j) \in Printed
  BY DEF Printed
<1>3. Touched("kill") \cap ChaosKeys = {}
  BY NamesFacts DEF Phases
<1>. QED  BY <1>1, <1>2, <1>3, NamesFacts, KVAssumption DEF BaseInv, KeysInv

\* What the main goroutine waits for in a round.
LEMMA KillAsks ==
  ASSUME BaseInv, Phase = "kill", busy[Main] # 0, NEW cmd, cmd = command[busy[Main]]
  PROVE  /\ at \in 1 .. Iterations /\ busy[Main] \in DOMAIN calls
         /\ cmd.key = Durable(at)
         /\ \/ step = "first" /\ cmd = Put(Durable(at), Precious(at))
            \/ step = "get" /\ cmd = Get(Durable(at))
<1>1. Asked("kill", step, at, Main, cmd) /\ at <= Count("kill")
  BY DEF BaseInv, WaitInv
<1>2. at \in Nat \ {0}
  BY DEF BaseInv, TypeInv, ControlInv
<1>3. busy[Main] \in DOMAIN calls
  BY DEF BaseInv, TypeInv, CallInv, Threads
<1>. QED  BY <1>1, <1>2, <1>3, CountIs, NamesFacts DEF Asked, Put, Get

\* Lost is lost, once the loop is past it.
LEMMA LostStays ==
  ASSUME BaseInv, [Next]_vars, NEW j, Lost(j), ~(Returns(Main) /\ Phase = "kill" /\ at = j)
  PROVE  Lost(j)'
<1>1. ASSUME NEW cmd \in {Put(Durable(j), Precious(j)), Get(Durable(j))},
             Returns(Main), command[busy[Main]] = cmd
      PROVE  FALSE
  <2>1. busy[Main] # 0
    BY <1>1 DEF Returns, Return
  <2>2. Asked(Phase, step, at, Main, cmd) /\ cmd.key = Durable(j) /\ cmd.op \in {"put", "get"}
    BY <1>1, <2>1 DEF BaseInv, WaitInv, Put, Get
  <2>3. Phase = "kill"
    BY <2>2, KeyNames, NamesFacts DEF Asked, Put, Get
  <2>4. cmd.key = Durable(at)
    BY <1>1, <2>1, <2>3, KillAsks
  <2>5. at = j
    BY <2>2, <2>4 DEF Durable
  <2>. QED  BY <1>1, <2>3, <2>5
<1>2. ASSUME NEW cmd \in {Put(Durable(j), Precious(j)), Get(Durable(j))}, Unanswered(cmd)
      PROVE  Unanswered(cmd)'
  BY <1>1, <1>2, UnansweredStays
<1>3. CASE Unanswered(Put(Durable(j), Precious(j)))
  BY <1>2, <1>3 DEF Lost, Put, Durable, Precious
<1>4. CASE Unanswered(Get(Durable(j)))
  BY <1>2, <1>4 DEF Lost, Get, Durable
<1>. QED  BY <1>3, <1>4 DEF Lost

\* Within the loop, nobody is ahead of it.
LEMMA KillKeysStep ==
  ASSUME BaseInv, KillKeys, [Next]_vars, Phase = "kill", Phase' = "kill"
  PROVE  KillKeys'
<1>. DEFINE Behind(i, j) == j < at \/ (j = at /\ (step = "get" \/ i = busy[Main]))
            Keys1 == \A i \in DOMAIN calls, j \in 1 .. Iterations :
                       ~Deletes(i) /\ command[i].key = Durable(j) => Behind(i, j)
            Puts == step = "get" => \A i \in DOMAIN calls :
                      command[i] = Put(Durable(at), Precious(at)) => outcome[i] = "ok"
            Gets == step = "get" => at <= Iterations /\ Unanswered(Get(Durable(at)))
<1>0. TypeInv /\ CallInv /\ "kill" \in Judged /\ Main \in Threads /\ at \in Nat \ {0}
  BY DEF BaseInv, TypeInv, ControlInv, Judged, Threads
<1>6. Keys1 /\ Puts /\ Gets
  BY DEF KillKeys
<1>1. ~EndPhase /\ ~Linearizability
  BY <1>0, PhaseSteps
<1>2. /\ DOMAIN calls \subseteq DOMAIN calls'
      /\ \A i \in DOMAIN calls : calls'[i] = calls[i] /\ command'[i] = command[i]
      /\ \A i \in DOMAIN calls : outcome[i] = "ok" => outcome'[i] = "ok"
  BY <1>0, OutcomeChanges
<1>3. \A i \in DOMAIN calls : Deletes(i)' = Deletes(i)
  BY <1>2 DEF Deletes
<1>4. ASSUME NEW cmd, step = "get", cmd = Get(Durable(at)), ~(Returns(Main) /\ Answered)
      PROVE  Unanswered(cmd)'
  BY <1>4, <1>6, UnansweredStays
<1>5. ASSUME NEW t \in Threads, NEW cmd \in Command, Calls(t, cmd)
      PROVE  KillKeys'
  <2>1. PICK n : n = Len(calls) + 1
    OBVIOUS
  <2>2. /\ n \notin DOMAIN calls /\ DOMAIN calls' = DOMAIN calls \cup {n}
        /\ calls'[n].by = t /\ command'[n] = cmd /\ busy[t] = 0
        /\ busy'[t] = n /\ \A u \in Threads \ {t} : busy'[u] = busy[u]
    BY <1>0, <1>5, <2>1, CallIs, ZenonT(30)
  <2>3. UNCHANGED <<at, step>> /\ MayCall(t, cmd)
    BY <1>5 DEF Calls, control
  <2>4. ASSUME NEW j \in 1 .. Iterations, cmd.key = Durable(j)
        PROVE  /\ t = Main /\ j = at
               /\ step = "first" \/ (step = "get" /\ cmd = Get(Durable(at)))
    <3>1. BaseInv'
      BY BaseStep
    <3>2. t \notin Clients
      <4>1. t \in Clients => cmd.key \in ChaosKeys
        BY <2>2, <3>1 DEF BaseInv, KeysInv
      <4>2. Touched("kill") \cap ChaosKeys = {}
        BY NamesFacts DEF Phases
      <4>. QED  BY <2>4, <4>1, <4>2, TouchedIs
    <3>3. Asked("kill", step, at, t, cmd)
      BY <2>3, <3>2 DEF MayCall
    <3>4. /\ t = Main /\ cmd.key = Durable(at)
          /\ step = "first" \/ (step = "get" /\ cmd = Get(Durable(at)))
      BY <3>3 DEF Asked, Put, Get
    <3>. QED  BY <2>4, <3>4 DEF Durable
  <2>5. ASSUME NEW i \in DOMAIN calls', NEW j \in 1 .. Iterations, ~Deletes(i)',
               command'[i].key = Durable(j)
        PROVE  Behind(i, j)'
    <3>1. CASE i = n
      BY <2>2, <2>3, <2>4, <2>5, <3>1
    <3>2. CASE i \in DOMAIN calls
      <4>1. i # 0
        BY <1>0, <3>2, Called
      <4>2. i = busy[Main] => i = busy'[Main]
        BY <1>0, <2>2, <4>1
      <4>3. ~Deletes(i) /\ command[i].key = Durable(j)
        BY <1>2, <1>3, <2>5, <3>2
      <4>4. Behind(i, j)
        BY <1>6, <3>2, <4>3
      <4>. QED  BY <2>3, <4>2, <4>4
    <3>. QED  BY <2>2, <3>1, <3>2
  <2>6. Puts'
    <3>. SUFFICES ASSUME step = "get", NEW i \in DOMAIN calls',
                         command'[i] = Put(Durable(at), Precious(at))
                  PROVE  outcome'[i] = "ok"
      BY <2>3 DEF Put, Durable, Precious
    <3>1. CASE i = n
      <4>1. cmd = Put(Durable(at), Precious(at))
        BY <2>2, <3>1
      <4>2. at \in 1 .. Iterations
        BY <1>0, <1>6, NamesFacts
      <4>3. cmd.key = Durable(at) /\ cmd.op = "put"
        BY <4>1 DEF Put
      <4>. QED  BY <2>4, <4>2, <4>3 DEF Get
    <3>2. CASE i \in DOMAIN calls
      BY <1>2, <1>6, <3>2
    <3>. QED  BY <2>2, <3>1, <3>2
  <2>7. Gets'
    <3>1. ~Returns(Main)
      <4>1. UNCHANGED history
        BY <1>0, <1>5, <2>1, CallIs
      <4>. QED  BY <1>0, <2>2, <2>1, AnswerEffect DEF Returns
    <3>. QED  BY <1>4, <1>6, <2>3, <3>1 DEF Get, Durable
  <2>. QED  BY <2>5, <2>6, <2>7 DEF KillKeys
<1>7. ASSUME UNCHANGED <<at, step>>, DOMAIN calls' = DOMAIN calls,
             \A i \in DOMAIN calls : i = busy[Main] => i = busy'[Main]
      PROVE  Keys1' /\ Puts'
  <2>1. ASSUME NEW i \in DOMAIN calls, NEW j \in 1 .. Iterations, ~Deletes(i)',
               command'[i].key = Durable(j)
        PROVE  Behind(i, j)'
    <3>1. ~Deletes(i) /\ command[i].key = Durable(j)
      BY <1>2, <1>3, <2>1
    <3>2. Behind(i, j)
      BY <1>6, <3>1
    <3>. QED  BY <1>7, <3>2
  <2>2. ASSUME step = "get", NEW i \in DOMAIN calls,
               command'[i] = Put(Durable(at), Precious(at))
        PROVE  outcome'[i] = "ok"
    BY <1>2, <1>6, <2>2
  <2>. QED  BY <1>7, <2>1, <2>2 DEF Put, Durable, Precious
<1>8. ASSUME NEW t \in Threads \ {Main}, Returns(t), UNCHANGED control PROVE KillKeys'
  <2>1. DOMAIN calls' = DOMAIN calls /\ busy'[Main] = busy[Main] /\ UNCHANGED <<at, step>>
    BY <1>0, <1>8, AnswerEffect DEF Returns, control
  <2>2. ~Returns(Main)
    BY <1>0, <1>8, <2>1, AnswerEffect DEF Returns
  <2>3. Keys1' /\ Puts'
    BY <1>7, <2>1
  <2>4. Gets'
    BY <1>4, <1>6, <2>1, <2>2 DEF Get, Durable
  <2>. QED  BY <2>3, <2>4 DEF KillKeys
<1>9. CASE (\E i \in DOMAIN calls : Effect(i)) \/ UNCHANGED vars
  <2>1. UNCHANGED <<calls, busy, at, step>>
    <3>1. ClientInv
      BY <1>0 DEF TypeInv, ClientInv
    <3>2. ASSUME NEW i \in DOMAIN calls, Effect(i) PROVE UNCHANGED <<calls, busy, at, step>>
      BY <3>1, <3>2, TakesEffect DEF control
    <3>. QED  BY <1>9, <3>2 DEF vars, control
  <2>2. ~Returns(Main)
    BY <1>0, <2>1, AnswerEffect DEF Returns
  <2>3. Keys1' /\ Puts'
    BY <1>7, <2>1
  <2>4. Gets'
    BY <1>4, <1>6, <2>1, <2>2 DEF Get, Durable
  <2>. QED  BY <2>3, <2>4 DEF KillKeys
<1>10. CASE Returns(Main) /\ Heard
  <2>1. PICK n : n = busy[Main]
    OBVIOUS
  <2>2. /\ n \in DOMAIN calls /\ n # 0 /\ DOMAIN calls' = DOMAIN calls
        /\ outcome'[n] \in {"ok", "failed", "unknown"} /\ (Answered <=> outcome'[n] = "ok")
    BY <1>0, <1>10, <2>1, AnswerEffect DEF Returns
  <2>3. /\ at \in 1 .. Iterations /\ command[n].key = Durable(at)
        /\ \/ step = "first" /\ command[n] = Put(Durable(at), Precious(at))
           \/ step = "get" /\ command[n] = Get(Durable(at))
    BY <2>1, <2>2, KillAsks
  <2>4. ASSUME NEW i \in DOMAIN calls, NEW j \in 1 .. Iterations, ~Deletes(i)',
               command'[i].key = Durable(j)
        PROVE  j < at \/ (j = at /\ (step = "get" \/ i = n))
    <3>1. ~Deletes(i) /\ command[i].key = Durable(j)
      BY <1>2, <1>3, <2>4
    <3>. QED  BY <1>6, <2>1, <3>1
  <2>5. CASE step = "first" /\ Answered /\ GoOn("get")
    <3>1. step' = "get" /\ UNCHANGED at
      BY <2>5 DEF GoOn
    <3>2. Keys1'
      BY <2>2, <2>4, <3>1
    <3>3. ASSUME NEW i \in DOMAIN calls, command'[i] = Put(Durable(at), Precious(at))
          PROVE  outcome'[i] = "ok"
      <4>1. command[i].key = Durable(at) /\ command[i].op = "put"
        BY <1>2, <3>3 DEF Put
      <4>2. ~Deletes(i)
        BY <4>1 DEF Deletes
      <4>3. i = n
        BY <1>6, <2>1, <2>3, <2>5, <4>1, <4>2
      <4>. QED  BY <2>2, <2>5, <4>3
    <3>4. Puts'
      BY <2>2, <3>1, <3>3 DEF Put, Durable, Precious
    <3>5. PICK cmd : cmd = Get(Durable(at))
      OBVIOUS
    <3>6. Open(cmd)
      <4>. SUFFICES ASSUME NEW i \in DOMAIN calls, command[i] = cmd PROVE FALSE
        BY DEF Open
      <4>1. command[i].key = Durable(at) /\ command[i].op = "get"
        BY <3>5 DEF Get
      <4>2. ~Deletes(i)
        BY <4>1 DEF Deletes
      <4>3. i = n
        BY <1>6, <2>1, <2>3, <2>5, <4>1, <4>2
      <4>. QED  BY <2>3, <2>5, <4>1, <4>3 DEF Put
    <3>7. Unanswered(cmd)
      BY <3>6, UnansweredIs DEF UnansweredMeans
    <3>8. Unanswered(cmd)'
      <4>1. command[n] # cmd
        BY <2>3, <2>5, <3>5 DEF Put, Get
      <4>. QED  BY <2>1, <3>7, <4>1, UnansweredStays
    <3>9. Gets'
      BY <2>3, <3>1, <3>5, <3>8 DEF Get, Durable
    <3>. QED  BY <3>2, <3>4, <3>9 DEF KillKeys
  <2>6. ASSUME NEW ok, NextRound(ok) PROVE KillKeys'
    <3>1. step' = "first" /\ at' = at + 1
      BY <2>6 DEF NextRound
    <3>2. Keys1'
      BY <1>0, <2>2, <2>4, <3>1
    <3>. QED  BY <3>1, <3>2 DEF KillKeys
  <2>7. CASE step = "get" /\ ~Answered /\ UNCHANGED <<at, step>>
    <3>1. Keys1'
      BY <2>2, <2>4, <2>7
    <3>2. Puts'
      <4>1. ASSUME NEW i \in DOMAIN calls,
                   command'[i] = Put(Durable(at), Precious(at))
            PROVE  outcome'[i] = "ok"
        BY <1>2, <1>6, <2>7, <4>1
      <4>. QED  BY <2>2, <2>7, <4>1 DEF Put, Durable, Precious
    <3>3. Gets'
      BY <1>4, <1>6, <2>7 DEF Get, Durable
    <3>. QED  BY <3>1, <3>2, <3>3 DEF KillKeys
  <2>. QED
    BY <1>10, <2>5, <2>6, <2>7 DEF Heard, MainReturns, At, TryAgain
<1>11. ~ByItself
  BY <1>1 DEF ByItself, CASRound, MajorityNoLeader, ChaosStop, ChaosWait, At
<1>. QED  BY <1>0, <1>5, <1>8, <1>9, <1>10, <1>11, Steps

\* What was put is there until it has been read.
LEMMA KillLoopStep ==
  ASSUME BaseInv, KillKeys, KillLoop, [Next]_vars, Phase = "kill", Phase' = "kill",
         checks["reset"] = "PASS"
  PROVE  KillLoop'
<1>. DEFINE SomeLost == \E j \in 1 .. Iterations : j < at /\ Lost(j)
            Found1 == step = "get" \/ TookEffect(Main) => data[Durable(at)] = Precious(at)
            Found2 == step = "get" /\ TookEffect(Main) => effect[busy[Main]] = Found(Precious(at))
<1>0. /\ TypeInv /\ "kill" \in Judged /\ Main \in Threads /\ at \in Nat \ {0}
      /\ CallInv
  BY DEF BaseInv, TypeInv, ControlInv, Judged, Threads
<1>1. ~EndPhase /\ ~Linearizability
  BY <1>0, PhaseSteps
<1>2. Found1 /\ Found2 /\ (~pass => SomeLost)
  BY DEF KillLoop
<1>3. ASSUME NEW j \in 1 .. Iterations, j < at, Lost(j) PROVE Lost(j)'
  BY <1>0, <1>3, LostStays, NamesFacts
<1>4. CASE \/ \E t \in Threads, cmd \in Command : Calls(t, cmd)
           \/ \E t \in Threads \ {Main} : Returns(t) /\ UNCHANGED control
           \/ UNCHANGED vars
  <2>1. /\ UNCHANGED <<data, effect, pass, at, step>>
        /\ TookEffect(Main)' => TookEffect(Main) /\ busy'[Main] = busy[Main]
    BY <1>0, <1>4, OthersStay DEF control
  <2>2. ~pass' => SomeLost'
    BY <1>2, <1>3, <2>1
  <2>3. Found1' /\ Found2'
    BY <1>2, <2>1 DEF Durable, Precious, Found
  <2>. QED  BY <2>2, <2>3 DEF KillLoop
<1>5. CASE Returns(Main) /\ Heard
  <2>0. PICK r : r = at
    OBVIOUS
  <2>1. PICK n : n = busy[Main]
    OBVIOUS
  <2>2. /\ n \in DOMAIN calls /\ n # 0 /\ outcome[n] = "pending" /\ busy'[Main] = 0 /\ UNCHANGED data
        /\ (Answered <=> outcome'[n] = "ok")
        /\ outcome'[n] = "ok" => effect[n] # NoResult /\ Got.res = effect[n]
    BY <1>0, <1>5, <2>1, AnswerEffect DEF Returns
  <2>3. ~TookEffect(Main)'
    BY <2>2 DEF TookEffect
  <2>4. /\ at \in 1 .. Iterations
        /\ \/ step = "first" /\ command[n] = Put(Durable(at), Precious(at))
           \/ step = "get" /\ command[n] = Get(Durable(at))
    BY <2>1, <2>2, KillAsks
  <2>5. Answered => TookEffect(Main)
    BY <2>1, <2>2 DEF TookEffect
  <2>6. CASE step = "first" /\ Answered /\ GoOn("get")
    <3>1. step' = "get" /\ UNCHANGED <<at, pass, data>>
      BY <2>2, <2>6 DEF GoOn
    <3>2. data[Durable(at)] = Precious(at)
      BY <1>2, <2>5, <2>6
    <3>3. ~pass' => SomeLost'
      BY <1>2, <1>3, <3>1
    <3>. QED  BY <2>3, <3>1, <3>2, <3>3 DEF KillLoop, Durable, Precious
  <2>7. ASSUME NEW ok \in BOOLEAN, NextRound(ok), ok \/ Lost(r)' PROVE KillLoop'
    <3>1. step' = "first" /\ at' = at + 1 /\ pass' = (pass /\ ok)
      BY <2>7 DEF NextRound
    <3>2. ~pass => SomeLost'
      BY <1>0, <1>2, <1>3, <3>1, NamesFacts
    <3>3. Lost(r)' => SomeLost'
      BY <1>0, <2>0, <2>4, <3>1
    <3>. QED  BY <2>3, <2>7, <3>1, <3>2, <3>3 DEF KillLoop
  <2>8. ASSUME NEW cmd, cmd \in {Put(Durable(r), Precious(r)), Get(Durable(r))},
               Unanswered(cmd), ~Answered
        PROVE  Lost(r)'
    <3>1. Unanswered(cmd)'
      BY <2>8, UnansweredStays
    <3>. QED  BY <2>8, <3>1 DEF Lost, Put, Get, Durable, Precious
  <2>9. CASE step = "first" /\ ~Answered /\ NextRound(FALSE)
    <3>1. PICK cmd : cmd = Put(Durable(r), Precious(r))
      OBVIOUS
    <3>2. ASSUME NEW i \in DOMAIN calls, command[i] = cmd, outcome[i] = "ok" PROVE FALSE
      <4>1. command[i].key = Durable(at) /\ command[i].op = "put"
        BY <2>0, <3>1, <3>2 DEF Put
      <4>2. i = busy[Main]
        BY <1>0, <2>4, <2>9, <4>1 DEF KillKeys, Deletes
      <4>. QED  BY <2>1, <2>2, <3>2, <4>2
    <3>3. Unanswered(cmd)
      BY <3>2, UnansweredIs DEF UnansweredMeans, Open
    <3>. QED  BY <2>7, <2>8, <2>9, <3>1, <3>3
  <2>10. CASE /\ step = "get" /\ Answered
              /\ NextRound(Got.res.present /\ Got.res.value = Precious(at))
    <3>1. Got.res.present /\ Got.res.value = Precious(at)
      BY <1>2, <2>1, <2>2, <2>5, <2>10 DEF Found, Res
    <3>. QED  BY <2>7, <2>10, <3>1
  <2>11. CASE step = "get" /\ ~Answered /\ TryAgain("get", Durable(at))
    <3>1. PICK cmd : cmd = Get(Durable(r))
      OBVIOUS
    <3>2. Unanswered(cmd)
      BY <2>0, <2>11, <3>1 DEF KillKeys
    <3>3. CASE NextRound(FALSE)
      BY <2>7, <2>8, <2>11, <3>1, <3>2, <3>3
    <3>4. CASE UNCHANGED <<pass, at, step>>
      <4>1. ~pass' => SomeLost'
        BY <1>2, <1>3, <3>4
      <4>2. data[Durable(at)] = Precious(at)
        BY <1>2, <2>11
      <4>. QED  BY <2>2, <2>3, <3>4, <4>1, <4>2 DEF KillLoop, Durable, Precious
    <3>. QED  BY <2>11, <3>3, <3>4 DEF TryAgain
  <2>. QED
    BY <1>5, <2>6, <2>9, <2>10, <2>11 DEF Heard, MainReturns, At
<1>6. ASSUME NEW i \in DOMAIN calls, Effect(i) PROVE KillLoop'
  <2>1. UNCHANGED <<control, busy>>
    <3>1. ClientInv
      BY <1>0 DEF TypeInv, ClientInv
    <3>. QED  BY <1>6, <3>1, TakesEffect
  <2>2. ~pass' => SomeLost'
    BY <1>2, <1>3, <2>1 DEF control
  <2>3. ASSUME at \in 1 .. Iterations PROVE Found1' /\ Found2'
    <3>1. PICK k : k = Durable(at)
      OBVIOUS
    <3>2. k \in Touched("kill") /\ Precious(at) \in Values /\ Precious(at) # Nil
      BY <2>3, <3>1, DurableIs
    <3>3. /\ k \in Keys /\ data \in Data
          /\ command[i].key # k => data'[k] = data[k]
          /\ UNCHANGED <<control, calls, command, outcome, busy, history>>
          /\ \A j \in DOMAIN calls \ {i} : effect'[j] = effect[j]
          /\ effect'[i] = ApplyResult(data, command[i])
          /\ data' = ApplyData(data, command[i])
          /\ effect[i] = NoResult /\ outcome[i] \in {"pending", "unknown"}
          /\ outcome[i] = "pending" => busy[calls[i].by] = i
          /\ command[i].key = k => command[i].op # "delete" /\ Works(k, calls[i].by, command[i])
      BY <1>0, <1>6, <3>2, PhaseEffect
    <3>4. busy[Main] # 0 =>
            /\ busy[Main] \in DOMAIN calls /\ command[busy[Main]].key = k
            /\ \/ step = "first" /\ command[busy[Main]] = Put(k, Precious(at))
               \/ step = "get" /\ command[busy[Main]] = Get(k)
      BY <3>1, KillAsks
    <3>5. UNCHANGED <<at, step, busy>>
      BY <3>3 DEF control
    <3>6. CASE command[i].key # k
      <4>1. busy[Main] # 0 => effect'[busy[Main]] = effect[busy[Main]]
        BY <3>3, <3>4, <3>6
      <4>. QED  BY <1>2, <3>1, <3>3, <3>5, <3>6, <4>1 DEF TookEffect, Durable, Precious
    <3>7. CASE command[i].key = k
      <4>1. /\ calls[i].by = Main
            /\ command[i] = Get(k) \/ command[i] = Put(k, Precious(at))
        BY <3>1, <3>3, <3>7, DurableWorks
      <4>2. CASE command[i] = Put(k, Precious(at))
        <5>1. data'[k] = Precious(at)
          BY <3>2, <3>3, <4>2, Applied
        <5>2. ~(step = "get" /\ TookEffect(Main)') \/ effect'[busy[Main]] = effect[busy[Main]]
          BY <3>3, <3>4, <3>5, <4>2 DEF TookEffect, Put, Get
        <5>. QED  BY <1>2, <3>1, <3>5, <5>1, <5>2 DEF TookEffect, Durable, Precious
      <4>3. CASE command[i] = Get(k)
        <5>1. data' = data
          BY <3>3, <4>3 DEF ApplyData, Get
        <5>2. i = busy[Main] => step = "get"
          BY <1>0, <3>4, <4>3, Called DEF Put, Get
        <5>3. i = busy[Main] => effect'[i] = Found(Precious(at))
          BY <1>2, <3>1, <3>2, <3>3, <4>3, <5>2, Applied, KVAssumption
        <5>4. i # busy[Main] /\ busy[Main] # 0 => effect'[busy[Main]] = effect[busy[Main]]
          BY <3>3, <3>4
        <5>. QED  BY <1>2, <3>1, <3>5, <5>1, <5>2, <5>3, <5>4 DEF TookEffect, Durable, Precious
      <4>. QED  BY <4>1, <4>2, <4>3
    <3>. QED  BY <3>6, <3>7
  <2>4. ASSUME at \notin 1 .. Iterations PROVE Found1' /\ Found2'
    <3>1. step # "get" /\ busy[Main] = 0
      BY <1>0, <2>4, KillAsks, NamesFacts DEF KillKeys
    <3>. QED  BY <2>1, <3>1 DEF TookEffect, control
  <2>. QED  BY <2>2, <2>3, <2>4 DEF KillLoop
<1>7. ~ByItself
  BY <1>1 DEF ByItself, CASRound, MajorityNoLeader, ChaosStop, ChaosWait, At
<1>. QED  BY <1>0, <1>4, <1>5, <1>6, <1>7, Steps

LEMMA KillStep ==
  ASSUME BaseInv, KillInv, [Next]_vars
  PROVE  KillInv'
<1>0. /\ TypeInv /\ "kill" \in Judged /\ Main \in Threads
      /\ \A t \in {Main} \cup Contenders : busy[t] # 0 => Asked(Phase, step, at, t, command[busy[t]])
  BY DEF BaseInv, TypeInv, Judged, Threads, WaitInv
<1>1. CASE Phase # "kill" /\ Phase' = "kill"
  <2>1. /\ at' = 1 /\ step' = "first" /\ pass' = TRUE /\ Stays /\ busy[Main] = 0
        /\ \A i \in DOMAIN calls : calls[i].by \notin Clients /\ command[i].op # "delete"
             => command[i].key \notin Touched("kill")
        /\ ~Failed("kill")'
    BY <1>0, <1>1, PhaseSteps
  <2>2. UNCHANGED <<calls, command, busy>>
    BY <2>1 DEF Stays, absVars
  <2>3. ASSUME NEW i \in DOMAIN calls, NEW j \in 1 .. Iterations, ~Deletes(i),
               command[i].key = Durable(j)
        PROVE  FALSE
    BY <2>1, <2>3, DurableIs DEF Deletes
  <2>4. KillKeys'
    BY <2>1, <2>2, <2>3 DEF KillKeys, Deletes
  <2>5. KillLoop'
    BY <2>1, <2>2 DEF KillLoop, TookEffect
  <2>. QED  BY <2>1, <2>4, <2>5 DEF KillInv
<1>2. CASE Phase = "kill" /\ Phase' = "kill"
  <2>1. checks["reset"] = checks'["reset"] /\ ~Failed("kill")'
    BY <1>0, <1>2, PhaseSteps
  <2>. QED  BY <1>2, <2>1, KillKeysStep, KillLoopStep DEF KillInv
<1>3. CASE Phase' # "kill"
  <2>. SUFFICES ASSUME checks'["reset"] = "PASS", Failed("kill")'
                PROVE  \E j \in 1 .. Iterations : Lost(j)'
    BY <1>3 DEF KillInv
  <2>1. /\ checks["reset"] = "PASS"
        /\ (Failed("kill") /\ Phase # "kill") \/ (Phase = "kill" /\ EndPhase /\ ~pass)
    BY <1>0, PhaseSteps
  <2>2. PICK j \in 1 .. Iterations : Lost(j)
    BY <2>1 DEF KillInv, KillLoop
  <2>3. ~(Returns(Main) /\ Phase = "kill")
    <3>1. EndPhase => ~Returns(Main)
      BY <1>0, Idle DEF BaseInv, ByItself, Returns, Return
    <3>. QED  BY <2>1, <3>1
  <2>. QED  BY <2>2, <2>3, LostStays
<1>. QED  BY <1>1, <1>2, <1>3

-----------------------------------------------------------------------------
(* Majority                                                                *)

LEMMA LiveIs ==
  ASSUME BaseInv
  PROVE  /\ Live \in Touched("majority")
         /\ \A i \in 0 .. MaxTries : Served(i) \in Values /\ Served(i) # Nil
         /\ \A i \in DOMAIN calls : command[i].key = Live => calls[i].by \notin Clients
<1>1. Live \in Touched("majority")
  BY TouchedIs
<1>2. \A i \in 0 .. MaxTries : Served(i) \in Printed
  BY DEF Printed
<1>3. Touched("majority") \cap ChaosKeys = {}
  BY NamesFacts DEF Phases
<1>. QED  BY <1>1, <1>2, <1>3, NamesFacts, KVAssumption DEF BaseInv, KeysInv

LEMMA MajorityAsks ==
  ASSUME BaseInv, Phase = "majority", busy[Main] # 0, NEW cmd, cmd = command[busy[Main]]
  PROVE  /\ at = 1 /\ busy[Main] \in DOMAIN calls
         /\ \/ step = "first" /\ \E i \in 0 .. MaxTries : cmd = Put(Live, Served(i))
            \/ step = "get" /\ cmd = Get(Live)
<1>1. Asked("majority", step, at, Main, cmd) /\ at <= Count("majority")
  BY DEF BaseInv, WaitInv
<1>2. at \in Nat \ {0}
  BY DEF BaseInv, TypeInv, ControlInv
<1>3. busy[Main] \in DOMAIN calls
  BY DEF BaseInv, TypeInv, CallInv, Threads
<1>. QED  BY <1>1, <1>2, <1>3, CountIs, NamesFacts DEF Asked

\* The operations of majority are answered in this phase only.
LEMMA LiveStays ==
  ASSUME BaseInv, [Next]_vars, NEW cmd, Unanswered(cmd), cmd.key = Live, cmd.op # "delete",
         ~(Returns(Main) /\ Phase = "majority" /\ Answered)
  PROVE  Unanswered(cmd)'
<1>1. ASSUME Returns(Main), command[busy[Main]] = cmd PROVE Phase = "majority"
  <2>1. busy[Main] # 0
    BY <1>1 DEF Returns, Return
  <2>2. Asked(Phase, step, at, Main, cmd)
    BY <1>1, <2>1 DEF BaseInv, WaitInv
  <2>3. \A k, v : Put(k, v).key = k /\ Get(k).key = k
    BY DEF Put, Get
  <2>4. \A j : Live # Smoke /\ Live # Arena(j) /\ Live # Durable(j)
    BY KeyNames
  <2>. QED  BY <2>2, <2>3, <2>4, NamesFacts DEF Asked
<1>. QED  BY <1>1, UnansweredStays

LEMMA MajorityLoopStep ==
  ASSUME BaseInv, MajorityLoop, [Next]_vars, Phase = "majority", Phase' = "majority",
         checks["reset"] = "PASS"
  PROVE  MajorityLoop'
<1>. DEFINE Fresh == at = 1 => Unanswered(Get(Live)) /\ (step = "first" => NoPut)
            Found1 == step = "get" \/ TookEffect(Main) => IsServed(data[Live])
            Found2 == step = "get" /\ TookEffect(Main) =>
                        \E i \in 0 .. MaxTries : effect[busy[Main]] = Found(Served(i))
            Fails == ~pass => at > 1 /\ Unserved
<1>0. /\ TypeInv /\ "majority" \in Judged /\ Main \in Threads /\ at \in Nat \ {0} /\ pass \in BOOLEAN
      /\ CallInv
  BY DEF BaseInv, TypeInv, ControlInv, Judged, Threads
<1>1. ~EndPhase /\ ~Linearizability
  BY <1>0, PhaseSteps
<1>2. Fresh /\ Found1 /\ Found2 /\ Fails
  BY DEF MajorityLoop
<1>3. ASSUME ~(Returns(Main) /\ Answered)
      PROVE  /\ Unanswered(Get(Live)) => Unanswered(Get(Live))'
             /\ NoPut => NoPut'
  <2>1. ASSUME NEW cmd, cmd.key = Live, cmd.op # "delete", Unanswered(cmd)
        PROVE  Unanswered(cmd)'
    BY <1>3, <2>1, LiveStays
  <2>2. PICK g : g = Get(Live)
    OBVIOUS
  <2>3. g.key = Live /\ g.op # "delete"
    BY <2>2 DEF Get
  <2>4. ASSUME NEW i \in 0 .. MaxTries, Unanswered(Put(Live, Served(i)))
        PROVE  Unanswered(Put(Live, Served(i)))'
    <3>1. PICK c : c = Put(Live, Served(i))
      OBVIOUS
    <3>2. c.key = Live /\ c.op # "delete"
      BY <3>1 DEF Put
    <3>. QED  BY <2>1, <2>4, <3>1, <3>2 DEF Put, Live, Served
  <2>. QED  BY <2>1, <2>2, <2>3, <2>4 DEF NoPut, Get, Live
<1>4. CASE \/ \E t \in Threads, cmd \in Command : Calls(t, cmd)
           \/ \E t \in Threads \ {Main} : Returns(t) /\ UNCHANGED control
           \/ UNCHANGED vars
  <2>1. /\ UNCHANGED <<data, effect, pass, at, step>>
        /\ TookEffect(Main)' => TookEffect(Main) /\ busy'[Main] = busy[Main]
    BY <1>0, <1>4, OthersStay DEF control
  <2>2. ~Returns(Main)
    <3>1. ASSUME NEW t \in Threads, NEW cmd \in Command, Calls(t, cmd), Returns(Main) PROVE FALSE
      <4>1. PICK n : n = Len(calls) + 1
        OBVIOUS
      <4>2. busy[t] = 0 /\ \A u \in Threads \ {t} : busy'[u] = busy[u]
        BY <1>0, <3>1, <4>1, CallIs, ZenonT(30)
      <4>0. Return(Main)
        BY <3>1 DEF Returns
      <4>3. busy[Main] # 0
        BY <4>0 DEF Return
      <4>4. busy'[Main] = 0
        BY <1>0, <4>0, AnswerEffect
      <4>. QED  BY <1>0, <4>2, <4>3, <4>4
    <3>2. ASSUME NEW t \in Threads \ {Main}, Returns(t), Returns(Main) PROVE FALSE
      <4>1. busy'[Main] = busy[Main] /\ busy[Main] # 0
        BY <1>0, <3>2, AnswerEffect DEF Returns, Return
      <4>2. busy'[Main] = 0
        BY <1>0, <3>2, AnswerEffect DEF Returns
      <4>. QED  BY <4>1, <4>2
    <3>3. ASSUME UNCHANGED vars, Returns(Main) PROVE FALSE
      <4>1. busy'[Main] = busy[Main] /\ busy[Main] # 0
        BY <3>3 DEF vars, Returns, Return
      <4>2. busy'[Main] = 0
        BY <1>0, <3>3, AnswerEffect DEF Returns
      <4>. QED  BY <4>1, <4>2
    <3>. QED  BY <1>4, <3>1, <3>2, <3>3
  <2>3. Fresh' /\ Fails'
    BY <1>2, <1>3, <2>1, <2>2 DEF Unserved
  <2>4. Found1' /\ Found2'
    BY <1>2, <2>1 DEF IsServed, Live, Served, Found
  <2>. QED  BY <2>3, <2>4 DEF MajorityLoop
<1>5. CASE Returns(Main) /\ Heard
  <2>1. PICK n : n = busy[Main]
    OBVIOUS
  <2>2. /\ n \in DOMAIN calls /\ n # 0 /\ busy'[Main] = 0 /\ UNCHANGED data
        /\ (Answered <=> outcome'[n] = "ok")
        /\ outcome'[n] = "ok" => effect[n] # NoResult /\ Got.res = effect[n]
    BY <1>0, <1>5, <2>1, AnswerEffect DEF Returns
  <2>3. ~TookEffect(Main)'
    BY <2>2 DEF TookEffect
  <2>4. /\ at = 1
        /\ \/ step = "first" /\ \E i \in 0 .. MaxTries : command[n] = Put(Live, Served(i))
           \/ step = "get" /\ command[n] = Get(Live)
    BY <2>1, <2>2, MajorityAsks
  <2>5. Answered => TookEffect(Main)
    BY <2>1, <2>2 DEF TookEffect
  <2>6. pass /\ Unanswered(Get(Live)) /\ (step = "first" => NoPut)
    BY <1>2, <2>4
  <2>7. ASSUME NEW ok \in BOOLEAN, NextRound(ok), ok \/ Unserved' PROVE MajorityLoop'
    <3>1. step' = "first" /\ at' = at + 1 /\ pass' = (pass /\ ok)
      BY <2>7 DEF NextRound
    <3>2. at' > 1 /\ at' # 1
      BY <2>4, <3>1
    <3>. QED  BY <2>3, <2>6, <2>7, <3>1, <3>2 DEF MajorityLoop
  <2>8. CASE step = "first" /\ Answered /\ GoOn("get")
    <3>1. step' = "get" /\ UNCHANGED <<at, pass, data>>
      BY <2>2, <2>8 DEF GoOn
    <3>2. Unanswered(Get(Live))'
      <4>1. command[n] # Get(Live)
        <5>1. PICK i \in 0 .. MaxTries : command[n] = Put(Live, Served(i))
          BY <2>4, <2>8
        <5>2. command[n].op = "put" /\ Get(Live).op = "get"
          BY <5>1 DEF Put, Get
        <5>. QED  BY <5>2
      <4>2. PICK g : g = Get(Live)
        OBVIOUS
      <4>3. Unanswered(g)'
        BY <2>1, <2>6, <4>1, <4>2, UnansweredStays
      <4>. QED  BY <4>2, <4>3 DEF Get, Live
    <3>3. Found1'
      BY <1>2, <2>5, <2>8, <3>1 DEF IsServed, Live, Served
    <3>. QED  BY <2>3, <2>6, <3>1, <3>2, <3>3 DEF MajorityLoop
  <2>9. ASSUME ~Answered, \/ NextRound(FALSE)
                          \/ UNCHANGED <<pass, at, step>>
        PROVE  MajorityLoop'
    <3>1. Unanswered(Get(Live))' /\ (step = "first" => NoPut')
      BY <1>3, <2>6, <2>9
    <3>2. CASE NextRound(FALSE)
      BY <2>7, <3>1, <3>2 DEF Unserved
    <3>3. CASE UNCHANGED <<pass, at, step>>
      <4>1. Found1'
        BY <1>2, <2>2, <2>3, <3>3 DEF IsServed, Live, Served
      <4>. QED  BY <2>3, <2>6, <3>1, <3>3, <4>1 DEF MajorityLoop
    <3>. QED  BY <2>9, <3>2, <3>3
  <2>10. CASE /\ step = "get"
              /\ LET served == Answered /\ IsServed(Got.res.value)
                 IN  \/ served /\ NextRound(TRUE)
                     \/ ~served /\ TryAgain("get", Live)
    <3>1. Answered => IsServed(Got.res.value)
      <4>. SUFFICES ASSUME Answered PROVE IsServed(Got.res.value)
        OBVIOUS
      <4>1. PICK i \in 0 .. MaxTries : effect[busy[Main]] = Found(Served(i))
        BY <1>2, <2>5, <2>10
      <4>2. Got.res.value = Served(i)
        BY <2>1, <2>2, <4>1 DEF Found, Res
      <4>. QED  BY <4>2 DEF IsServed
    <3>2. CASE Answered
      BY <2>7, <2>10, <3>1, <3>2
    <3>3. CASE ~Answered
      BY <2>9, <2>10, <3>3 DEF TryAgain
    <3>. QED  BY <3>2, <3>3
  <2>. QED
    BY <1>5, <2>8, <2>9, <2>10 DEF Heard, MainReturns, At, TryAgain
<1>6. ASSUME NEW i \in DOMAIN calls, Effect(i) PROVE MajorityLoop'
  <2>1. PICK k : k = Live
    OBVIOUS
  <2>2. k \in Touched("majority") /\ \A j \in 0 .. MaxTries : Served(j) \in Values /\ Served(j) # Nil
    BY <2>1, LiveIs
  <2>3. /\ k \in Keys /\ data \in Data
        /\ command[i].key # k => data'[k] = data[k]
        /\ UNCHANGED <<control, calls, command, outcome, busy, history>>
        /\ \A j \in DOMAIN calls \ {i} : effect'[j] = effect[j]
        /\ effect'[i] = ApplyResult(data, command[i])
        /\ data' = ApplyData(data, command[i])
        /\ command[i].key = k => command[i].op # "delete" /\ Works(k, calls[i].by, command[i])
    BY <1>0, <1>6, <2>2, PhaseEffect
  <2>4. UNCHANGED <<at, step, pass, busy>> /\ ~Returns(Main)
    <3>1. Returns(Main) => history' # history
      <4>1. history \in Seq(Record)
        BY <1>0 DEF TypeInv, HistoryInv
      <4>2. ASSUME NEW h, history' = Append(history, h) PROVE history' # history
        BY <4>1, <4>2, AppendElements
      <4>. QED  BY <4>2 DEF Returns, Return
    <3>. QED  BY <2>3, <3>1 DEF control
  <2>5. Fresh' /\ Fails'
    BY <1>2, <1>3, <2>4 DEF Unserved
  <2>6. busy[Main] # 0 =>
          /\ busy[Main] \in DOMAIN calls /\ command[busy[Main]].key = k
          /\ \/ step = "first" /\ \E j \in 0 .. MaxTries : command[busy[Main]] = Put(k, Served(j))
             \/ step = "get" /\ command[busy[Main]] = Get(k)
    BY <2>1, MajorityAsks DEF Put, Get
  <2>7. CASE command[i].key # k
    <3>1. busy[Main] # 0 => effect'[busy[Main]] = effect[busy[Main]]
      BY <2>3, <2>6, <2>7
    <3>. QED  BY <1>2, <2>1, <2>3, <2>4, <2>5, <2>7, <3>1
              DEF MajorityLoop, TookEffect, IsServed, Live, Served, Found
  <2>8. CASE command[i].key = k
    <3>1. \/ command[i] = Get(k)
          \/ \E j \in 0 .. MaxTries : command[i] = Put(k, Served(j))
      BY <2>1, <2>3, <2>8, LiveWorks
    <3>2. ASSUME NEW j \in 0 .. MaxTries, command[i] = Put(k, Served(j)) PROVE Found1' /\ Found2'
      <4>1. data'[k] = Served(j)
        BY <2>2, <2>3, <3>2, Applied
      <4>2. IsServed(data[Live])'
        BY <2>1, <4>1 DEF IsServed, Live, Served
      <4>3. ~(step = "get" /\ TookEffect(Main)') \/ effect'[busy[Main]] = effect[busy[Main]]
        BY <2>3, <2>4, <2>6, <3>2 DEF TookEffect, Put, Get
      <4>. QED  BY <1>2, <2>4, <4>2, <4>3 DEF TookEffect, Found, Served
    <3>3. ASSUME command[i] = Get(k) PROVE Found1' /\ Found2'
      <4>1. data' = data
        BY <2>3, <3>3 DEF ApplyData, Get
      <4>2. i = busy[Main] => step = "get"
        <5>1. i # 0
          BY <1>0, Called
        <5>2. \A v : Put(k, v) # Get(k)
          BY DEF Put, Get
        <5>. QED  BY <2>6, <3>3, <5>1, <5>2
      <4>3. ASSUME step = "get", i = busy[Main]
            PROVE  \E j \in 0 .. MaxTries : effect'[i] = Found(Served(j))
        <5>1. PICK j \in 0 .. MaxTries : data[k] = Served(j)
          BY <1>2, <2>1, <4>3 DEF IsServed
        <5>. QED  BY <2>2, <2>3, <3>3, <5>1, Applied, KVAssumption
      <4>4. i # busy[Main] /\ busy[Main] # 0 => effect'[busy[Main]] = effect[busy[Main]]
        BY <2>3, <2>6
      <4>5. Found1'
        BY <1>2, <2>4, <4>1, <4>2, <4>4 DEF TookEffect, IsServed, Live, Served
      <4>6. Found2'
        BY <1>2, <2>4, <4>3, <4>4 DEF TookEffect, Found, Served
      <4>. QED  BY <4>5, <4>6
    <3>. QED  BY <2>5, <3>1, <3>2, <3>3 DEF MajorityLoop
  <2>. QED  BY <2>7, <2>8
<1>7. CASE ByItself
  <2>1. MajorityNoLeader
    BY <1>1, <1>7 DEF ByItself, CASRound, ChaosStop, ChaosWait, At
  <2>2. step = "first" /\ at \in Nat /\ at <= 1 /\ busy[Main] = 0
    BY <1>0, <2>1, CountIs DEF MajorityNoLeader, At
  <2>3. at = 1 /\ NoPut /\ pass
    BY <1>0, <1>2, <2>2
  <2>4. /\ pass' = FALSE /\ at' = at + 1 /\ step' = "first" /\ busy' = busy
        /\ UNCHANGED <<data, history>>
    BY <2>1, <2>3 DEF MajorityNoLeader, NextRound, NothingElse, absVars
  <2>5. at' > 1 /\ at' # 1
    BY <2>3, <2>4
  <2>6. ~Returns(Main) /\ ~TookEffect(Main)'
    BY <2>2, <2>4 DEF Returns, Return, TookEffect
  <2>7. NoPut'
    BY <1>3, <2>3, <2>6
  <2>. QED  BY <2>4, <2>5, <2>6, <2>7 DEF MajorityLoop, Unserved
<1>. QED  BY <1>0, <1>4, <1>5, <1>6, <1>7, Steps

LEMMA MajorityStep ==
  ASSUME BaseInv, MajorityInv, [Next]_vars
  PROVE  MajorityInv'
<1>. SUFFICES ASSUME checks'["reset"] = "PASS"
              PROVE  (Phase' = "majority" => MajorityLoop') /\ (Failed("majority")' => Unserved')
  BY DEF MajorityInv
<1>0. TypeInv /\ "majority" \in Judged /\ Main \in Threads
  BY DEF BaseInv, TypeInv, Judged, Threads
<1>1. ASSUME ~(Returns(Main) /\ Phase = "majority")
      PROVE  /\ Unanswered(Get(Live)) => Unanswered(Get(Live))'
             /\ NoPut => NoPut'
  <2>1. ASSUME NEW cmd, cmd.key = Live, cmd.op # "delete", Unanswered(cmd)
        PROVE  Unanswered(cmd)'
    BY <1>1, <2>1, LiveStays
  <2>2. PICK g : g = Get(Live)
    OBVIOUS
  <2>3. g.key = Live /\ g.op # "delete"
    BY <2>2 DEF Get
  <2>4. ASSUME NEW i \in 0 .. MaxTries, Unanswered(Put(Live, Served(i)))
        PROVE  Unanswered(Put(Live, Served(i)))'
    <3>1. PICK c : c = Put(Live, Served(i))
      OBVIOUS
    <3>2. c.key = Live /\ c.op # "delete"
      BY <3>1 DEF Put
    <3>. QED  BY <2>1, <2>4, <3>1, <3>2 DEF Put, Live, Served
  <2>. QED  BY <2>1, <2>2, <2>3, <2>4 DEF NoPut, Get, Live
<1>2. CASE Phase # "majority" /\ Phase' = "majority"
  <2>1. /\ at' = 1 /\ step' = "first" /\ pass' = TRUE /\ Stays /\ busy[Main] = 0
        /\ \A i \in DOMAIN calls : calls[i].by \notin Clients /\ command[i].op # "delete"
             => command[i].key \notin Touched("majority")
        /\ ~Failed("majority")'
    BY <1>0, <1>2, PhaseSteps
  <2>2. UNCHANGED busy
    BY <2>1 DEF Stays
  <2>3. ASSUME NEW cmd, cmd.key = Live, cmd.op # "delete" PROVE Unanswered(cmd)
    <3>1. Open(cmd)
      BY <2>1, <2>3, LiveIs DEF Open
    <3>. QED  BY <3>1, UnansweredIs DEF UnansweredMeans
  <2>4. Unanswered(Get(Live)) /\ NoPut
    BY <2>3 DEF Put, Get, NoPut
  <2>5. Unanswered(Get(Live))' /\ NoPut'
    BY <1>1, <1>2, <2>4
  <2>. QED  BY <2>1, <2>2, <2>5 DEF MajorityLoop, TookEffect
<1>3. CASE Phase = "majority" /\ Phase' = "majority"
  <2>1. checks["reset"] = checks'["reset"] /\ ~Failed("majority")'
    BY <1>0, <1>3, PhaseSteps
  <2>. QED  BY <1>3, <2>1, MajorityLoopStep DEF MajorityInv
<1>4. CASE Phase' # "majority"
  <2>. SUFFICES ASSUME Failed("majority")' PROVE Unserved'
    BY <1>4
  <2>1. /\ checks["reset"] = "PASS"
        /\ (Failed("majority") /\ Phase # "majority") \/ (Phase = "majority" /\ EndPhase /\ ~pass)
    BY <1>0, PhaseSteps
  <2>2. Unserved
    BY <2>1 DEF MajorityInv, MajorityLoop
  <2>3. ~(Returns(Main) /\ Phase = "majority")
    <3>1. EndPhase => ~Returns(Main)
      BY <1>0, Idle DEF BaseInv, ByItself, Returns, Return
    <3>. QED  BY <2>1, <3>1
  <2>. QED  BY <1>1, <2>2, <2>3 DEF Unserved
<1>. QED  BY <1>2, <1>3, <1>4

-----------------------------------------------------------------------------
(* CAS contention                                                          *)

\* A key of the phase is that of its round.
LEMMA ArenaIs ==
  ASSUME BaseInv, NEW r \in 1 .. Rounds
  PROVE  /\ Arena(r) \in Touched("cas") /\ Base(r) \in Values
         /\ \A c \in Contenders : Winner(r, c) \in Values /\ Winner(r, c) # Base(r)
         /\ \A i \in DOMAIN calls : command[i].key = Arena(r) => calls[i].by \notin Clients
<1>1. Arena(r) \in Touched("cas")
  BY TouchedIs
<1>2. Base(r) \in Printed /\ \A c \in Contenders : Winner(r, c) \in Printed
  BY DEF Printed
<1>3. Touched("cas") \cap ChaosKeys = {}
  BY NamesFacts DEF Phases
<1>4. ASSUME NEW c \in Contenders, Winner(r, c) = Base(r) PROVE FALSE
  <2>1. Winner(r, c)[1] = "winner" /\ Base(r)[1] = "base"
    BY DEF Winner, Base
  <2>. QED  BY <1>4, <2>1
<1>. QED  BY <1>1, <1>2, <1>3, <1>4, NamesFacts, KVAssumption DEF BaseInv, KeysInv

\* What the goroutines wait for in a round.
LEMMA CASAsks ==
  ASSUME BaseInv, Phase = "cas", NEW t \in {Main} \cup Contenders, busy[t] # 0,
         NEW cmd, cmd = command[busy[t]]
  PROVE  /\ at \in 1 .. Rounds /\ busy[t] \in DOMAIN calls
         /\ cmd.key = Arena(at)
         /\ \/ step = "first" /\ t = Main /\ cmd = Put(Arena(at), Base(at))
            \/ step = "race" /\ t \in Contenders /\ cmd = CAS(Arena(at), Base(at), Winner(at, t))
<1>1. Asked("cas", step, at, t, cmd) /\ at <= Count("cas")
  BY DEF BaseInv, WaitInv
<1>2. at \in Nat \ {0}
  BY DEF BaseInv, TypeInv, ControlInv
<1>3. busy[t] \in DOMAIN calls
  BY DEF BaseInv, TypeInv, CallInv, Threads
<1>4. \A k, v, e : Put(k, v).key = k /\ CAS(k, e, v).key = k
  BY DEF Put, CAS
<1>. QED  BY <1>1, <1>2, <1>3, <1>4, CountIs, NamesFacts DEF Asked

\* A round without a base value, or in which nobody was let in, stays such a one.
LEMMA VoidStays ==
  ASSUME BaseInv, [Next]_vars, NEW r \in 1 .. Rounds, Void(r),
         ~(Phase = "cas" /\ at = r /\ \E t \in {Main} \cup Contenders : Returns(t))
  PROVE  Void(r)'
<1>0. TypeInv
  BY DEF BaseInv
<1>1. ASSUME NEW t \in {Main} \cup Contenders, Returns(t),
             command[busy[t]].key = Arena(r), command[busy[t]].op \in {"put", "cas"}
      PROVE  FALSE
  <2>1. busy[t] # 0
    BY <1>1 DEF Returns, Return
  <2>2. PICK cmd : cmd = command[busy[t]]
    OBVIOUS
  <2>3. Asked(Phase, step, at, t, cmd)
    BY <2>1, <2>2 DEF BaseInv, WaitInv
  <2>4. \A k, v, e : /\ Put(k, v).key = k /\ Get(k).key = k /\ CAS(k, e, v).key = k
    BY DEF Put, Get, CAS
  <2>5. /\ Arena(r) # Smoke /\ Arena(r) # Live /\ \A j : Arena(r) # Durable(j)
    BY KeyNames
  <2>6. Phase = "cas"
    BY <1>1, <2>2, <2>3, <2>4, <2>5, NamesFacts DEF Asked
  <2>7. Arena(at) = Arena(r)
    BY <1>1, <2>1, <2>2, <2>6, CASAsks
  <2>8. at = r
    BY <2>7 DEF Arena
  <2>. QED  BY <1>1, <2>6, <2>8
<1>2. CASE Unanswered(Put(Arena(r), Base(r)))
  <2>1. PICK cmd : cmd = Put(Arena(r), Base(r))
    OBVIOUS
  <2>2. cmd.key = Arena(r) /\ cmd.op = "put"
    BY <2>1 DEF Put
  <2>3. Unanswered(cmd)'
    BY <1>1, <1>2, <2>1, <2>2, UnansweredStays
  <2>. QED  BY <2>1, <2>3 DEF Void, Put, Arena, Base
<1>3. CASE Refused(r)
  <2>1. Denied(r)
    BY <1>3, RefusedIs DEF RefusedMeans
  <2>2. ASSUME NEW i \in DOMAIN calls', Contends(i, r)', outcome'[i] \notin {"pending", "failed"}
        PROVE  FALSE
    <3>1. i \in DOMAIN calls
      BY <1>0, <2>2, OutcomeChanges
    <3>2. Contends(i, r) /\ command'[i] = command[i]
      BY <1>0, <2>2, <3>1, OutcomeChanges DEF Contends, Arena
    <3>3. busy[calls[i].by] = i /\ Returns(calls[i].by)
      BY <1>0, <2>1, <2>2, <3>1, <3>2, OutcomeChanges DEF Denied
    <3>4. calls[i].by \notin Clients
      BY <3>1, <3>2, ArenaIs DEF Contends
    <3>5. calls[i].by \in Threads
      BY <1>0, <3>1, Called DEF TypeInv
    <3>6. calls[i].by \in {Main} \cup Contenders
      BY <3>4, <3>5 DEF Threads
    <3>. QED  BY <1>1, <3>2, <3>3, <3>6 DEF Contends
  <2>3. Denied(r)'
    BY <2>2 DEF Denied
  <2>4. BaseInv' => RefusedMeans'
    BY RefusedIs, PTL
  <2>. QED  BY <2>3, <2>4, BaseStep DEF RefusedMeans, Void
<1>. QED  BY <1>2, <1>3 DEF Void

\* Within the loop, nobody is ahead of it.
LEMMA CASKeysStep ==
  ASSUME BaseInv, CASKeys, [Next]_vars, Phase = "cas", Phase' = "cas"
  PROVE  CASKeys'
<1>. DEFINE Behind(i, j) == j < at \/ (j = at /\ (step = "race" \/ i = busy[Main]))
            Keys1 == \A i \in DOMAIN calls, j \in 1 .. Rounds :
                       ~Deletes(i) /\ command[i].key = Arena(j) => Behind(i, j)
            Puts == step = "race" =>
                      /\ at <= Rounds
                      /\ \A i \in DOMAIN calls : command[i] = Put(Arena(at), Base(at)) => outcome[i] = "ok"
<1>0. TypeInv /\ CallInv /\ "cas" \in Judged /\ Main \in Threads /\ at \in Nat \ {0}
  BY DEF BaseInv, TypeInv, ControlInv, Judged, Threads
<1>1. Keys1 /\ Puts
  BY DEF CASKeys
<1>2. /\ DOMAIN calls \subseteq DOMAIN calls'
      /\ \A i \in DOMAIN calls : calls'[i] = calls[i] /\ command'[i] = command[i]
      /\ \A i \in DOMAIN calls : outcome[i] = "ok" => outcome'[i] = "ok"
  BY <1>0, OutcomeChanges
<1>3. \A i \in DOMAIN calls : Deletes(i)' = Deletes(i)
  BY <1>2 DEF Deletes
<1>4. ASSUME NEW t \in Threads, NEW cmd \in Command, Calls(t, cmd)
      PROVE  CASKeys'
  <2>1. PICK n : n = Len(calls) + 1
    OBVIOUS
  <2>2. /\ n \notin DOMAIN calls /\ DOMAIN calls' = DOMAIN calls \cup {n}
        /\ calls'[n].by = t /\ command'[n] = cmd /\ busy[t] = 0
        /\ busy'[t] = n /\ \A u \in Threads \ {t} : busy'[u] = busy[u]
    BY <1>0, <1>4, <2>1, CallIs, ZenonT(30)
  <2>3. UNCHANGED <<at, step>> /\ MayCall(t, cmd)
    BY <1>4 DEF Calls, control
  <2>4. ASSUME NEW j \in 1 .. Rounds, cmd.key = Arena(j)
        PROVE  /\ j = at
               /\ (step = "first" /\ t = Main) \/ (step = "race" /\ cmd.op = "cas")
    <3>1. BaseInv'
      BY BaseStep
    <3>2. t \notin Clients
      <4>1. t \in Clients => cmd.key \in ChaosKeys
        BY <2>2, <3>1 DEF BaseInv, KeysInv
      <4>2. Touched("cas") \cap ChaosKeys = {}
        BY NamesFacts DEF Phases
      <4>. QED  BY <2>4, <4>1, <4>2, TouchedIs
    <3>3. Asked("cas", step, at, t, cmd)
      BY <2>3, <3>2 DEF MayCall
    <3>4. /\ cmd.key = Arena(at)
          /\ (step = "first" /\ t = Main) \/ (step = "race" /\ cmd.op = "cas")
      BY <3>3 DEF Asked, Put, CAS
    <3>. QED  BY <2>4, <3>4 DEF Arena
  <2>5. ASSUME NEW i \in DOMAIN calls', NEW j \in 1 .. Rounds, ~Deletes(i)',
               command'[i].key = Arena(j)
        PROVE  Behind(i, j)'
    <3>1. CASE i = n
      BY <2>2, <2>3, <2>4, <2>5, <3>1
    <3>2. CASE i \in DOMAIN calls
      <4>1. i # 0
        BY <1>0, <3>2, Called
      <4>2. i = busy[Main] => i = busy'[Main]
        BY <1>0, <2>2, <4>1
      <4>3. ~Deletes(i) /\ command[i].key = Arena(j)
        BY <1>2, <1>3, <2>5, <3>2
      <4>4. Behind(i, j)
        BY <1>1, <3>2, <4>3
      <4>. QED  BY <2>3, <4>2, <4>4
    <3>. QED  BY <2>2, <3>1, <3>2
  <2>6. Puts'
    <3>. SUFFICES ASSUME step = "race", NEW i \in DOMAIN calls',
                         command'[i] = Put(Arena(at), Base(at))
                  PROVE  outcome'[i] = "ok"
      BY <1>1, <2>3 DEF Put, Arena, Base
    <3>1. CASE i = n
      <4>1. cmd.key = Arena(at) /\ cmd.op = "put"
        BY <2>2, <3>1 DEF Put
      <4>2. at \in 1 .. Rounds
        BY <1>0, <1>1, NamesFacts
      <4>. QED  BY <2>4, <4>1, <4>2
    <3>2. CASE i \in DOMAIN calls
      BY <1>1, <1>2, <3>2
    <3>. QED  BY <2>2, <3>1, <3>2
  <2>. QED  BY <2>5, <2>6 DEF CASKeys
<1>5. ASSUME UNCHANGED <<at, step>>, DOMAIN calls' = DOMAIN calls, busy'[Main] = busy[Main]
      PROVE  CASKeys'
  <2>1. ASSUME NEW i \in DOMAIN calls, NEW j \in 1 .. Rounds, ~Deletes(i)',
               command'[i].key = Arena(j)
        PROVE  Behind(i, j)'
    <3>1. ~Deletes(i) /\ command[i].key = Arena(j)
      BY <1>2, <1>3, <2>1
    <3>2. Behind(i, j)
      BY <1>1, <3>1
    <3>. QED  BY <1>5, <3>2
  <2>2. ASSUME step = "race", NEW i \in DOMAIN calls, command'[i] = Put(Arena(at), Base(at))
        PROVE  outcome'[i] = "ok"
    BY <1>1, <1>2, <2>2
  <2>3. Keys1'
    BY <1>5, <2>1
  <2>4. Puts'
    BY <1>1, <1>5, <2>2 DEF Put, Arena, Base
  <2>. QED  BY <2>3, <2>4 DEF CASKeys
<1>6. ASSUME NEW t \in Threads \ {Main}, Returns(t), UNCHANGED control PROVE CASKeys'
  <2>1. DOMAIN calls' = DOMAIN calls /\ busy'[Main] = busy[Main] /\ UNCHANGED <<at, step>>
    BY <1>0, <1>6, AnswerEffect DEF Returns, control
  <2>. QED  BY <1>5, <2>1
<1>7. CASE (\E i \in DOMAIN calls : Effect(i)) \/ UNCHANGED vars
  <2>1. ClientInv
    BY <1>0 DEF TypeInv, ClientInv
  <2>2. ASSUME NEW i \in DOMAIN calls, Effect(i) PROVE UNCHANGED <<calls, busy, at, step>>
    BY <2>1, <2>2, TakesEffect DEF control
  <2>3. UNCHANGED <<calls, busy, at, step>>
    BY <1>7, <2>2 DEF vars, control
  <2>. QED  BY <1>5, <2>3
<1>8. ASSUME NEW ok, NextRound(ok), DOMAIN calls' = DOMAIN calls PROVE CASKeys'
  <2>1. step' = "first" /\ at' = at + 1
    BY <1>8 DEF NextRound
  <2>2. ASSUME NEW i \in DOMAIN calls, NEW j \in 1 .. Rounds, ~Deletes(i)',
               command'[i].key = Arena(j)
        PROVE  j < at'
    <3>1. ~Deletes(i) /\ command[i].key = Arena(j)
      BY <1>2, <1>3, <2>2
    <3>2. j <= at
      BY <1>0, <1>1, <3>1
    <3>. QED  BY <1>0, <2>1, <3>2
  <2>. QED  BY <1>8, <2>1, <2>2 DEF CASKeys
<1>9. CASE Returns(Main) /\ Heard
  <2>1. PICK n : n = busy[Main]
    OBVIOUS
  <2>2. /\ n \in DOMAIN calls /\ n # 0 /\ DOMAIN calls' = DOMAIN calls
        /\ (Answered <=> outcome'[n] = "ok")
    BY <1>0, <1>9, <2>1, AnswerEffect DEF Returns
  <2>3. at \in 1 .. Rounds /\ step = "first"
    BY <2>1, <2>2, CASAsks, NamesFacts
  <2>4. CASE Answered /\ GoOn("race")
    <3>1. step' = "race" /\ UNCHANGED at
      BY <2>4 DEF GoOn
    <3>2. ASSUME NEW i \in DOMAIN calls, NEW j \in 1 .. Rounds, ~Deletes(i)',
                 command'[i].key = Arena(j)
          PROVE  Behind(i, j)'
      <4>1. ~Deletes(i) /\ command[i].key = Arena(j)
        BY <1>2, <1>3, <3>2
      <4>2. Behind(i, j)
        BY <1>1, <4>1
      <4>. QED  BY <3>1, <4>2
    <3>3. ASSUME NEW i \in DOMAIN calls, command'[i] = Put(Arena(at), Base(at))
          PROVE  outcome'[i] = "ok"
      <4>1. command[i].key = Arena(at) /\ command[i].op = "put"
        BY <1>2, <3>3 DEF Put
      <4>2. ~Deletes(i)
        BY <4>1 DEF Deletes
      <4>3. i = n
        BY <1>1, <2>1, <2>3, <4>1, <4>2
      <4>. QED  BY <2>2, <2>4, <4>3
    <3>4. Keys1'
      BY <2>2, <3>2
    <3>5. Puts'
      BY <2>2, <2>3, <3>1, <3>3 DEF Put, Arena, Base
    <3>. QED  BY <3>4, <3>5 DEF CASKeys
  <2>. QED  BY <1>8, <1>9, <2>2, <2>3, <2>4 DEF Heard, MainReturns, At
<1>10. CASE ByItself
  <2>1. ~EndPhase /\ ~Linearizability
    BY <1>0, PhaseSteps
  <2>2. CASRound
    BY <1>10, <2>1 DEF ByItself, MajorityNoLeader, ChaosStop, ChaosWait, At
  <2>. QED  BY <1>8, <2>2 DEF CASRound, NothingElse
<1>. QED  BY <1>0, <1>4, <1>6, <1>7, <1>9, <1>10, Steps

\* Whoever contends in a round is a contender.
LEMMA ContendersContend ==
  ASSUME BaseInv, NEW r \in 1 .. Rounds, NEW i \in DOMAIN calls, Contends(i, r)
  PROVE  calls[i].by \in Contenders /\ command[i] = CAS(Arena(r), Base(r), Winner(r, calls[i].by))
<1>1. command[i].op = "cas" /\ command[i].key = Arena(r) /\ Arena(r) \in Touched("cas")
  BY ArenaIs DEF Contends
<1>2. Works(Arena(r), calls[i].by, command[i])
  BY <1>1, KeyWorks DEF Judged
<1>3. PICK t : t = calls[i].by
  OBVIOUS
<1>4. command[i] # Put(Arena(r), Base(r))
  BY <1>1 DEF Put
<1>. QED  BY <1>2, <1>4, ArenaWorks

\* A round with one winner at most fails because nobody was let in.
LEMMA RoundFails ==
  ASSUME BaseInv, at \in 1 .. Rounds, Race, \A c \in Contenders : busy[c] = 0, ~RoundOK(at)
  PROVE  Refused(at)
<1>. DEFINE W == {op \in Results(at) : op.outcome = "ok" /\ op.res.ok}
            U == {op \in Results(at) : op.outcome = "unknown"}
<1>0. HistoryInv /\ CallInv /\ OutcomeInv
  BY DEF BaseInv, TypeInv
<1>1. ASSUME NEW i \in DOMAIN calls, Contends(i, at), outcome[i] # "pending"
      PROVE  \E op \in Results(at) :
               /\ op.outcome = outcome[i]
               /\ outcome[i] = "ok" => op.res = effect[i]
  <2>1. PICK k \in DOMAIN history : history[k].id = i
    BY <1>0, <1>1 DEF OutcomeInv
  <2>2. PICK h : h = history[k]
    OBVIOUS
  <2>3. h.cmd = command[i] /\ h.outcome = outcome[i] /\ (outcome[i] = "ok" => h.res = effect[i])
    BY <1>0, <2>1, <2>2 DEF HistoryInv, RecordInv
  <2>4. h \in Results(at)
    BY <1>1, <2>2, <2>3 DEF Results, Contends
  <2>. QED  BY <2>3, <2>4
<1>2. ASSUME NEW op \in W
      PROVE  \E k \in DOMAIN history, i \in DOMAIN calls :
               op = history[k] /\ i = history[k].id /\ Won(i, at)
  <2>1. PICK k \in DOMAIN history :
          op = history[k] /\ history[k].cmd.op = "cas" /\ history[k].cmd.key = Arena(at)
    BY DEF Results
  <2>2. PICK i : i = op.id
    OBVIOUS
  <2>3. i \in DOMAIN calls /\ op.cmd = command[i] /\ effect[i] # NoResult /\ op.res = effect[i]
    BY <1>0, <2>1, <2>2 DEF HistoryInv, RecordInv
  <2>4. Won(i, at)
    BY <2>1, <2>3 DEF Won, Contends
  <2>. QED  BY <2>1, <2>2, <2>3, <2>4
<1>3. ASSUME NEW op1 \in W, NEW op2 \in W PROVE op1 = op2
  <2>1. PICK k1 \in DOMAIN history, i1 \in DOMAIN calls :
          op1 = history[k1] /\ i1 = history[k1].id /\ Won(i1, at)
    BY <1>2
  <2>2. PICK k2 \in DOMAIN history, i2 \in DOMAIN calls :
          op2 = history[k2] /\ i2 = history[k2].id /\ Won(i2, at)
    BY <1>2
  <2>3. i1 = i2
    BY <2>1, <2>2 DEF Race
  <2>. QED  BY <1>0, <2>1, <2>2, <2>3 DEF HistoryInv
<1>4. (W = {} /\ Wins(at) = 0) \/ Wins(at) = 1
  <2>1. CASE W = {}
    BY <2>1, FS_EmptySet DEF Wins
  <2>2. CASE W # {}
    <3>1. PICK x \in W : TRUE
      BY <2>2
    <3>2. W = {x}
      BY <1>3, <3>1
    <3>3. Cardinality({x}) = 1
      BY FS_Singleton
    <3>. QED  BY <3>2, <3>3 DEF Wins
  <2>. QED  BY <2>1, <2>2
<1>5. Unknowns(at) \in Nat /\ (Unknowns(at) = 0 => U = {})
  <2>1. IsFiniteSet(DOMAIN history)
    <3>1. DOMAIN history = 1 .. Len(history) /\ Len(history) \in Nat
      BY <1>0 DEF HistoryInv
    <3>. QED  BY <3>1, FS_Interval
  <2>2. IsFiniteSet(Results(at))
    <3>1. PICK D : D = {j \in DOMAIN history : history[j].cmd.op = "cas" /\ history[j].cmd.key = Arena(at)}
      OBVIOUS
    <3>2. IsFiniteSet(D)
      BY <2>1, <3>1, FS_Subset
    <3>3. PICK f : f = [k \in D |-> history[k]]
      OBVIOUS
    <3>4. f \in Surjection(D, Results(at))
      <4>1. f \in [D -> Results(at)]
        BY <3>1, <3>3 DEF Results
      <4>2. \A op \in Results(at) : \E k \in D : f[k] = op
        BY <3>1, <3>3 DEF Results
      <4>. QED  BY <4>1, <4>2 DEF Surjection
    <3>. QED  BY <3>2, <3>4, FS_Surjection
  <2>3. IsFiniteSet(U)
    BY <2>2, FS_Subset
  <2>. QED  BY <2>3, FS_CardinalityType, FS_EmptySet DEF Unknowns
<1>6. W = {} /\ U = {}
  BY <1>4, <1>5 DEF RoundOK
<1>7. ASSUME NEW i \in DOMAIN calls, Contends(i, at) PROVE outcome[i] \in {"pending", "failed"}
  <2>1. outcome[i] # "unknown"
    BY <1>1, <1>6, <1>7
  <2>2. ASSUME outcome[i] = "ok" PROVE FALSE
    <3>1. effect[i] # NoResult
      BY <1>0, <2>2 DEF OutcomeInv
    <3>2. PICK w \in DOMAIN calls : Won(w, at)
      BY <1>7, <3>1 DEF Race
    <3>3. Contends(w, at) /\ effect[w] # NoResult /\ effect[w].ok
      BY <3>2 DEF Won
    <3>4. outcome[w] # "pending"
      <4>1. calls[w].by \in Contenders /\ w # 0
        BY <1>0, <3>3, ContendersContend, Called
      <4>. QED  BY <1>0, <4>1 DEF CallInv
    <3>5. outcome[w] # "failed"
      BY <1>0, <3>3 DEF OutcomeInv
    <3>6. outcome[w] # "unknown" /\ outcome[w] # "ok"
      BY <1>1, <1>6, <3>3, <3>4
    <3>. QED  BY <3>4, <3>5, <3>6, OutcomeType
  <2>. QED  BY <2>1, <2>2, OutcomeType
<1>. QED  BY <1>7, RefusedIs DEF RefusedMeans, Denied

\* Calls and answers leave the race as it is.
LEMMA RaceStays ==
  ASSUME TypeInv, Race, UNCHANGED <<data, effect, at>>, [Next]_vars
  PROVE  Race'
<1>1. CallInv' /\ CallInv
  BY TypeStep DEF TypeInv
<1>2. \A i \in DOMAIN calls : i \in DOMAIN calls' /\ command'[i] = command[i]
  BY OutcomeChanges
<1>3. ASSUME NEW i \in DOMAIN calls' PROVE i \in DOMAIN calls \/ effect'[i] = NoResult
  BY <1>1, <1>3 DEF CallInv
<1>4. \A i \in DOMAIN calls : Contends(i, at)' = Contends(i, at) /\ Won(i, at)' = Won(i, at)
  BY <1>2 DEF Contends, Won, Arena
<1>5. data[Arena(at)] = Base(at) =>
        \A i \in DOMAIN calls' : Contends(i, at)' => effect'[i] = NoResult
  <2>1. ASSUME data[Arena(at)] = Base(at), NEW i \in DOMAIN calls', Contends(i, at)'
        PROVE  effect'[i] = NoResult
    <3>1. CASE i \in DOMAIN calls
      <4>1. Contends(i, at)
        BY <1>4, <2>1, <3>1
      <4>. QED  BY <2>1, <3>1, <4>1 DEF Race
    <3>. QED  BY <1>3, <3>1
  <2>. QED  BY <2>1
<1>6. data[Arena(at)] # Base(at) => \E w \in DOMAIN calls' : Won(w, at)'
  <2>1. ASSUME data[Arena(at)] # Base(at) PROVE \E w \in DOMAIN calls' : Won(w, at)'
    <3>1. PICK w \in DOMAIN calls : Won(w, at)
      BY <2>1 DEF Race
    <3>. QED  BY <1>2, <1>4, <3>1
  <2>. QED  BY <2>1
<1>7. ASSUME NEW i \in DOMAIN calls', NEW w \in DOMAIN calls', Won(i, at)', Won(w, at)'
      PROVE  i = w
  <2>1. i \in DOMAIN calls /\ w \in DOMAIN calls
    BY <1>3, <1>7 DEF Won
  <2>2. Won(i, at) /\ Won(w, at)
    BY <1>4, <1>7, <2>1
  <2>. QED  BY <2>1, <2>2 DEF Race
<1>. QED  BY <1>5, <1>6, <1>7 DEF Race, Arena, Base

\* The first contender that takes effect wins, and ends the race.
LEMMA RaceEffect ==
  ASSUME BaseInv, Race, CASKeys, Phase = "cas", step = "race", checks["reset"] = "PASS",
         NEW i \in DOMAIN calls, Effect(i)
  PROVE  Race'
<1>. PICK r : r = at
  OBVIOUS
<1>. PICK k : k = Arena(r)
  OBVIOUS
<1>0. r \in 1 .. Rounds /\ TypeInv
  BY NamesFacts DEF CASKeys, BaseInv, TypeInv, ControlInv
<1>1. /\ k \in Touched("cas") /\ Base(r) \in Values
      /\ \A c \in Contenders : Winner(r, c) \in Values /\ Winner(r, c) # Base(r)
  BY <1>0, ArenaIs
<1>2. /\ k \in Keys /\ data \in Data
      /\ command[i].key # k => data'[k] = data[k]
      /\ UNCHANGED <<control, calls, command, outcome, busy, history>>
      /\ \A j \in DOMAIN calls \ {i} : effect'[j] = effect[j]
      /\ effect'[i] = ApplyResult(data, command[i]) /\ effect'[i] # NoResult
      /\ data' = ApplyData(data, command[i])
      /\ effect[i] = NoResult /\ outcome[i] \in {"pending", "unknown"}
      /\ command[i].key = k => command[i].op # "delete" /\ Works(k, calls[i].by, command[i])
  BY <1>1, PhaseEffect DEF Judged
<1>3. at' = r /\ DOMAIN calls' = DOMAIN calls
      /\ \A j : Contends(j, r)' = Contends(j, r)
  BY <1>2 DEF control, Contends, Arena
<1>4. \A j \in DOMAIN calls \ {i} : Won(j, r)' = Won(j, r)
  BY <1>2, <1>3 DEF Won
<1>5. /\ data[k] = Base(r) => \A j \in DOMAIN calls : Contends(j, r) => effect[j] = NoResult
      /\ data[k] # Base(r) => \E w \in DOMAIN calls : Won(w, r)
      /\ \A j, w \in DOMAIN calls : Won(j, r) /\ Won(w, r) => j = w
  BY DEF Race
<1>6. ~Won(i, r)
  BY <1>2 DEF Won
<1>7. ASSUME /\ data'[k] = Base(r) => \A j \in DOMAIN calls : Contends(j, r) => effect'[j] = NoResult
             /\ data'[k] # Base(r) => \E w \in DOMAIN calls : Won(w, r)'
             /\ \A j, w \in DOMAIN calls : Won(j, r)' /\ Won(w, r)' => j = w
      PROVE  Race'
  BY <1>3, <1>7 DEF Race, Arena, Base, Won, Contends
<1>8. ASSUME data'[k] = data[k], ~Won(i, r)', Contends(i, r) => data[k] # Base(r)
      PROVE  Race'
  <2>1. \A j \in DOMAIN calls : Won(j, r)' => Won(j, r)
    BY <1>4, <1>8
  <2>2. \A j \in DOMAIN calls : Won(j, r) => Won(j, r)'
    BY <1>4, <1>6
  <2>3. data'[k] = Base(r) => \A j \in DOMAIN calls : Contends(j, r) => effect'[j] = NoResult
    BY <1>2, <1>5, <1>8
  <2>4. data'[k] # Base(r) => \E w \in DOMAIN calls : Won(w, r)'
    BY <1>5, <1>8, <2>2
  <2>5. \A j, w \in DOMAIN calls : Won(j, r)' /\ Won(w, r)' => j = w
    BY <1>5, <2>1
  <2>. QED  BY <1>7, <2>3, <2>4, <2>5
<1>9. CASE command[i].key # k
  <2>1. ~Contends(i, r) /\ ~Won(i, r)'
    BY <1>3, <1>9 DEF Contends, Won
  <2>. QED  BY <1>2, <1>8, <1>9, <2>1
<1>10. CASE command[i].key = k
  <2>1. command[i] # Put(k, Base(r))
    BY <1>2 DEF CASKeys
  <2>2. /\ calls[i].by \in Contenders
        /\ command[i] = CAS(k, Base(r), Winner(r, calls[i].by))
    BY <1>2, <1>10, <2>1, ArenaWorks
  <2>3. PICK v : v = Winner(r, calls[i].by)
    OBVIOUS
  <2>4. v \in Values /\ v # Base(r) /\ command[i] = CAS(k, Base(r), v)
    BY <1>1, <2>2, <2>3
  <2>5. Contends(i, r)
    BY <2>4 DEF Contends, CAS
  <2>6. CASE data[k] = Base(r)
    <3>1. data'[k] = v /\ effect'[i].ok
      BY <1>1, <1>2, <2>4, <2>6, Applied
    <3>2. Won(i, r)'
      BY <1>2, <1>3, <2>5, <3>1 DEF Won
    <3>3. \A j \in DOMAIN calls : Won(j, r)' => j = i
      <4>1. \A j \in DOMAIN calls : ~Won(j, r)
        BY <1>5, <2>6 DEF Won
      <4>. QED  BY <1>4, <4>1
    <3>. QED  BY <1>7, <2>4, <3>1, <3>2, <3>3
  <2>7. CASE data[k] # Base(r)
    <3>1. data' = data /\ ~effect'[i].ok
      BY <1>1, <1>2, <2>4, <2>7, Applied
    <3>2. ~Won(i, r)'
      BY <3>1 DEF Won
    <3>. QED  BY <1>8, <2>7, <3>1, <3>2
  <2>. QED  BY <2>6, <2>7
<1>. QED  BY <1>9, <1>10

\* A race starts from the base value, and a round it fails is void.
LEMMA CASLoopStep ==
  ASSUME BaseInv, CASKeys, CASLoop, [Next]_vars, Phase = "cas", Phase' = "cas",
         checks["reset"] = "PASS"
  PROVE  CASLoop'
<1>. DEFINE SomeVoid == \E j \in 1 .. Rounds : j < at /\ Void(j)
            Based == step = "first" /\ TookEffect(Main) => data[Arena(at)] = Base(at)
            Raced == step = "race" => Race
<1>0. /\ TypeInv /\ "cas" \in Judged /\ Main \in Threads /\ at \in Nat \ {0}
      /\ CallInv
  BY DEF BaseInv, TypeInv, ControlInv, Judged, Threads
<1>1. Based /\ Raced /\ (~pass => SomeVoid)
  BY DEF CASLoop
<1>2. ASSUME NEW j \in 1 .. Rounds, j < at, Void(j) PROVE Void(j)'
  BY <1>0, <1>2, VoidStays, NamesFacts
<1>3. CASE \/ \E t \in Threads, cmd \in Command : Calls(t, cmd)
           \/ \E t \in Threads \ {Main} : Returns(t) /\ UNCHANGED control
           \/ UNCHANGED vars
  <2>1. /\ UNCHANGED <<data, effect, pass, at, step>>
        /\ TookEffect(Main)' => TookEffect(Main) /\ busy'[Main] = busy[Main]
    BY <1>0, <1>3, OthersStay DEF control
  <2>2. ~pass' => SomeVoid'
    BY <1>1, <1>2, <2>1
  <2>3. Based'
    BY <1>1, <2>1 DEF Arena, Base
  <2>4. step' = "race" => Race'
    BY <1>0, <1>1, <2>1, RaceStays
  <2>. QED  BY <2>2, <2>3, <2>4 DEF CASLoop
<1>4. ASSUME NEW ok \in BOOLEAN, NextRound(ok), NEW r, r = at, r \in 1 .. Rounds, ok \/ Void(r)',
             busy'[Main] = 0
      PROVE  CASLoop'
  <2>1. step' = "first" /\ at' = at + 1 /\ pass' = (pass /\ ok)
    BY <1>4 DEF NextRound
  <2>2. ~pass => SomeVoid'
    BY <1>0, <1>1, <1>2, <2>1, NamesFacts
  <2>3. Void(r)' => SomeVoid'
    BY <1>0, <1>4, <2>1
  <2>. QED  BY <1>4, <2>1, <2>2, <2>3 DEF CASLoop, TookEffect
<1>5. CASE Returns(Main) /\ Heard
  <2>0. PICK r : r = at
    OBVIOUS
  <2>1. PICK n : n = busy[Main]
    OBVIOUS
  <2>2. /\ n \in DOMAIN calls /\ n # 0 /\ outcome[n] = "pending" /\ busy'[Main] = 0
        /\ UNCHANGED <<data, effect, calls, command>>
        /\ (Answered <=> outcome'[n] = "ok")
        /\ outcome'[n] = "ok" => effect[n] # NoResult
    BY <1>0, <1>5, <2>1, AnswerEffect DEF Returns
  <2>3. at \in 1 .. Rounds /\ step = "first" /\ command[n] = Put(Arena(at), Base(at))
    BY <2>1, <2>2, CASAsks, NamesFacts
  <2>4. ASSUME NEW i \in DOMAIN calls, command[i].key = Arena(r), command[i].op # "delete"
        PROVE  i = n
    BY <1>0, <2>0, <2>1, <2>3, <2>4 DEF CASKeys, Deletes
  <2>5. CASE Answered /\ GoOn("race")
    <3>1. step' = "race" /\ UNCHANGED <<at, pass, data>>
      BY <2>2, <2>5 DEF GoOn
    <3>2. data[Arena(at)] = Base(at)
      BY <1>1, <2>1, <2>2, <2>3, <2>5 DEF TookEffect
    <3>3. \A i \in DOMAIN calls : ~Contends(i, r)
      BY <2>0, <2>3, <2>4 DEF Contends, Put
    <3>4. Race'
      BY <2>0, <2>2, <3>1, <3>2, <3>3 DEF Race, Won, Contends, Arena, Base
    <3>5. ~pass' => SomeVoid'
      BY <1>1, <1>2, <3>1
    <3>. QED  BY <3>1, <3>4, <3>5 DEF CASLoop
  <2>6. CASE ~Answered /\ NextRound(FALSE)
    <3>1. PICK cmd : cmd = Put(Arena(r), Base(r))
      OBVIOUS
    <3>2. cmd.key = Arena(r) /\ cmd.op = "put"
      BY <3>1 DEF Put
    <3>3. Unanswered(cmd)
      BY <2>2, <2>4, <3>2, UnansweredIs DEF UnansweredMeans, Open
    <3>4. Unanswered(cmd)'
      BY <2>6, <3>3, UnansweredStays
    <3>5. Void(r)'
      BY <3>1, <3>4 DEF Void, Put, Arena, Base
    <3>. QED  BY <1>4, <2>0, <2>2, <2>3, <2>6, <3>5
  <2>. QED  BY <1>5, <2>3, <2>5, <2>6 DEF Heard, MainReturns, At
<1>6. ASSUME NEW i \in DOMAIN calls, Effect(i) PROVE CASLoop'
  <2>1. UNCHANGED <<control, busy>>
    <3>1. ClientInv
      BY <1>0 DEF TypeInv, ClientInv
    <3>. QED  BY <1>6, <3>1, TakesEffect
  <2>2. ~pass' => SomeVoid'
    BY <1>1, <1>2, <2>1 DEF control
  <2>3. step' = "race" => Race'
    BY <1>1, <1>6, <2>1, RaceEffect DEF control
  <2>4. ASSUME step = "first", busy[Main] # 0 PROVE Based'
    <3>1. PICK k : k = Arena(at)
      OBVIOUS
    <3>2. /\ at \in 1 .. Rounds /\ busy[Main] \in DOMAIN calls
          /\ command[busy[Main]] = Put(k, Base(at)) /\ command[busy[Main]].key = k
      BY <2>4, <3>1, CASAsks, NamesFacts
    <3>3. k \in Touched("cas") /\ Base(at) \in Values
      BY <3>1, <3>2, ArenaIs
    <3>4. /\ k \in Keys /\ data \in Data
          /\ command[i].key # k => data'[k] = data[k]
          /\ \A j \in DOMAIN calls \ {i} : effect'[j] = effect[j]
          /\ data' = ApplyData(data, command[i])
          /\ command[i].key = k => command[i].op # "delete"
      BY <1>0, <1>6, <3>3, PhaseEffect
    <3>5. CASE i = busy[Main]
      <4>1. data'[k] = Base(at)
        BY <3>2, <3>3, <3>4, <3>5, Applied
      <4>. QED  BY <2>1, <3>1, <4>1 DEF control, Arena, Base
    <3>6. CASE i # busy[Main]
      <4>1. command[i].key # k
        <5>1. command[i].key = k => i = busy[Main]
          BY <1>0, <2>4, <3>1, <3>2, <3>4 DEF CASKeys, Deletes
        <5>. QED  BY <3>6, <5>1
      <4>2. effect'[busy[Main]] = effect[busy[Main]]
        BY <3>2, <3>4, <3>6
      <4>. QED  BY <1>1, <2>1, <3>1, <3>4, <4>1, <4>2 DEF control, Arena, Base, TookEffect
    <3>. QED  BY <3>5, <3>6
  <2>5. Based'
    BY <2>1, <2>4 DEF TookEffect, control
  <2>. QED  BY <2>2, <2>3, <2>5 DEF CASLoop
<1>7. CASE ByItself
  <2>1. ~EndPhase /\ ~Linearizability
    BY <1>0, PhaseSteps
  <2>2. CASRound
    BY <1>7, <2>1 DEF ByItself, MajorityNoLeader, ChaosStop, ChaosWait, At
  <2>3. busy'[Main] = 0 /\ \A c \in Contenders : busy[c] = 0
    BY <1>0, <1>7, <2>2, Idle DEF BaseInv, CASRound, NothingElse
  <2>4. PICK r : r = at
    OBVIOUS
  <2>5. at \in 1 .. Rounds /\ step = "race"
    BY <1>0, <2>2, NamesFacts DEF CASRound, At, CASKeys
  <2>6. PICK ok : ok = RoundOK(at)
    OBVIOUS
  <2>7. ok \in BOOLEAN /\ NextRound(ok)
    BY <2>2, <2>6 DEF CASRound, RoundOK
  <2>8. ok \/ Void(r)'
    <3>. SUFFICES ASSUME ~ok PROVE Void(r)'
      OBVIOUS
    <3>1. Refused(r)
      BY <1>1, <2>3, <2>4, <2>5, <2>6, RoundFails
    <3>2. \A t \in {Main} \cup Contenders : ~Returns(t)
      <4>1. \A t \in {Main} \cup Contenders : busy[t] = 0
        BY <1>0, <1>7, Idle DEF BaseInv
      <4>. QED  BY <4>1 DEF Returns, Return
    <3>3. r \in 1 .. Rounds /\ Void(r)
      BY <2>4, <2>5, <3>1 DEF Void
    <3>. QED  BY <3>2, <3>3, VoidStays
  <2>. QED  BY <1>4, <2>3, <2>4, <2>5, <2>7, <2>8
<1>. QED  BY <1>0, <1>3, <1>5, <1>6, <1>7, Steps

LEMMA CASStep ==
  ASSUME BaseInv, CASInv, [Next]_vars
  PROVE  CASInv'
<1>0. TypeInv /\ "cas" \in Judged /\ Main \in Threads
  BY DEF BaseInv, TypeInv, Judged, Threads
<1>1. CASE Phase # "cas" /\ Phase' = "cas"
  <2>1. /\ at' = 1 /\ step' = "first" /\ pass' = TRUE /\ Stays /\ busy[Main] = 0
        /\ \A i \in DOMAIN calls : calls[i].by \notin Clients /\ command[i].op # "delete"
             => command[i].key \notin Touched("cas")
        /\ ~Failed("cas")'
    BY <1>0, <1>1, PhaseSteps
  <2>2. UNCHANGED <<calls, command, busy>>
    BY <2>1 DEF Stays, absVars
  <2>3. ASSUME NEW i \in DOMAIN calls, NEW r \in 1 .. Rounds, ~Deletes(i),
               command[i].key = Arena(r)
        PROVE  FALSE
    BY <2>1, <2>3, ArenaIs DEF Deletes
  <2>4. CASKeys'
    BY <2>1, <2>2, <2>3 DEF CASKeys, Deletes
  <2>5. CASLoop'
    BY <2>1, <2>2 DEF CASLoop, TookEffect
  <2>. QED  BY <2>1, <2>4, <2>5 DEF CASInv
<1>2. CASE Phase = "cas" /\ Phase' = "cas"
  <2>1. checks["reset"] = checks'["reset"] /\ ~Failed("cas")'
    BY <1>0, <1>2, PhaseSteps
  <2>. QED  BY <1>2, <2>1, CASKeysStep, CASLoopStep DEF CASInv
<1>3. CASE Phase' # "cas"
  <2>. SUFFICES ASSUME checks'["reset"] = "PASS", Failed("cas")'
                PROVE  \E r \in 1 .. Rounds : Void(r)'
    BY <1>3 DEF CASInv
  <2>1. /\ checks["reset"] = "PASS"
        /\ (Failed("cas") /\ Phase # "cas") \/ (Phase = "cas" /\ EndPhase /\ ~pass)
    BY <1>0, PhaseSteps
  <2>2. PICK r \in 1 .. Rounds : Void(r)
    BY <2>1 DEF CASInv, CASLoop
  <2>3. ~(Phase = "cas" /\ \E t \in {Main} \cup Contenders : Returns(t))
    <3>1. ASSUME EndPhase, NEW t \in {Main} \cup Contenders, Returns(t) PROVE FALSE
      <4>1. busy[t] = 0
        BY <1>0, <3>1, Idle DEF BaseInv, ByItself
      <4>. QED  BY <3>1, <4>1 DEF Returns, Return
    <3>. QED  BY <2>1, <3>1
  <2>. QED  BY <2>2, <2>3, VoidStays
<1>. QED  BY <1>1, <1>2, <1>3

-----------------------------------------------------------------------------
(* The theorems                                                            *)

AlarmInv == BaseInv /\ SmokeInv /\ KillInv /\ MajorityInv /\ CASInv

LEMMA InitAlarms ==
  ASSUME Init
  PROVE  AlarmInv
<1>1. /\ DOMAIN calls = {} /\ step = "first" /\ pass = TRUE /\ at = 1
      /\ \A p : ~Failed(p)
  BY DEF Init, Failed
<1>2. busy[Main] = 0
  BY DEF Init, Threads
<1>3. BaseInv
  BY InitBase
<1>4. \A cmd : Unanswered(cmd)
  BY <1>1, <1>3, UnansweredIs DEF UnansweredMeans, Open
<1>5. SmokeInv
  BY <1>1, <1>2 DEF SmokeInv, SmokeLoop, TookEffect
<1>6. KillInv
  BY <1>1, <1>2 DEF KillInv, KillKeys, KillLoop, TookEffect
<1>7. MajorityInv
  BY <1>1, <1>2, <1>4 DEF MajorityInv, MajorityLoop, NoPut, TookEffect
<1>8. CASInv
  BY <1>1, <1>2 DEF CASInv, CASKeys, CASLoop, TookEffect
<1>. QED  BY <1>3, <1>5, <1>6, <1>7, <1>8 DEF AlarmInv

LEMMA AlarmStep ==
  ASSUME AlarmInv, [Next]_vars
  PROVE  AlarmInv'
BY BaseStep, SmokeStep, KillStep, MajorityStep, CASStep DEF AlarmInv

LEMMA AlarmsHold == Spec => []AlarmInv
BY InitAlarms, AlarmStep, PTL DEF Spec

\* phaseCASContention: after a reset that succeeded, cas-single-winner fails only
\* when the store did not answer, for any number of rounds and contenders: never
\* do two win, and where none is known to have won and none may have without
\* being told, all were refused or there was no base value.
THEOREM HarnessCASAlarmIsReal == Spec => []CASAlarmIsReal
<1>1. AlarmInv => CASAlarmIsReal
  BY DEF AlarmInv, CASInv, CASAlarmIsReal, Void, Refused
<1>. QED  BY <1>1, AlarmsHold, PTL

\* phaseSmoke, phaseLeaderKillDurability and phaseMajorityStaysAvailable: the
\* same of their checks, whatever attempts that were given up do later.
THEOREM HarnessAlarmsAreReal == Spec => []AlarmsAreReal
<1>1. AlarmInv => AlarmsAreReal
  <2>. SUFFICES ASSUME AlarmInv, checks["reset"] = "PASS" PROVE AlarmsAreReal
    BY DEF AlarmsAreReal
  <2>1. Failed("smoke") =>
          \E k \in DOMAIN history : history[k].cmd.key = Smoke /\ history[k].outcome # "ok"
    BY DEF AlarmInv, SmokeInv, SmokeAnswered
  <2>2. Failed("kill") => \E i \in 1 .. Iterations :
          Unanswered(Put(Durable(i), Precious(i))) \/ Unanswered(Get(Durable(i)))
    BY DEF AlarmInv, KillInv, Lost
  <2>3. Failed("majority") => \/ \A i \in 0 .. MaxTries : Unanswered(Put(Live, Served(i)))
                              \/ Unanswered(Get(Live))
    BY DEF AlarmInv, MajorityInv, Unserved, NoPut
  <2>. QED  BY <2>1, <2>2, <2>3 DEF AlarmsAreReal
<1>. QED  BY <1>1, AlarmsHold, PTL
=============================================================================
