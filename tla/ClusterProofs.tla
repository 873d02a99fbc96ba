----------------------------- MODULE ClusterProofs -----------------------------
(***************************************************************************)
(* Module Cluster, for any number of nodes, clients, keys, attempts and    *)
(* hops: first the types; then the inductive invariant IInv and the safety *)
(* properties that follow from it; at last that Cluster implements         *)
(* LinearizableKV, as long as no key is malformed.                         *)
(***************************************************************************)
EXTENDS Cluster, KVProofs

-----------------------------------------------------------------------------
(* Types                                                                   *)

\* What is written down somewhere exists: handlers belong to attempts and run
\* on nodes, proposals to handlers, waiting clients to attempts.
Wellformed ==
  /\ Len(applied) = Len(log)
  /\ \A h \in Handlers :
       /\ stage[h] # "none" => h[1] \in DOMAIN att /\ where[h] \in Nodes
       /\ h \in floating \cup Committed => stage[h] # "none"
       /\ stage[h] = "proxying" =>
            NextHop(h) \in Handlers /\ stage[NextHop(h)] # "none"
  /\ \A c \in Clients :
       pc[c] # "idle" => cur[c] \in DOMAIN att /\ stage[<<cur[c], 1>>] # "none"

BasicInv == TypeOK /\ Wellformed

\* The initial state has its types.
LEMMA InitTypeOK == Init => TypeOK
BY ClusterAssumption, KVAssumption
   DEF Init, TypeOK, RaftInit, RaftTypeOK, Roles, EmptyData, Data, Reply, NoReply,
       Codes, Stages, Handlers, Attempts

\* The call a handler works on is one of the arguments of Invoke.
LEMMA HandlerType ==
  ASSUME TypeOK, NEW h \in Handlers, h[1] \in DOMAIN att
  PROVE  CallOf(h) \in Call /\ CallOf(h).cmd \in Command
<1>1. att[h[1]] \in Attempt
  BY DEF TypeOK
<1>2. att[h[1]].call \in Call
  BY <1>1 DEF Attempt
<1>. QED
  BY <1>2 DEF CallOf, Call

\* Recorder.add keeps the types of what it writes.
LEMMA AddType ==
  ASSUME TypeOK, NEW c \in Clients, cur[c] \in Attempts,
         NEW outcome \in Outcomes, NEW res \in Result \cup {NoResult},
         Add(c, outcome, res)
  PROVE  /\ now' \in Nat
         /\ history' \in Seq(Record)
         /\ pc' \in [Clients -> {"idle", "waiting", "backoff"}]
         /\ overdue' \in [Clients -> BOOLEAN]
BY DEF TypeOK, Add, Record

\* Starting an attempt keeps the types of what it writes.
LEMMA StartAttemptType ==
  ASSUME TypeOK, NEW c \in Clients, NEW call \in Call, NEW inv \in Attempts,
         NEW n \in Nodes, StartAttempt(c, call, inv, n)
  PROVE  /\ att' \in Seq(Attempt) /\ Len(att') <= MaxAttempts
         /\ where' \in [Handlers -> Nodes \cup {NoNode}]
         /\ stage' \in [Handlers -> Stages]
         /\ pc' \in [Clients -> {"idle", "waiting", "backoff"}]
         /\ cur' \in [Clients -> 0 .. MaxAttempts]
         /\ now' \in Nat
<1>. DEFINE a == Len(att) + 1
            r == [client |-> c, call |-> call, inv |-> inv, start |-> now + 1]
<1>1. /\ a \in Attempts
      /\ att' = Append(att, r)
      /\ where' = [where EXCEPT ![<<a, 1>>] = n]
      /\ stage' = [stage EXCEPT ![<<a, 1>>] = "sent"]
      /\ pc' = [pc EXCEPT ![c] = "waiting"]
      /\ cur' = [cur EXCEPT ![c] = a]
      /\ now' = now + 1
  BY DEF StartAttempt
<1>2. r \in Attempt
  BY DEF TypeOK, Attempt
<1>. HIDE DEF r
<1>3. att' \in Seq(Attempt) /\ Len(att') <= MaxAttempts
  BY <1>1, <1>2, ClusterAssumption DEF TypeOK, Attempts
<1>4. cur' \in [Clients -> 0 .. MaxAttempts]
  BY <1>1 DEF TypeOK, Attempts
<1>5. where' \in [Handlers -> Nodes \cup {NoNode}]
  BY <1>1 DEF TypeOK
<1>6. stage' \in [Handlers -> Stages]
  BY <1>1 DEF TypeOK, Stages
<1>7. pc' \in [Clients -> {"idle", "waiting", "backoff"}] /\ now' \in Nat
  BY <1>1 DEF TypeOK
<1>. QED
  BY <1>3, <1>4, <1>5, <1>6, <1>7

\* Types and references are right initially.
LEMMA InitBasic == Init => BasicInv
BY InitTypeOK DEF BasicInv, Wellformed, Init, RaftInit, Committed

\* A client inside Invoke has an attempt, with its call and its invocation.
LEMMA CurType ==
  ASSUME BasicInv, NEW c \in Clients, pc[c] # "idle"
  PROVE  /\ cur[c] \in Attempts
         /\ cur[c] \in DOMAIN att
         /\ att[cur[c]] \in Attempt
         /\ att[cur[c]].call \in Call
         /\ att[cur[c]].inv \in Attempts
         /\ <<cur[c], 1>> \in Handlers
         /\ where[<<cur[c], 1>>] \in Nodes
<1>1. cur[c] \in DOMAIN att
  BY DEF BasicInv, Wellformed
<1>2. cur[c] \in Attempts /\ <<cur[c], 1>> \in Handlers
  BY <1>1, ClusterAssumption DEF BasicInv, TypeOK, Attempts, Handlers
<1>3. att[cur[c]] \in Attempt
  BY <1>1 DEF BasicInv, TypeOK
<1>4. att[cur[c]].call \in Call /\ att[cur[c]].inv \in Attempts
  BY <1>3 DEF Attempt
<1>5. where[<<cur[c], 1>>] \in Nodes
  BY <1>2 DEF BasicInv, Wellformed
<1>. QED  BY <1>1, <1>2, <1>3, <1>4, <1>5

\* A new attempt.
LEMMA StartBasic ==
  ASSUME BasicInv, NEW c \in Clients, NEW call \in Call, NEW inv \in Attempts,
         NEW n \in Nodes, StartAttempt(c, call, inv, n),
         UNCHANGED <<raftVars, stateVars, reply, history>>
  PROVE  BasicInv'
<1>1. TypeOK'
  BY StartAttemptType DEF StartAttempt, BasicInv, TypeOK, RaftTypeOK, raftVars, stateVars
<1>2. /\ Len(att) + 1 \in Attempts
      /\ <<Len(att) + 1, 1>> \in Handlers
      /\ DOMAIN att' = 1 .. Len(att) + 1
      /\ DOMAIN att = 1 .. Len(att)
      /\ Len(att) \in Nat
  BY ClusterAssumption DEF BasicInv, TypeOK, StartAttempt, Attempts, Handlers
<1>3. \A h \in Handlers : h # <<Len(att) + 1, 1>> =>
         stage'[h] = stage[h] /\ where'[h] = where[h]
  BY <1>2 DEF StartAttempt, BasicInv, TypeOK
<1>4. LET h == <<Len(att) + 1, 1>> IN stage'[h] = "sent" /\ where'[h] = n /\ h[1] = Len(att) + 1
  BY <1>2 DEF StartAttempt, BasicInv, TypeOK
<1>5. Len(applied') = Len(log')
  BY DEF BasicInv, Wellformed, raftVars, stateVars
<1>6. ASSUME NEW h \in Handlers
      PROVE  /\ stage'[h] # "none" => h[1] \in DOMAIN att' /\ where'[h] \in Nodes
             /\ h \in (floating \cup Committed)' => stage'[h] # "none"
             /\ stage'[h] = "proxying" =>
                  NextHop(h) \in Handlers /\ stage'[NextHop(h)] # "none"
  <2>1. CASE h = <<Len(att) + 1, 1>>
    BY <2>1, <1>2, <1>4
  <2>2. CASE h # <<Len(att) + 1, 1>>
    <3>1. stage'[h] = stage[h] /\ where'[h] = where[h]
      BY <2>2, <1>3
    <3>2. (floating \cup Committed)' = floating \cup Committed
      BY DEF raftVars, Committed
    <3>3. \A g \in Handlers : stage[g] # "none" => stage'[g] # "none"
      BY <1>3, <1>4
    <3>. QED  BY <3>1, <3>2, <3>3, <1>2 DEF BasicInv, Wellformed
  <2>. QED  BY <2>1, <2>2
<1>7. ASSUME NEW d \in Clients, pc'[d] # "idle"
      PROVE  cur'[d] \in DOMAIN att' /\ stage'[<<cur'[d], 1>>] # "none"
  <2>1. CASE d = c
    <3>1. cur'[d] = Len(att) + 1
      BY <2>1 DEF StartAttempt, BasicInv, TypeOK
    <3>. QED  BY <3>1, <1>2, <1>4
  <2>2. CASE d # c
    <3>1. pc[d] # "idle" /\ cur'[d] = cur[d]
      BY <2>2, <1>7 DEF StartAttempt, BasicInv, TypeOK
    <3>2. cur[d] \in DOMAIN att /\ <<cur[d], 1>> \in Handlers /\ stage[<<cur[d], 1>>] # "none"
      BY <3>1, CurType DEF BasicInv, Wellformed
    <3>3. cur[d] # Len(att) + 1
      BY <3>2, <1>2
    <3>4. <<cur[d], 1>> # <<Len(att) + 1, 1>>
      BY <3>3
    <3>. QED  BY <3>1, <3>2, <3>4, <1>2, <1>3
  <2>. QED  BY <2>1, <2>2
<1>. QED
  BY <1>1, <1>5, <1>6, <1>7 DEF BasicInv, Wellformed, NextHop

\* Giving up, or going into the backoff.
LEMMA FailType ==
  ASSUME TypeOK, NEW c \in Clients, cur[c] \in Attempts, Fail(c)
  PROVE  /\ now' \in Nat
         /\ history' \in Seq(Record)
         /\ pc' \in [Clients -> {"idle", "waiting", "backoff"}]
         /\ overdue' \in [Clients -> BOOLEAN]
<1>1. CASE Add(c, "failed", NoResult)
  BY <1>1, AddType DEF Outcomes
<1>2. CASE BackOff(c)
  BY <1>2 DEF BackOff, TypeOK, recVars
<1>. QED  BY <1>1, <1>2 DEF Fail

\* The answer a client receives is a Reply.
LEMMA AnswerType ==
  ASSUME BasicInv, NEW c \in Clients, pc[c] # "idle"
  PROVE  Answer(c) \in Reply /\ Answer(c).res \in Result \cup {NoResult}
<1>1. <<cur[c], 1>> \in Handlers
  BY CurType
<1>2. Answer(c) \in Reply
  BY <1>1 DEF Answer, BasicInv, TypeOK
<1>. QED  BY <1>2 DEF Reply

\* The steps that end an attempt touch pc, the recorder and at most the stage
\* of the handler the client waits for.
LEMMA EndBasic ==
  ASSUME BasicInv, NEW c \in Clients, pc[c] # "idle",
         now' \in Nat, history' \in Seq(Record),
         pc' \in [Clients -> {"idle", "waiting", "backoff"}],
         overdue' \in [Clients -> BOOLEAN],
         \A d \in Clients : d # c => pc'[d] = pc[d],
         \/ UNCHANGED stage
         \/ stage' = [stage EXCEPT ![<<cur[c], 1>>] = "void"],
         UNCHANGED <<raftVars, stateVars, where, reply, att, cur>>
  PROVE  BasicInv'
<1>1. <<cur[c], 1>> \in Handlers /\ stage[<<cur[c], 1>>] # "none"
  BY CurType DEF BasicInv, Wellformed
<1>2. stage' \in [Handlers -> Stages]
  BY <1>1 DEF BasicInv, TypeOK, Stages
<1>3. TypeOK'
  BY <1>2 DEF BasicInv, TypeOK, RaftTypeOK, raftVars, stateVars
<1>4. \A h \in Handlers : /\ stage'[h] # "none" <=> stage[h] # "none"
                          /\ stage'[h] = "proxying" => stage[h] = "proxying"
  BY <1>1 DEF BasicInv, TypeOK
<1>5. (floating \cup Committed)' = floating \cup Committed
  BY DEF raftVars, Committed
<1>6. \A d \in Clients : pc'[d] # "idle" => pc[d] # "idle"
  OBVIOUS
<1>7. ASSUME NEW d \in Clients, pc'[d] # "idle"
      PROVE  cur'[d] \in DOMAIN att' /\ stage'[<<cur'[d], 1>>] # "none"
  BY <1>4, <1>6, <1>7, CurType DEF BasicInv, Wellformed
<1>8. Len(applied') = Len(log')
  BY DEF BasicInv, Wellformed, raftVars, stateVars
<1>9. ASSUME NEW h \in Handlers
      PROVE  /\ stage'[h] # "none" => h[1] \in DOMAIN att' /\ where'[h] \in Nodes
             /\ h \in (floating \cup Committed)' => stage'[h] # "none"
             /\ stage'[h] = "proxying" =>
                  NextHop(h) \in Handlers /\ stage'[NextHop(h)] # "none"
  BY <1>4, <1>5 DEF BasicInv, Wellformed
<1>. QED
  BY <1>3, <1>7, <1>8, <1>9 DEF BasicInv, Wellformed, NextHop

\* Changing one client's program counter leaves the others' alone.
LEMMA PCFrame ==
  ASSUME BasicInv, NEW c \in Clients,
         \/ \E outcome, res : Add(c, outcome, res)
         \/ Fail(c)
  PROVE  \A d \in Clients : d # c => pc'[d] = pc[d]
BY DEF Add, Fail, BackOff, BasicInv, TypeOK

\* Every step of Invoke keeps types and references.
LEMMA ClientBasic ==
  ASSUME BasicInv, NEW c \in Clients, ClientStep(c)
  PROVE  BasicInv'
<1>1. ASSUME NEW call \in Calls, NEW n \in Nodes, Invoke(c, call, n)
      PROVE  BasicInv'
  <2>1. call \in Call
    BY ClusterAssumption
  <2>2. /\ StartAttempt(c, call, Len(att) + 1, n)
        /\ UNCHANGED <<raftVars, stateVars, reply, history>>
    BY <1>1 DEF Invoke
  <2>3. Len(att) + 1 \in Attempts
    BY <2>2 DEF StartAttempt
  <2>. QED  BY <2>1, <2>2, <2>3, StartBasic
<1>2. CASE Retry(c)
  <2>1. pc[c] # "idle"
    BY <1>2 DEF Retry
  <2>2. Rotate[where[<<cur[c], 1>>]] \in Nodes
    BY <2>1, CurType, ClusterAssumption
  <2>. QED  BY <1>2, <2>1, <2>2, CurType, StartBasic DEF Retry
<1>3. CASE ReceiveOk(c)
  <2>1. pc[c] # "idle" /\ Add(c, "ok", Answer(c).res)
    BY <1>3 DEF ReceiveOk, Answered
  <2>2. /\ now' \in Nat /\ history' \in Seq(Record)
        /\ pc' \in [Clients -> {"idle", "waiting", "backoff"}]
        /\ overdue' \in [Clients -> BOOLEAN]
    BY <2>1, AnswerType, CurType, AddType DEF BasicInv, Outcomes
  <2>3. \A d \in Clients : d # c => pc'[d] = pc[d]
    BY <2>1, PCFrame
  <2>. QED  BY <1>3, <2>1, <2>2, <2>3, EndBasic DEF ReceiveOk, handlerVars
<1>4. CASE ReceiveUnknown(c) \/ HTTPError(c)
  <2>1. pc[c] # "idle" /\ Add(c, "unknown", NoResult)
    BY <1>4 DEF ReceiveUnknown, HTTPError, Answered
  <2>2. /\ now' \in Nat /\ history' \in Seq(Record)
        /\ pc' \in [Clients -> {"idle", "waiting", "backoff"}]
        /\ overdue' \in [Clients -> BOOLEAN]
    BY <2>1, CurType, AddType DEF BasicInv, Outcomes
  <2>3. \A d \in Clients : d # c => pc'[d] = pc[d]
    BY <2>1, PCFrame
  <2>. QED
    BY <1>4, <2>1, <2>2, <2>3, EndBasic DEF ReceiveUnknown, HTTPError, handlerVars
<1>5. CASE ReceiveFail(c) \/ DialError(c) \/ RetryRefused(c)
  <2>1. pc[c] # "idle" /\ Fail(c)
    BY <1>5 DEF ReceiveFail, DialError, RetryRefused, Answered
  <2>2. /\ now' \in Nat /\ history' \in Seq(Record)
        /\ pc' \in [Clients -> {"idle", "waiting", "backoff"}]
        /\ overdue' \in [Clients -> BOOLEAN]
    BY <2>1, CurType, FailType DEF BasicInv
  <2>3. \A d \in Clients : d # c => pc'[d] = pc[d]
    BY <2>1, PCFrame
  <2>. QED
    BY <1>5, <2>1, <2>2, <2>3, EndBasic
       DEF ReceiveFail, DialError, RetryRefused, handlerVars
<1>6. CASE DeadlinePasses(c)
  BY <1>6, EndBasic DEF DeadlinePasses, handlerVars, recVars, BasicInv, TypeOK
<1>. QED
  BY <1>1, <1>2, <1>3, <1>4, <1>5, <1>6 DEF ClientStep

\* The steps of servers and log leave the clients alone.
LEMMA FrameBasic ==
  ASSUME BasicInv, UNCHANGED <<clientVars, history>>,
         RaftTypeOK', data' \in Data, applied' \in Seq([res : Result, at : Nat]),
         Len(applied') = Len(log'), now' \in Nat,
         where' \in [Handlers -> Nodes \cup {NoNode}],
         stage' \in [Handlers -> Stages], reply' \in [Handlers -> Reply],
         \A h \in Handlers : stage[h] # "none" => stage'[h] # "none",
         \A h \in Handlers : stage'[h] # "none" =>
                               h[1] \in DOMAIN att /\ where'[h] \in Nodes,
         \A h \in Handlers : h \in (floating \cup Committed)' => stage'[h] # "none",
         \A h \in Handlers : stage'[h] = "proxying" =>
                               NextHop(h) \in Handlers /\ stage'[NextHop(h)] # "none"
  PROVE  BasicInv'
<1>1. TypeOK'
  BY DEF BasicInv, TypeOK, clientVars
<1>2. \A c \in Clients : pc'[c] # "idle" =>
        cur'[c] \in DOMAIN att' /\ stage'[<<cur'[c], 1>>] # "none"
  BY CurType DEF BasicInv, Wellformed, clientVars
<1>3. \A h \in Handlers : stage'[h] # "none" => h[1] \in DOMAIN att' /\ where'[h] \in Nodes
  BY DEF BasicInv, Wellformed, clientVars
<1>. QED
  BY <1>1, <1>2, <1>3 DEF BasicInv, Wellformed, NextHop

\* A handler writes its answer.
LEMMA WriteBasic ==
  ASSUME BasicInv, NEW h \in Handlers, stage[h] # "none",
         NEW code \in Codes, NEW res \in Result \cup {NoResult},
         Write(h, code, res),
         UNCHANGED <<raftVars, stateVars, where, clientVars, recVars>>
  PROVE  BasicInv'
<1>1. [code |-> code, res |-> res] \in Reply
  BY DEF Reply
<1>2. reply' \in [Handlers -> Reply]
  BY <1>1 DEF Write, BasicInv, TypeOK
<1>3. /\ stage' \in [Handlers -> Stages]
      /\ stage'[h] = "done"
      /\ \A g \in Handlers : g # h => stage'[g] = stage[g]
  BY DEF Write, BasicInv, TypeOK, Stages
<1>4. /\ RaftTypeOK' /\ (floating \cup Committed)' = floating \cup Committed
      /\ Len(applied') = Len(log')
  BY DEF BasicInv, TypeOK, Wellformed, RaftTypeOK, raftVars, stateVars, Committed
<1>5. /\ data' \in Data /\ applied' \in Seq([res : Result, at : Nat])
      /\ now' \in Nat /\ history' = history
      /\ where' = where /\ where' \in [Handlers -> Nodes \cup {NoNode}]
  BY DEF BasicInv, TypeOK, stateVars, recVars
<1>6. \A g \in Handlers : stage'[g] = "proxying" =>
         NextHop(g) \in Handlers /\ stage'[NextHop(g)] # "none"
  BY <1>3 DEF BasicInv, Wellformed
<1>7. \A g \in Handlers : g \in (floating \cup Committed)' => stage'[g] # "none"
  BY <1>3, <1>4 DEF BasicInv, Wellformed
<1>8. \A g \in Handlers : stage[g] # "none" => stage'[g] # "none"
  BY <1>3
<1>9. \A g \in Handlers : stage'[g] # "none" => g[1] \in DOMAIN att /\ where'[g] \in Nodes
  BY <1>3, <1>5 DEF BasicInv, Wellformed
<1>. QED
  BY <1>2, <1>3, <1>4, <1>5, <1>6, <1>7, <1>8, <1>9, FrameBasic

\* A handler moves on without answering.
LEMMA MoveBasic ==
  ASSUME BasicInv, NEW h \in Handlers, stage[h] # "none",
         NEW s \in Stages \ {"none", "proxying"},
         stage' = [stage EXCEPT ![h] = s],
         UNCHANGED <<stateVars, where, reply, clientVars, recVars>>,
         RaftTypeOK', log' = log, floating' \subseteq floating \cup {h}
  PROVE  BasicInv'
<1>3. /\ stage' \in [Handlers -> Stages]
      /\ stage'[h] = s
      /\ \A g \in Handlers : g # h => stage'[g] = stage[g]
  BY DEF BasicInv, TypeOK
<1>4. /\ (floating \cup Committed)' \subseteq floating \cup Committed \cup {h}
      /\ Len(applied') = Len(log')
  BY DEF BasicInv, Wellformed, stateVars, Committed
<1>5. /\ data' \in Data /\ applied' \in Seq([res : Result, at : Nat])
      /\ now' \in Nat /\ history' = history
      /\ where' = where /\ where' \in [Handlers -> Nodes \cup {NoNode}]
      /\ reply' \in [Handlers -> Reply]
  BY DEF BasicInv, TypeOK, stateVars, recVars
<1>6. \A g \in Handlers : stage'[g] = "proxying" =>
         NextHop(g) \in Handlers /\ stage'[NextHop(g)] # "none"
  BY <1>3 DEF BasicInv, Wellformed
<1>7. \A g \in Handlers : g \in (floating \cup Committed)' => stage'[g] # "none"
  BY <1>3, <1>4 DEF BasicInv, Wellformed
<1>8. \A g \in Handlers : stage[g] # "none" => stage'[g] # "none"
  BY <1>3
<1>9. \A g \in Handlers : stage'[g] # "none" => g[1] \in DOMAIN att /\ where'[g] \in Nodes
  BY <1>3, <1>5 DEF BasicInv, Wellformed
<1>. QED
  BY <1>3, <1>4, <1>5, <1>6, <1>7, <1>8, <1>9, FrameBasic

\* The proxy sends the request on.
LEMMA ForwardBasic ==
  ASSUME BasicInv, NEW h \in Handlers, Forward(h)
  PROVE  BasicInv'
<1>. DEFINE g == NextHop(h)
<1>1. /\ stage[h] = "rejected" /\ g \in Handlers /\ g # h /\ g[1] = h[1]
      /\ h[1] \in DOMAIN att /\ where[h] \in Nodes
  <2>1. stage[h] = "rejected" /\ g \in Handlers
    BY DEF Forward
  <2>2. g # h /\ g[1] = h[1]
    BY DEF NextHop, Handlers
  <2>. QED  BY <2>1, <2>2 DEF BasicInv, Wellformed
<1>2. hint[where[h]] \in Nodes
  BY <1>1 DEF Forward, NoLeaderURL, BasicInv, TypeOK, RaftTypeOK
<1>. HIDE DEF g
<1>3. /\ where' = [where EXCEPT ![g] = hint[where[h]]]
      /\ stage' = [stage EXCEPT ![h] = "proxying", ![g] = "sent"]
      /\ UNCHANGED <<raftVars, stateVars, reply, clientVars, recVars>>
  BY DEF Forward, g
<1>4. /\ stage' \in [Handlers -> Stages]
      /\ stage'[h] = "proxying" /\ stage'[g] = "sent"
      /\ \A f \in Handlers : f # h /\ f # g => stage'[f] = stage[f]
  BY <1>1, <1>3 DEF BasicInv, TypeOK, Stages
<1>5. /\ where' \in [Handlers -> Nodes \cup {NoNode}]
      /\ where'[g] \in Nodes
      /\ \A f \in Handlers : f # g => where'[f] = where[f]
  BY <1>1, <1>2, <1>3 DEF BasicInv, TypeOK
<1>6. /\ RaftTypeOK' /\ (floating \cup Committed)' = floating \cup Committed
      /\ Len(applied') = Len(log')
  BY <1>3 DEF BasicInv, TypeOK, Wellformed, RaftTypeOK, raftVars, stateVars, Committed
<1>7. /\ data' \in Data /\ applied' \in Seq([res : Result, at : Nat])
      /\ now' \in Nat /\ history' = history /\ reply' \in [Handlers -> Reply]
  BY <1>3 DEF BasicInv, TypeOK, stateVars, recVars
<1>8. \A f \in Handlers : stage[f] # "none" => stage'[f] # "none"
  BY <1>4
<1>9. \A f \in Handlers : stage'[f] # "none" => f[1] \in DOMAIN att /\ where'[f] \in Nodes
  BY <1>1, <1>4, <1>5 DEF BasicInv, Wellformed
<1>10. \A f \in Handlers : f \in (floating \cup Committed)' => stage'[f] # "none"
  BY <1>6, <1>8 DEF BasicInv, Wellformed
<1>11. \A f \in Handlers : stage'[f] = "proxying" =>
         NextHop(f) \in Handlers /\ stage'[NextHop(f)] # "none"
  <2>. TAKE f \in Handlers
  <2>1. CASE f = h
    BY <2>1, <1>1, <1>4 DEF g
  <2>2. CASE f # h
    BY <2>2, <1>4, <1>8 DEF BasicInv, Wellformed
  <2>. QED  BY <2>1, <2>2
<1>. QED
  BY <1>3, <1>4, <1>5, <1>6, <1>7, <1>8, <1>9, <1>10, <1>11, FrameBasic

\* So does a proxy that cannot connect to the believed leader.
LEMMA DialErrorBasic ==
  ASSUME BasicInv, NEW h \in Handlers, ProxyDialError(h)
  PROVE  BasicInv'
<1>. DEFINE g == NextHop(h)
<1>1. stage[h] = "proxying" /\ stage[g] = "sent" /\ g \in Handlers
  BY DEF ProxyDialError, BasicInv, Wellformed
<1>. HIDE DEF g
<1>2. /\ stage' = [stage EXCEPT ![h] = "done", ![g] = "void"]
      /\ reply' = [reply EXCEPT ![h] = [code |-> "proxy_error", res |-> NoResult]]
      /\ UNCHANGED <<raftVars, stateVars, where, clientVars, recVars>>
  BY DEF ProxyDialError, g
<1>3. [code |-> "proxy_error", res |-> NoResult] \in Reply
  BY DEF Reply, Codes
<1>4. /\ stage' \in [Handlers -> Stages]
      /\ stage'[h] # "none" /\ stage'[g] = "void" /\ stage'[h] # "proxying"
      /\ \A f \in Handlers : f # h /\ f # g => stage'[f] = stage[f]
  BY <1>1, <1>2 DEF BasicInv, TypeOK, Stages
<1>5. reply' \in [Handlers -> Reply]
  BY <1>2, <1>3 DEF BasicInv, TypeOK
<1>6. /\ RaftTypeOK' /\ (floating \cup Committed)' = floating \cup Committed
      /\ Len(applied') = Len(log')
  BY <1>2 DEF BasicInv, TypeOK, Wellformed, RaftTypeOK, raftVars, stateVars, Committed
<1>7. /\ data' \in Data /\ applied' \in Seq([res : Result, at : Nat])
      /\ now' \in Nat /\ history' = history
      /\ where' = where /\ where' \in [Handlers -> Nodes \cup {NoNode}]
  BY <1>2 DEF BasicInv, TypeOK, stateVars, recVars
<1>8. \A f \in Handlers : stage[f] # "none" => stage'[f] # "none"
  BY <1>4
<1>9. \A f \in Handlers : stage'[f] # "none" => f[1] \in DOMAIN att /\ where'[f] \in Nodes
  BY <1>1, <1>4, <1>7 DEF BasicInv, Wellformed
<1>10. \A f \in Handlers : f \in (floating \cup Committed)' => stage'[f] # "none"
  BY <1>6, <1>8 DEF BasicInv, Wellformed
<1>11. \A f \in Handlers : stage'[f] = "proxying" =>
         NextHop(f) \in Handlers /\ stage'[NextHop(f)] # "none"
  BY <1>4, <1>8 DEF BasicInv, Wellformed
<1>. QED
  BY <1>2, <1>4, <1>5, <1>6, <1>7, <1>8, <1>9, <1>10, <1>11, FrameBasic

\* Every step of a handler keeps types and references.
LEMMA HandlerBasic ==
  ASSUME BasicInv, NEW h \in Handlers, HandlerStep(h)
  PROVE  BasicInv'
<1>1. CASE Deliver(h)
  <2>1. RaftTypeOK' /\ log' = log /\ floating' = floating
    BY <1>1 DEF Deliver, raftVars, BasicInv, TypeOK, RaftTypeOK
  <2>. QED  BY <1>1, <2>1, MoveBasic DEF Deliver, Stages
<1>2. CASE ApplyDispatch(h)
  <2>1. RaftTypeOK' /\ log' = log /\ floating' = floating \cup {h}
    BY <1>2, ClusterAssumption DEF ApplyDispatch, Propose, BasicInv, TypeOK, RaftTypeOK
  <2>. QED  BY <1>2, <2>1, MoveBasic DEF ApplyDispatch, Stages
<1>3. CASE ApplyNotLeader(h)
  <2>1. RaftTypeOK' /\ log' = log /\ floating' = floating
    BY <1>3 DEF ApplyNotLeader, raftVars, BasicInv, TypeOK, RaftTypeOK
  <2>. QED  BY <1>3, <2>1, MoveBasic DEF ApplyNotLeader, Stages
<1>4. CASE ApplyEnqueueTimeout(h)
  BY <1>4, WriteBasic DEF ApplyEnqueueTimeout, Codes
<1>5. CASE ApplyOk(h)
  <2>1. PICK i \in DOMAIN log : Write(h, "ok", applied[i].res)
    BY <1>5 DEF ApplyOk
  <2>2. applied[i] \in [res : Result, at : Nat]
    <3>1. log \in Seq(Proposals) /\ applied \in Seq([res : Result, at : Nat])
      BY DEF BasicInv, TypeOK, RaftTypeOK
    <3>2. Len(applied) = Len(log)
      BY DEF BasicInv, Wellformed
    <3>3. i \in 1 .. Len(applied)
      BY <3>1, <3>2
    <3>. DEFINE S == [res : Result, at : Nat]
    <3>. HIDE DEF S
    <3>4. applied \in Seq(S)
      BY <3>1 DEF S
    <3>5. applied[i] \in S
      BY <3>3, <3>4
    <3>. QED  BY <3>5 DEF S
  <2>3. applied[i].res \in Result
    BY <2>2
  <2>. QED  BY <1>5, <2>1, <2>3, WriteBasic DEF ApplyOk, Codes
<1>6. CASE RejectNotLeader(h)
  BY <1>6, WriteBasic DEF RejectNotLeader, Codes
<1>7. CASE RejectNoLeader(h)
  BY <1>7, WriteBasic DEF RejectNoLeader, Codes
<1>8. CASE Forward(h)
  BY <1>8, ForwardBasic
<1>9. CASE ProxyRelay(h)
  <2>1. NextHop(h) \in Handlers
    BY <1>9 DEF ProxyRelay, BasicInv, Wellformed
  <2>2. reply[NextHop(h)] \in Reply
    BY <2>1 DEF BasicInv, TypeOK
  <2>3. reply[NextHop(h)].code \in Codes /\ reply[NextHop(h)].res \in Result \cup {NoResult}
    BY <2>2 DEF Reply
  <2>. QED  BY <1>9, <2>3, WriteBasic DEF ProxyRelay
<1>10. CASE ProxyDialError(h)
  BY <1>10, DialErrorBasic
<1>11. CASE ProxyError(h)
  BY <1>11, WriteBasic DEF ProxyError, Codes
<1>12. CASE BadRequest(h)
  BY <1>12, WriteBasic DEF BadRequest, Codes
<1>13. CASE BadLeaderURL(h)
  BY <1>13, WriteBasic DEF BadLeaderURL, Codes
<1>. QED
  BY <1>1, <1>2, <1>3, <1>4, <1>5, <1>6, <1>7, <1>8, <1>9, <1>10, <1>11, <1>12, <1>13
     DEF HandlerStep

\* A commit adds one proposal to the committed ones.
LEMMA CommittedAppend ==
  ASSUME log \in Seq(Handlers), NEW h \in Handlers, log' = Append(log, h)
  PROVE  Committed' = Committed \cup {h}
<1>1. /\ DOMAIN log = 1 .. Len(log) /\ Len(log) \in Nat
      /\ DOMAIN log' = 1 .. Len(log) + 1
      /\ \A i \in 1 .. Len(log) : log'[i] = log[i]
      /\ log'[Len(log) + 1] = h
  OBVIOUS
<1>2. ASSUME NEW g \in Committed' PROVE g \in Committed \cup {h}
  <2>1. PICK i \in DOMAIN log' : g = log'[i]
    BY <1>2 DEF Committed
  <2>2. CASE i = Len(log) + 1
    BY <1>1, <2>1, <2>2
  <2>3. CASE i # Len(log) + 1
    <3>1. i \in DOMAIN log /\ log[i] = g
      BY <1>1, <2>1, <2>3
    <3>. QED  BY <3>1 DEF Committed
  <2>. QED  BY <2>2, <2>3
<1>3. ASSUME NEW g \in Committed PROVE g \in Committed'
  <2>1. PICK i \in DOMAIN log : g = log[i]
    BY <1>3 DEF Committed
  <2>2. i \in DOMAIN log' /\ log'[i] = g
    BY <1>1, <2>1
  <2>. QED  BY <2>2 DEF Committed
<1>4. h \in Committed'
  BY <1>1 DEF Committed
<1>. QED  BY <1>2, <1>3, <1>4

\* An entry is committed and executed.
LEMMA CommitBasic ==
  ASSUME BasicInv, NEW h \in Handlers, CommitAndApply(h)
  PROVE  BasicInv'
<1>. DEFINE cmd == Decoded(CallOf(h).cmd)
            e == [res |-> ApplyResult(data, cmd), at |-> now + 1]
<1>1. h \in floating
  BY DEF CommitAndApply, Commit
<1>2. h[1] \in DOMAIN att
  BY <1>1 DEF BasicInv, Wellformed
<1>3. CallOf(h).cmd \in Command
  BY <1>2, HandlerType DEF BasicInv
<1>4. cmd \in Command
  BY <1>3, DecodedType
<1>5. /\ data \in Data /\ now \in Nat
      /\ ApplyData(data, cmd) \in Data /\ ApplyResult(data, cmd) \in Result
  BY <1>4, ApplyDataType, ApplyResultType DEF BasicInv, TypeOK
<1>6. e \in [res : Result, at : Nat]
  BY <1>5
<1>7. /\ floating' = floating \ {h}
      /\ log' = Append(log, h)
      /\ UNCHANGED <<up, role, hint>>
      /\ now' = now + 1
      /\ data' = ApplyData(data, cmd)
      /\ applied' = Append(applied, e)
      /\ UNCHANGED <<handlerVars, clientVars, history>>
  BY DEF CommitAndApply, Commit
<1>. HIDE DEF e, cmd
<1>8. /\ log \in Seq(Handlers) /\ applied \in Seq([res : Result, at : Nat])
      /\ floating \subseteq Handlers
  BY ClusterAssumption DEF BasicInv, TypeOK, RaftTypeOK
<1>9. /\ log' \in Seq(Handlers) /\ applied' \in Seq([res : Result, at : Nat])
      /\ Len(applied') = Len(log')
  BY <1>6, <1>7, <1>8 DEF BasicInv, Wellformed
<1>10. RaftTypeOK'
  BY <1>7, <1>9, ClusterAssumption DEF BasicInv, TypeOK, RaftTypeOK
<1>11. Committed' = Committed \cup {h}
  BY <1>7, <1>8, CommittedAppend
<1>12. \A g \in Handlers : g \in (floating \cup Committed)' => stage'[g] # "none"
  BY <1>1, <1>7, <1>11 DEF BasicInv, Wellformed, handlerVars
<1>13. /\ where' = where /\ where' \in [Handlers -> Nodes \cup {NoNode}]
       /\ stage' = stage /\ stage' \in [Handlers -> Stages]
       /\ reply' \in [Handlers -> Reply] /\ now' \in Nat
  BY <1>5, <1>7 DEF handlerVars, BasicInv, TypeOK
<1>14. \A g \in Handlers :
         /\ stage'[g] # "none" => g[1] \in DOMAIN att /\ where'[g] \in Nodes
         /\ stage'[g] = "proxying" =>
              NextHop(g) \in Handlers /\ stage'[NextHop(g)] # "none"
  BY <1>13 DEF BasicInv, Wellformed
<1>. QED
  BY <1>5, <1>7, <1>9, <1>10, <1>12, <1>13, <1>14, FrameBasic

\* Elections, lost leaderships, kills and restarts: handlers only finish.
LEMMA FaultBasic ==
  ASSUME BasicInv, RaftTypeOK', UNCHANGED <<floating, log>>,
         UNCHANGED <<stateVars, where, clientVars, recVars>>,
         stage' \in [Handlers -> Stages], reply' \in [Handlers -> Reply],
         \A h \in Handlers :
           stage'[h] = stage[h] \/ (stage[h] # "none" /\ stage'[h] \in {"done", "dead"})
  PROVE  BasicInv'
<1>1. /\ data' \in Data /\ applied' \in Seq([res : Result, at : Nat])
      /\ Len(applied') = Len(log') /\ now' \in Nat /\ history' = history
      /\ where' = where /\ where' \in [Handlers -> Nodes \cup {NoNode}]
  BY DEF BasicInv, TypeOK, Wellformed, stateVars, recVars
<1>2. (floating \cup Committed)' = floating \cup Committed
  BY DEF Committed
<1>3. \A h \in Handlers : /\ stage'[h] # "none" <=> stage[h] # "none"
                          /\ stage'[h] = "proxying" => stage[h] = "proxying"
  OBVIOUS
<1>4. \A h \in Handlers :
        /\ h \in (floating \cup Committed)' => stage'[h] # "none"
        /\ stage'[h] # "none" => h[1] \in DOMAIN att /\ where'[h] \in Nodes
        /\ stage'[h] = "proxying" =>
             NextHop(h) \in Handlers /\ stage'[NextHop(h)] # "none"
  BY <1>1, <1>2, <1>3 DEF BasicInv, Wellformed
<1>. QED
  BY <1>1, <1>3, <1>4, FrameBasic

\* Elections and faults keep types and references.
LEMMA NodeBasic ==
  ASSUME BasicInv, NEW n \in Nodes, NodeStep(n)
  PROVE  BasicInv'
<1>. USE DEF handlerVars
<1>1. CASE Elect(n)
  <2>1. RaftTypeOK' /\ UNCHANGED <<floating, log>>
    BY <1>1 DEF Elect, BecomeLeader, BasicInv, TypeOK, RaftTypeOK, Roles
  <2>2. UNCHANGED <<stateVars, handlerVars, clientVars, recVars>>
    BY <1>1 DEF Elect
  <2>. QED  BY <2>1, <2>2, FaultBasic DEF BasicInv, TypeOK
<1>2. ASSUME NEW m \in Nodes \cup {NoNode}, Learn(n, m)
      PROVE  BasicInv'
  <2>1. RaftTypeOK' /\ UNCHANGED <<floating, log>>
    BY <1>2 DEF Learn, LearnLeader, BasicInv, TypeOK, RaftTypeOK
  <2>2. UNCHANGED <<stateVars, handlerVars, clientVars, recVars>>
    BY <1>2 DEF Learn
  <2>. QED  BY <2>1, <2>2, FaultBasic DEF BasicInv, TypeOK
<1>3. CASE LeadershipLost(n)
  <2>1. RaftTypeOK' /\ UNCHANGED <<floating, log>>
    BY <1>3 DEF LeadershipLost, LoseLeadership, BasicInv, TypeOK, RaftTypeOK, Roles
  <2>2. PICK failing \in Abandoned(n) :
          /\ stage' = [h \in Handlers |-> IF h \in failing THEN "done" ELSE stage[h]]
          /\ reply' = [h \in Handlers |->
                         IF h \in failing THEN [code |-> "apply_failed", res |-> NoResult]
                                          ELSE reply[h]]
    BY <1>3 DEF LeadershipLost
  <2>3. \A h \in failing : h \in Handlers /\ stage[h] = "applying"
    BY DEF Abandoned
  <2>4. [code |-> "apply_failed", res |-> NoResult] \in Reply
    BY DEF Reply, Codes
  <2>5. reply' \in [Handlers -> Reply]
    BY <2>2, <2>4 DEF BasicInv, TypeOK
  <2>6. stage' \in [Handlers -> Stages]
    BY <2>2 DEF BasicInv, TypeOK, Stages
  <2>. QED
    BY <1>3, <2>1, <2>2, <2>3, <2>5, <2>6, FaultBasic DEF LeadershipLost
<1>4. CASE Kill(n)
  <2>1. RaftTypeOK' /\ UNCHANGED <<floating, log>>
    BY <1>4 DEF Kill, Crash, BasicInv, TypeOK, RaftTypeOK, Roles
  <2>2. stage' \in [Handlers -> Stages]
    BY <1>4 DEF Kill, BasicInv, TypeOK, Stages
  <2>. QED
    BY <1>4, <2>1, <2>2, FaultBasic DEF Kill, BasicInv, TypeOK, Running
<1>5. CASE Start(n)
  <2>1. RaftTypeOK' /\ UNCHANGED <<floating, log>>
    BY <1>5 DEF Start, Recover, BasicInv, TypeOK, RaftTypeOK
  <2>2. UNCHANGED <<stateVars, handlerVars, clientVars, recVars>>
    BY <1>5 DEF Start
  <2>. QED  BY <2>1, <2>2, FaultBasic DEF BasicInv, TypeOK
<1>. QED
  BY <1>1, <1>2, <1>3, <1>4, <1>5 DEF NodeStep

\* Every step keeps types and references.
LEMMA NextBasic == BasicInv /\ [Next]_vars => BasicInv'
<1>. SUFFICES ASSUME BasicInv, [Next]_vars PROVE BasicInv'
  OBVIOUS
<1>1. CASE Next
  BY <1>1, ClientBasic, HandlerBasic, CommitBasic, NodeBasic DEF Next
<1>2. CASE UNCHANGED vars
  <2>1. TypeOK'
    BY <1>2 DEF vars, raftVars, stateVars, handlerVars, clientVars, recVars,
                BasicInv, TypeOK, RaftTypeOK
  <2>2. Wellformed'
    BY <1>2 DEF vars, raftVars, stateVars, handlerVars, clientVars,
                BasicInv, Wellformed, Committed, NextHop
  <2>. QED  BY <2>1, <2>2 DEF BasicInv
<1>. QED  BY <1>1, <1>2

\* The variables keep their types, and what they refer to exists.
THEOREM ClusterTypeOK == Spec => []TypeOK
<1>1. Spec => []BasicInv
  BY InitBasic, NextBasic, PTL DEF Spec
<1>2. BasicInv => TypeOK
  BY DEF BasicInv
<1>. QED  BY <1>1, <1>2, PTL

-----------------------------------------------------------------------------
(* The inductive invariant                                                 *)

Proposed(h) == h \in floating \cup Committed

\* A handler that has not proposed anything and never will.
Settled(h) == stage[h] \in {"none", "void", "done", "dead"} /\ ~Proposed(h)

\* An attempt that has no effect and never will have one.
Closed(a) == \A h \in Handlers : h[1] = a => Settled(h)

LogInv ==
  /\ floating \cap Committed = {}
  /\ \A i, j \in DOMAIN log : log[i] = log[j] => i = j

ProposedInv ==
  \A h \in Handlers : Proposed(h) => stage[h] \in {"applying", "done", "dead"}

\* Only the last handler of a chain can have proposed anything.
ChainInv ==
  \A g, h \in Handlers :
    g[1] = h[1] /\ g[2] < h[2] /\ stage[h] # "none" =>
      stage[g] \in {"proxying", "done", "dead"} /\ ~Proposed(g)

\* A definite rejection speaks for the rest of the chain.
DefiniteInv ==
  \A h \in Handlers :
    stage[h] = "done" /\ reply[h].code \in Definite =>
      \A g \in Handlers : g[1] = h[1] /\ g[2] >= h[2] => Settled(g)

\* Invoke goes on to another attempt only when the last one is closed.
InvocationInv ==
  /\ \A a \in DOMAIN att : att[a].inv <= a
  /\ \A a, b \in DOMAIN att :
       att[a].inv = att[b].inv => att[a].client = att[b].client
  /\ \A a, b \in DOMAIN att : a < b /\ att[a].inv = att[b].inv => Closed(a)

ClientInv ==
  \A c \in Clients : pc[c] # "idle" =>
    /\ att[cur[c]].client = c
    /\ \A a \in DOMAIN att : att[a].inv = att[cur[c]].inv => a <= cur[c]
    /\ pc[c] = "backoff" => Closed(cur[c])

RecordOK(r) ==
  /\ r.attempt \in DOMAIN att
  /\ \A a \in DOMAIN att : att[a].inv = att[r.attempt].inv => a <= r.attempt
  /\ \A c \in Clients : pc[c] # "idle" => att[cur[c]].inv # att[r.attempt].inv
  /\ r.outcome = "failed" => Closed(r.attempt)

RecordInv == \A k \in DOMAIN history : RecordOK(history[k])

ClockInv ==
  /\ \A a \in DOMAIN att : att[a].start <= now
  /\ \A i \in DOMAIN log :
       att[log[i][1]].start < applied[i].at /\ applied[i].at <= now

\* 200 is only written for an entry of the attempt that is in the log.
AnswerInv ==
  \A h \in Handlers :
    stage[h] = "done" /\ reply[h].code = "ok" =>
      \E i \in DOMAIN log : log[i][1] = h[1] /\ applied[i].res = reply[h].res

IInv ==
  /\ BasicInv
  /\ LogInv /\ ProposedInv /\ ChainInv /\ DefiniteInv
  /\ InvocationInv /\ ClientInv /\ RecordInv
  /\ ClockInv /\ AnswerInv /\ OkTookEffectInWindow

-----------------------------------------------------------------------------
(* What a step can do to the handlers                                      *)

HandlerFrame ==
  \A h \in Handlers :
    /\ stage[h] \in {"void", "done", "dead"} => stage'[h] = stage[h] /\ reply'[h] = reply[h]
    /\ stage[h] = "proxying" => stage'[h] \in {"proxying", "done", "dead"}
    /\ stage[h] = "applying" => stage'[h] \in {"applying", "done", "dead"}
    /\ stage[h] = "none" /\ stage'[h] # "none" =>
         \/ h[1] = Len(att) + 1 /\ h[2] = 1
         \/ \E g \in Handlers : /\ h[1] = g[1] /\ h[2] = g[2] + 1 /\ ~Forwarded(g)
                                /\ stage[g] = "rejected" /\ stage'[g] = "proxying"
    /\ Proposed(h)' => Proposed(h) \/ (stage[h] = "arrived" /\ stage'[h] = "applying")
    /\ stage[h] # "done" /\ stage'[h] = "done" /\ reply'[h].code \in Definite =>
         \/ stage[h] \in {"arrived", "rejected"}
         \/ /\ stage[h] = "proxying" /\ NextHop(h) \in Handlers
            /\ stage[NextHop(h)] = "done" /\ reply[NextHop(h)].code \in Definite

\* One handler takes a step.
LEMMA OneHandlerFrame ==
  ASSUME NEW h \in Handlers,
         stage[h] \notin {"none", "void", "done", "dead"}, stage'[h] # "none",
         \A g \in Handlers : g # h => stage'[g] = stage[g] /\ reply'[g] = reply[g],
         \A g \in Handlers : Proposed(g)' =>
            Proposed(g) \/ (g = h /\ stage[h] = "arrived" /\ stage'[h] = "applying"),
         stage[h] = "proxying" => stage'[h] \in {"done", "dead"},
         stage[h] = "applying" => stage'[h] \in {"done", "dead"},
         stage'[h] = "done" /\ reply'[h].code \in Definite =>
           \/ stage[h] \in {"arrived", "rejected"}
           \/ /\ stage[h] = "proxying" /\ NextHop(h) \in Handlers
              /\ stage[NextHop(h)] = "done" /\ reply[NextHop(h)].code \in Definite
  PROVE  HandlerFrame
BY DEF HandlerFrame

\* A handler writes an answer and nothing is proposed.
LEMMA WriteFrame ==
  ASSUME BasicInv, NEW h \in Handlers,
         stage[h] \notin {"none", "void", "done", "dead"},
         NEW code \in Codes, NEW res, Write(h, code, res), UNCHANGED raftVars,
         code \in Definite =>
           \/ stage[h] \in {"arrived", "rejected"}
           \/ /\ stage[h] = "proxying" /\ NextHop(h) \in Handlers
              /\ stage[NextHop(h)] = "done" /\ reply[NextHop(h)].code \in Definite
  PROVE  HandlerFrame
<1>1. /\ stage'[h] = "done" /\ reply'[h].code = code
      /\ \A g \in Handlers : g # h => stage'[g] = stage[g] /\ reply'[g] = reply[g]
  BY DEF Write, BasicInv, TypeOK
<1>2. \A g \in Handlers : Proposed(g)' => Proposed(g)
  BY DEF Proposed, Committed, raftVars
<1>. QED  BY <1>1, <1>2, OneHandlerFrame

\* A handler moves on and nothing is proposed.
LEMMA MoveFrame ==
  ASSUME BasicInv, NEW h \in Handlers, stage[h] \in {"sent", "arrived"},
         NEW s \in Stages \ {"none", "done"}, stage' = [stage EXCEPT ![h] = s],
         UNCHANGED reply,
         floating' = floating \/ (/\ floating' = floating \cup {h} /\ s = "applying"
                                  /\ stage[h] = "arrived"),
         log' = log
  PROVE  HandlerFrame
<1>1. /\ stage'[h] = s
      /\ \A g \in Handlers : g # h => stage'[g] = stage[g] /\ reply'[g] = reply[g]
  BY DEF BasicInv, TypeOK
<1>2. \A g \in Handlers : Proposed(g)' =>
         Proposed(g) \/ (g = h /\ stage[h] = "arrived" /\ stage'[h] = "applying")
  BY <1>1 DEF Proposed, Committed
<1>. QED  BY <1>1, <1>2, OneHandlerFrame

\* Every step of a handler (apply, proxyOrReject, the proxy) stays in the
\* frame.
LEMMA HandlerStepFrame ==
  ASSUME BasicInv, ChainInv, NEW h \in Handlers, HandlerStep(h)
  PROVE  HandlerFrame
<1>1. CASE Deliver(h)
  BY <1>1, MoveFrame DEF Deliver, Stages, raftVars
<1>2. CASE ApplyDispatch(h)
  BY <1>2, MoveFrame DEF ApplyDispatch, Propose, Stages
<1>3. CASE ApplyNotLeader(h)
  BY <1>3, MoveFrame DEF ApplyNotLeader, Stages, raftVars
<1>4. CASE ApplyEnqueueTimeout(h)
  BY <1>4, WriteFrame DEF ApplyEnqueueTimeout, Codes, Definite
<1>5. CASE ApplyOk(h)
  BY <1>5, WriteFrame DEF ApplyOk, Codes, Definite
<1>6. CASE RejectNotLeader(h)
  BY <1>6, WriteFrame DEF RejectNotLeader, Codes
<1>7. CASE RejectNoLeader(h)
  BY <1>7, WriteFrame DEF RejectNoLeader, Codes
<1>8. CASE Forward(h)
  <2>. DEFINE g == NextHop(h)
  <2>1. /\ stage[h] = "rejected" /\ g \in Handlers /\ g # h /\ ~Forwarded(h)
        /\ g[1] = h[1] /\ g[2] = h[2] + 1
    BY <1>8 DEF Forward, NextHop, Handlers
  <2>2. /\ stage' = [stage EXCEPT ![h] = "proxying", ![g] = "sent"]
        /\ UNCHANGED <<raftVars, reply>>
    BY <1>8 DEF Forward
  <2>. HIDE DEF g
  <2>3. /\ stage'[h] = "proxying" /\ stage'[g] = "sent" /\ reply' = reply
        /\ \A f \in Handlers : f # h /\ f # g => stage'[f] = stage[f]
    BY <2>1, <2>2 DEF BasicInv, TypeOK
  <2>4. \A f \in Handlers : Proposed(f)' => Proposed(f)
    BY <2>2 DEF Proposed, Committed, raftVars
  <2>5. stage[g] = "none"
    <3>1. h[2] < g[2]
      BY <2>1 DEF Handlers
    <3>. QED  BY <2>1, <3>1 DEF ChainInv
  <2>. QED  BY <2>1, <2>3, <2>4, <2>5 DEF HandlerFrame
<1>9. CASE ProxyRelay(h)
  <2>1. NextHop(h) \in Handlers /\ stage[NextHop(h)] = "done" /\ stage[h] = "proxying"
    BY <1>9 DEF ProxyRelay, BasicInv, Wellformed
  <2>2. reply[NextHop(h)] \in Reply
    BY <2>1 DEF BasicInv, TypeOK
  <2>3. reply[NextHop(h)].code \in Codes
    BY <2>2 DEF Reply
  <2>. QED  BY <1>9, <2>1, <2>3, WriteFrame DEF ProxyRelay
<1>10. CASE ProxyDialError(h)
  <2>. DEFINE g == NextHop(h)
  <2>1. /\ stage[h] = "proxying" /\ stage[g] = "sent" /\ g \in Handlers
        /\ stage' = [stage EXCEPT ![h] = "done", ![g] = "void"]
        /\ reply' = [reply EXCEPT ![h] = [code |-> "proxy_error", res |-> NoResult]]
        /\ UNCHANGED raftVars
    BY <1>10 DEF ProxyDialError, BasicInv, Wellformed
  <2>. HIDE DEF g
  <2>2. /\ stage'[h] = "done" /\ stage'[g] = "void"
        /\ reply'[h].code = "proxy_error"
        /\ \A f \in Handlers : f # h => reply'[f] = reply[f]
        /\ \A f \in Handlers : f # h /\ f # g => stage'[f] = stage[f]
    BY <2>1 DEF BasicInv, TypeOK
  <2>3. \A f \in Handlers : Proposed(f)' => Proposed(f)
    BY <2>1 DEF Proposed, Committed, raftVars
  <2>. QED  BY <2>1, <2>2, <2>3 DEF HandlerFrame, Definite
<1>11. CASE ProxyError(h)
  BY <1>11, WriteFrame DEF ProxyError, Codes, Definite
<1>12. CASE BadRequest(h)
  BY <1>12, WriteFrame DEF BadRequest, Codes
<1>13. CASE BadLeaderURL(h)
  BY <1>13, WriteFrame DEF BadLeaderURL, Codes
<1>. QED
  BY <1>1, <1>2, <1>3, <1>4, <1>5, <1>6, <1>7, <1>8, <1>9, <1>10, <1>11, <1>12, <1>13
     DEF HandlerStep

\* A new attempt brings its first handler into being.
LEMMA StartFrame ==
  ASSUME BasicInv, NEW c \in Clients, NEW call, NEW inv, NEW n \in Nodes,
         StartAttempt(c, call, inv, n), UNCHANGED <<raftVars, reply>>
  PROVE  HandlerFrame
<1>. DEFINE h0 == <<Len(att) + 1, 1>>
<1>1. h0 \in Handlers /\ h0[1] = Len(att) + 1 /\ h0[2] = 1
  BY ClusterAssumption DEF StartAttempt, Attempts, Handlers
<1>2. stage[h0] = "none"
  <2>1. Len(att) + 1 \notin DOMAIN att
    BY DEF BasicInv, TypeOK
  <2>. QED  BY <1>1, <2>1 DEF BasicInv, Wellformed
<1>3. stage' = [stage EXCEPT ![h0] = "sent"]
  BY DEF StartAttempt
<1>. HIDE DEF h0
<1>4. /\ stage'[h0] = "sent" /\ reply' = reply
      /\ \A f \in Handlers : f # h0 => stage'[f] = stage[f]
  BY <1>1, <1>3 DEF BasicInv, TypeOK
<1>5. \A f \in Handlers : Proposed(f)' => Proposed(f)
  BY DEF Proposed, Committed, raftVars
<1>. QED  BY <1>1, <1>2, <1>4, <1>5 DEF HandlerFrame

\* The handlers stand still.
LEMMA StillFrame ==
  ASSUME UNCHANGED <<stage, reply>>, \A h \in Handlers : Proposed(h)' => Proposed(h)
  PROVE  HandlerFrame
BY DEF HandlerFrame

\* So does every step of Invoke: it touches a handler only to send or to void
\* a request.
LEMMA ClientStepFrame ==
  ASSUME BasicInv, NEW c \in Clients, ClientStep(c)
  PROVE  HandlerFrame
<1>1. ASSUME NEW call \in Calls, NEW n \in Nodes, Invoke(c, call, n)
      PROVE  HandlerFrame
  BY <1>1, StartFrame DEF Invoke
<1>2. CASE Retry(c)
  <2>1. pc[c] # "idle"
    BY <1>2 DEF Retry
  <2>2. Rotate[where[<<cur[c], 1>>]] \in Nodes
    BY <2>1, CurType, ClusterAssumption
  <2>. QED  BY <1>2, <2>2, StartFrame DEF Retry
<1>3. CASE \/ ReceiveOk(c) \/ ReceiveUnknown(c) \/ ReceiveFail(c) \/ HTTPError(c)
           \/ RetryRefused(c) \/ DeadlinePasses(c)
  <2>1. UNCHANGED <<raftVars, handlerVars>>
    BY <1>3 DEF ReceiveOk, ReceiveUnknown, ReceiveFail, HTTPError, RetryRefused,
                DeadlinePasses
  <2>2. \A f \in Handlers : Proposed(f)' => Proposed(f)
    BY <2>1 DEF Proposed, Committed, raftVars
  <2>. QED  BY <2>1, <2>2, StillFrame DEF handlerVars
<1>4. CASE DialError(c)
  <2>. DEFINE h == <<cur[c], 1>>
  <2>1. /\ pc[c] # "idle" /\ stage[h] = "sent"
        /\ stage' = [stage EXCEPT ![h] = "void"]
        /\ UNCHANGED <<raftVars, reply>>
    BY <1>4 DEF DialError
  <2>2. h \in Handlers
    BY <2>1, CurType
  <2>. HIDE DEF h
  <2>. QED  BY <2>1, <2>2, MoveFrame DEF Stages, raftVars
<1>. QED  BY <1>1, <1>2, <1>3, <1>4 DEF ClientStep

\* A commit moves a proposal from floating to the log and touches no handler.
LEMMA CommitFrame ==
  ASSUME BasicInv, NEW h \in Handlers, CommitAndApply(h)
  PROVE  HandlerFrame
<1>1. h \in floating /\ floating' = floating \ {h} /\ log' = Append(log, h)
  BY DEF CommitAndApply, Commit
<1>2. log \in Seq(Handlers)
  BY ClusterAssumption DEF BasicInv, TypeOK, RaftTypeOK
<1>3. Committed' = Committed \cup {h}
  BY <1>1, <1>2, CommittedAppend
<1>4. \A f \in Handlers : Proposed(f)' => Proposed(f)
  BY <1>1, <1>3 DEF Proposed
<1>. QED  BY <1>4, StillFrame DEF CommitAndApply, handlerVars

\* Elections, lost leadership, kills and restarts only end handlers.
LEMMA NodeStepFrame ==
  ASSUME BasicInv, NEW n \in Nodes, NodeStep(n)
  PROVE  HandlerFrame
<1>1. UNCHANGED <<floating, log>>
  BY DEF NodeStep, Elect, Learn, LeadershipLost, Kill, Start, BecomeLeader,
         LearnLeader, LoseLeadership, Crash, Recover
<1>2. \A f \in Handlers : Proposed(f)' => Proposed(f)
  BY <1>1 DEF Proposed, Committed
<1>3. CASE UNCHANGED handlerVars
  BY <1>2, <1>3, StillFrame DEF handlerVars
<1>4. CASE LeadershipLost(n)
  <2>1. PICK failing \in Abandoned(n) :
          /\ stage' = [h \in Handlers |-> IF h \in failing THEN "done" ELSE stage[h]]
          /\ reply' = [h \in Handlers |->
                         IF h \in failing THEN [code |-> "apply_failed", res |-> NoResult]
                                          ELSE reply[h]]
    BY <1>4 DEF LeadershipLost
  <2>2. \A h \in failing : h \in Handlers /\ stage[h] = "applying"
    BY DEF Abandoned
  <2>3. \A h \in Handlers : \/ stage'[h] = stage[h] /\ reply'[h] = reply[h]
                            \/ /\ stage[h] = "applying" /\ stage'[h] = "done"
                               /\ reply'[h].code = "apply_failed"
    BY <2>1, <2>2
  <2>. QED  BY <1>2, <2>3 DEF HandlerFrame, Definite
<1>5. CASE Kill(n)
  <2>1. \A h \in Handlers : \/ stage'[h] = stage[h]
                            \/ stage[h] \in Running /\ stage'[h] = "dead"
    BY <1>5 DEF Kill
  <2>2. reply' = reply
    BY <1>5 DEF Kill
  <2>. QED  BY <1>2, <2>1, <2>2 DEF HandlerFrame, Running
<1>. QED
  BY <1>3, <1>4, <1>5 DEF NodeStep, Elect, Learn, Start

\* The frame holds of every step of the system.
LEMMA StepFrame ==
  ASSUME BasicInv, ChainInv, [Next]_vars
  PROVE  HandlerFrame
<1>1. CASE Next
  BY <1>1, ClientStepFrame, HandlerStepFrame, CommitFrame, NodeStepFrame DEF Next
<1>2. CASE UNCHANGED vars
  <2>1. \A f \in Handlers : Proposed(f)' => Proposed(f)
    BY <1>2 DEF Proposed, Committed, vars, raftVars
  <2>. QED  BY <1>2, <2>1, StillFrame DEF vars, handlerVars
<1>. QED  BY <1>1, <1>2

-----------------------------------------------------------------------------
(* The handler level of the invariant                                      *)

\* Handlers are equal when their attempt and their place in its chain are.
LEMMA PairEqual ==
  ASSUME NEW g \in Handlers, NEW h \in Handlers, g[1] = h[1], g[2] = h[2]
  PROVE  g = h
BY DEF Handlers

\* The attempt and the place of a handler are numbers.
LEMMA HopType ==
  ASSUME NEW h \in Handlers
  PROVE  /\ h[1] \in Nat \ {0} /\ h[2] \in Nat \ {0}
         /\ NextHop(h)[1] = h[1] /\ NextHop(h)[2] = h[2] + 1
BY ClusterAssumption DEF Handlers, Attempts, NextHop

\* No step takes a handler that has proposed back to before Raft.Apply.
LEMMA ProposedStep ==
  ASSUME ProposedInv, HandlerFrame
  PROVE  ProposedInv'
BY DEF ProposedInv, HandlerFrame

\* No step makes a handler that has proxied propose, or one that has proposed
\* proxy.
LEMMA ChainStep ==
  ASSUME ProposedInv, ChainInv, HandlerFrame
  PROVE  ChainInv'
<1>. SUFFICES ASSUME NEW g \in Handlers, NEW h \in Handlers,
                     g[1] = h[1], g[2] < h[2], stage'[h] # "none"
              PROVE  stage'[g] \in {"proxying", "done", "dead"} /\ ~Proposed(g)'
  BY DEF ChainInv
<1>1. ASSUME NEW f \in Handlers, stage[f] \in {"proxying", "done", "dead"}, ~Proposed(f)
      PROVE  stage'[f] \in {"proxying", "done", "dead"} /\ ~Proposed(f)'
  BY <1>1 DEF HandlerFrame
<1>2. CASE stage[h] # "none"
  BY <1>1, <1>2 DEF ChainInv
<1>3. CASE stage[h] = "none"
  <2>1. PICK f \in Handlers : /\ h[1] = f[1] /\ h[2] = f[2] + 1
                              /\ stage[f] = "rejected" /\ stage'[f] = "proxying"
    BY <1>3, HopType DEF HandlerFrame
  <2>2. CASE g[2] < f[2]
    BY <1>1, <2>1, <2>2 DEF ChainInv
  <2>3. CASE g[2] >= f[2]
    <3>1. g = f
      BY <2>1, <2>3, HopType, PairEqual
    <3>2. ~Proposed(f)'
      BY <2>1 DEF HandlerFrame, ProposedInv
    <3>. QED  BY <2>1, <3>1, <3>2
  <2>. QED  BY <2>2, <2>3, HopType
<1>. QED  BY <1>2, <1>3

\* The proxy loop guard: no step makes a third handler of a chain.
LEMMA HopStep ==
  ASSUME OneHop, HandlerFrame
  PROVE  OneHop'
BY HopType DEF OneHop, HandlerFrame, Forwarded

\* What is settled and exists stays settled.
LEMMA SettledStable ==
  ASSUME HandlerFrame, NEW h \in Handlers, Settled(h), stage[h] # "none"
  PROVE  Settled(h)'
BY DEF HandlerFrame, Settled

\* An attempt without effect never gets one: only Forward extends its chain,
\* and it is over.
LEMMA ClosedStable ==
  ASSUME BasicInv, HandlerFrame, NEW a \in DOMAIN att, Closed(a)
  PROVE  Closed(a)'
<1>. SUFFICES ASSUME NEW h \in Handlers, h[1] = a PROVE Settled(h)'
  BY DEF Closed
<1>1. Settled(h)
  BY DEF Closed
<1>2. CASE stage[h] # "none"
  BY <1>1, <1>2, SettledStable
<1>3. CASE stage[h] = "none"
  <2>1. a # Len(att) + 1
    BY DEF BasicInv, TypeOK
  <2>2. stage'[h] = "none"
    BY <1>3, <2>1 DEF HandlerFrame, Closed, Settled
  <2>3. ~Proposed(h)'
    BY <1>1, <1>3 DEF HandlerFrame, Settled
  <2>. QED  BY <2>2, <2>3 DEF Settled
<1>. QED  BY <1>2, <1>3

\* The end of a chain stays settled once it is.
LEMMA TailStable ==
  ASSUME BasicInv, HandlerFrame, NEW h \in Handlers, stage[h] # "none",
         \A g \in Handlers : g[1] = h[1] /\ g[2] >= h[2] => Settled(g)
  PROVE  \A g \in Handlers : g[1] = h[1] /\ g[2] >= h[2] => Settled(g)'
<1>. SUFFICES ASSUME NEW g \in Handlers, g[1] = h[1], g[2] >= h[2]
              PROVE  Settled(g)'
  OBVIOUS
<1>1. Settled(g)
  OBVIOUS
<1>2. CASE stage[g] # "none"
  BY <1>1, <1>2, SettledStable
<1>3. CASE stage[g] = "none"
  <2>1. g[1] # Len(att) + 1
    BY DEF BasicInv, TypeOK, Wellformed
  <2>2. g[2] > h[2]
    <3>1. g[2] # h[2]
      BY <1>3, PairEqual
    <3>. QED  BY <3>1, HopType
  <2>3. ASSUME NEW f \in Handlers, g[1] = f[1], g[2] = f[2] + 1
        PROVE  stage[f] # "rejected"
    <3>1. f[2] >= h[2]
      BY <2>2, <2>3, HopType
    <3>. QED  BY <2>3, <3>1 DEF Settled
  <2>4. stage'[g] = "none"
    BY <1>3, <2>1, <2>3 DEF HandlerFrame
  <2>5. ~Proposed(g)'
    BY <1>1, <1>3 DEF HandlerFrame, Settled
  <2>. QED  BY <2>4, <2>5 DEF Settled
<1>. QED  BY <1>2, <1>3

\* A rejection speaks for the rest of its chain, relayed by a proxy or not.
LEMMA DefiniteStep ==
  ASSUME BasicInv, ProposedInv, ChainInv, DefiniteInv, HandlerFrame
  PROVE  DefiniteInv'
<1>. SUFFICES ASSUME NEW h \in Handlers, stage'[h] = "done", reply'[h].code \in Definite,
                     NEW g \in Handlers, g[1] = h[1], g[2] >= h[2]
              PROVE  Settled(g)'
  BY DEF DefiniteInv
<1>1. CASE stage[h] = "done"
  <2>1. reply[h].code \in Definite
    BY <1>1 DEF HandlerFrame
  <2>2. \A f \in Handlers : f[1] = h[1] /\ f[2] >= h[2] => Settled(f)
    BY <1>1, <2>1 DEF DefiniteInv
  <2>. QED  BY <1>1, <2>2, TailStable
<1>2. CASE stage[h] \in {"arrived", "rejected"}
  <2>1. \A f \in Handlers : f[1] = h[1] /\ f[2] > h[2] => stage[f] = "none"
    BY <1>2, HopType DEF ChainInv
  <2>2. CASE g[2] = h[2]
    <3>1. g = h
      BY <2>2, PairEqual
    <3>2. ~Proposed(h)'
      BY <1>2 DEF HandlerFrame, ProposedInv
    <3>. QED  BY <3>1, <3>2 DEF Settled
  <2>3. CASE g[2] # h[2]
    <3>1. g[2] > h[2] /\ stage[g] = "none"
      BY <2>1, <2>3, HopType
    <3>2. g[1] # Len(att) + 1
      <4>1. h[1] \in DOMAIN att
        BY <1>2 DEF BasicInv, Wellformed
      <4>. QED  BY <4>1 DEF BasicInv, TypeOK
    <3>3. ASSUME NEW f \in Handlers, g[1] = f[1], g[2] = f[2] + 1
          PROVE  ~(stage[f] = "rejected" /\ stage'[f] = "proxying")
      <4>1. f[2] >= h[2]
        BY <3>1, <3>3, HopType
      <4>2. CASE f[2] = h[2]
        BY <3>3, <4>2, PairEqual
      <4>3. CASE f[2] # h[2]
        BY <2>1, <3>3, <4>1, <4>3, HopType
      <4>. QED  BY <4>2, <4>3
    <3>4. stage'[g] = "none"
      BY <3>1, <3>2, <3>3 DEF HandlerFrame
    <3>5. ~Proposed(g)'
      BY <3>1 DEF HandlerFrame, ProposedInv
    <3>. QED  BY <3>4, <3>5 DEF Settled
  <2>. QED  BY <2>2, <2>3
<1>3. CASE /\ stage[h] = "proxying" /\ NextHop(h) \in Handlers
           /\ stage[NextHop(h)] = "done" /\ reply[NextHop(h)].code \in Definite
  <2>. DEFINE m == NextHop(h)
  <2>1. m \in Handlers /\ m[1] = h[1] /\ m[2] = h[2] + 1
    BY <1>3, HopType
  <2>2. \A f \in Handlers : f[1] = m[1] /\ f[2] >= m[2] => Settled(f)
    BY <1>3 DEF DefiniteInv
  <2>3. \A f \in Handlers : f[1] = m[1] /\ f[2] >= m[2] => Settled(f)'
    BY <1>3, <2>1, <2>2, TailStable
  <2>4. CASE g[2] = h[2]
    <3>1. g = h
      BY <2>4, PairEqual
    <3>2. ~Proposed(h)'
      BY <1>3 DEF HandlerFrame, ProposedInv
    <3>. QED  BY <3>1, <3>2 DEF Settled
  <2>5. CASE g[2] # h[2]
    <3>1. g[2] >= m[2]
      BY <2>1, <2>5, HopType
    <3>. QED  BY <2>1, <2>3, <3>1
  <2>. QED  BY <2>4, <2>5
<1>. QED  BY <1>1, <1>2, <1>3 DEF HandlerFrame

\* Raft dispatches a proposal once and commits it once.
LEMMA LogStep ==
  ASSUME BasicInv, LogInv, [Next]_vars
  PROVE  LogInv'
<1>1. CASE UNCHANGED <<floating, log>>
  BY <1>1 DEF LogInv, Committed
<1>2. ASSUME NEW h \in Handlers, ApplyDispatch(h)
      PROVE  LogInv'
  <2>1. h \notin Committed /\ floating' = floating \cup {h} /\ log' = log
    BY <1>2 DEF ApplyDispatch, Propose
  <2>. QED  BY <2>1 DEF LogInv, Committed
<1>3. ASSUME NEW h \in Handlers, CommitAndApply(h)
      PROVE  LogInv'
  <2>1. h \in floating /\ floating' = floating \ {h} /\ log' = Append(log, h)
    BY <1>3 DEF CommitAndApply, Commit
  <2>2. log \in Seq(Handlers)
    BY ClusterAssumption DEF BasicInv, TypeOK, RaftTypeOK
  <2>3. Committed' = Committed \cup {h}
    BY <2>1, <2>2, CommittedAppend
  <2>4. h \notin Committed
    BY <2>1 DEF LogInv
  <2>5. \A i \in DOMAIN log : log[i] # h
    BY <2>4 DEF Committed
  <2>6. \A i, j \in DOMAIN log' : log'[i] = log'[j] => i = j
    BY <2>1, <2>2, <2>5 DEF LogInv
  <2>. QED  BY <2>1, <2>3, <2>6 DEF LogInv
<1>4. ASSUME NEW c \in Clients, ClientStep(c) PROVE UNCHANGED <<floating, log>>
  BY <1>4 DEF ClientStep, Invoke, Retry, RetryRefused, DeadlinePasses, ReceiveOk,
              ReceiveUnknown, ReceiveFail, DialError, HTTPError, raftVars
<1>5. ASSUME NEW h \in Handlers, HandlerStep(h)
      PROVE  ApplyDispatch(h) \/ UNCHANGED <<floating, log>>
  BY <1>5 DEF HandlerStep, Deliver, BadRequest, BadLeaderURL, ApplyNotLeader,
              ApplyEnqueueTimeout, ApplyOk, RejectNotLeader, RejectNoLeader, Forward,
              ProxyRelay, ProxyDialError, ProxyError, raftVars
<1>6. ASSUME NEW n \in Nodes, NodeStep(n) PROVE UNCHANGED <<floating, log>>
  BY <1>6 DEF NodeStep, Elect, Learn, LeadershipLost, Kill, Start, BecomeLeader,
              LearnLeader, LoseLeadership, Crash, Recover
<1>7. CASE UNCHANGED vars
  BY <1>1, <1>7 DEF vars, raftVars
<1>. QED  BY <1>1, <1>2, <1>3, <1>4, <1>5, <1>6, <1>7 DEF Next

-----------------------------------------------------------------------------
(* The client level of the invariant                                       *)

CallerInv == InvocationInv /\ ClientInv /\ RecordInv

\* Servers and log leave the clients alone.
LEMMA CallerFrame ==
  ASSUME BasicInv, CallerInv, HandlerFrame, UNCHANGED <<att, pc, cur, history>>
  PROVE  CallerInv'
<1>1. \A a \in DOMAIN att : Closed(a) => Closed(a)'
  BY ClosedStable
<1>2. UNCHANGED <<att, pc, cur, history>>
  OBVIOUS
<1>3. InvocationInv'
  BY <1>1, <1>2 DEF CallerInv, InvocationInv
<1>4. ClientInv'
  BY <1>1, <1>2, CurType DEF CallerInv, ClientInv
<1>5. RecordInv'
  BY <1>1, <1>2 DEF CallerInv, RecordInv, RecordOK
<1>. QED  BY <1>3, <1>4, <1>5 DEF CallerInv

\* Recorder.add keeps the earlier records.
LEMMA HistoryAppend ==
  ASSUME BasicInv, NEW r, history' = Append(history, r)
  PROVE  \A k \in DOMAIN history' :
           \/ k \in DOMAIN history /\ history'[k] = history[k]
           \/ k = Len(history) + 1 /\ history'[k] = r
<1>1. history \in Seq(Record)
  BY DEF BasicInv, TypeOK
<1>2. \A k \in 1 .. Len(history) : history'[k] = history[k]
  BY <1>1
<1>3. /\ history'[Len(history) + 1] = r /\ DOMAIN history' = 1 .. Len(history) + 1
      /\ DOMAIN history = 1 .. Len(history) /\ Len(history) \in Nat
  BY <1>1
<1>. QED  BY <1>2, <1>3

\* An attempt ends: its client returns, with a record, or backs off.
LEMMA CallerEnd ==
  ASSUME BasicInv, CallerInv, HandlerFrame, NEW c \in Clients, pc[c] # "idle",
         UNCHANGED <<att, cur>>,
         \A d \in Clients : d # c => pc'[d] = pc[d],
         pc'[c] = "backoff" => Closed(cur[c])',
         \/ UNCHANGED history
         \/ \E outcome, res :
              /\ history' = Append(history, [attempt |-> cur[c], outcome |-> outcome,
                                             res |-> res, end |-> now + 1])
              /\ outcome = "failed" => Closed(cur[c])'
              /\ pc'[c] = "idle"
  PROVE  CallerInv'
<1>1. \A a \in DOMAIN att : Closed(a) => Closed(a)'
  BY ClosedStable
<1>2. cur[c] \in DOMAIN att
  BY CurType
<1>3. InvocationInv'
  BY <1>1 DEF CallerInv, InvocationInv
<1>4. ClientInv'
  <2>. SUFFICES ASSUME NEW d \in Clients, pc'[d] # "idle"
                PROVE  /\ att[cur[d]].client = d
                       /\ \A a \in DOMAIN att : att[a].inv = att[cur[d]].inv => a <= cur[d]
                       /\ pc'[d] = "backoff" => Closed(cur[d])'
    BY DEF ClientInv
  <2>1. pc[d] # "idle"
    OBVIOUS
  <2>2. cur[d] \in DOMAIN att
    BY <2>1, CurType
  <2>. QED  BY <1>1, <2>1, <2>2 DEF CallerInv, ClientInv
<1>5. ASSUME NEW k \in DOMAIN history, NEW r, r = history[k]
      PROVE  RecordOK(r)'
  <2>1. \A d \in Clients : pc'[d] # "idle" => pc[d] # "idle"
    OBVIOUS
  <2>2. RecordOK(r)
    BY <1>5 DEF CallerInv, RecordInv
  <2>. QED  BY <1>1, <2>1, <2>2 DEF RecordOK
<1>6. ASSUME NEW r, r.attempt = cur[c], r.outcome = "failed" => Closed(cur[c])',
             pc'[c] = "idle"
      PROVE  RecordOK(r)'
  <2>1. ASSUME NEW d \in Clients, pc'[d] # "idle"
        PROVE  att[cur[d]].inv # att[cur[c]].inv
    <3>1. d # c /\ pc[d] # "idle"
      BY <1>6, <2>1
    <3>2. cur[d] \in DOMAIN att
      BY <3>1, CurType
    <3>3. att[cur[d]].client # att[cur[c]].client
      BY <3>1 DEF CallerInv, ClientInv
    <3>. QED  BY <1>2, <3>2, <3>3 DEF CallerInv, InvocationInv
  <2>2. \A a \in DOMAIN att : att[a].inv = att[cur[c]].inv => a <= cur[c]
    BY DEF CallerInv, ClientInv
  <2>. QED  BY <1>2, <1>6, <2>1, <2>2 DEF RecordOK
<1>7. RecordInv'
  <2>1. CASE UNCHANGED history
    BY <1>5, <2>1 DEF RecordInv
  <2>2. ASSUME NEW outcome, NEW res,
               history' = Append(history, [attempt |-> cur[c], outcome |-> outcome,
                                           res |-> res, end |-> now + 1]),
               outcome = "failed" => Closed(cur[c])',
               pc'[c] = "idle"
        PROVE  RecordInv'
    <3>. DEFINE r == [attempt |-> cur[c], outcome |-> outcome, res |-> res, end |-> now + 1]
    <3>1. r.attempt = cur[c] /\ r.outcome = outcome /\ history' = Append(history, r)
      BY <2>2
    <3>. HIDE DEF r
    <3>2. \A k \in DOMAIN history' :
            \/ k \in DOMAIN history /\ history'[k] = history[k]
            \/ history'[k] = r
      BY <3>1, HistoryAppend
    <3>3. \A q : q = r => RecordOK(q)'
      BY <1>6, <2>2, <3>1
    <3>4. ASSUME NEW k \in DOMAIN history', NEW q, q = history'[k]
          PROVE  RecordOK(q)'
      BY <1>5, <3>2, <3>3, <3>4
    <3>. QED  BY <3>4 DEF RecordInv
  <2>. QED  BY <2>1, <2>2
<1>. QED  BY <1>3, <1>4, <1>7 DEF CallerInv

\* A new attempt leaves the earlier ones as they are.
LEMMA AttAppend ==
  ASSUME BasicInv, NEW c \in Clients, NEW call, NEW inv, NEW n,
         StartAttempt(c, call, inv, n)
  PROVE  LET a == Len(att) + 1
         IN  /\ \A x \in DOMAIN att : x \in Nat /\ x < a /\ att'[x] = att[x]
             /\ DOMAIN att' = DOMAIN att \cup {a} /\ a \in Nat
             /\ att'[a].client = c /\ att'[a].inv = inv /\ att'[a].start = now + 1
             /\ att'[a].call = call
             /\ cur'[c] = a /\ pc'[c] = "waiting" /\ now' = now + 1
             /\ \A d \in Clients : d # c => cur'[d] = cur[d] /\ pc'[d] = pc[d]
<1>. DEFINE a == Len(att) + 1
            r == [client |-> c, call |-> call, inv |-> inv, start |-> now + 1]
<1>1. r.client = c /\ r.inv = inv /\ r.start = now + 1 /\ r.call = call
  OBVIOUS
<1>2. /\ att' = Append(att, r) /\ pc' = [pc EXCEPT ![c] = "waiting"]
      /\ cur' = [cur EXCEPT ![c] = a] /\ now' = now + 1
  BY DEF StartAttempt
<1>. HIDE DEF r
<1>3. att \in Seq(Attempt)
  BY DEF BasicInv, TypeOK
<1>4. /\ \A x \in DOMAIN att : x \in Nat /\ x < a /\ att'[x] = att[x]
      /\ DOMAIN att' = DOMAIN att \cup {a} /\ a \in Nat
      /\ att'[a] = r
  BY <1>2, <1>3
<1>5. /\ cur'[c] = a /\ pc'[c] = "waiting"
      /\ \A d \in Clients : d # c => cur'[d] = cur[d] /\ pc'[d] = pc[d]
  BY <1>2 DEF BasicInv, TypeOK
<1>. QED  BY <1>1, <1>2, <1>4, <1>5

\* An attempt begins whose call of Invoke has only closed attempts so far, is
\* nobody else's and has no record.
LEMMA CallerStart ==
  ASSUME BasicInv, CallerInv, HandlerFrame, NEW c \in Clients, NEW call,
         NEW inv \in Nat, NEW n, StartAttempt(c, call, inv, n), UNCHANGED history,
         inv <= Len(att) + 1,
         \A x \in DOMAIN att : att[x].inv = inv => att[x].client = c /\ Closed(x),
         \A d \in Clients : d # c /\ pc[d] # "idle" => att[cur[d]].inv # inv,
         \A k \in DOMAIN history : att[history[k].attempt].inv # inv
  PROVE  CallerInv'
<1>. DEFINE a == Len(att) + 1
<1>1. /\ \A x \in DOMAIN att : x \in Nat /\ x < a /\ att'[x] = att[x]
      /\ DOMAIN att' = DOMAIN att \cup {a} /\ a \in Nat
      /\ att'[a].client = c /\ att'[a].inv = inv
      /\ cur'[c] = a /\ pc'[c] = "waiting"
      /\ \A d \in Clients : d # c => cur'[d] = cur[d] /\ pc'[d] = pc[d]
      /\ inv <= a
  BY AttAppend
<1>. HIDE DEF a
<1>2. \A x \in DOMAIN att : Closed(x) => Closed(x)'
  BY ClosedStable
<1>3. InvocationInv'
  <2>1. \A x \in DOMAIN att' : att'[x].inv <= x
    BY <1>1 DEF CallerInv, InvocationInv
  <2>2. \A x, y \in DOMAIN att' : att'[x].inv = att'[y].inv => att'[x].client = att'[y].client
    BY <1>1 DEF CallerInv, InvocationInv
  <2>3. ASSUME NEW x \in DOMAIN att', NEW y \in DOMAIN att', x < y,
               att'[x].inv = att'[y].inv
        PROVE  Closed(x)'
    <3>1. x \in DOMAIN att
      BY <1>1, <2>3
    <3>2. CASE y = a
      BY <1>1, <1>2, <2>3, <3>1, <3>2
    <3>3. CASE y \in DOMAIN att
      BY <1>1, <1>2, <2>3, <3>1, <3>3 DEF CallerInv, InvocationInv
    <3>. QED  BY <1>1, <3>2, <3>3
  <2>. QED  BY <2>1, <2>2, <2>3 DEF InvocationInv
<1>4. ClientInv'
  <2>1. ASSUME NEW d \in Clients, pc'[d] # "idle"
        PROVE  /\ att'[cur'[d]].client = d
               /\ \A x \in DOMAIN att' : att'[x].inv = att'[cur'[d]].inv => x <= cur'[d]
               /\ pc'[d] = "backoff" => Closed(cur[d])'
    <3>1. CASE d = c
      BY <1>1, <3>1
    <3>2. CASE d # c
      <4>1. pc[d] # "idle" /\ cur'[d] = cur[d] /\ pc'[d] = pc[d]
        BY <1>1, <2>1, <3>2
      <4>2. cur[d] \in DOMAIN att /\ att'[cur[d]] = att[cur[d]]
        BY <1>1, <4>1, CurType
      <4>3. att[cur[d]].inv # inv
        BY <3>2, <4>1
      <4>4. \A x \in DOMAIN att' : att'[x].inv = att[cur[d]].inv => x <= cur[d]
        BY <1>1, <4>1, <4>2, <4>3 DEF CallerInv, ClientInv
      <4>5. pc[d] = "backoff" => Closed(cur[d])'
        BY <1>2, <4>1, <4>2 DEF CallerInv, ClientInv
      <4>6. att[cur[d]].client = d
        BY <4>1 DEF CallerInv, ClientInv
      <4>. QED  BY <4>1, <4>2, <4>4, <4>5, <4>6
    <3>. QED  BY <3>1, <3>2
  <2>. QED  BY <2>1 DEF ClientInv
<1>5. RecordInv'
  <2>. SUFFICES ASSUME NEW k \in DOMAIN history, NEW r, r = history[k]
                PROVE  RecordOK(r)'
    BY DEF RecordInv
  <2>1. RecordOK(r) /\ att[r.attempt].inv # inv
    BY DEF CallerInv, RecordInv
  <2>2. r.attempt \in DOMAIN att /\ att'[r.attempt] = att[r.attempt]
    BY <1>1, <2>1 DEF RecordOK
  <2>3. \A x \in DOMAIN att' : att'[x].inv = att[r.attempt].inv => x <= r.attempt
    BY <1>1, <2>1 DEF RecordOK
  <2>4. ASSUME NEW d \in Clients, pc'[d] # "idle"
        PROVE  att'[cur'[d]].inv # att[r.attempt].inv
    <3>1. CASE d = c
      BY <1>1, <2>1, <3>1
    <3>2. CASE d # c
      <4>1. pc[d] # "idle" /\ cur'[d] = cur[d]
        BY <1>1, <2>4, <3>2
      <4>2. att'[cur[d]] = att[cur[d]]
        BY <1>1, <4>1, CurType
      <4>. QED  BY <2>1, <4>1, <4>2 DEF RecordOK
    <3>. QED  BY <3>1, <3>2
  <2>5. r.outcome = "failed" => Closed(r.attempt)'
    BY <1>2, <2>1 DEF RecordOK
  <2>. QED  BY <1>1, <2>2, <2>3, <2>4, <2>5 DEF RecordOK
<1>. QED  BY <1>3, <1>4, <1>5 DEF CallerInv

\* A definite answer closes the attempt.
LEMMA FailedAnswerCloses ==
  ASSUME BasicInv, DefiniteInv, NEW c \in Clients, Answered(c),
         Class(Answer(c).code) = "fail"
  PROVE  Closed(cur[c])
<1>. DEFINE h == <<cur[c], 1>>
<1>1. h \in Handlers /\ stage[h] = "done"
  BY CurType DEF Answered
<1>2. h[1] = cur[c] /\ h[2] = 1
  OBVIOUS
<1>3. reply[h].code \in Definite
  BY DEF Class, Answer
<1>. HIDE DEF h
<1>4. ASSUME NEW g \in Handlers, g[1] = cur[c] PROVE Settled(g)
  <2>1. g[2] >= h[2]
    BY <1>2, HopType
  <2>. QED  BY <1>1, <1>2, <1>3, <1>4, <2>1 DEF DefiniteInv
<1>. QED  BY <1>4 DEF Closed

\* So does a connection that was never made.
LEMMA DialErrorCloses ==
  ASSUME BasicInv, ProposedInv, ChainInv, NEW c \in Clients, DialError(c)
  PROVE  Closed(cur[c])'
<1>. DEFINE h == <<cur[c], 1>>
<1>1. /\ pc[c] # "idle" /\ stage[h] = "sent"
      /\ stage' = [stage EXCEPT ![h] = "void"]
      /\ UNCHANGED <<raftVars, cur>>
  BY DEF DialError
<1>2. h \in Handlers /\ h[1] = cur[c] /\ h[2] = 1
  BY <1>1, CurType
<1>. HIDE DEF h
<1>3. \A g \in Handlers : Proposed(g)' => Proposed(g)
  BY <1>1 DEF Proposed, Committed, raftVars
<1>4. stage'[h] = "void" /\ \A g \in Handlers : g # h => stage'[g] = stage[g]
  BY <1>1, <1>2 DEF BasicInv, TypeOK
<1>5. ASSUME NEW g \in Handlers, g[1] = cur[c] PROVE Settled(g)'
  <2>1. CASE g = h
    BY <1>1, <1>3, <1>4, <2>1 DEF Settled, ProposedInv
  <2>2. CASE g # h
    <3>1. h[2] < g[2]
      <4>1. g[2] # h[2]
        BY <1>2, <1>5, <2>2, PairEqual
      <4>. QED  BY <1>2, <4>1, HopType
    <3>2. stage[g] = "none"
      BY <1>1, <1>2, <1>5, <3>1 DEF ChainInv
    <3>. QED  BY <1>3, <1>4, <2>2, <3>2 DEF Settled, ProposedInv
  <2>. QED  BY <2>1, <2>2
<1>. QED  BY <1>1, <1>5 DEF Closed

\* What Fail does to a client whose attempt is closed.
LEMMA CallerFail ==
  ASSUME BasicInv, CallerInv, HandlerFrame, NEW c \in Clients, pc[c] # "idle",
         UNCHANGED <<att, cur>>, Fail(c), Closed(cur[c])'
  PROVE  CallerInv'
<1>1. \A d \in Clients : d # c => pc'[d] = pc[d]
  BY PCFrame
<1>2. \/ UNCHANGED history
      \/ \E outcome, res :
           /\ history' = Append(history, [attempt |-> cur[c], outcome |-> outcome,
                                          res |-> res, end |-> now + 1])
           /\ outcome = "failed" => Closed(cur[c])'
           /\ pc'[c] = "idle"
  <2>1. CASE Add(c, "failed", NoResult)
    <3>1. pc'[c] = "idle"
      BY <2>1 DEF Add, BasicInv, TypeOK
    <3>. QED  BY <2>1, <3>1 DEF Add
  <2>2. CASE BackOff(c)
    BY <2>2 DEF BackOff, recVars
  <2>. QED  BY <2>1, <2>2 DEF Fail
<1>. QED  BY <1>1, <1>2, CallerEnd

\* Recording an outcome other than "failed" needs nothing of the attempt.
LEMMA CallerAdd ==
  ASSUME BasicInv, CallerInv, HandlerFrame, NEW c \in Clients, pc[c] # "idle",
         UNCHANGED <<att, cur>>, NEW outcome, NEW res, outcome # "failed",
         Add(c, outcome, res)
  PROVE  CallerInv'
<1>1. \A d \in Clients : d # c => pc'[d] = pc[d]
  BY PCFrame
<1>2. pc'[c] = "idle"
  BY DEF Add, BasicInv, TypeOK
<1>. QED  BY <1>1, <1>2, CallerEnd DEF Add

\* Invocations, clients and records stay consistent in every step.
LEMMA CallerStep ==
  ASSUME BasicInv, ProposedInv, ChainInv, DefiniteInv, CallerInv, HandlerFrame,
         NEW c \in Clients, ClientStep(c)
  PROVE  CallerInv'
<1>1. ASSUME NEW call \in Calls, NEW n \in Nodes, Invoke(c, call, n)
      PROVE  CallerInv'
  <2>. DEFINE inv == Len(att) + 1
  <2>1. /\ StartAttempt(c, call, inv, n) /\ UNCHANGED history
        /\ inv \in Nat
    BY <1>1 DEF Invoke, BasicInv, TypeOK
  <2>2. \A x \in DOMAIN att : att[x].inv # inv
    <3>1. \A x \in DOMAIN att : x \in Nat /\ x < inv
      BY DEF BasicInv, TypeOK
    <3>2. ASSUME NEW x \in DOMAIN att PROVE att[x].inv \in Nat
      <4>1. att[x] \in Attempt
        BY DEF BasicInv, TypeOK
      <4>. QED  BY <4>1 DEF Attempt, Attempts
    <3>. QED  BY <2>1, <3>1, <3>2 DEF CallerInv, InvocationInv
  <2>3. \A d \in Clients : pc[d] # "idle" => att[cur[d]].inv # inv
    BY <2>2, CurType
  <2>4. \A k \in DOMAIN history : att[history[k].attempt].inv # inv
    BY <2>2 DEF CallerInv, RecordInv, RecordOK
  <2>. HIDE DEF inv
  <2>5. inv <= Len(att) + 1
    BY <2>1 DEF inv
  <2>. QED  BY <2>1, <2>2, <2>3, <2>4, <2>5, CallerStart
<1>2. CASE Retry(c)
  <2>. DEFINE inv == att[cur[c]].inv
              call == att[cur[c]].call
              n == Rotate[where[<<cur[c], 1>>]]
  <2>1. /\ StartAttempt(c, call, inv, n) /\ UNCHANGED history
        /\ pc[c] = "backoff"
    BY <1>2 DEF Retry
  <2>2. cur[c] \in DOMAIN att /\ inv \in Nat /\ cur[c] \in Nat /\ cur[c] <= Len(att)
    BY <2>1, CurType DEF Attempts, BasicInv, TypeOK
  <2>3. inv <= Len(att) + 1
    BY <2>2 DEF CallerInv, InvocationInv, BasicInv, TypeOK
  <2>4. ASSUME NEW x \in DOMAIN att, att[x].inv = inv
        PROVE  att[x].client = c /\ Closed(x)
    <3>1. att[x].client = c
      BY <2>1, <2>2, <2>4 DEF CallerInv, InvocationInv, ClientInv
    <3>2. x <= cur[c]
      BY <2>1, <2>4 DEF CallerInv, ClientInv
    <3>3. CASE x = cur[c]
      BY <2>1, <3>1, <3>3 DEF CallerInv, ClientInv
    <3>4. CASE x < cur[c]
      <4>1. \A a, b \in DOMAIN att : a < b /\ att[a].inv = att[b].inv => Closed(a)
        BY DEF CallerInv, InvocationInv
      <4>. QED  BY <2>2, <2>4, <3>1, <3>4, <4>1
    <3>5. x \in Nat
      BY DEF BasicInv, TypeOK
    <3>. QED  BY <2>2, <3>1, <3>2, <3>3, <3>4, <3>5
  <2>5. ASSUME NEW d \in Clients, d # c, pc[d] # "idle" PROVE att[cur[d]].inv # inv
    <3>1. cur[d] \in DOMAIN att
      BY <2>5, CurType
    <3>2. att[cur[d]].client # att[cur[c]].client
      BY <2>1, <2>5 DEF CallerInv, ClientInv
    <3>. QED  BY <2>2, <3>1, <3>2 DEF CallerInv, InvocationInv
  <2>6. \A k \in DOMAIN history : att[history[k].attempt].inv # inv
    BY <2>1 DEF CallerInv, RecordInv, RecordOK
  <2>. HIDE DEF inv, call, n
  <2>. QED  BY <2>1, <2>2, <2>3, <2>4, <2>5, <2>6, CallerStart
<1>3. CASE ReceiveOk(c)
  BY <1>3, CallerAdd DEF ReceiveOk, Answered
<1>4. CASE ReceiveUnknown(c) \/ HTTPError(c)
  BY <1>4, CallerAdd DEF ReceiveUnknown, HTTPError, Answered
<1>5. CASE ReceiveFail(c)
  <2>1. /\ pc[c] # "idle" /\ UNCHANGED <<att, cur>> /\ Fail(c)
        /\ Answered(c) /\ Class(Answer(c).code) = "fail"
    BY <1>5 DEF ReceiveFail, Answered
  <2>2. Closed(cur[c]) /\ cur[c] \in DOMAIN att
    BY <2>1, FailedAnswerCloses, CurType
  <2>3. \A a \in DOMAIN att : Closed(a) => Closed(a)'
    BY ClosedStable
  <2>4. Closed(cur[c])'
    BY <2>1, <2>2, <2>3
  <2>. QED  BY <2>1, <2>4, CallerFail
<1>6. CASE DialError(c)
  <2>1. pc[c] # "idle" /\ UNCHANGED <<att, cur>> /\ Fail(c)
    BY <1>6 DEF DialError
  <2>2. Closed(cur[c])'
    BY <1>6, DialErrorCloses
  <2>. QED  BY <2>1, <2>2, CallerFail
<1>7. CASE RetryRefused(c)
  <2>1. pc[c] = "backoff" /\ UNCHANGED <<att, cur>> /\ Fail(c)
    BY <1>7 DEF RetryRefused
  <2>2. Closed(cur[c]) /\ cur[c] \in DOMAIN att
    BY <2>1, CurType DEF CallerInv, ClientInv
  <2>3. \A a \in DOMAIN att : Closed(a) => Closed(a)'
    BY ClosedStable
  <2>4. Closed(cur[c])'
    BY <2>1, <2>2, <2>3
  <2>. QED  BY <2>1, <2>4, CallerFail
<1>8. CASE DeadlinePasses(c)
  BY <1>8, CallerFrame DEF DeadlinePasses, recVars
<1>. QED  BY <1>1, <1>2, <1>3, <1>4, <1>5, <1>6, <1>7, <1>8 DEF ClientStep

-----------------------------------------------------------------------------
(* Answers and times                                                       *)

EffectInv == ClockInv /\ AnswerInv /\ OkTookEffectInWindow

\* A log entry belongs to an attempt.
LEMMA EntryType ==
  ASSUME BasicInv, NEW i \in DOMAIN log
  PROVE  /\ log[i] \in Handlers /\ log[i][1] \in DOMAIN att
         /\ i \in DOMAIN applied
         /\ applied[i].at \in Nat /\ applied[i].res \in Result
<1>1. log \in Seq(Handlers) /\ applied \in Seq([res : Result, at : Nat])
  BY ClusterAssumption DEF BasicInv, TypeOK, RaftTypeOK
<1>2. log[i] \in Handlers /\ log[i] \in Committed
  BY <1>1 DEF Committed
<1>3. log[i][1] \in DOMAIN att
  BY <1>2 DEF BasicInv, Wellformed
<1>4. i \in DOMAIN applied
  BY <1>1 DEF BasicInv, Wellformed
<1>. DEFINE S == [res : Result, at : Nat]
<1>. HIDE DEF S
<1>5. applied[i] \in S
  <2>1. applied \in Seq(S)
    BY <1>1 DEF S
  <2>. QED  BY <1>4, <2>1
<1>6. applied[i].at \in Nat /\ applied[i].res \in Result
  BY <1>5 DEF S
<1>. QED  BY <1>2, <1>3, <1>4, <1>6

\* Nothing is committed and no answer but, perhaps, one with a reason.
LEMMA AnswerFrame ==
  ASSUME AnswerInv, UNCHANGED <<log, applied>>,
         \A h \in Handlers :
           stage'[h] = "done" /\ reply'[h].code = "ok" =>
             \/ stage[h] = "done" /\ reply'[h] = reply[h]
             \/ \E i \in DOMAIN log : log[i][1] = h[1] /\ applied[i].res = reply'[h].res
  PROVE  AnswerInv'
BY DEF AnswerInv

\* An answer that is written is ok only if its entry is in the log.
LEMMA WriteAnswer ==
  ASSUME BasicInv, AnswerInv, UNCHANGED <<log, applied>>, NEW h \in Handlers,
         NEW code, NEW res, Write(h, code, res),
         code = "ok" =>
           \E i \in DOMAIN log : log[i][1] = h[1] /\ applied[i].res = res
  PROVE  AnswerInv'
<1>1. /\ reply'[h].code = code /\ reply'[h].res = res
      /\ \A g \in Handlers : g # h => stage'[g] = stage[g] /\ reply'[g] = reply[g]
  BY DEF Write, BasicInv, TypeOK
<1>. QED  BY <1>1, AnswerFrame

\* A handler that answers nothing cannot give a wrong answer.
LEMMA MoveAnswer ==
  ASSUME BasicInv, AnswerInv, UNCHANGED <<log, applied, reply>>,
         \A g \in Handlers : stage'[g] = "done" => stage[g] = "done"
  PROVE  AnswerInv'
BY AnswerFrame

\* Every step of a handler keeps AnswerInv; ApplyOk and ProxyRelay are the
\* ones that can write ok.
LEMMA HandlerAnswer ==
  ASSUME BasicInv, AnswerInv, NEW h \in Handlers, HandlerStep(h)
  PROVE  AnswerInv'
<1>0. UNCHANGED <<log, applied>>
  BY DEF HandlerStep, Deliver, BadRequest, BadLeaderURL, ApplyDispatch, Propose,
         ApplyNotLeader, ApplyEnqueueTimeout, ApplyOk, RejectNotLeader,
         RejectNoLeader, Forward, ProxyRelay, ProxyDialError, ProxyError, raftVars,
         stateVars
<1>1. CASE Deliver(h) \/ ApplyDispatch(h) \/ ApplyNotLeader(h)
  <2>1. /\ UNCHANGED reply
        /\ \/ stage' = [stage EXCEPT ![h] = "arrived"]
           \/ stage' = [stage EXCEPT ![h] = "applying"]
           \/ stage' = [stage EXCEPT ![h] = "rejected"]
    BY <1>1 DEF Deliver, ApplyDispatch, ApplyNotLeader
  <2>2. \A g \in Handlers : stage'[g] = "done" => stage[g] = "done"
    BY <2>1 DEF BasicInv, TypeOK
  <2>. QED  BY <1>0, <2>1, <2>2, MoveAnswer
<1>2. CASE ApplyEnqueueTimeout(h)
  BY <1>0, <1>2, WriteAnswer DEF ApplyEnqueueTimeout
<1>3. CASE ApplyOk(h)
  <2>1. PICK i \in DOMAIN log : log[i] = h /\ Write(h, "ok", applied[i].res)
    BY <1>3 DEF ApplyOk
  <2>2. \E j \in DOMAIN log : log[j][1] = h[1] /\ applied[j].res = applied[i].res
    BY <2>1
  <2>. QED  BY <1>0, <2>1, <2>2, WriteAnswer
<1>4. CASE RejectNotLeader(h)
  BY <1>0, <1>4, WriteAnswer DEF RejectNotLeader
<1>5. CASE RejectNoLeader(h)
  BY <1>0, <1>5, WriteAnswer DEF RejectNoLeader
<1>6. CASE Forward(h)
  <2>. DEFINE g == NextHop(h)
  <2>1. /\ stage' = [stage EXCEPT ![h] = "proxying", ![g] = "sent"]
        /\ UNCHANGED reply
    BY <1>6 DEF Forward
  <2>. HIDE DEF g
  <2>2. \A f \in Handlers : stage'[f] = "done" => stage[f] = "done"
    BY <2>1 DEF BasicInv, TypeOK
  <2>. QED  BY <1>0, <2>1, <2>2, MoveAnswer
<1>7. CASE ProxyRelay(h)
  <2>. DEFINE g == NextHop(h)
  <2>1. /\ g \in Handlers /\ g[1] = h[1] /\ stage[g] = "done"
        /\ Write(h, reply[g].code, reply[g].res)
    BY <1>7, HopType DEF ProxyRelay, BasicInv, Wellformed
  <2>. HIDE DEF g
  <2>2. reply[g].code = "ok" =>
          \E i \in DOMAIN log : log[i][1] = h[1] /\ applied[i].res = reply[g].res
    BY <2>1 DEF AnswerInv
  <2>. QED  BY <1>0, <2>1, <2>2, WriteAnswer
<1>8. CASE ProxyDialError(h)
  <2>. DEFINE g == NextHop(h)
  <2>1. /\ stage' = [stage EXCEPT ![h] = "done", ![g] = "void"]
        /\ reply' = [reply EXCEPT ![h] = [code |-> "proxy_error", res |-> NoResult]]
    BY <1>8 DEF ProxyDialError
  <2>. HIDE DEF g
  <2>2. /\ reply'[h].code = "proxy_error"
        /\ \A f \in Handlers : f # h => reply'[f] = reply[f]
        /\ \A f \in Handlers : f # h /\ stage'[f] = "done" => stage[f] = "done"
    BY <2>1 DEF BasicInv, TypeOK
  <2>. QED  BY <1>0, <2>2, AnswerFrame
<1>9. CASE ProxyError(h)
  BY <1>0, <1>9, WriteAnswer DEF ProxyError
<1>10. CASE BadRequest(h)
  BY <1>0, <1>10, WriteAnswer DEF BadRequest
<1>11. CASE BadLeaderURL(h)
  BY <1>0, <1>11, WriteAnswer DEF BadLeaderURL
<1>. QED
  BY <1>1, <1>2, <1>3, <1>4, <1>5, <1>6, <1>7, <1>8, <1>9, <1>10, <1>11 DEF HandlerStep

\* Lost leadership answers apply_failed, and the other node steps answer
\* nothing.
LEMMA NodeAnswer ==
  ASSUME BasicInv, AnswerInv, NEW n \in Nodes, NodeStep(n)
  PROVE  AnswerInv'
<1>0. UNCHANGED <<log, applied>>
  BY DEF NodeStep, Elect, Learn, LeadershipLost, Kill, Start, BecomeLeader,
         LearnLeader, LoseLeadership, Crash, Recover, stateVars
<1>1. CASE LeadershipLost(n)
  <2>1. \A h \in Handlers : \/ stage'[h] = stage[h] /\ reply'[h] = reply[h]
                            \/ reply'[h].code = "apply_failed"
    BY <1>1 DEF LeadershipLost
  <2>. QED  BY <1>0, <2>1, AnswerFrame
<1>2. CASE Kill(n)
  <2>1. \A h \in Handlers : stage'[h] = "done" => stage[h] = "done"
    BY <1>2 DEF Kill
  <2>. QED  BY <1>0, <1>2, <2>1, MoveAnswer DEF Kill
<1>3. CASE UNCHANGED handlerVars
  BY <1>0, <1>3, MoveAnswer DEF handlerVars
<1>. QED  BY <1>1, <1>2, <1>3 DEF NodeStep, Elect, Learn, Start

\* Servers and elections: nothing is committed, nothing recorded.
LEMMA EffectFrame ==
  ASSUME EffectInv, AnswerInv',
         UNCHANGED <<log, applied, clientVars, recVars>>
  PROVE  EffectInv'
<1>1. ClockInv'
  BY DEF EffectInv, ClockInv, clientVars, recVars
<1>2. OkTookEffectInWindow'
  BY DEF EffectInv, OkTookEffectInWindow, clientVars, recVars
<1>. QED  BY <1>1, <1>2 DEF EffectInv

\* An entry is committed: the clock ticks, the log grows.
LEMMA EffectCommit ==
  ASSUME BasicInv, RecordInv, EffectInv, NEW h \in Handlers, CommitAndApply(h)
  PROVE  EffectInv'
<1>. DEFINE cmd == Decoded(CallOf(h).cmd)
            e == [res |-> ApplyResult(data, cmd), at |-> now + 1]
<1>1. /\ h \in floating /\ log' = Append(log, h) /\ applied' = Append(applied, e)
      /\ now' = now + 1 /\ UNCHANGED <<handlerVars, clientVars, history>>
  BY DEF CommitAndApply, Commit
<1>2. e.at = now + 1
  OBVIOUS
<1>. HIDE DEF e, cmd
<1>3. /\ log \in Seq(Handlers) /\ applied \in Seq([res : Result, at : Nat])
      /\ now \in Nat /\ Len(applied) = Len(log)
  BY ClusterAssumption DEF BasicInv, TypeOK, RaftTypeOK, Wellformed
<1>4. /\ DOMAIN log' = DOMAIN log \cup {Len(log) + 1}
      /\ \A i \in DOMAIN log : log'[i] = log[i]
      /\ log'[Len(log) + 1] = h
  BY <1>1, <1>3
<1>5. /\ \A i \in DOMAIN log : applied'[i] = applied[i]
      /\ applied'[Len(log) + 1] = e
  BY <1>1, <1>3
<1>6. h[1] \in DOMAIN att
  BY <1>1 DEF BasicInv, Wellformed
<1>7. \A a \in DOMAIN att : att[a].start <= now /\ att[a].start \in Nat
  <2>1. \A a \in DOMAIN att : att[a] \in Attempt
    BY DEF BasicInv, TypeOK
  <2>2. \A a \in DOMAIN att : att[a].start \in Nat
    BY <2>1 DEF Attempt
  <2>. QED  BY <2>2 DEF EffectInv, ClockInv
<1>8. ClockInv'
  <2>1. \A a \in DOMAIN att' : att'[a].start <= now'
    BY <1>1, <1>3, <1>7 DEF clientVars
  <2>2. ASSUME NEW i \in DOMAIN log'
        PROVE  att'[log'[i][1]].start < applied'[i].at /\ applied'[i].at <= now'
    <3>1. CASE i = Len(log) + 1
      BY <1>1, <1>2, <1>3, <1>4, <1>5, <1>6, <1>7, <3>1 DEF clientVars
    <3>2. CASE i \in DOMAIN log
      <4>1. att[log[i][1]].start < applied[i].at /\ applied[i].at <= now
        BY <3>2 DEF EffectInv, ClockInv
      <4>2. applied[i].at \in Nat
        BY <3>2, EntryType
      <4>. QED  BY <1>1, <1>3, <1>4, <1>5, <3>2, <4>1, <4>2 DEF clientVars
    <3>. QED  BY <1>4, <3>1, <3>2
  <2>. QED  BY <2>1, <2>2 DEF ClockInv
<1>9. AnswerInv'
  <2>. SUFFICES ASSUME NEW g \in Handlers, stage[g] = "done", reply[g].code = "ok"
                PROVE  \E i \in DOMAIN log' : /\ log'[i][1] = g[1]
                                              /\ applied'[i].res = reply[g].res
    BY <1>1 DEF AnswerInv, handlerVars
  <2>1. PICK i \in DOMAIN log : log[i][1] = g[1] /\ applied[i].res = reply[g].res
    BY DEF EffectInv, AnswerInv
  <2>2. i \in DOMAIN log' /\ log'[i] = log[i] /\ applied'[i] = applied[i]
    BY <1>4, <1>5
  <2>. QED  BY <2>1, <2>2
<1>10. OkTookEffectInWindow'
  <2>. SUFFICES ASSUME NEW k \in DOMAIN history, history[k].outcome = "ok"
                PROVE  \E i \in DOMAIN log' :
                         /\ log'[i][1] = history[k].attempt
                         /\ applied'[i].res = history[k].res
                         /\ att[history[k].attempt].start < applied'[i].at
                         /\ applied'[i].at < history[k].end
    BY <1>1 DEF OkTookEffectInWindow, clientVars
  <2>1. PICK i \in DOMAIN log : /\ log[i][1] = history[k].attempt
                                /\ applied[i].res = history[k].res
                                /\ att[history[k].attempt].start < applied[i].at
                                /\ applied[i].at < history[k].end
    BY DEF EffectInv, OkTookEffectInWindow
  <2>2. i \in DOMAIN log' /\ log'[i] = log[i] /\ applied'[i] = applied[i]
    BY <1>4, <1>5
  <2>. QED  BY <2>1, <2>2
<1>. QED  BY <1>8, <1>9, <1>10 DEF EffectInv

\* An attempt begins: the clock ticks.
LEMMA EffectStart ==
  ASSUME BasicInv, RecordInv, EffectInv, HandlerFrame, NEW c \in Clients, NEW call,
         NEW inv, NEW n, StartAttempt(c, call, inv, n),
         UNCHANGED <<raftVars, stateVars, reply, history>>
  PROVE  EffectInv'
<1>. DEFINE a == Len(att) + 1
<1>1. /\ \A x \in DOMAIN att : att'[x] = att[x]
      /\ DOMAIN att' = DOMAIN att \cup {a} /\ att'[a].start = now + 1
      /\ now' = now + 1
  BY AttAppend
<1>2. UNCHANGED <<log, applied>> /\ now \in Nat
  BY DEF raftVars, stateVars, BasicInv, TypeOK
<1>. HIDE DEF a
<1>3. \A x \in DOMAIN att : att[x].start <= now /\ att[x].start \in Nat
  <2>1. \A x \in DOMAIN att : att[x] \in Attempt
    BY DEF BasicInv, TypeOK
  <2>2. \A x \in DOMAIN att : att[x].start \in Nat
    BY <2>1 DEF Attempt
  <2>. QED  BY <2>2 DEF EffectInv, ClockInv
<1>4. ClockInv'
  <2>1. \A x \in DOMAIN att' : att'[x].start <= now'
    BY <1>1, <1>2, <1>3
  <2>2. ASSUME NEW i \in DOMAIN log
        PROVE  att'[log[i][1]].start < applied[i].at /\ applied[i].at <= now'
    <3>1. log[i][1] \in DOMAIN att /\ applied[i].at \in Nat
      BY EntryType
    <3>2. att[log[i][1]].start < applied[i].at /\ applied[i].at <= now
      BY DEF EffectInv, ClockInv
    <3>. QED  BY <1>1, <1>2, <3>1, <3>2
  <2>. QED  BY <1>2, <2>1, <2>2 DEF ClockInv
<1>5. AnswerInv'
  <2>1. \A h \in Handlers : stage'[h] = "done" => stage[h] = "done"
    BY DEF StartAttempt, BasicInv, TypeOK
  <2>. QED  BY <1>2, <2>1, MoveAnswer DEF EffectInv
<1>6. OkTookEffectInWindow'
  <2>1. \A k \in DOMAIN history : att'[history[k].attempt] = att[history[k].attempt]
    BY <1>1 DEF RecordInv, RecordOK
  <2>. QED  BY <1>2, <2>1 DEF EffectInv, OkTookEffectInWindow
<1>. QED  BY <1>4, <1>5, <1>6 DEF EffectInv

\* A record is added; what it reports as ok is in the log by now.
LEMMA EffectAdd ==
  ASSUME BasicInv, EffectInv, NEW c \in Clients, NEW outcome, NEW res,
         Add(c, outcome, res), AnswerInv', UNCHANGED <<log, applied, att>>,
         outcome = "ok" =>
           \E i \in DOMAIN log : log[i][1] = cur[c] /\ applied[i].res = res
  PROVE  EffectInv'
<1>. DEFINE r == [attempt |-> cur[c], outcome |-> outcome, res |-> res, end |-> now + 1]
<1>1. /\ r.attempt = cur[c] /\ r.outcome = outcome /\ r.res = res /\ r.end = now + 1
      /\ history' = Append(history, r) /\ now' = now + 1
  BY DEF Add
<1>. HIDE DEF r
<1>2. now \in Nat
  BY DEF BasicInv, TypeOK
<1>3. ClockInv'
  <2>1. ASSUME NEW a \in DOMAIN att PROVE att[a].start <= now + 1
    <3>1. att[a] \in Attempt
      BY DEF BasicInv, TypeOK
    <3>2. att[a].start \in Nat
      BY <3>1 DEF Attempt
    <3>. QED  BY <1>2, <3>2 DEF EffectInv, ClockInv
  <2>2. ASSUME NEW i \in DOMAIN log
        PROVE  att[log[i][1]].start < applied[i].at /\ applied[i].at <= now + 1
    <3>1. applied[i].at \in Nat
      BY EntryType
    <3>. QED  BY <1>2, <3>1 DEF EffectInv, ClockInv
  <2>. QED  BY <1>1, <2>1, <2>2 DEF ClockInv
<1>4. OkTookEffectInWindow'
  <2>. SUFFICES ASSUME NEW k \in DOMAIN history', history'[k].outcome = "ok"
                PROVE  \E i \in DOMAIN log :
                         /\ log[i][1] = history'[k].attempt
                         /\ applied[i].res = history'[k].res
                         /\ att[history'[k].attempt].start < applied[i].at
                         /\ applied[i].at < history'[k].end
    BY DEF OkTookEffectInWindow
  <2>1. CASE k \in DOMAIN history /\ history'[k] = history[k]
    BY <2>1 DEF EffectInv, OkTookEffectInWindow
  <2>2. CASE history'[k] = r
    <3>1. PICK i \in DOMAIN log : log[i][1] = cur[c] /\ applied[i].res = res
      BY <1>1, <2>2
    <3>2. att[log[i][1]].start < applied[i].at /\ applied[i].at <= now
      BY DEF EffectInv, ClockInv
    <3>3. applied[i].at \in Nat
      BY EntryType
    <3>4. applied[i].at < now + 1
      BY <1>2, <3>2, <3>3
    <3>. QED  BY <1>1, <2>2, <3>1, <3>2, <3>4
  <2>. QED  BY <1>1, <2>1, <2>2, HistoryAppend
<1>. QED  BY <1>3, <1>4 DEF EffectInv

\* Giving up or backing off says nothing about an effect.
LEMMA EffectFail ==
  ASSUME BasicInv, EffectInv, NEW c \in Clients, Fail(c), AnswerInv',
         UNCHANGED <<log, applied, att>>
  PROVE  EffectInv'
<1>1. CASE Add(c, "failed", NoResult)
  BY <1>1, EffectAdd
<1>2. CASE BackOff(c)
  <2>1. ClockInv'
    BY <1>2 DEF BackOff, EffectInv, ClockInv, recVars
  <2>2. OkTookEffectInWindow'
    BY <1>2 DEF BackOff, EffectInv, OkTookEffectInWindow, recVars
  <2>. QED  BY <2>1, <2>2 DEF EffectInv
<1>. QED  BY <1>1, <1>2 DEF Fail

\* Every step of Invoke keeps the clock readings in order.
LEMMA EffectClient ==
  ASSUME BasicInv, RecordInv, EffectInv, HandlerFrame, NEW c \in Clients, ClientStep(c)
  PROVE  EffectInv'
<1>1. ASSUME NEW call \in Calls, NEW n \in Nodes, Invoke(c, call, n)
      PROVE  EffectInv'
  BY <1>1, EffectStart DEF Invoke
<1>2. CASE Retry(c)
  BY <1>2, EffectStart DEF Retry
<1>3. CASE \/ ReceiveOk(c) \/ ReceiveUnknown(c) \/ ReceiveFail(c) \/ HTTPError(c)
           \/ RetryRefused(c)
  <2>1. UNCHANGED <<log, applied, att>> /\ UNCHANGED handlerVars
    BY <1>3 DEF ReceiveOk, ReceiveUnknown, ReceiveFail, HTTPError, RetryRefused,
                raftVars, stateVars
  <2>2. AnswerInv'
    BY <2>1, MoveAnswer DEF handlerVars, EffectInv
  <2>3. CASE ReceiveOk(c)
    <3>. DEFINE h == <<cur[c], 1>>
    <3>1. pc[c] # "idle" /\ stage[h] = "done" /\ Add(c, "ok", reply[h].res)
      BY <2>3 DEF ReceiveOk, Answered, Answer
    <3>2. h \in Handlers /\ h[1] = cur[c]
      BY <3>1, CurType
    <3>3. reply[h].code = "ok"
      BY <2>3 DEF ReceiveOk, Answer, Class
    <3>. HIDE DEF h
    <3>4. \E i \in DOMAIN log : log[i][1] = cur[c] /\ applied[i].res = reply[h].res
      BY <3>1, <3>2, <3>3 DEF EffectInv, AnswerInv
    <3>. QED  BY <2>1, <2>2, <3>1, <3>4, EffectAdd
  <2>4. CASE ReceiveUnknown(c) \/ HTTPError(c)
    BY <2>1, <2>2, <2>4, EffectAdd DEF ReceiveUnknown, HTTPError
  <2>5. CASE ReceiveFail(c) \/ RetryRefused(c)
    BY <2>1, <2>2, <2>5, EffectFail DEF ReceiveFail, RetryRefused
  <2>. QED  BY <1>3, <2>3, <2>4, <2>5
<1>4. CASE DialError(c)
  <2>1. UNCHANGED <<log, applied, att, reply>> /\ Fail(c)
    BY <1>4 DEF DialError, raftVars, stateVars
  <2>2. \A h \in Handlers : stage'[h] = "done" => stage[h] = "done"
    BY <1>4 DEF DialError, BasicInv, TypeOK
  <2>3. AnswerInv'
    BY <2>1, <2>2, MoveAnswer DEF EffectInv
  <2>. QED  BY <2>1, <2>3, EffectFail
<1>5. CASE DeadlinePasses(c)
  BY <1>5 DEF DeadlinePasses, raftVars, stateVars, handlerVars, recVars, EffectInv,
              ClockInv, AnswerInv, OkTookEffectInWindow
<1>. QED  BY <1>1, <1>2, <1>3, <1>4, <1>5 DEF ClientStep

\* Clock, answers and recorded effects stay consistent in every step.
LEMMA EffectStep ==
  ASSUME BasicInv, RecordInv, EffectInv, HandlerFrame, [Next]_vars
  PROVE  EffectInv'
<1>1. ASSUME NEW h \in Handlers, HandlerStep(h) PROVE EffectInv'
  <2>1. UNCHANGED <<log, applied, clientVars, recVars>>
    BY <1>1 DEF HandlerStep, Deliver, BadRequest, BadLeaderURL, ApplyDispatch,
                Propose, ApplyNotLeader, ApplyEnqueueTimeout, ApplyOk,
                RejectNotLeader, RejectNoLeader, Forward, ProxyRelay, ProxyDialError,
                ProxyError, raftVars, stateVars
  <2>. QED  BY <1>1, <2>1, HandlerAnswer, EffectFrame DEF EffectInv
<1>2. ASSUME NEW n \in Nodes, NodeStep(n) PROVE EffectInv'
  <2>1. UNCHANGED <<log, applied, clientVars, recVars>>
    BY <1>2 DEF NodeStep, Elect, Learn, LeadershipLost, Kill, Start, BecomeLeader,
                LearnLeader, LoseLeadership, Crash, Recover, stateVars
  <2>. QED  BY <1>2, <2>1, NodeAnswer, EffectFrame DEF EffectInv
<1>3. CASE UNCHANGED vars
  <2>1. AnswerInv'
    BY <1>3 DEF vars, raftVars, stateVars, handlerVars, EffectInv, AnswerInv
  <2>. QED  BY <1>3, <2>1, EffectFrame DEF vars, raftVars, stateVars
<1>. QED  BY <1>1, <1>2, <1>3, EffectClient, EffectCommit DEF Next

-----------------------------------------------------------------------------
(* The theorems                                                            *)

\* The inductive invariant holds initially.
LEMMA InitIInv == Init => IInv
<1>. SUFFICES ASSUME Init PROVE IInv
  OBVIOUS
<1>1. BasicInv
  BY InitBasic
<1>2. floating = {} /\ log = <<>> /\ Committed = {} /\ att = <<>> /\ history = <<>>
  BY DEF Init, RaftInit, Committed
<1>3. /\ \A h \in Handlers : stage[h] = "none"
      /\ \A c \in Clients : pc[c] = "idle"
  BY DEF Init
<1>4. LogInv /\ ProposedInv /\ ChainInv /\ DefiniteInv
  BY <1>2, <1>3 DEF LogInv, ProposedInv, ChainInv, DefiniteInv, Proposed
<1>5. InvocationInv /\ ClientInv /\ RecordInv
  BY <1>2, <1>3 DEF InvocationInv, ClientInv, RecordInv
<1>6. ClockInv /\ AnswerInv /\ OkTookEffectInWindow
  BY <1>2, <1>3 DEF ClockInv, AnswerInv, OkTookEffectInWindow
<1>. QED  BY <1>1, <1>4, <1>5, <1>6 DEF IInv

\* Every step preserves the inductive invariant.
LEMMA NextIInv == IInv /\ [Next]_vars => IInv'
<1>. SUFFICES ASSUME IInv, [Next]_vars PROVE IInv'
  OBVIOUS
<1>1. BasicInv /\ CallerInv /\ EffectInv /\ LogInv /\ ProposedInv /\ ChainInv /\ DefiniteInv
  BY DEF IInv, CallerInv, EffectInv
<1>2. HandlerFrame
  BY <1>1, StepFrame
<1>3. BasicInv'
  BY <1>1, NextBasic
<1>4. LogInv' /\ ProposedInv' /\ ChainInv' /\ DefiniteInv'
  BY <1>1, <1>2, LogStep, ProposedStep, ChainStep, DefiniteStep
<1>5. CallerInv'
  <2>1. ASSUME NEW c \in Clients, ClientStep(c) PROVE CallerInv'
    BY <1>1, <1>2, <2>1, CallerStep
  <2>2. ASSUME NEW h \in Handlers, HandlerStep(h) \/ CommitAndApply(h)
        PROVE  UNCHANGED <<clientVars, history>>
    BY <2>2 DEF HandlerStep, Deliver, BadRequest, BadLeaderURL, ApplyDispatch,
                ApplyNotLeader, ApplyEnqueueTimeout, ApplyOk, RejectNotLeader,
                RejectNoLeader, Forward, ProxyRelay, ProxyDialError, ProxyError,
                CommitAndApply, recVars
  <2>3. ASSUME NEW n \in Nodes, NodeStep(n) PROVE UNCHANGED <<clientVars, history>>
    BY <2>3 DEF NodeStep, Elect, Learn, LeadershipLost, Kill, Start, recVars
  <2>4. CASE UNCHANGED vars
    BY <1>1, <1>2, <2>4, CallerFrame DEF vars, clientVars, recVars
  <2>. QED  BY <1>1, <1>2, <2>1, <2>2, <2>3, <2>4, CallerFrame DEF Next, clientVars
<1>6. EffectInv'
  BY <1>1, <1>2, EffectStep DEF CallerInv
<1>. QED  BY <1>3, <1>4, <1>5, <1>6 DEF IInv, CallerInv, EffectInv

\* The inductive invariant always holds.
LEMMA ClusterInvariant == Spec => []IInv
BY InitIInv, NextIInv, PTL DEF Spec

\* What IInv says about an operation reported as failed: its last attempt is
\* closed by RecordInv, the earlier ones by InvocationInv.
FailedHasNoEntry ==
  \A k \in DOMAIN history : history[k].outcome = "failed" =>
    \A h \in floating \cup Committed : InvOf(h) # att[history[k].attempt].inv

\* An operation that Invoke gave up on has no entry and no proposal.
LEMMA NoEntryIfFailed == IInv => FailedHasNoEntry
<1>. SUFFICES ASSUME IInv, NEW k \in DOMAIN history, history[k].outcome = "failed",
                     NEW h \in floating \cup Committed,
                     InvOf(h) = att[history[k].attempt].inv
              PROVE  FALSE
  BY DEF FailedHasNoEntry
<1>1. h \in Handlers
  <2>1. floating \subseteq Handlers /\ log \in Seq(Handlers)
    BY ClusterAssumption DEF IInv, BasicInv, TypeOK, RaftTypeOK
  <2>. QED  BY <2>1 DEF Committed
<1>2. h[1] \in DOMAIN att /\ h[1] \in Nat
  BY <1>1, HopType DEF IInv, BasicInv, Wellformed
<1>. DEFINE b == history[k].attempt
<1>3. RecordOK(history[k])
  BY DEF IInv, RecordInv
<1>4. b \in DOMAIN att /\ h[1] <= b /\ Closed(b)
  BY <1>2, <1>3 DEF RecordOK, InvOf
<1>5. b \in Nat
  BY <1>4 DEF IInv, BasicInv, TypeOK
<1>6. Closed(h[1])
  <2>1. CASE h[1] = b
    BY <1>4, <2>1
  <2>2. CASE h[1] < b
    <3>1. \A x, y \in DOMAIN att : x < y /\ att[x].inv = att[y].inv => Closed(x)
      BY DEF IInv, InvocationInv
    <3>. QED  BY <1>2, <1>4, <2>2, <3>1 DEF InvOf
  <2>. QED  BY <1>2, <1>4, <1>5, <2>1, <2>2
<1>7. Settled(h)
  BY <1>1, <1>6 DEF Closed
<1>. QED  BY <1>7 DEF Settled, Proposed

\* Two entries of one call of Invoke would be of one attempt, because all but
\* the last are closed, and of one handler, because only the last of a chain
\* proposes.
SingleEntry == \A i, j \in DOMAIN log : InvOf(log[i]) = InvOf(log[j]) => i = j

\* One call of Invoke has one entry at most, reads included.
LEMMA OneEntry == IInv => SingleEntry
<1>. SUFFICES ASSUME IInv, NEW i \in DOMAIN log, NEW j \in DOMAIN log,
                     InvOf(log[i]) = InvOf(log[j])
              PROVE  i = j
  BY DEF SingleEntry
<1>. DEFINE g == log[i]
            h == log[j]
<1>1. /\ g \in Handlers /\ h \in Handlers
      /\ g[1] \in DOMAIN att /\ h[1] \in DOMAIN att
  BY EntryType DEF IInv
<1>2. Proposed(g) /\ Proposed(h)
  BY DEF Proposed, Committed
<1>3. ~Closed(g[1]) /\ ~Closed(h[1])
  BY <1>1, <1>2 DEF Closed, Settled
<1>4. stage[g] # "none" /\ stage[h] # "none"
  BY <1>1, <1>2 DEF IInv, ProposedInv
<1>5. att[g[1]].inv = att[h[1]].inv
  BY DEF InvOf
<1>. HIDE DEF g, h
<1>6. g[1] = h[1]
  <2>1. \A x, y \in DOMAIN att : x < y /\ att[x].inv = att[y].inv => Closed(x)
    BY DEF IInv, InvocationInv
  <2>2. ~(g[1] < h[1]) /\ ~(h[1] < g[1])
    BY <1>1, <1>3, <1>5, <2>1
  <2>. QED  BY <1>1, <2>2, HopType
<1>7. g[2] = h[2]
  <2>1. ~(g[2] < h[2]) /\ ~(h[2] < g[2])
    BY <1>1, <1>2, <1>4, <1>6 DEF IInv, ChainInv
  <2>. QED  BY <1>1, <2>1, HopType
<1>8. g = h
  BY <1>1, <1>6, <1>7, PairEqual
<1>. QED  BY <1>8 DEF IInv, LogInv, g, h

\* An operation the client reports as failed - after no_leader, not_leader or
\* a refused connection on every attempt - has no entry in the log and never
\* will have one.
THEOREM ClusterFailedHasNoEffect == Spec => []FailedHasNoEffect
<1>1. IInv => FailedHasNoEffect
  BY NoEntryIfFailed DEF FailedHasNoEffect, FailedHasNoEntry
<1>. QED  BY <1>1, ClusterInvariant, PTL

\* Retries and proxying never put one operation into the log twice.
THEOREM ClusterAtMostOnce == Spec => []AtMostOnce
<1>1. IInv => AtMostOnce
  BY OneEntry DEF AtMostOnce, SingleEntry
<1>. QED  BY <1>1, ClusterInvariant, PTL

\* An acknowledged operation was committed inside its recorded window, with
\* the recorded result.
THEOREM ClusterOkTookEffectInWindow == Spec => []OkTookEffectInWindow
<1>1. IInv => OkTookEffectInWindow
  BY DEF IInv
<1>. QED  BY <1>1, ClusterInvariant, PTL

\* The loop guard holds: no request is proxied twice, although the nodes may
\* disagree about the leader in every way.
THEOREM ClusterOneHop == Spec => []OneHop
<1>1. Init => OneHop
  BY DEF Init, OneHop
<1>2. IInv /\ OneHop /\ [Next]_vars => OneHop'
  BY StepFrame, HopStep DEF IInv
<1>. QED  BY <1>1, <1>2, ClusterInvariant, PTL DEF Spec

-----------------------------------------------------------------------------
(* The invariant the mapping needs                                         *)

\* A call of Invoke is named by its first attempt, and all its attempts ask
\* for the same thing, what Invoke was called with.
RootInv ==
  \A a \in DOMAIN att :
    LET first == att[a].inv
    IN  /\ first \in DOMAIN att
        /\ att[first].inv = first
        /\ att[first].call = att[a].call
        /\ att[a].call \in Calls

RInv == IInv /\ RootInv

\* A new attempt is the first of its call or asks for what the first asked for.
LEMMA RootStart ==
  ASSUME BasicInv, RootInv, NEW c \in Clients, NEW call, NEW inv, NEW n,
         StartAttempt(c, call, inv, n),
         \/ inv = Len(att) + 1 /\ call \in Calls
         \/ \E b \in DOMAIN att : inv = att[b].inv /\ call = att[b].call
  PROVE  RootInv'
<1>. DEFINE a == Len(att) + 1
<1>1. /\ \A x \in DOMAIN att : att'[x] = att[x]
      /\ DOMAIN att' = DOMAIN att \cup {a}
      /\ att'[a].inv = inv /\ att'[a].call = call
  BY AttAppend
<1>. HIDE DEF a
<1>2. \A x \in DOMAIN att :
         /\ att'[x].inv \in DOMAIN att
         /\ att'[att'[x].inv].inv = att'[x].inv
         /\ att'[att'[x].inv].call = att'[x].call
         /\ att'[x].call \in Calls
  BY <1>1 DEF RootInv
<1>3. /\ inv \in DOMAIN att'
      /\ att'[inv].inv = inv /\ att'[inv].call = call /\ call \in Calls
  <2>1. CASE inv = a /\ call \in Calls
    BY <1>1, <2>1
  <2>2. CASE \E b \in DOMAIN att : inv = att[b].inv /\ call = att[b].call
    BY <1>1, <1>2, <2>2
  <2>. QED  BY <2>1, <2>2 DEF a
<1>. QED  BY <1>1, <1>2, <1>3 DEF RootInv

\* Only Invoke and Retry start attempts.
LEMMA RootStep == BasicInv /\ RootInv /\ [Next]_vars => RootInv'
<1>. SUFFICES ASSUME BasicInv, RootInv, [Next]_vars PROVE RootInv'
  OBVIOUS
<1>1. ASSUME NEW c \in Clients, NEW call \in Calls, NEW n \in Nodes, Invoke(c, call, n)
      PROVE  RootInv'
  BY <1>1, RootStart DEF Invoke
<1>2. ASSUME NEW c \in Clients, Retry(c) PROVE RootInv'
  <2>1. cur[c] \in DOMAIN att
    BY <1>2, CurType DEF Retry
  <2>. QED  BY <1>2, <2>1, RootStart DEF Retry
<1>3. ASSUME UNCHANGED att PROVE RootInv'
  BY <1>3 DEF RootInv
<1>4. ASSUME NEW c \in Clients, ClientStep(c),
             ~\E call \in Calls, n \in Nodes : Invoke(c, call, n), ~Retry(c)
      PROVE  UNCHANGED att
  BY <1>4 DEF ClientStep, ReceiveOk, ReceiveUnknown, ReceiveFail, DialError, HTTPError,
              RetryRefused, DeadlinePasses
<1>5. ASSUME NEW h \in Handlers, HandlerStep(h) \/ CommitAndApply(h) PROVE UNCHANGED att
  BY <1>5 DEF HandlerStep, Deliver, BadRequest, BadLeaderURL, ApplyDispatch,
              ApplyNotLeader, ApplyEnqueueTimeout, ApplyOk, RejectNotLeader,
              RejectNoLeader, Forward, ProxyRelay, ProxyDialError, ProxyError,
              CommitAndApply, clientVars
<1>6. ASSUME NEW n \in Nodes, NodeStep(n) PROVE UNCHANGED att
  BY <1>6 DEF NodeStep, Elect, Learn, LeadershipLost, Kill, Start, clientVars
<1>7. CASE UNCHANGED vars
  BY <1>3, <1>7 DEF vars, clientVars
<1>. QED  BY <1>1, <1>2, <1>3, <1>4, <1>5, <1>6, <1>7 DEF Next

\* The invariant of the refinement always holds.
LEMMA RefinementInvariant == Spec => []RInv
<1>1. Init => RootInv
  BY DEF Init, RootInv
<1>2. IInv => BasicInv
  BY DEF IInv
<1>. QED  BY <1>1, <1>2, RootStep, InitIInv, NextIInv, PTL DEF Spec, RInv

-----------------------------------------------------------------------------
(* How the abstract state follows the concrete one                         *)

\* The abstract operations are functions of attempts, log and history.
LEMMA SameView ==
  ASSUME UNCHANGED <<att, log, applied, history>>
  PROVE  UNCHANGED <<absCommand, absOutcome, absEffect, absReturned>>
<1>1. \A i \in Attempts : /\ CommandOf(i)' = CommandOf(i)
                          /\ OutcomeOf(i)' = OutcomeOf(i)
                          /\ EffectOf(i)' = EffectOf(i)
                          /\ ReturnedOf(i)' = ReturnedOf(i)
  <2>. SUFFICES ASSUME NEW i \in Attempts
                PROVE  /\ CommandOf(i)' = CommandOf(i) /\ OutcomeOf(i)' = OutcomeOf(i)
                       /\ EffectOf(i)' = EffectOf(i) /\ ReturnedOf(i)' = ReturnedOf(i)
    OBVIOUS
  <2>1. /\ IsInvocation(i)' <=> IsInvocation(i)
        /\ RecordsOf(i)' = RecordsOf(i) /\ EntriesOf(i)' = EntriesOf(i)
    BY DEF IsInvocation, RecordsOf, EntriesOf, InvOf
  <2>. QED  BY <2>1 DEF CommandOf, OutcomeOf, EffectOf, ReturnedOf
<1>. QED  BY <1>1 DEF absCommand, absOutcome, absEffect, absReturned

\* What attempts, records and entries refer to.
LEMMA References ==
  ASSUME IInv
  PROVE  /\ \A a \in DOMAIN att : a \in Nat /\ att[a].inv <= a /\ att[a].inv \in Nat
         /\ \A k \in DOMAIN history : history[k].attempt \in DOMAIN att
         /\ \A k \in DOMAIN log : log[k] \in Handlers /\ log[k][1] \in DOMAIN att
<1>1. ASSUME NEW a \in DOMAIN att
      PROVE  a \in Nat /\ att[a].inv <= a /\ att[a].inv \in Nat
  <2>1. a \in Nat /\ att[a] \in Attempt
    BY DEF IInv, BasicInv, TypeOK
  <2>2. att[a].inv \in Nat
    BY <2>1, ClusterAssumption DEF Attempt, Attempts
  <2>. QED  BY <2>1, <2>2 DEF IInv, InvocationInv
<1>2. \A k \in DOMAIN history : history[k].attempt \in DOMAIN att
  BY DEF IInv, RecordInv, RecordOK
<1>3. \A k \in DOMAIN log : log[k] \in Handlers /\ log[k][1] \in DOMAIN att
  BY EntryType DEF IInv
<1>. QED  BY <1>1, <1>2, <1>3

\* A new attempt changes what is known of one operation at most, and only when
\* it is the first of it: the operation had no record and no entry.
LEMMA StartView ==
  ASSUME IInv, NEW c \in Clients, NEW call, NEW inv, NEW n,
         StartAttempt(c, call, inv, n), UNCHANGED <<log, applied, history>>,
         NEW a, a = Len(att) + 1
  PROVE  /\ a \in Attempts
         /\ \A i \in Attempts : i # a =>
              /\ CommandOf(i)' = CommandOf(i) /\ OutcomeOf(i)' = OutcomeOf(i)
              /\ EffectOf(i)' = EffectOf(i) /\ ReturnedOf(i)' = ReturnedOf(i)
         /\ CommandOf(a) = NoResult /\ OutcomeOf(a) = "none"
         /\ EffectOf(a) = NoResult /\ ReturnedOf(a) = NoResult
         /\ EffectOf(a)' = NoResult /\ ReturnedOf(a)' = NoResult
         /\ inv = a => CommandOf(a)' = call.cmd /\ OutcomeOf(a)' = "pending"
         /\ inv # a => CommandOf(a)' = NoResult /\ OutcomeOf(a)' = "none"
<1>1. a \in Attempts
  BY DEF StartAttempt
<1>2. /\ \A x \in DOMAIN att : x < a /\ att'[x] = att[x]
      /\ att'[a].inv = inv /\ att'[a].call = call
  BY AttAppend DEF IInv
<1>3. Len(att) \in Nat /\ DOMAIN att = 1 .. Len(att) /\ Len(att') = a
  BY DEF IInv, BasicInv, TypeOK, StartAttempt
<1>5. \A i \in Attempts : i \in Nat \ {0}
  BY ClusterAssumption DEF Attempts
<1>6. \A i : RecordsOf(i)' = RecordsOf(i) /\ EntriesOf(i)' = EntriesOf(i)
  BY <1>2, References DEF RecordsOf, EntriesOf, InvOf
<1>7. RecordsOf(a) = {} /\ EntriesOf(a) = {}
  BY <1>3, References DEF RecordsOf, EntriesOf, InvOf
<1>8. ASSUME NEW i \in Attempts, i # a
      PROVE  /\ CommandOf(i)' = CommandOf(i) /\ OutcomeOf(i)' = OutcomeOf(i)
             /\ EffectOf(i)' = EffectOf(i) /\ ReturnedOf(i)' = ReturnedOf(i)
  <2>1. /\ i > Len(att') <=> i > Len(att)
        /\ i <= Len(att) => i \in DOMAIN att
        /\ i <= Len(att') <=> i <= Len(att)
    BY <1>3, <1>5, <1>8
  <2>2. /\ IsInvocation(i)' <=> IsInvocation(i)
        /\ IsInvocation(i) => att'[i] = att[i]
    BY <1>2, <2>1 DEF IsInvocation
  <2>3. CommandOf(i)' = CommandOf(i)
    BY <2>2 DEF CommandOf
  <2>4. OutcomeOf(i)' = OutcomeOf(i)
    BY <1>6, <2>2 DEF OutcomeOf
  <2>5. EffectOf(i)' = EffectOf(i) /\ ReturnedOf(i)' = ReturnedOf(i)
    BY <1>6, <2>1 DEF EffectOf, ReturnedOf
  <2>. QED  BY <2>3, <2>4, <2>5
<1>9. /\ CommandOf(a) = NoResult /\ OutcomeOf(a) = "none"
      /\ EffectOf(a) = NoResult /\ ReturnedOf(a) = NoResult
      /\ EffectOf(a)' = NoResult /\ ReturnedOf(a)' = NoResult
  <2>1. ~IsInvocation(a)
    BY <1>3 DEF IsInvocation
  <2>2. RecordsOf(a)' = {} /\ EntriesOf(a)' = {}
    BY <1>6, <1>7
  <2>. QED  BY <1>7, <2>1, <2>2 DEF CommandOf, OutcomeOf, EffectOf, ReturnedOf
<1>10. inv = a => CommandOf(a)' = call.cmd /\ OutcomeOf(a)' = "pending"
  <2>. SUFFICES ASSUME inv = a
                PROVE  CommandOf(a)' = call.cmd /\ OutcomeOf(a)' = "pending"
    OBVIOUS
  <2>1. IsInvocation(a)' /\ RecordsOf(a)' = {}
    BY <1>2, <1>3, <1>5, <1>6, <1>7, <1>1 DEF IsInvocation
  <2>. QED  BY <1>2, <2>1 DEF CommandOf, OutcomeOf
<1>11. inv # a => CommandOf(a)' = NoResult /\ OutcomeOf(a)' = "none"
  <2>. SUFFICES ASSUME inv # a
                PROVE  CommandOf(a)' = NoResult /\ OutcomeOf(a)' = "none"
    OBVIOUS
  <2>1. ~IsInvocation(a)'
    BY <1>2 DEF IsInvocation
  <2>. QED  BY <2>1 DEF CommandOf, OutcomeOf
<1>. QED  BY <1>1, <1>8, <1>9, <1>10, <1>11

-----------------------------------------------------------------------------
(* Every step is a step of LinearizableKV or changes nothing of it         *)

\* Invoke begins an operation.
LEMMA InvokeRefines ==
  ASSUME IInv, NEW c \in Clients, NEW call \in Calls, NEW n \in Nodes, Invoke(c, call, n)
  PROVE  \E i \in Attempts, cmd \in Abs!Command : Abs!Begin(i, cmd)
<1>1. PICK a : a = Len(att) + 1
  OBVIOUS
<1>2. /\ StartAttempt(c, call, a, n)
      /\ UNCHANGED <<log, applied, history>> /\ data' = data
  BY <1>1 DEF Invoke, raftVars, stateVars
<1>3. /\ a \in Attempts
      /\ \A i \in Attempts : i # a =>
           /\ CommandOf(i)' = CommandOf(i) /\ OutcomeOf(i)' = OutcomeOf(i)
           /\ EffectOf(i)' = EffectOf(i) /\ ReturnedOf(i)' = ReturnedOf(i)
      /\ OutcomeOf(a) = "none"
      /\ EffectOf(a) = EffectOf(a)' /\ ReturnedOf(a) = ReturnedOf(a)'
      /\ CommandOf(a)' = call.cmd /\ OutcomeOf(a)' = "pending"
  BY <1>1, <1>2, StartView
<1>4. absOutcome[a] = "none"
  BY <1>3 DEF absOutcome
<1>5. absOutcome' = [absOutcome EXCEPT ![a] = "pending"]
  BY <1>3 DEF absOutcome
<1>6. absCommand' = [absCommand EXCEPT ![a] = call.cmd]
  BY <1>3 DEF absCommand
<1>7. UNCHANGED <<data, absEffect, absReturned>>
  BY <1>2, <1>3 DEF absEffect, absReturned
<1>8. call.cmd \in Abs!Command
  BY ClusterAssumption DEF Call, Command, Abs!Command, Ops, Abs!Ops
<1>. QED  BY <1>3, <1>4, <1>5, <1>6, <1>7, <1>8 DEF Abs!Begin

\* Retry begins nothing: the attempt belongs to an operation under way.
LEMMA RetryRefines ==
  ASSUME IInv, NEW c \in Clients, Retry(c)
  PROVE  UNCHANGED Abs!absVars
<1>1. PICK a : a = Len(att) + 1
  OBVIOUS
<1>. DEFINE inv == att[cur[c]].inv
            n   == Rotate[where[<<cur[c], 1>>]]
<1>2. /\ StartAttempt(c, att[cur[c]].call, inv, n)
      /\ UNCHANGED <<log, applied, history>> /\ data' = data
      /\ pc[c] # "idle"
  BY DEF Retry, raftVars, stateVars
<1>3. inv # a
  <2>1. cur[c] \in DOMAIN att
    BY <1>2, CurType DEF IInv
  <2>2. DOMAIN att = 1 .. Len(att) /\ Len(att) \in Nat
    BY DEF IInv, BasicInv, TypeOK
  <2>. QED  BY <1>1, <2>1, <2>2, References
<1>. HIDE DEF inv, n
<1>4. \A i \in Attempts : /\ CommandOf(i)' = CommandOf(i) /\ OutcomeOf(i)' = OutcomeOf(i)
                          /\ EffectOf(i)' = EffectOf(i) /\ ReturnedOf(i)' = ReturnedOf(i)
  BY <1>1, <1>2, <1>3, StartView
<1>. QED
  BY <1>2, <1>4 DEF Abs!absVars, absCommand, absOutcome, absEffect, absReturned

\* A record changes what is known of the operation it is about, which had none.
LEMMA AddView ==
  ASSUME RInv, NEW c \in Clients, pc[c] # "idle", NEW r, r.attempt = cur[c],
         history' = Append(history, r), UNCHANGED <<att, log, applied>>,
         NEW i, i = att[cur[c]].inv
  PROVE  /\ i \in Attempts
         /\ \A j \in Attempts : j # i =>
              OutcomeOf(j)' = OutcomeOf(j) /\ ReturnedOf(j)' = ReturnedOf(j)
         /\ \A j \in Attempts : CommandOf(j)' = CommandOf(j) /\ EffectOf(j)' = EffectOf(j)
         /\ OutcomeOf(i) = "pending" /\ OutcomeOf(i)' = r.outcome
         /\ ReturnedOf(i) = NoResult /\ ReturnedOf(i)' = r.res
<1>1. /\ cur[c] \in DOMAIN att /\ i \in DOMAIN att /\ att[i].inv = i
  BY CurType DEF RInv, RootInv, IInv
<1>2. /\ DOMAIN att = 1 .. Len(att) /\ Len(att) \in Nat
      /\ history \in Seq(Record)
  BY DEF RInv, IInv, BasicInv, TypeOK
<1>3. i \in Attempts /\ IsInvocation(i) /\ ~(i > Len(att))
  <2>1. i \in Attempts
    BY CurType DEF RInv, IInv
  <2>. QED  BY <1>1, <1>2, <2>1 DEF IsInvocation
<1>4. /\ \A k \in DOMAIN history : history'[k] = history[k]
      /\ DOMAIN history' = DOMAIN history \cup {Len(history) + 1}
      /\ Len(history) + 1 \notin DOMAIN history
      /\ history'[Len(history) + 1] = r
  BY <1>2
<1>5. PICK new : new = Len(history) + 1
  OBVIOUS
<1>6. RecordsOf(i) = {}
  <2>1. \A k \in DOMAIN history : RecordOK(history[k])
    BY DEF RInv, IInv, RecordInv
  <2>. QED  BY <2>1 DEF RecordsOf, RecordOK
<1>7. RecordsOf(i)' = {new}
  BY <1>4, <1>5, <1>6 DEF RecordsOf
<1>8. \A j : j # i => RecordsOf(j)' = RecordsOf(j)
  BY <1>4, <1>5 DEF RecordsOf
<1>9. \A j : (IsInvocation(j)' <=> IsInvocation(j)) /\ EntriesOf(j)' = EntriesOf(j)
  BY DEF IsInvocation, EntriesOf, InvOf
<1>10. \A j \in Attempts : CommandOf(j)' = CommandOf(j) /\ EffectOf(j)' = EffectOf(j)
  BY <1>9 DEF CommandOf, EffectOf
<1>11. The({new}) = new
  BY DEF The
<1>12. /\ OutcomeOf(i) = "pending" /\ OutcomeOf(i)' = r.outcome
       /\ ReturnedOf(i) = NoResult /\ ReturnedOf(i)' = r.res
  BY <1>3, <1>4, <1>5, <1>6, <1>7, <1>9, <1>11 DEF OutcomeOf, ReturnedOf
<1>13. ASSUME NEW j \in Attempts, j # i
       PROVE  OutcomeOf(j)' = OutcomeOf(j) /\ ReturnedOf(j)' = ReturnedOf(j)
  <2>1. RecordsOf(j)' = RecordsOf(j)
    BY <1>8, <1>13
  <2>2. RecordsOf(j) # {} => The(RecordsOf(j)) \in DOMAIN history
    BY DEF The, RecordsOf
  <2>. QED  BY <1>4, <1>9, <2>1, <2>2 DEF OutcomeOf, ReturnedOf
<1>. QED  BY <1>3, <1>10, <1>12, <1>13

\* Recorder.add returns from an operation, if the effect it reports is the
\* one the operation had.
LEMMA AddRefines ==
  ASSUME RInv, NEW c \in Clients, pc[c] # "idle", NEW outcome, NEW res,
         Add(c, outcome, res), UNCHANGED <<att, log, applied, data>>,
         NEW i, i = att[cur[c]].inv,
         \/ outcome = "ok" /\ res # NoResult /\ EffectOf(i) = res
         \/ outcome = "failed" /\ res = NoResult /\ EffectOf(i) = NoResult
         \/ outcome = "unknown" /\ res = NoResult
  PROVE  Abs!AbsNext
<1>. DEFINE r == [attempt |-> cur[c], outcome |-> outcome, res |-> res, end |-> now + 1]
<1>1. /\ history' = Append(history, r)
      /\ r.attempt = cur[c] /\ r.outcome = outcome /\ r.res = res
  BY DEF Add
<1>. HIDE DEF r
<1>2. /\ i \in Attempts
      /\ \A j \in Attempts : j # i =>
           OutcomeOf(j)' = OutcomeOf(j) /\ ReturnedOf(j)' = ReturnedOf(j)
      /\ \A j \in Attempts : CommandOf(j)' = CommandOf(j) /\ EffectOf(j)' = EffectOf(j)
      /\ OutcomeOf(i) = "pending" /\ OutcomeOf(i)' = outcome
      /\ ReturnedOf(i) = NoResult /\ ReturnedOf(i)' = res
  BY <1>1, AddView
<1>3. UNCHANGED <<data, absCommand, absEffect>>
  BY <1>2 DEF absCommand, absEffect
<1>4. absOutcome' = [absOutcome EXCEPT ![i] = outcome]
  BY <1>2 DEF absOutcome
<1>5. absReturned' = [absReturned EXCEPT ![i] = res]
  BY <1>2 DEF absReturned
<1>6. res = NoResult => UNCHANGED absReturned
  BY <1>2 DEF absReturned
<1>7. absOutcome[i] = "pending" /\ absEffect[i] = EffectOf(i)
  BY <1>2 DEF absOutcome, absEffect
<1>8. CASE outcome = "ok" /\ res # NoResult /\ EffectOf(i) = res
  <2>1. Abs!ReturnOk(i)
    BY <1>3, <1>4, <1>5, <1>7, <1>8 DEF Abs!ReturnOk
  <2>. QED  BY <1>2, <2>1 DEF Abs!AbsNext
<1>9. CASE outcome = "failed" /\ res = NoResult /\ EffectOf(i) = NoResult
  <2>1. Abs!ReturnFailed(i)
    BY <1>3, <1>4, <1>6, <1>7, <1>9 DEF Abs!ReturnFailed
  <2>. QED  BY <1>2, <2>1 DEF Abs!AbsNext
<1>10. CASE outcome = "unknown" /\ res = NoResult
  <2>1. Abs!ReturnUnknown(i)
    BY <1>3, <1>4, <1>6, <1>7, <1>10 DEF Abs!ReturnUnknown
  <2>. QED  BY <1>2, <2>1 DEF Abs!AbsNext
<1>. QED  BY <1>8, <1>9, <1>10

\* An operation that is answered has the effect of the one entry it has.
LEMMA EffectOfEntry ==
  ASSUME RInv, NEW k \in DOMAIN log, NEW i, i = InvOf(log[k])
  PROVE  EffectOf(i) = applied[k].res /\ EffectOf(i) # NoResult
<1>1. /\ i \in DOMAIN att /\ i \in Nat /\ applied[k].res \in Result
  BY EntryType, References DEF RInv, IInv, RootInv, InvOf
<1>2. ~(i > Len(att))
  BY <1>1 DEF RInv, IInv, BasicInv, TypeOK
<1>3. EntriesOf(i) = {k}
  BY OneEntry DEF RInv, EntriesOf, SingleEntry
<1>4. The({k}) = k
  BY DEF The
<1>. QED  BY <1>1, <1>2, <1>3, <1>4, ClusterAssumption DEF EffectOf

\* An operation that gives up has no entry: its attempts are all closed.
LEMMA GivingUp ==
  ASSUME RInv, IInv', NEW c \in Clients, pc[c] # "idle", Add(c, "failed", NoResult),
         UNCHANGED <<att, log>>
  PROVE  EffectOf(att[cur[c]].inv) = NoResult
<1>. DEFINE r == [attempt |-> cur[c], outcome |-> "failed", res |-> NoResult, end |-> now + 1]
            new == Len(history) + 1
<1>1. history' = Append(history, r) /\ r.attempt = cur[c] /\ r.outcome = "failed"
  BY DEF Add
<1>. HIDE DEF r
<1>2. new \in DOMAIN history' /\ history'[new] = r
  BY <1>1 DEF RInv, IInv, BasicInv, TypeOK
<1>3. FailedHasNoEntry'
  BY NoEntryIfFailed, PTL
<1>4. \A h \in Committed : InvOf(h) # att[cur[c]].inv
  <2>1. Committed' = Committed /\ \A h : InvOf(h)' = InvOf(h)
    BY DEF Committed, InvOf
  <2>2. \A h \in (floating \cup Committed)' : InvOf(h)' # att'[cur[c]].inv
    BY <1>1, <1>2, <1>3 DEF FailedHasNoEntry
  <2>. QED  BY <2>1, <2>2
<1>5. EntriesOf(att[cur[c]].inv) = {}
  BY <1>4 DEF EntriesOf, Committed
<1>. QED  BY <1>5 DEF EffectOf

\* Every step of Invoke begins an operation, returns from one, or is invisible.
LEMMA ClientRefines ==
  ASSUME RInv, IInv', NEW c \in Clients, ClientStep(c)
  PROVE  [Abs!AbsNext]_Abs!absVars
<1>1. ASSUME NEW call \in Calls, NEW n \in Nodes, Invoke(c, call, n) PROVE Abs!AbsNext
  <2>1. PICK i \in Attempts, cmd \in Abs!Command : Abs!Begin(i, cmd)
    BY <1>1, InvokeRefines DEF RInv
  <2>2. absOutcome[i] = "none"
    BY <2>1 DEF Abs!Begin
  <2>. QED  BY <2>1, <2>2 DEF Abs!AbsNext
<1>2. CASE Retry(c)
  BY <1>2, RetryRefines DEF RInv
<1>3. CASE ReceiveOk(c)
  <2>. DEFINE h == <<cur[c], 1>>
  <2>1. /\ pc[c] # "idle" /\ stage[h] = "done" /\ Add(c, "ok", reply[h].res)
        /\ UNCHANGED <<att, log, applied, data>> /\ reply[h].code = "ok"
    BY <1>3 DEF ReceiveOk, Answered, Answer, Class, raftVars, stateVars
  <2>2. h \in Handlers /\ h[1] = cur[c]
    BY <2>1, CurType DEF RInv, IInv
  <2>. HIDE DEF h
  <2>3. PICK k \in DOMAIN log : log[k][1] = cur[c] /\ applied[k].res = reply[h].res
    BY <2>1, <2>2 DEF RInv, IInv, AnswerInv
  <2>4. InvOf(log[k]) = att[cur[c]].inv
    BY <2>3 DEF InvOf
  <2>. QED  BY <2>1, <2>3, <2>4, EffectOfEntry, AddRefines
<1>4. CASE ReceiveUnknown(c) \/ HTTPError(c)
  <2>1. /\ pc[c] # "idle" /\ Add(c, "unknown", NoResult)
        /\ UNCHANGED <<att, log, applied, data>>
    BY <1>4 DEF ReceiveUnknown, HTTPError, Answered, raftVars, stateVars
  <2>. QED  BY <2>1, AddRefines
<1>5. CASE ReceiveFail(c) \/ DialError(c) \/ RetryRefused(c)
  <2>1. pc[c] # "idle" /\ Fail(c) /\ UNCHANGED <<att, log, applied, data>>
    BY <1>5 DEF ReceiveFail, DialError, RetryRefused, Answered, raftVars, stateVars
  <2>2. CASE Add(c, "failed", NoResult)
    BY <2>1, <2>2, GivingUp, AddRefines
  <2>3. CASE BackOff(c)
    BY <2>1, <2>3, SameView DEF BackOff, recVars, Abs!absVars
  <2>. QED  BY <2>1, <2>2, <2>3 DEF Fail
<1>6. CASE DeadlinePasses(c)
  <2>1. UNCHANGED <<att, log, applied, data, history>>
    BY <1>6 DEF DeadlinePasses, raftVars, stateVars, recVars
  <2>. QED  BY <2>1, SameView DEF Abs!absVars
<1>. QED  BY <1>1, <1>2, <1>3, <1>4, <1>5, <1>6 DEF ClientStep

\* A commit changes what is known of the operation it is for, which had no
\* entry.
LEMMA CommitView ==
  ASSUME RInv, IInv', NEW h \in Handlers, CommitAndApply(h),
         NEW i, i = InvOf(h)
  PROVE  /\ i \in Attempts /\ IsInvocation(i)
         /\ EffectOf(i) = NoResult
         /\ EffectOf(i)' = ApplyResult(data, Decoded(CallOf(h).cmd))
         /\ \A j \in Attempts : j # i => EffectOf(j)' = EffectOf(j)
         /\ \A j \in Attempts : /\ CommandOf(j)' = CommandOf(j)
                                /\ OutcomeOf(j)' = OutcomeOf(j)
                                /\ ReturnedOf(j)' = ReturnedOf(j)
<1>. DEFINE res == ApplyResult(data, Decoded(CallOf(h).cmd))
            e   == [res |-> res, at |-> now + 1]
<1>1. /\ h \in floating /\ log' = Append(log, h) /\ applied' = Append(applied, e)
      /\ UNCHANGED <<att, history>> /\ e.res = res
  BY DEF CommitAndApply, Commit, clientVars
<1>. HIDE DEF res, e
<1>2. h[1] \in DOMAIN att
  <2>1. stage[h] # "none"
    BY <1>1 DEF RInv, IInv, BasicInv, Wellformed
  <2>. QED  BY <2>1 DEF RInv, IInv, BasicInv, Wellformed
<1>3. i \in DOMAIN att /\ att[i].inv = i
  BY <1>2 DEF InvOf, RInv, RootInv
<1>4. /\ DOMAIN att = 1 .. Len(att) /\ Len(att) \in Nat /\ Len(att) <= MaxAttempts
      /\ log \in Seq(Handlers) /\ applied \in Seq([res : Result, at : Nat])
      /\ Len(log) = Len(applied)
  BY ClusterAssumption DEF RInv, IInv, BasicInv, TypeOK, RaftTypeOK, Wellformed
<1>5. i \in Attempts /\ IsInvocation(i) /\ ~(i > Len(att))
  BY <1>3, <1>4, ClusterAssumption DEF IsInvocation, Attempts
<1>6. PICK new : new = Len(log) + 1
  OBVIOUS
<1>7. /\ \A k \in DOMAIN log : log'[k] = log[k]
      /\ DOMAIN log' = DOMAIN log \cup {new} /\ new \notin DOMAIN log
      /\ log'[new] = h
  BY <1>1, <1>4, <1>6
<1>8. /\ \A k \in DOMAIN log : applied'[k] = applied[k]
      /\ applied'[new] = e
  BY <1>1, <1>4, <1>6
<1>9. \A g : InvOf(g)' = InvOf(g)
  BY <1>1 DEF InvOf
<1>10. EntriesOf(i) = {}
  <2>1. SingleEntry'
    BY OneEntry, PTL
  <2>2. \A k \in DOMAIN log : InvOf(log[k]) # i
    BY <1>7, <1>9, <2>1 DEF SingleEntry
  <2>. QED  BY <2>2 DEF EntriesOf
<1>11. EntriesOf(i)' = {new}
  BY <1>7, <1>9, <1>10 DEF EntriesOf
<1>12. \A j : j # i => EntriesOf(j)' = EntriesOf(j)
  BY <1>7, <1>9 DEF EntriesOf
<1>13. \A j : RecordsOf(j)' = RecordsOf(j) /\ (IsInvocation(j)' <=> IsInvocation(j))
  BY <1>1 DEF RecordsOf, IsInvocation
<1>14. ASSUME NEW j \in Attempts
       PROVE  /\ CommandOf(j)' = CommandOf(j) /\ OutcomeOf(j)' = OutcomeOf(j)
              /\ ReturnedOf(j)' = ReturnedOf(j)
  BY <1>1, <1>13 DEF CommandOf, OutcomeOf, ReturnedOf
<1>15. The({new}) = new
  BY DEF The
<1>16. EffectOf(i) = NoResult /\ EffectOf(i)' = res
  BY <1>1, <1>5, <1>8, <1>10, <1>11, <1>15 DEF EffectOf
<1>17. ASSUME NEW j \in Attempts, j # i PROVE EffectOf(j)' = EffectOf(j)
  <2>1. EntriesOf(j) # {} => The(EntriesOf(j)) \in DOMAIN log
    BY DEF The, EntriesOf
  <2>2. EntriesOf(j)' = EntriesOf(j) /\ Len(att)' = Len(att)
    BY <1>1, <1>12, <1>17
  <2>3. EntriesOf(j) # {} =>
          applied'[The(EntriesOf(j))].res = applied[The(EntriesOf(j))].res
    BY <1>8, <2>1
  <2>. QED  BY <2>2, <2>3 DEF EffectOf
<1>. QED  BY <1>5, <1>14, <1>16, <1>17 DEF res

\* A key that is UTF-8 comes back from the log as it went in.
LEMMA DecodedIsCommand ==
  ASSUME NEW cmd \in Command, cmd.key \notin Malformed
  PROVE  Decoded(cmd) = cmd
BY DEF Decoded, JSONString, Command

\* A commit makes the operation it is for take effect: nobody was told it
\* failed, and it was not answered ok before.
LEMMA CommitRefines ==
  ASSUME EncodableKeys, RInv, IInv', NEW h \in Handlers, CommitAndApply(h)
  PROVE  Abs!AbsNext
<1>1. PICK i : i = InvOf(h)
  OBVIOUS
<1>2. /\ i \in Attempts /\ IsInvocation(i)
      /\ EffectOf(i) = NoResult
      /\ EffectOf(i)' = ApplyResult(data, Decoded(CallOf(h).cmd))
      /\ \A j \in Attempts : j # i => EffectOf(j)' = EffectOf(j)
      /\ \A j \in Attempts : /\ CommandOf(j)' = CommandOf(j)
                             /\ OutcomeOf(j)' = OutcomeOf(j)
                             /\ ReturnedOf(j)' = ReturnedOf(j)
  BY <1>1, CommitView
<1>3. h \in floating /\ data' = ApplyData(data, Decoded(CallOf(h).cmd))
  BY DEF CommitAndApply, Commit
<1>4. h[1] \in DOMAIN att
  <2>1. stage[h] # "none"
    BY <1>3 DEF RInv, IInv, BasicInv, Wellformed
  <2>. QED  BY <2>1 DEF RInv, IInv, BasicInv, Wellformed
<1>5. CommandOf(i) = CallOf(h).cmd /\ CallOf(h) \in Calls
  BY <1>1, <1>2, <1>4 DEF CommandOf, CallOf, InvOf, RInv, RootInv
<1>6. Decoded(CallOf(h).cmd) = CallOf(h).cmd
  <2>1. CallOf(h).cmd \in Command /\ CallOf(h).cmd.key \notin Malformed
    BY <1>5, ClusterAssumption DEF Call, EncodableKeys
  <2>. QED  BY <2>1, DecodedIsCommand
<1>7. OutcomeOf(i) \in {"pending", "unknown"}
  <2>1. CASE RecordsOf(i) = {}
    BY <1>2, <2>1 DEF OutcomeOf
  <2>2. CASE RecordsOf(i) # {}
    <3>1. PICK k : k = The(RecordsOf(i))
      OBVIOUS
    <3>2. k \in DOMAIN history /\ att[history[k].attempt].inv = i
      BY <2>2, <3>1 DEF The, RecordsOf
    <3>3. OutcomeOf(i) = history[k].outcome
      BY <1>2, <2>2, <3>1 DEF OutcomeOf
    <3>4. history[k].outcome \in Outcomes
      <4>1. history \in Seq(Record)
        BY DEF RInv, IInv, BasicInv, TypeOK
      <4>2. history[k] \in Record
        BY <3>2, <4>1
      <4>. QED  BY <4>2 DEF Record
    <3>5. history[k].outcome # "failed"
      BY <1>1, <1>3, <3>2, NoEntryIfFailed DEF RInv, FailedHasNoEntry
    <3>6. ASSUME history[k].outcome = "ok" PROVE FALSE
      <4>1. PICK e \in DOMAIN log : log[e][1] = history[k].attempt
        BY <3>2, <3>6 DEF RInv, IInv, OkTookEffectInWindow
      <4>2. InvOf(log[e]) = i
        BY <3>2, <4>1 DEF InvOf
      <4>. QED  BY <1>2, <4>2, EffectOfEntry
    <3>. QED  BY <3>3, <3>4, <3>5, <3>6 DEF Outcomes
  <2>. QED  BY <2>1, <2>2
<1>8. /\ absOutcome[i] = OutcomeOf(i) /\ absEffect[i] = NoResult
      /\ absCommand[i] = CallOf(h).cmd
  BY <1>2, <1>5 DEF absOutcome, absEffect, absCommand
<1>9. UNCHANGED <<absCommand, absOutcome, absReturned>>
  BY <1>2 DEF absCommand, absOutcome, absReturned
<1>10. absEffect' = [absEffect EXCEPT ![i] = Abs!ApplyResult(data, absCommand[i])]
  <2>1. Abs!ApplyResult(data, absCommand[i]) = ApplyResult(data, absCommand[i])
    BY DEF Abs!ApplyResult, ApplyResult, Abs!Res, Res, Abs!Present, Present,
           Abs!Lookup, Lookup, Abs!CASMatches, CASMatches
  <2>2. EffectOf(i)' = ApplyResult(data, absCommand[i])
    BY <1>2, <1>6, <1>8
  <2>. QED  BY <1>2, <2>1, <2>2 DEF absEffect
<1>11. data' = Abs!ApplyData(data, absCommand[i])
  <2>1. Abs!ApplyData(data, absCommand[i]) = ApplyData(data, absCommand[i])
    BY DEF Abs!ApplyData, ApplyData, Abs!Present, Present, Abs!CASMatches, CASMatches
  <2>. QED  BY <1>3, <1>6, <1>8, <2>1
<1>12. Abs!TakeEffect(i)
  BY <1>7, <1>8, <1>9, <1>10, <1>11 DEF Abs!TakeEffect
<1>. QED  BY <1>2, <1>12 DEF Abs!AbsNext

\* Handlers and nodes do nothing a client could see.
LEMMA InternalRefines ==
  ASSUME \/ \E h \in Handlers : HandlerStep(h)
         \/ \E n \in Nodes : NodeStep(n)
         \/ UNCHANGED vars
  PROVE  UNCHANGED Abs!absVars
<1>1. ASSUME NEW h \in Handlers, HandlerStep(h)
      PROVE  UNCHANGED <<att, log, applied, history, data>>
  BY <1>1 DEF HandlerStep, Deliver, BadRequest, BadLeaderURL, ApplyDispatch, Propose,
              ApplyNotLeader, ApplyEnqueueTimeout, ApplyOk, RejectNotLeader,
              RejectNoLeader, Forward, ProxyRelay, ProxyDialError, ProxyError,
              clientVars, raftVars, stateVars, recVars
<1>2. ASSUME NEW n \in Nodes, NodeStep(n)
      PROVE  UNCHANGED <<att, log, applied, history, data>>
  BY <1>2 DEF NodeStep, Elect, BecomeLeader, Learn, LearnLeader, LeadershipLost,
              LoseLeadership, Kill, Crash, Start, Recover, clientVars, stateVars, recVars
<1>3. UNCHANGED <<att, log, applied, history, data>>
  BY <1>1, <1>2 DEF vars, clientVars, raftVars, stateVars, recVars
<1>. QED  BY <1>3, SameView DEF Abs!absVars

-----------------------------------------------------------------------------
(* The refinement                                                          *)

\* Before anything is called no operation has begun.
LEMMA InitRefines == Init => Abs!AbsInit
<1>. SUFFICES ASSUME Init PROVE Abs!AbsInit
  OBVIOUS
<1>1. att = <<>> /\ history = <<>> /\ data = EmptyData
  BY DEF Init
<1>2. \A i \in Attempts : i > Len(att)
  BY <1>1, ClusterAssumption DEF Attempts
<1>3. \A i \in Attempts : /\ CommandOf(i) = NoResult /\ OutcomeOf(i) = "none"
                          /\ EffectOf(i) = NoResult /\ ReturnedOf(i) = NoResult
  <2>1. \A i \in Attempts : ~IsInvocation(i)
    BY <1>1, ClusterAssumption DEF IsInvocation, Attempts
  <2>. QED  BY <1>2, <2>1 DEF CommandOf, OutcomeOf, EffectOf, ReturnedOf
<1>4. data = Abs!EmptyData
  BY <1>1 DEF EmptyData, Abs!EmptyData
<1>. QED
  BY <1>3, <1>4 DEF Abs!AbsInit, absCommand, absOutcome, absEffect, absReturned

\* Every step is a step of the atomic store or invisible to it.
LEMMA NextRefines ==
  ASSUME EncodableKeys, RInv, IInv', [Next]_vars
  PROVE  [Abs!AbsNext]_Abs!absVars
<1>1. ASSUME NEW c \in Clients, ClientStep(c) PROVE [Abs!AbsNext]_Abs!absVars
  BY <1>1, ClientRefines
<1>2. ASSUME NEW h \in Handlers, CommitAndApply(h) PROVE Abs!AbsNext
  BY <1>2, CommitRefines
<1>. QED  BY <1>1, <1>2, InternalRefines DEF Next

\* The refinement that the runs check on small instances: the recorded calls
\* of Invoke are operations of an atomic store, each of which takes effect when
\* its one entry is committed and applied (fsm.go Apply), whatever the network,
\* the proxies, the elections and the crashes do in between.
THEOREM ClusterLinearizable ==
  ASSUME EncodableKeys
  PROVE  Spec => Linearizable
<1>1. Init => Abs!AbsInit
  BY InitRefines
<1>2. RInv /\ IInv' /\ [Next]_vars => [Abs!AbsNext]_Abs!absVars
  BY NextRefines
<1>3. Spec => []RInv
  BY RefinementInvariant
<1>4. Spec => []IInv
  BY ClusterInvariant
<1>. QED  BY <1>1, <1>2, <1>3, <1>4, PTL DEF Spec, Linearizable, Abs!AbsSpec

-----------------------------------------------------------------------------
(* What a reader is told                                                   *)

\* Somebody asked for value v to be written under key k.
Written(k, v) ==
  \E a \in DOMAIN att : /\ att[a].call.cmd.op \in {"put", "cas"}
                        /\ att[a].call.cmd.key = k
                        /\ att[a].call.cmd.value = v

\* The map holds values that were asked for, and so do the results of the
\* reads in the log.
WrittenInv ==
  /\ \A k \in Keys : Present(data, k) => Written(k, data[k])
  /\ \A e \in DOMAIN log :
       LET cmd == CallOf(log[e]).cmd
       IN  cmd.op = "get" /\ applied[e].res.present => Written(cmd.key, applied[e].res.value)

\* Attempts are only added, so that what was asked for stays asked for.
LEMMA WrittenFrame ==
  ASSUME RInv, WrittenInv, UNCHANGED <<data, log, applied>>,
         \A x \in DOMAIN att : x \in DOMAIN att' /\ att'[x] = att[x]
  PROVE  WrittenInv'
<1>1. \A k, v : Written(k, v) => Written(k, v)'
  BY DEF Written
<1>2. \A e \in DOMAIN log : CallOf(log[e])' = CallOf(log[e])
  BY References DEF CallOf, RInv
<1>. QED  BY <1>1, <1>2 DEF WrittenInv, Present

\* A commit writes what its own attempt asked for, under the key it named.
LEMMA WrittenCommit ==
  ASSUME EncodableKeys, RInv, WrittenInv, NEW h \in Handlers, CommitAndApply(h)
  PROVE  WrittenInv'
<1>. DEFINE cmd == CallOf(h).cmd
            e   == [res |-> ApplyResult(data, cmd), at |-> now + 1]
<1>1. h[1] \in DOMAIN att
  <2>1. stage[h] # "none"
    BY DEF CommitAndApply, Commit, RInv, IInv, BasicInv, Wellformed
  <2>. QED  BY <2>1 DEF RInv, IInv, BasicInv, Wellformed
<1>2. cmd \in Command /\ Decoded(cmd) = cmd
  <2>1. cmd \in Command /\ cmd.key \notin Malformed
    BY <1>1, ClusterAssumption DEF CallOf, RInv, RootInv, Call, EncodableKeys
  <2>. QED  BY <2>1, DecodedIsCommand
<1>3. /\ log' = Append(log, h) /\ applied' = Append(applied, e)
      /\ data' = ApplyData(data, cmd) /\ UNCHANGED att
  BY <1>2 DEF CommitAndApply, Commit, clientVars
<1>4. /\ data \in Data /\ log \in Seq(Handlers) /\ Len(log) = Len(applied)
      /\ applied \in Seq([res : Result, at : Nat])
  BY ClusterAssumption DEF RInv, IInv, BasicInv, TypeOK, RaftTypeOK, Wellformed
<1>5. /\ cmd.op \in Ops /\ cmd.key \in Keys
      /\ cmd.op \in {"put", "cas"} => Written(cmd.key, cmd.value)
  BY <1>1, <1>2 DEF Command, Written, CallOf
<1>6. \A k, v : Written(k, v)' <=> Written(k, v)
  BY <1>3 DEF Written
<1>7. \A g : CallOf(g)' = CallOf(g)
  BY <1>3 DEF CallOf
<1>8. e.res = ApplyResult(data, cmd)
  OBVIOUS
<1>. HIDE DEF cmd, e
<1>9. ASSUME NEW k \in Keys, Present(data', k) PROVE Written(k, data'[k])
  <2>1. \/ data' = data
        \/ data' = [data EXCEPT ![cmd.key] = Nil]
        \/ cmd.op \in {"put", "cas"} /\ data' = [data EXCEPT ![cmd.key] = cmd.value]
    BY <1>3, <1>5 DEF ApplyData, Ops
  <2>2. data[k] \in Values \cup {Nil} /\ DOMAIN data = Keys
    BY <1>4 DEF Data
  <2>. QED  BY <1>5, <1>9, <2>1, <2>2 DEF WrittenInv, Present
<1>10. cmd.op = "get" /\ e.res.present => Written(cmd.key, e.res.value)
  <2>1. SUFFICES ASSUME cmd.op = "get", e.res.present PROVE Written(cmd.key, e.res.value)
    OBVIOUS
  <2>2. e.res = Res(TRUE, Present(data, cmd.key), Lookup(data, cmd.key))
    BY <1>8, <2>1 DEF ApplyResult
  <2>3. Present(data, cmd.key) /\ e.res.value = data[cmd.key]
    BY <2>1, <2>2 DEF Res, Lookup
  <2>. QED  BY <1>5, <2>3 DEF WrittenInv
<1>11. ASSUME NEW k \in DOMAIN log', CallOf(log'[k]).cmd.op = "get", applied'[k].res.present
       PROVE  Written(CallOf(log'[k]).cmd.key, applied'[k].res.value)
  <2>1. CASE k \in DOMAIN log
    <3>1. log'[k] = log[k] /\ applied'[k] = applied[k]
      BY <1>3, <1>4, <2>1
    <3>. QED  BY <1>11, <2>1, <3>1 DEF WrittenInv
  <2>2. CASE k \notin DOMAIN log
    <3>1. log'[k] = h /\ applied'[k] = e
      BY <1>3, <1>4, <2>2
    <3>. QED  BY <1>10, <1>11, <3>1 DEF cmd
  <2>. QED  BY <2>1, <2>2
<1>. QED  BY <1>6, <1>7, <1>9, <1>11 DEF WrittenInv, Present

\* Only commits change the map and the log.
LEMMA WrittenStep ==
  ASSUME EncodableKeys, RInv, WrittenInv, [Next]_vars
  PROVE  WrittenInv'
<1>1. ASSUME NEW h \in Handlers, CommitAndApply(h) PROVE WrittenInv'
  BY <1>1, WrittenCommit
<1>2. ASSUME NEW c \in Clients, NEW call, NEW inv, NEW n, StartAttempt(c, call, inv, n)
      PROVE  \A x \in DOMAIN att : x \in DOMAIN att' /\ att'[x] = att[x]
  BY <1>2, AttAppend DEF RInv, IInv
<1>3. ASSUME NEW c \in Clients, ClientStep(c)
      PROVE  /\ UNCHANGED <<data, log, applied>>
             /\ \/ UNCHANGED att
                \/ \E call, inv, n : StartAttempt(c, call, inv, n)
  BY <1>3 DEF ClientStep, Invoke, Retry, RetryRefused, DeadlinePasses, ReceiveOk,
              ReceiveUnknown, ReceiveFail, DialError, HTTPError, raftVars, stateVars
<1>4. ASSUME NEW h \in Handlers, HandlerStep(h)
      PROVE  UNCHANGED <<att, data, log, applied>>
  BY <1>4 DEF HandlerStep, Deliver, BadRequest, BadLeaderURL, ApplyDispatch, Propose,
              ApplyNotLeader, ApplyEnqueueTimeout, ApplyOk, RejectNotLeader,
              RejectNoLeader, Forward, ProxyRelay, ProxyDialError, ProxyError,
              clientVars, raftVars, stateVars
<1>5. ASSUME NEW n \in Nodes, NodeStep(n) PROVE UNCHANGED <<att, data, log, applied>>
  BY <1>5 DEF NodeStep, Elect, BecomeLeader, Learn, LearnLeader, LeadershipLost,
              LoseLeadership, Kill, Crash, Start, Recover, clientVars, stateVars
<1>6. CASE UNCHANGED vars
  BY <1>6, WrittenFrame DEF vars, clientVars, raftVars, stateVars
<1>. QED  BY <1>1, <1>2, <1>3, <1>4, <1>5, <1>6, WrittenFrame DEF Next

\* "The cluster never lies to a reader" holds for every value a read returns,
\* as long as the keys are UTF-8: the JSON of the log entry (command.go Encode)
\* is the only thing that can make a read answer for another key.
THEOREM ClusterReadsOwnKey ==
  ASSUME EncodableKeys
  PROVE  Spec => []ReadsOwnKey
<1>1. Init => WrittenInv
  BY DEF Init, WrittenInv, EmptyData, Present, RaftInit
<1>2. RInv /\ WrittenInv /\ [Next]_vars => WrittenInv'
  BY WrittenStep
<1>3. ASSUME RInv, WrittenInv PROVE ReadsOwnKey
  <2>. SUFFICES ASSUME NEW k \in DOMAIN history, history[k].outcome = "ok",
                       att[history[k].attempt].call.cmd.op = "get", history[k].res.present
                PROVE  Written(att[history[k].attempt].call.cmd.key, history[k].res.value)
    BY DEF ReadsOwnKey, Written
  <2>1. PICK e \in DOMAIN log :
          log[e][1] = history[k].attempt /\ applied[e].res = history[k].res
    BY <1>3 DEF RInv, IInv, OkTookEffectInWindow
  <2>. QED  BY <1>3, <2>1 DEF WrittenInv, CallOf
<1>. QED  BY <1>1, <1>2, <1>3, RefinementInvariant, PTL DEF Spec
================================================================================
