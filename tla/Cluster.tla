-------------------------------- MODULE Cluster --------------------------------
(***************************************************************************)
(* Clients, HTTP handlers and the replicated log of a quorum cluster.      *)
(*                                                                         *)
(*  - a client (harness/client.go) runs Invoke: it sends an operation to   *)
(*    one node, classifies the answer, and goes on to the next node only   *)
(*    after a definite failure;                                            *)
(*  - a node (server/http.go) hands the command to Raft.Apply, or, when it *)
(*    is not the leader, proxies the request to the node it believes leads *)
(*    or rejects it;                                                       *)
(*  - the log is module RaftService, the state machine module KV; the      *)
(*    handler that called Raft.Apply identifies the proposal.              *)
(*                                                                         *)
(* One call of doAttempt is an attempt.  It causes a chain of HTTP         *)
(* handlers, the first on the node the client addressed and one more for   *)
(* every proxied hop; handler <<a, i>> is the i-th handler of attempt a.   *)
(* A client that stops waiting does not stop the handlers.                 *)
(*                                                                         *)
(* now is the recorder's clock: it ticks when an attempt starts, when an   *)
(* operation is recorded and when an entry is committed, so that clock     *)
(* readings are ordered as the events are.                                 *)
(***************************************************************************)
EXTENDS KV, RaftService, FiniteSets

CONSTANTS
  Clients,       \* goroutines that call Invoke, one operation at a time
  Calls,         \* the arguments Invoke is called with
  Rotate,        \* Rotate[n]: the node after n in Client.Nodes, cyclically
  NoResult,      \* the result field of an answer that carries none
  Electable,     \* bound: nodes that can become leader
  Killable,      \* bound: nodes that can be killed
  MaxAttempts,   \* bound: attempts in a behaviour
  MaxHops        \* bound: handlers an attempt can cause

Attempts == 1 .. MaxAttempts

Handlers == Attempts \X (1 .. MaxHops)

VARIABLES
  \* the state machine at the end of the committed log, and what Apply
  \* returned for each entry of it, with the clock reading of its commit
  data, applied,
  \* the handlers: where each runs, how far it got, what it answered
  where, stage, reply,
  \* the attempts: att[a] is written when attempt a starts
  att,
  \* the clients: program counter, the attempt it last started, and whether
  \* the overall deadline of its call had passed when that attempt started
  pc, cur, overdue,
  \* the recorder
  now, history

stateVars   == <<data, applied>>
handlerVars == <<where, stage, reply>>
clientVars  == <<att, pc, cur, overdue>>
recVars     == <<now, history>>

vars == <<raftVars, stateVars, handlerVars, clientVars, recVars>>

-----------------------------------------------------------------------------
(* Types                                                                   *)

\* cmd and noProxy are doAttempt's arguments; pin is Invoke's, NoNode for nil.
Call == [cmd : Command, noProxy : BOOLEAN, pin : Nodes \cup {NoNode}]

ASSUME ClusterAssumption ==
  /\ NoNode \notin Nodes
  /\ Proposals = Handlers
  /\ NoResult \notin Result
  /\ Calls \subseteq Call
  /\ Rotate \in [Nodes -> Nodes]
  /\ Electable \subseteq Nodes /\ Killable \subseteq Nodes
  /\ MaxAttempts \in Nat
  /\ MaxHops \in Nat \ {0}

\* How far a handler got.
Stages == {"none",      \* no such handler (yet)
           "sent",      \* the request is on its way to the node
           "void",      \* the connection was never made
           "arrived",   \* the handler runs, before Raft.Apply
           "rejected",  \* Raft.Apply returned ErrNotLeader
           "applying",  \* dispatched: waiting for the future
           "proxying",  \* waiting for the next handler's answer
           "done",      \* the answer is written
           "dead"}      \* the process was killed under it

Running == {"arrived", "rejected", "applying", "proxying"}

Codes == {"ok", "apply_failed", "not_leader", "no_leader", "bad_request", "proxy_error",
          "internal"}

\* The server's promise that the operation was not applied.
Definite == {"no_leader", "not_leader", "bad_request"}

Reply == [code : Codes, res : Result \cup {NoResult}]

NoReply == [code |-> "proxy_error", res |-> NoResult]

\* inv is the attempt that began the same call of Invoke.
Attempt == [client : Clients, call : Call, inv : Attempts, start : Nat]

Outcomes == {"ok", "failed", "unknown"}

Record == [attempt : Attempts, outcome : Outcomes,
           res : Result \cup {NoResult}, end : Nat]

TypeOK ==
  /\ RaftTypeOK
  /\ data \in Data
  /\ applied \in Seq([res : Result, at : Nat])
  /\ where \in [Handlers -> Nodes \cup {NoNode}]
  /\ stage \in [Handlers -> Stages]
  /\ reply \in [Handlers -> Reply]
  /\ att \in Seq(Attempt)
  /\ Len(att) <= MaxAttempts
  /\ pc \in [Clients -> {"idle", "waiting", "backoff"}]
  /\ cur \in [Clients -> 0 .. MaxAttempts]
  /\ overdue \in [Clients -> BOOLEAN]
  /\ now \in Nat
  /\ history \in Seq(Record)

Init ==
  /\ RaftInit
  /\ data = EmptyData
  /\ applied = <<>>
  /\ where = [h \in Handlers |-> NoNode]
  /\ stage = [h \in Handlers |-> "none"]
  /\ reply = [h \in Handlers |-> NoReply]
  /\ att = <<>>
  /\ pc = [c \in Clients |-> "idle"]
  /\ cur = [c \in Clients |-> 0]
  /\ overdue = [c \in Clients |-> FALSE]
  /\ now = 0
  /\ history = <<>>

-----------------------------------------------------------------------------
(* The client: Invoke and doAttempt                                        *)

\* Recorder.add of the operation c is running; c returns from Invoke, and its
\* deadline with it.
Add(c, outcome, res) ==
  /\ now' = now + 1
  /\ history' = Append(history, [attempt |-> cur[c], outcome |-> outcome,
                                 res |-> res, end |-> now + 1])
  /\ pc' = [pc EXCEPT ![c] = "idle"]
  /\ overdue' = [overdue EXCEPT ![c] = FALSE]

\* The loop body of Invoke up to the request being sent to node n.
StartAttempt(c, call, inv, n) ==
  LET a == Len(att) + 1
  IN  /\ a \in Attempts
      /\ att' = Append(att, [client |-> c, call |-> call, inv |-> inv,
                             start |-> now + 1])
      /\ where' = [where EXCEPT ![<<a, 1>>] = n]
      /\ stage' = [stage EXCEPT ![<<a, 1>>] = "sent"]
      /\ pc' = [pc EXCEPT ![c] = "waiting"]
      /\ cur' = [cur EXCEPT ![c] = a]
      /\ now' = now + 1
      /\ UNCHANGED overdue

Invoke(c, call, n) ==
  /\ pc[c] = "idle"
  /\ call.pin # NoNode => n = call.pin
  /\ StartAttempt(c, call, Len(att) + 1, n)
  /\ UNCHANGED <<raftVars, stateVars, reply, history>>

\* After the 150 ms backoff: the next node, with a new invocation time.
Retry(c) ==
  /\ pc[c] = "backoff"
  /\ StartAttempt(c, att[cur[c]].call, att[cur[c]].inv,
                  Rotate[where[<<cur[c], 1>>]])
  /\ UNCHANGED <<raftVars, stateVars, reply, history>>

Pinned(c) == att[cur[c]].call.pin # NoNode

\* After 150 ms, the next node.
BackOff(c) == pc' = [pc EXCEPT ![c] = "backoff"] /\ UNCHANGED <<overdue, recVars>>

\* The class "fail" recorded as the outcome.
Fail_RawClass(c) ==
  \/ Add(c, "fail", NoResult)
  \/ ~overdue[c] /\ ~Pinned(c) /\ BackOff(c)

\* A loop that does not look at its deadline.
Fail_NoDeadline(c) ==
  \/ Pinned(c) /\ Add(c, "failed", NoResult)
  \/ ~Pinned(c) /\ BackOff(c)

\* The case "fail" of Invoke: give up, because the node is pinned or the overall
\* deadline has passed - before the attempt or, at any time, during it - or go on.
Fail(c) ==
  \/ Add(c, "failed", NoResult)
  \/ ~overdue[c] /\ ~Pinned(c) /\ BackOff(c)

\* A proxy error taken for a definite rejection.
Class_ProxyErrorDefinite(code) ==
  CASE code = "ok"           -> "ok"
    [] code = "apply_failed" -> "unknown"
    [] OTHER                 -> "fail"

\* doAttempt's verdict on an answer.
Class(code) ==
  CASE code = "ok"       -> "ok"
    [] code \in Definite -> "fail"
    [] OTHER             -> "unknown"

Answered(c) == pc[c] = "waiting" /\ stage[<<cur[c], 1>>] = "done"

Answer(c) == reply[<<cur[c], 1>>]

ReceiveOk(c) ==
  /\ Answered(c)
  /\ Class(Answer(c).code) = "ok"
  /\ Add(c, "ok", Answer(c).res)
  /\ UNCHANGED <<raftVars, stateVars, handlerVars, att, cur>>

ReceiveUnknown(c) ==
  /\ Answered(c)
  /\ Class(Answer(c).code) = "unknown"
  /\ Add(c, "unknown", NoResult)
  /\ UNCHANGED <<raftVars, stateVars, handlerVars, att, cur>>

ReceiveFail(c) ==
  /\ Answered(c)
  /\ Class(Answer(c).code) = "fail"
  /\ Fail(c)
  /\ UNCHANGED <<raftVars, stateVars, handlerVars, att, cur>>

\* isDefinitelyNotSent: refused, or the dial failed; nothing was delivered.
DialError(c) ==
  /\ pc[c] = "waiting"
  /\ stage[<<cur[c], 1>>] = "sent"
  /\ stage' = [stage EXCEPT ![<<cur[c], 1>>] = "void"]
  /\ Fail(c)
  /\ UNCHANGED <<raftVars, stateVars, where, reply, att, cur>>

\* Any other error of HTTP.Do: the 4 s timeout, a reset, a body cut short.
HTTPError(c) ==
  /\ pc[c] = "waiting"
  /\ Add(c, "unknown", NoResult)
  /\ UNCHANGED <<raftVars, stateVars, handlerVars, att, cur>>

\* The rounds of the loop that MaxAttempts leaves no attempt for, any number of
\* them: the connection is refused, so they leave nothing behind.
RetryRefused(c) ==
  /\ pc[c] = "backoff"
  /\ Len(att) = MaxAttempts
  /\ Fail(c)
  /\ UNCHANGED <<raftVars, stateVars, handlerVars, att, cur>>

\* The overall deadline passes during the backoff.
DeadlinePasses(c) ==
  /\ pc[c] = "backoff"
  /\ ~overdue[c]
  /\ overdue' = [overdue EXCEPT ![c] = TRUE]
  /\ UNCHANGED <<raftVars, stateVars, handlerVars, att, pc, cur, recVars>>

-----------------------------------------------------------------------------
(* The server: apply and proxyOrReject                                     *)

CallOf(h) == att[h[1]].call

NextHop(h) == <<h[1], h[2] + 1>>

\* hdrForwarded is set by the proxy, and by nobody else.
Forwarded(h) == h[2] > 1

\* writeJSON / writeErr: the handler returns.
Write(h, code, res) ==
  /\ stage' = [stage EXCEPT ![h] = "done"]
  /\ reply' = [reply EXCEPT ![h] = [code |-> code, res |-> res]]

\* The request reaches the node's HTTP server.
Deliver(h) ==
  /\ stage[h] = "sent"
  /\ up[where[h]]
  /\ stage' = [stage EXCEPT ![h] = "arrived"]
  /\ UNCHANGED <<raftVars, stateVars, where, reply, clientVars, recVars>>

\* 400: the body of the request breaks off.
BadRequest(h) ==
  /\ stage[h] = "arrived"
  /\ Write(h, "bad_request", NoResult)
  /\ UNCHANGED <<raftVars, stateVars, where, clientVars, recVars>>

\* Raft.Apply on the leader: the entry is appended, the handler waits.
ApplyDispatch(h) ==
  /\ stage[h] = "arrived"
  /\ Propose(where[h], h)
  /\ stage' = [stage EXCEPT ![h] = "applying"]
  /\ UNCHANGED <<stateVars, where, reply, clientVars, recVars>>

\* Raft.Apply on any other node: ErrNotLeader, nothing was appended.
ApplyNotLeader(h) ==
  /\ stage[h] = "arrived"
  /\ role[where[h]] # "leader"
  /\ stage' = [stage EXCEPT ![h] = "rejected"]
  /\ UNCHANGED <<raftVars, stateVars, where, reply, clientVars, recVars>>

\* Raft.Apply could not hand the entry to the main loop within ApplyTimeout.
ApplyEnqueueTimeout(h) ==
  /\ stage[h] = "arrived"
  /\ Write(h, "apply_failed", NoResult)
  /\ UNCHANGED <<raftVars, stateVars, where, clientVars, recVars>>

\* Acknowledging as soon as the leader has the entry in its own log.
ApplyOk_BeforeCommit(h) ==
  /\ stage[h] = "applying"
  /\ Write(h, "ok", ApplyResult(data, Decoded(CallOf(h).cmd)))
  /\ UNCHANGED <<raftVars, stateVars, where, clientVars, recVars>>

\* The future resolves without error: 200 with the Result of FSM.Apply.
ApplyOk(h) ==
  /\ stage[h] = "applying"
  /\ \E i \in DOMAIN log : log[i] = h /\ Write(h, "ok", applied[i].res)
  /\ UNCHANGED <<raftVars, stateVars, where, clientVars, recVars>>

RejectNotLeader(h) ==
  /\ stage[h] = "rejected"
  /\ CallOf(h).noProxy
  /\ Write(h, "not_leader", NoResult)
  /\ UNCHANGED <<raftVars, stateVars, where, clientVars, recVars>>

\* LeaderHTTPURL is "" when no leader is known or the node itself leads.
NoLeaderURL(h) == hint[where[h]] \in {NoNode, where[h]}

RejectNoLeader(h) ==
  /\ stage[h] = "rejected"
  /\ ~CallOf(h).noProxy
  /\ NoLeaderURL(h) \/ Forwarded(h)
  /\ Write(h, "no_leader", NoResult)
  /\ UNCHANGED <<raftVars, stateVars, where, clientVars, recVars>>

\* 500 internal: the address of the leader is not a URL.
BadLeaderURL(h) ==
  /\ stage[h] = "rejected"
  /\ ~CallOf(h).noProxy
  /\ ~NoLeaderURL(h) /\ ~Forwarded(h)
  /\ Write(h, "internal", NoResult)
  /\ UNCHANGED <<raftVars, stateVars, where, clientVars, recVars>>

\* A proxy without the loop guard.
Forward_NoLoopGuard(h) ==
  /\ stage[h] = "rejected"
  /\ ~CallOf(h).noProxy
  /\ ~NoLeaderURL(h)
  /\ NextHop(h) \in Handlers
  /\ where' = [where EXCEPT ![NextHop(h)] = hint[where[h]]]
  /\ stage' = [stage EXCEPT ![h] = "proxying", ![NextHop(h)] = "sent"]
  /\ UNCHANGED <<raftVars, stateVars, reply, clientVars, recVars>>

Forward(h) ==
  /\ stage[h] = "rejected"
  /\ ~CallOf(h).noProxy
  /\ ~NoLeaderURL(h) /\ ~Forwarded(h)
  /\ NextHop(h) \in Handlers
  /\ where' = [where EXCEPT ![NextHop(h)] = hint[where[h]]]
  /\ stage' = [stage EXCEPT ![h] = "proxying", ![NextHop(h)] = "sent"]
  /\ UNCHANGED <<raftVars, stateVars, reply, clientVars, recVars>>

\* The reverse proxy copies the answer back.
ProxyRelay(h) ==
  /\ stage[h] = "proxying"
  /\ stage[NextHop(h)] = "done"
  /\ Write(h, reply[NextHop(h)].code, reply[NextHop(h)].res)
  /\ UNCHANGED <<raftVars, stateVars, where, clientVars, recVars>>

\* ErrorHandler, the believed leader could not be connected to.
ProxyDialError(h) ==
  /\ stage[h] = "proxying"
  /\ stage[NextHop(h)] = "sent"
  /\ stage' = [stage EXCEPT ![h] = "done", ![NextHop(h)] = "void"]
  /\ reply' = [reply EXCEPT ![h] = [code |-> "proxy_error", res |-> NoResult]]
  /\ UNCHANGED <<raftVars, stateVars, where, clientVars, recVars>>

\* A proxy transport without ResponseHeaderTimeout.
ProxyError_NoTimeout(h) ==
  /\ stage[h] = "proxying"
  /\ stage[NextHop(h)] = "dead"
  /\ Write(h, "proxy_error", NoResult)
  /\ UNCHANGED <<raftVars, stateVars, where, clientVars, recVars>>

\* ErrorHandler, ResponseHeaderTimeout or a broken connection: the request
\* may be anywhere on the believed leader.
ProxyError(h) ==
  /\ stage[h] = "proxying"
  /\ Write(h, "proxy_error", NoResult)
  /\ UNCHANGED <<raftVars, stateVars, where, clientVars, recVars>>

-----------------------------------------------------------------------------
(* The log, the state machine and the faults                               *)

\* A proposal is committed and FSM.Apply runs on its command.
CommitAndApply(h) ==
  LET cmd == Decoded(CallOf(h).cmd)
  IN  /\ Commit(h)
      /\ now' = now + 1
      /\ data' = ApplyData(data, cmd)
      /\ applied' = Append(applied, [res |-> ApplyResult(data, cmd), at |-> now + 1])
      /\ UNCHANGED <<handlerVars, clientVars, history>>

Elect(n) ==
  /\ n \in Electable
  /\ BecomeLeader(n)
  /\ UNCHANGED <<stateVars, handlerVars, clientVars, recVars>>

Learn(n, m) ==
  /\ LearnLeader(n, m)
  /\ UNCHANGED <<stateVars, handlerVars, clientVars, recVars>>

\* The futures that leaving the leader state fails: every one whose entry is
\* not committed, and maybe one whose commit this leader has not noticed yet.
Abandoned(n) ==
  LET inFlight == {h \in Handlers : where[h] = n /\ stage[h] = "applying"}
  IN  {failing \in SUBSET inFlight : inFlight \cap floating \subseteq failing}

\* ErrLeadershipLost answered like ErrNotLeader.
LeadershipLost_Reject(n) ==
  /\ LoseLeadership(n)
  /\ \E failing \in Abandoned(n) :
       stage' = [h \in Handlers |-> IF h \in failing THEN "rejected" ELSE stage[h]]
  /\ UNCHANGED <<stateVars, where, reply, clientVars, recVars>>

\* n leaves the leader state: ErrLeadershipLost, answered 500 apply_failed.
LeadershipLost(n) ==
  /\ LoseLeadership(n)
  /\ \E failing \in Abandoned(n) :
       /\ stage' = [h \in Handlers |-> IF h \in failing THEN "done" ELSE stage[h]]
       /\ reply' = [h \in Handlers |->
                      IF h \in failing THEN [code |-> "apply_failed", res |-> NoResult]
                                       ELSE reply[h]]
  /\ UNCHANGED <<stateVars, where, clientVars, recVars>>

\* docker kill -s KILL: the handlers of the process are gone.
Kill(n) ==
  /\ n \in Killable
  /\ Crash(n)
  /\ stage' = [h \in Handlers |-> IF where[h] = n /\ stage[h] \in Running
                                   THEN "dead" ELSE stage[h]]
  /\ UNCHANGED <<stateVars, where, reply, clientVars, recVars>>

\* docker start: NewNode over the same data directory.
Start(n) ==
  /\ Recover(n)
  /\ UNCHANGED <<stateVars, handlerVars, clientVars, recVars>>

-----------------------------------------------------------------------------
(* Specification                                                           *)

ClientStep(c) ==
  \/ \E call \in Calls, n \in Nodes : Invoke(c, call, n)
  \/ Retry(c)
  \/ ReceiveOk(c)
  \/ ReceiveUnknown(c)
  \/ ReceiveFail(c)
  \/ DialError(c)
  \/ HTTPError(c)
  \/ RetryRefused(c)
  \/ DeadlinePasses(c)

HandlerStep(h) ==
  \/ Deliver(h)
  \/ BadRequest(h)
  \/ ApplyDispatch(h)
  \/ ApplyNotLeader(h)
  \/ ApplyEnqueueTimeout(h)
  \/ ApplyOk(h)
  \/ RejectNotLeader(h)
  \/ RejectNoLeader(h)
  \/ BadLeaderURL(h)
  \/ Forward(h)
  \/ ProxyRelay(h)
  \/ ProxyDialError(h)
  \/ ProxyError(h)

NodeStep(n) ==
  \/ Elect(n)
  \/ \E m \in Nodes \cup {NoNode} : Learn(n, m)
  \/ LeadershipLost(n)
  \/ Kill(n)
  \/ Start(n)

Next ==
  \/ \E c \in Clients : ClientStep(c)
  \/ \E h \in Handlers : HandlerStep(h) \/ CommitAndApply(h)
  \/ \E n \in Nodes : NodeStep(n)

Spec == Init /\ [][Next]_vars

\* What ends the wait of a client: an answer, or the timeout of http.Client; and
\* the backoff: another attempt or, once the deadline has passed, the end.
ClientMoves(c) ==
  \/ Retry(c)
  \/ overdue[c] /\ RetryRefused(c)
  \/ ReceiveOk(c) \/ ReceiveUnknown(c) \/ ReceiveFail(c) \/ HTTPError(c)

\* What a handler does by itself, ResponseHeaderTimeout included.
HandlerMoves(h) ==
  \/ ApplyDispatch(h) \/ ApplyNotLeader(h) \/ ApplyEnqueueTimeout(h)
  \/ ApplyOk(h)
  \/ RejectNotLeader(h) \/ RejectNoLeader(h) \/ Forward(h)
  \/ ProxyRelay(h) \/ ProxyError(h)

\* A leader commits what it dispatched, or its lease lapses.
Settle(h) ==
  /\ stage[h] = "applying"
  /\ CommitAndApply(h) \/ LeadershipLost(where[h])

\* Time passes: of a call's backoffs, some are after its deadline, or they end.
\* Nothing is assumed of the network, of elections or of restarts.
Fairness ==
  /\ \A c \in Clients : WF_vars(ClientMoves(c)) /\ SF_vars(DeadlinePasses(c))
  /\ \A h \in Handlers : WF_vars(HandlerMoves(h)) /\ WF_vars(Settle(h))

FairSpec == Spec /\ Fairness

-----------------------------------------------------------------------------
(* Properties                                                              *)

InvOf(h) == att[h[1]].inv

\* Reads are left out of the next two: net/http may send a GET twice, and a
\* read that is in the log twice does no harm.
IsWrite(h) == CallOf(h).cmd.op # "get"

\* A write that Invoke reports as failed has no entry in the log and no
\* proposal in flight, from any of its attempts, on any node, then or later:
\* 503 no_leader, 421 not_leader and a refused connection are "definitely not
\* applied" (http.go's error contract, isDefinitelyNotSent).
FailedHasNoEffect ==
  \A k \in DOMAIN history :
    history[k].outcome = "failed" =>
      \A h \in floating \cup Committed :
        IsWrite(h) => InvOf(h) # att[history[k].attempt].inv

\* However often Invoke retries and the servers proxy, one call of Invoke puts
\* at most one write into the committed log.
AtMostOnce ==
  \A i, j \in DOMAIN log :
    IsWrite(log[i]) /\ InvOf(log[i]) = InvOf(log[j]) => i = j

\* An operation recorded as ok was committed after the start and before the
\* end of its recorded window, and the recorded result is the one FSM.Apply
\* computed at that place of the log.
OkTookEffectInWindow ==
  \A k \in DOMAIN history :
    history[k].outcome = "ok" =>
      \E i \in DOMAIN log :
        /\ log[i][1] = history[k].attempt
        /\ applied[i].res = history[k].res
        /\ att[history[k].attempt].start < applied[i].at
        /\ applied[i].at < history[k].end

\* A request is proxied at most once, whatever the nodes believe about the
\* leader (the X-Quorum-Forwarded loop guard).
OneHop == \A h \in Handlers : h[2] > 2 => stage[h] = "none"

\* A call of Invoke always returns, whatever happens to the requests and
\* however often it is turned away: each wait has its timeout, and the loop of
\* retries, which counts nothing, has the overall deadline.
InvokeReturns == \A c \in Clients : pc[c] # "idle" ~> pc[c] = "idle"

\* No handler waits forever, although the wait for the Raft future has no
\* timeout of its own (ApplyTimeout only bounds the enqueueing).
HandlersFinish ==
  \A h \in Handlers : stage[h] \in Running ~> stage[h] \in {"done", "dead"}

\* http.go says of a leader that cannot be connected to: "the client will
\* retry once a new leader emerges".  So a client that is answered by a proxy
\* whose connection to the leader was never made goes on to the next node.
UnconnectableLeaderIsRetried ==
  \A c \in Clients :
    /\ Answered(c)
    /\ Answer(c).code = "proxy_error"
    /\ stage[NextHop(<<cur[c], 1>>)] = "void"
    => Class(Answer(c).code) = "fail"

\* "The cluster never lies to a reader" (README): a read that found a value
\* found one that somebody asked to be written under that very key.
ReadsOwnKey ==
  \A k \in DOMAIN history :
    LET cmd == att[history[k].attempt].call.cmd
    IN  /\ history[k].outcome = "ok"
        /\ cmd.op = "get"
        /\ history[k].res.present
        => \E a \in DOMAIN att : /\ att[a].call.cmd.op \in {"put", "cas"}
                                 /\ att[a].call.cmd.key = cmd.key
                                 /\ att[a].call.cmd.value = history[k].res.value

-----------------------------------------------------------------------------
(* The promise to clients: the recorded operations implement LinearizableKV.
   The operations are the calls of Invoke, named by their first attempt.   *)

IsInvocation(i) == i <= Len(att) /\ att[i].inv = i

RecordsOf(i) == {k \in DOMAIN history : att[history[k].attempt].inv = i}

EntriesOf(i) == {k \in DOMAIN log : InvOf(log[k]) = i}

The(S) == CHOOSE x \in S : TRUE

CommandOf(i) == IF IsInvocation(i) THEN att[i].call.cmd ELSE NoResult

OutcomeOf(i) ==
  IF ~IsInvocation(i) THEN "none"
  ELSE IF RecordsOf(i) = {} THEN "pending"
  ELSE history[The(RecordsOf(i))].outcome

EffectOf(i) ==
  IF i > Len(att) \/ EntriesOf(i) = {} THEN NoResult
  ELSE applied[The(EntriesOf(i))].res

ReturnedOf(i) ==
  IF i > Len(att) \/ RecordsOf(i) = {} THEN NoResult
  ELSE history[The(RecordsOf(i))].res

absCommand  == [i \in Attempts |-> CommandOf(i)]
absOutcome  == [i \in Attempts |-> OutcomeOf(i)]
absEffect   == [i \in Attempts |-> EffectOf(i)]
absReturned == [i \in Attempts |-> ReturnedOf(i)]

Abs == INSTANCE LinearizableKV WITH
         Invocations <- Attempts, NoCommand <- NoResult,
         command <- absCommand, outcome <- absOutcome,
         effect <- absEffect, returned <- absReturned

\* Every behaviour of clients, servers and log is one the atomic store allows,
\* when the calls name keys that are UTF-8.
Linearizable == Abs!AbsSpec

EncodableKeys == \A call \in Calls : call.cmd.key \notin Malformed
===============================================================================
