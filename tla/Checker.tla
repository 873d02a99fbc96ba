-------------------------------- MODULE Checker --------------------------------
(***************************************************************************)
(* Package checker: the verdict on a recorded client history.              *)
(*                                                                         *)
(* ToOperations and Model are translated from internal/checker; the search *)
(* of the porcupine library (external) is its definition: a history is     *)
(* accepted when, key by key, some order of its operations respects real   *)
(* time and is accepted step by step by the model.                         *)
(*                                                                         *)
(* The specification below records arbitrary histories, one call and one   *)
(* return at a time: whatever a store could have answered, right or wrong. *)
(* The verdict is compared with a reference that is stated over the state  *)
(* machine of module KV and decides of every operation of unknown outcome  *)
(* whether it took effect or not.                                          *)
(***************************************************************************)
EXTENDS KV, Naturals, SequencesExt

CONSTANTS
  Clients,      \* recording clients, one operation at a time
  Commands,     \* the commands they issue
  Outcomes,     \* the outcome strings a record can carry
  MaxOps        \* bound: operations in a history

VARIABLES
  now,        \* the recorder's clock
  pending,    \* pending[c]: the operation c has under way, or NoOp
  history     \* the recorded operations, in the order of their returns

vars == <<now, pending, history>>

NoOp == [start |-> 0]

\* history.Op; res holds ok, present and ret_val, zero values unless "ok".
Op == [cmd : Commands, start : Nat, end : Nat, outcome : Outcomes, res : Result]

ASSUME CheckerAssumption ==
  /\ Commands \subseteq Command
  /\ {"ok", "failed", "unknown"} \subseteq Outcomes
  /\ MaxOps \in Nat

ZeroResult == Res(FALSE, FALSE, Empty)

-----------------------------------------------------------------------------
(* ToOperations                                                            *)

\* One past the last timestamp of the history.
Horizon(ops) ==
  1 + Max({0} \cup {ops[k].end : k \in DOMAIN ops} \cup {ops[k].start : k \in DOMAIN ops})

Dropped(op) ==
  \/ op.outcome = "failed"
  \/ op.outcome = "unknown" /\ op.cmd.op = "get"

\* The window of an unknown operation left as it was recorded.
Converted_NoExtension(op, horizon) ==
  [cmd |-> op.cmd, unknown |-> op.outcome # "ok", res |-> op.res,
   call |-> op.start, return |-> op.end]

\* Every window left open.
Converted_AllOpen(op, horizon) ==
  [cmd |-> op.cmd, unknown |-> op.outcome # "ok", res |-> op.res,
   call |-> op.start, return |-> horizon]

\* A porcupine.Operation.  An outcome that is not in the list is unknown too.
Converted(op, horizon) ==
  [cmd     |-> op.cmd,
   unknown |-> op.outcome # "ok",
   res     |-> IF op.outcome = "ok" THEN op.res ELSE ZeroResult,
   call    |-> op.start,
   return  |-> IF op.outcome = "ok" THEN op.end ELSE horizon]

ToOperations(ops) ==
  {Converted(ops[k], Horizon(ops)) : k \in {j \in DOMAIN ops : ~Dropped(ops[j])}}

-----------------------------------------------------------------------------
(* Model: one register per key                                             *)

KVState(present, val) == [present |-> present, val |-> val]

InitState == KVState(FALSE, Empty)

StateMatches(st, expect) ==
  IF expect = Nil THEN ~st.present ELSE st.present /\ st.val = expect

\* Step returns whether the output is possible in st, and the next state.
Verdict(ok, st) == [ok |-> ok, st |-> st]

StepCAS(st, o) ==
  LET matches == StateMatches(st, o.cmd.expect)
      swapped == KVState(TRUE, o.cmd.value)
  IN  CASE o.unknown               -> Verdict(TRUE, IF matches THEN swapped ELSE st)
        [] ~o.unknown /\ o.res.ok  -> Verdict(matches, swapped)
        [] ~o.unknown /\ ~o.res.ok -> Verdict(~matches, st)

Step(st, o) ==
  CASE o.cmd.op = "put"    -> Verdict(TRUE, KVState(TRUE, o.cmd.value))
    [] o.cmd.op = "delete" -> Verdict(TRUE, InitState)
    [] o.cmd.op = "get"    -> Verdict(/\ o.res.present = st.present
                                      /\ st.present => o.res.value = st.val,
                                      st)
    [] o.cmd.op = "cas"    -> StepCAS(st, o)

\* One register for all keys.
Partition_None(pops) == {pops}

Partition(pops) == {{o \in pops : o.cmd.key = k} : k \in {o.cmd.key : o \in pops}}

-----------------------------------------------------------------------------
(* porcupine.CheckOperations                                               *)

\* An order in which nothing comes before what returned before it was called.
RealTime(order) ==
  \A i, j \in DOMAIN order : i < j => order[i].call <= order[j].return

Accepted(order) ==
  FoldLeft(LAMBDA v, o : LET w == Step(v.st, o) IN Verdict(v.ok /\ w.ok, w.st),
           Verdict(TRUE, InitState), order).ok

\* A search that is not finished within its timeout says Unknown - or Illegal, if
\* a part has been refuted by then, which makes no difference to Check.
CheckOperations(pops, finished) ==
  CASE ~finished -> "Unknown"
    [] finished /\ \A part \in Partition(pops) :
         \E order \in SetToSeqs(part) : RealTime(order) /\ Accepted(order) -> "Ok"
    [] OTHER -> "Illegal"

\* A timeout "can never mask a violation".
Check(ops, finished) == CheckOperations(ToOperations(ops), finished) = "Ok"

\* phaseCheckerSelfTest: the verdicts that must be found before anything runs.
SelfTest(bad, good, finished) == ~Check(bad, finished) /\ Check(good, finished)

-----------------------------------------------------------------------------
(* Histories                                                               *)

TypeOK ==
  /\ now \in Nat
  /\ \A c \in Clients : pending[c] = NoOp \/ pending[c] \in [cmd : Commands, start : Nat]
  /\ history \in Seq(Op)

Init ==
  /\ now = 0
  /\ pending = [c \in Clients |-> NoOp]
  /\ history = <<>>

UnderWay == {c \in Clients : pending[c] # NoOp}

Call(c, cmd) ==
  /\ pending[c] = NoOp
  /\ Len(history) + Cardinality(UnderWay) < MaxOps
  /\ now' = now + 1
  /\ pending' = [pending EXCEPT ![c] = [cmd |-> cmd, start |-> now + 1]]
  /\ UNCHANGED history

\* Everything FSM.Apply can answer to cmd in some state.
Answers(cmd) == {ApplyResult(d, cmd) : d \in Data}

\* A record without an answer that leaves the response fields unset.
Return_NoAnswer(c, outcome, res) ==
  /\ pending[c] # NoOp
  /\ outcome = "ok" => res \in Answers(pending[c].cmd)
  /\ outcome # "ok" => res = ZeroResult
  /\ now' = now + 1
  /\ pending' = [pending EXCEPT ![c] = NoOp]
  /\ history' = Append(history, [cmd |-> pending[c].cmd, start |-> pending[c].start,
                                 end |-> now + 1, outcome |-> outcome,
                                 res |-> IF outcome = "ok" THEN res ELSE Nil])

Return(c, outcome, res) ==
  /\ pending[c] # NoOp
  /\ outcome = "ok" => res \in Answers(pending[c].cmd)
  /\ outcome # "ok" => res = ZeroResult
  /\ now' = now + 1
  /\ pending' = [pending EXCEPT ![c] = NoOp]
  /\ history' = Append(history, [cmd |-> pending[c].cmd, start |-> pending[c].start,
                                 end |-> now + 1, outcome |-> outcome, res |-> res])

Next ==
  \E c \in Clients :
    \/ \E cmd \in Commands : Call(c, cmd)
    \/ \E outcome \in Outcomes, res \in Result : Return(c, outcome, res)

Spec == Init /\ [][Next]_vars

-----------------------------------------------------------------------------
(* The reference: what it means for a history to be linearizable           *)

\* An order of operations of the history (given by index): each ok operation
\* once, some of the others, nothing before what had returned before its call.
Before(x, y) == history[x].outcome = "ok" /\ history[x].end < history[y].start

Orders ==
  LET Sure  == {k \in DOMAIN history : history[k].outcome = "ok"}
      Maybe == {k \in DOMAIN history : history[k].outcome \notin {"ok", "failed"}}
  IN  {order \in UNION {SetToSeqs(Sure \cup extra) : extra \in SUBSET Maybe} :
         \A i, j \in DOMAIN order : i < j => ~Before(order[j], order[i])}

\* order, executed by the state machine, answers what Agrees asks for.
Explains(order, Agrees(_, _)) ==
  FoldLeft(LAMBDA v, k :
             [ok |-> /\ v.ok
                     /\ history[k].outcome = "ok"
                          => Agrees(history[k], ApplyResult(v.data, history[k].cmd)),
              data |-> ApplyData(v.data, history[k].cmd)],
           [ok |-> TRUE, data |-> EmptyData], order).ok

\* The recorded answer is the right one.
SameAnswer(op, res) == op.res = res

\* The same, except for what a delete and a lost CAS report of the old value.
SameVerdict(op, res) ==
  CASE op.cmd.op = "get" -> op.res = res
    [] op.cmd.op = "cas" -> op.res.ok = res.ok
    [] OTHER             -> TRUE

-----------------------------------------------------------------------------
(* Properties                                                              *)

\* The checker rejects a linearizable history only when its search runs into the
\* timeout: opening the window of an unknown operation and dropping failed
\* operations and unanswered reads is as good as deciding of each whether it
\* took effect.
FalseAlarmIsTimeout ==
  \A finished \in BOOLEAN :
    /\ \E order \in Orders : Explains(order, SameAnswer)
    /\ ~Check(history, finished)
    => ~finished

\* A history the checker accepts, timeout or not, has an explanation in which
\* every read and every CAS verdict is right.
AcceptedIsExplained ==
  \A finished \in BOOLEAN :
    Check(history, finished) => \E order \in Orders : Explains(order, SameVerdict)

\* The package comment: the checker "verifies recorded client histories for
\* linearizability [...] supporting put/get/delete/cas".
AcceptedIsLinearizable ==
  \A finished \in BOOLEAN :
    Check(history, finished) => \E order \in Orders : Explains(order, SameAnswer)

\* ToOperations says of a record without a known outcome that it is treated
\* "as unknown [...] to be safe": the verdict is the one it would have had
\* with outcome "unknown".
UnclassifiedIsUnknown ==
  LET relabelled == [k \in DOMAIN history |->
                       IF history[k].outcome \in {"ok", "failed"} THEN history[k]
                       ELSE [history[k] EXCEPT !.outcome = "unknown"]]
  IN  \A finished \in BOOLEAN : Check(history, finished) = Check(relabelled, finished)
===============================================================================
