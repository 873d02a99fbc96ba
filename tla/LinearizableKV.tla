---------------------------- MODULE LinearizableKV ----------------------------
(***************************************************************************)
(* What the store promises its clients: every operation behaves as if it   *)
(* took effect at one instant between its call and its return.  An         *)
(* operation that returned "failed" has no effect, ever.  One that         *)
(* returned "unknown" takes effect at most once, at any time after its     *)
(* call - possibly long after its return - or never.                       *)
(***************************************************************************)
EXTENDS KV

CONSTANTS
  Invocations,   \* identities of operations
  NoCommand,     \* the command of an operation not called yet
  NoResult       \* the result of an operation that has none

VARIABLES
  data,      \* the one copy of the data
  command,   \* command[i]: what operation i asks for
  outcome,   \* outcome[i]: "none", "pending", or what its caller was told
  effect,    \* effect[i]: the result computed when i took effect
  returned   \* returned[i]: the result its caller was given

absVars == <<data, command, outcome, effect, returned>>

AbsInit ==
  /\ data = EmptyData
  /\ command = [i \in Invocations |-> NoCommand]
  /\ outcome = [i \in Invocations |-> "none"]
  /\ effect = [i \in Invocations |-> NoResult]
  /\ returned = [i \in Invocations |-> NoResult]

Begin(i, cmd) ==
  /\ outcome[i] = "none"
  /\ outcome' = [outcome EXCEPT ![i] = "pending"]
  /\ command' = [command EXCEPT ![i] = cmd]
  /\ UNCHANGED <<data, effect, returned>>

TakeEffect(i) ==
  /\ outcome[i] \in {"pending", "unknown"}
  /\ effect[i] = NoResult
  /\ effect' = [effect EXCEPT ![i] = ApplyResult(data, command[i])]
  /\ data' = ApplyData(data, command[i])
  /\ UNCHANGED <<command, outcome, returned>>

ReturnOk(i) ==
  /\ outcome[i] = "pending"
  /\ effect[i] # NoResult
  /\ outcome' = [outcome EXCEPT ![i] = "ok"]
  /\ returned' = [returned EXCEPT ![i] = effect[i]]
  /\ UNCHANGED <<data, command, effect>>

ReturnFailed(i) ==
  /\ outcome[i] = "pending"
  /\ effect[i] = NoResult
  /\ outcome' = [outcome EXCEPT ![i] = "failed"]
  /\ UNCHANGED <<data, command, effect, returned>>

ReturnUnknown(i) ==
  /\ outcome[i] = "pending"
  /\ outcome' = [outcome EXCEPT ![i] = "unknown"]
  /\ UNCHANGED <<data, command, effect, returned>>

AbsNext ==
  \E i \in Invocations :
    \/ /\ outcome[i] = "none"
       /\ \E cmd \in Command : Begin(i, cmd)
    \/ TakeEffect(i)
    \/ ReturnOk(i)
    \/ ReturnFailed(i)
    \/ ReturnUnknown(i)

AbsSpec == AbsInit /\ [][AbsNext]_absVars
===============================================================================
