------------------------------- MODULE KVProofs -------------------------------
(***************************************************************************)
(* Facts about the operators of module KV, for every set of keys and       *)
(* values.                                                                 *)
(***************************************************************************)
EXTENDS KV, TLAPS

\* The JSON round trip through the log yields a command, and never one on a
\* key that is not UTF-8.
LEMMA DecodedType ==
  ASSUME NEW cmd \in Command
  PROVE  /\ Decoded(cmd) \in Command
         /\ Decoded(cmd).key \notin Malformed
BY KVAssumption DEF Decoded, JSONString, Command

\* A map lookup gives a value, the zero value for a missing key.
LEMMA LookupType ==
  ASSUME NEW d \in Data, NEW k \in Keys
  PROVE  Lookup(d, k) \in Values /\ Present(d, k) \in BOOLEAN
BY KVAssumption DEF Lookup, Present, Data

\* FSM.Apply maps a map to a map.
LEMMA ApplyDataType ==
  ASSUME NEW d \in Data, NEW cmd \in Command
  PROVE  ApplyData(d, cmd) \in Data
BY DEF ApplyData, Data, Command, Ops

\* FSM.Apply always returns a Result with a value in it.
LEMMA ApplyResultType ==
  ASSUME NEW d \in Data, NEW cmd \in Command
  PROVE  ApplyResult(d, cmd) \in Result
<1>1. cmd.key \in Keys /\ cmd.op \in Ops
  BY DEF Command
<1>2. Lookup(d, cmd.key) \in Values /\ Present(d, cmd.key) \in BOOLEAN
  BY <1>1, LookupType
<1>. QED
  BY <1>1, <1>2, KVAssumption DEF ApplyResult, Res, Result, Ops
===============================================================================
