---------------------------------- MODULE KV ----------------------------------
(***************************************************************************)
(* Package kv: the command that travels through the Raft log and the state *)
(* machine that executes it (internal/kv/command.go, internal/kv/fsm.go).  *)
(*                                                                         *)
(* Keys and values are opaque.  Two conversions of the Go code matter and  *)
(* are kept:                                                               *)
(*  - a missing map entry reads as the zero value "", so a Result always   *)
(*    carries a value; Empty stands for "" and is a legal value too;       *)
(*  - a Command is written to the log as JSON.  encoding/json replaces     *)
(*    every byte sequence that is not UTF-8 by U+FFFD.  Values come out of *)
(*    a JSON body and are UTF-8 already; a key is the percent-decoded URL  *)
(*    path and need not be.  Malformed is the set of keys that are not     *)
(*    UTF-8 and Replacement the key they all become.                       *)
(***************************************************************************)
CONSTANTS
  Keys,          \* keys a request can name
  Values,        \* values a request can carry
  Empty,         \* the empty string, Go's zero value
  Nil,           \* no value: a nil *string, or a key that is not in the map
  Malformed,     \* keys that are not valid UTF-8
  Replacement    \* what such a key becomes when it is marshalled

ASSUME KVAssumption ==
  /\ Empty \in Values
  /\ Nil \notin Values
  /\ Malformed \subseteq Keys
  /\ Malformed # {} => Replacement \in Keys \ Malformed

Ops == {"put", "get", "delete", "cas"}

Command == [op : Ops, key : Keys, value : Values, expect : Values \cup {Nil}]

Result == [ok : BOOLEAN, present : BOOLEAN, value : Values]

\* FSM.data: the map, with Nil for a key that is not in it.
Data == [Keys -> Values \cup {Nil}]

\* NewFSM
EmptyData == [k \in Keys |-> Nil]

-----------------------------------------------------------------------------
(* Command.Encode followed by DecodeCommand: what the log hands back.      *)

JSONString(k) == IF k \in Malformed THEN Replacement ELSE k

Decoded(cmd) == [cmd EXCEPT !.key = JSONString(cmd.key)]

\* The map written as a JSON object by Persist and read back by Restore.
JSONData(data) ==
  [k \in Keys |->
     LET from == {j \in Keys : data[j] # Nil /\ JSONString(j) = k}
     IN  IF from = {} THEN Nil ELSE data[CHOOSE j \in from : TRUE]]

-----------------------------------------------------------------------------
(* FSM.Apply, split into its effect on the map and the Result it returns.  *)

Present(data, k) == data[k] # Nil

\* The value of a map lookup: the zero value when the key is missing.
Lookup(data, k) == IF Present(data, k) THEN data[k] ELSE Empty

\* A CAS that compares values only: an expected "" matches a missing key.
CASMatches_ZeroValue(data, cmd) ==
  \/ cmd.expect = Nil /\ ~Present(data, cmd.key)
  \/ cmd.expect # Nil /\ Lookup(data, cmd.key) = cmd.expect

CASMatches(data, cmd) ==
  \/ cmd.expect = Nil /\ ~Present(data, cmd.key)
  \/ cmd.expect # Nil /\ Present(data, cmd.key) /\ data[cmd.key] = cmd.expect

ApplyData(data, cmd) ==
  CASE cmd.op = "put"    -> [data EXCEPT ![cmd.key] = cmd.value]
    [] cmd.op = "get"    -> data
    [] cmd.op = "delete" -> [data EXCEPT ![cmd.key] = Nil]
    [] cmd.op = "cas"    -> IF CASMatches(data, cmd)
                              THEN [data EXCEPT ![cmd.key] = cmd.value]
                              ELSE data

Res(ok, present, value) == [ok |-> ok, present |-> present, value |-> value]

ApplyResult(data, cmd) ==
  CASE cmd.op = "put"    -> Res(TRUE, FALSE, Empty)
    [] cmd.op = "get"    -> Res(TRUE, Present(data, cmd.key), Lookup(data, cmd.key))
    [] cmd.op = "delete" -> Res(TRUE, Present(data, cmd.key), Empty)
    [] cmd.op = "cas"    -> IF CASMatches(data, cmd)
                              THEN Res(TRUE, FALSE, Empty)
                              ELSE Res(FALSE, Present(data, cmd.key),
                                       Lookup(data, cmd.key))
===============================================================================
