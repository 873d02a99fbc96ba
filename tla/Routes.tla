-------------------------------- MODULE Routes --------------------------------
(***************************************************************************)
(* The /kv/ route of NewHandler (internal/server/http.go): which command a *)
(* request becomes, or which error it is answered with, and the keys that  *)
(* the accepted writes create.                                             *)
(*                                                                         *)
(* What follows /kv/ in the decoded path is the sequence of its segments.  *)
(* ServeMux redirects a path with an empty segment inside, so only the     *)
(* last one can be empty (a trailing slash); the empty sequence is the     *)
(* bare /kv/.  A key is a sequence of segments as well: more than one, and *)
(* it contains a '/'.                                                      *)
(***************************************************************************)
EXTENDS Naturals, Sequences, SequencesExt

CONSTANTS
  Segments,      \* non-empty path segments, "cas" among them
  MaxSegments    \* bound: segments after /kv/

VARIABLES
  stored,   \* the keys in the map
  answer    \* the error code the last request was answered with, or "ok"

vars == <<stored, answer>>

Paths ==
  {p \in BoundedSeq(Segments \cup {""}, MaxSegments) :
     \A i \in DOMAIN p : p[i] = "" => i = Len(p) /\ i > 1}

Methods == {"GET", "PUT", "DELETE", "POST"}

\* strings.CutSuffix(rest, "/cas")
HasCASSuffix(rest) == Len(rest) > 1 /\ Last(rest) = "cas"

Routed(op, key) == [error |-> "ok", op |-> op, key |-> key]

BadRequest == [error |-> "bad_request", op |-> "none", key |-> <<>>]

\* The handler up to its call of apply.  parses: the body is the JSON object
\* the operation needs, in a body of at most 1 MiB.
Route(method, rest, parses) ==
  LET cas == method = "POST" /\ HasCASSuffix(rest)
      key == ~cas /\ Len(rest) = 1
  IN  CASE cas /\ parses                    -> Routed("cas", Front(rest))
        [] key /\ method = "GET"            -> Routed("get", rest)
        [] key /\ method = "PUT" /\ parses  -> Routed("put", rest)
        [] key /\ method = "DELETE"         -> Routed("delete", rest)
        [] OTHER                            -> BadRequest

\* A request on a healthy leader.  A CAS may find its expectation met or not.
Request(method, rest, parses, matches) ==
  LET r == Route(method, rest, parses)
  IN  /\ answer' = r.error
      /\ stored' = CASE r.op = "put"             -> stored \cup {r.key}
                     [] r.op = "cas" /\ matches  -> stored \cup {r.key}
                     [] r.op = "delete"          -> stored \ {r.key}
                     [] OTHER                    -> stored

Init == stored = {} /\ answer = "ok"

Next ==
  \E method \in Methods, rest \in Paths, parses, matches \in BOOLEAN :
    Request(method, rest, parses, matches)

Spec == Init /\ [][Next]_vars

-----------------------------------------------------------------------------

\* "key must not contain '/'" (the handler's own error message): whatever was
\* stored can be read and deleted again.
StoredKeysAreReachable ==
  \A key \in stored : /\ Route("GET", key, TRUE).error = "ok"
                      /\ Route("DELETE", key, TRUE).error = "ok"
===============================================================================
