------------------------------- MODULE MCChecker -------------------------------
EXTENDS Checker

CONSTANTS c1, c2, c3, k1, k2, v0, v1

Cmd(op, k, v, e) == [op |-> op, key |-> k, value |-> v, expect |-> e]

\* Every operation on one key, the CAS with each expectation, and a read of
\* a second key.
MCCommands ==
  {Cmd("put", k1, v1, Nil), Cmd("get", k1, v0, Nil), Cmd("delete", k1, v0, Nil),
   Cmd("cas", k1, v1, Nil), Cmd("cas", k1, v0, v1), Cmd("cas", k1, v1, v0),
   Cmd("get", k2, v0, Nil)}

Symmetry == Permutations(Clients)
===============================================================================
