----------------------------- MODULE MCConvergence -----------------------------
(***************************************************************************)
(* Convergence, and with it Replica, for TLC.                              *)
(***************************************************************************)
EXTENDS Convergence

CONSTANTS n1, n2, k1, k2, v0, v1

MCNodeSeq == <<n1, n2>>

Cmd(op, k, v, e) == [op |-> op, key |-> k, value |-> v, expect |-> e]

\* Not idempotent together: a swap back and forth, a delete, and a write under
\* a key (k2) that the log turns into k1.
MCCommands ==
  {Cmd("cas", k1, v1, v0), Cmd("cas", k1, v0, v1), Cmd("delete", k1, v0, Nil),
   Cmd("put", k2, v0, Nil)}
===============================================================================
