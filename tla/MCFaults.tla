------------------------------- MODULE MCFaults -------------------------------
(***************************************************************************)
(* Faults on three nodes, for TLC.                                         *)
(***************************************************************************)
EXTENDS Faults

CONSTANTS n1, n2, n3

MCNodeSeq == <<n1, n2, n3>>
===============================================================================
