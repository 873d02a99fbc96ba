------------------------------- MODULE MCHarness -------------------------------
(***************************************************************************)
(* Harness for TLC, one group of phases at a time.                         *)
(***************************************************************************)
EXTENDS Harness

CONSTANTS old, empty, c1, c2, p1, p2, k0

MCPlans ==
  {<<"reset", "smoke", "cas", "linearizability">>,
   <<"reset", "kill", "majority", "linearizability">>,
   <<"reset", "chaos", "linearizability">>}

MCKeys == {Smoke, Live, k0} \cup Touched("cas") \cup Touched("kill")

MCValues == {empty, old} \cup Printed

Ids == 1 .. 16

\* Bound: nothing is explored beyond a reset that failed.
ResetSucceeds == checks["reset"] # "FAIL"

Cmd(op, k, v, e) == [op |-> op, key |-> k, value |-> v, expect |-> e]

\* harness/fixtures/*.jsonl
Ok(cmd, start, end, res) ==
  [cmd |-> cmd, start |-> start, end |-> end, outcome |-> "ok", res |-> res]

KnownBad ==
  <<Ok(Cmd("put", k0, "a", Nil), 10, 20, Res(TRUE, FALSE, empty)),
    Ok(Cmd("put", k0, "b", Nil), 30, 40, Res(TRUE, FALSE, empty)),
    Ok(Cmd("get", k0, empty, Nil), 50, 60, Res(TRUE, TRUE, "a"))>>

KnownGood ==
  <<Ok(Cmd("put", k0, "a", Nil), 10, 20, Res(TRUE, FALSE, empty)),
    Ok(Cmd("get", k0, empty, Nil), 15, 25, Res(TRUE, TRUE, "a")),
    Ok(Cmd("cas", k0, "b", "a"), 30, 40, Res(TRUE, FALSE, empty)),
    Ok(Cmd("cas", k0, "c", "a"), 45, 65, Res(FALSE, TRUE, "b")),
    Ok(Cmd("get", k0, empty, Nil), 50, 60, Res(TRUE, TRUE, "b")),
    Ok(Cmd("delete", k0, empty, Nil), 70, 80, Res(TRUE, TRUE, empty)),
    [cmd |-> Cmd("put", k0, "z", Nil), start |-> 85, end |-> 88, outcome |-> "unknown",
     res |-> Verdict!ZeroResult],
    Ok(Cmd("get", k0, empty, Nil), 90, 95, Res(TRUE, FALSE, empty))>>

\* The translated checker passes the harness's own test of the checker.
ASSUME SelfTestPasses == Verdict!SelfTest(KnownBad, KnownGood, TRUE)

Symmetry == Permutations(Clients) \cup Permutations(Contenders)
===============================================================================
