------------------------------ MODULE MCDeploy ------------------------------
(***************************************************************************)
(* Instances of Deploy for TLC: the release that runs, one with a wider    *)
(* model, and one whose settings contradict its model and that never gets  *)
(* healthy; ids 1 and 3 in the fixtures, so that a count is not a maximum. *)
(***************************************************************************)
EXTENDS Deploy, TLC

CONSTANTS r1, r2, r3, m1, m2, t1, t2, k1, n1, n2

MCReleases == {r1, r2, r3}
MCModel == r1 :> m1 @@ r2 :> m2 @@ r3 :> m1
MCDim == r1 :> 1 @@ r2 :> 2 @@ r3 :> 2
MCHealthy == r1 :> TRUE @@ r2 :> TRUE @@ r3 :> FALSE
MCWidth == m1 :> 1 @@ m2 :> 2
MCTexts == {t1, t2}
MCFixtures == {t1}
MCUnits == {k1}
MCRoster == {1, 3}
MCNewcomers == {n1, n2}
=============================================================================
