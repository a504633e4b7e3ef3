-------------------------- MODULE MCHandoffSession --------------------------
(***************************************************************************)
(* Instances of HandoffSession for TLC.                                    *)
(***************************************************************************)
EXTENDS HandoffSession, TLC

CONSTANTS p1, p2

TwoPeople == {p1, p2}

Pair == Permutations(TwoPeople)

OneQuestion == 1..1

TwoQuestions == 1..2
=============================================================================
