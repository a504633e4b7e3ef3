--------------------------- MODULE MCPairChannel ---------------------------
(***************************************************************************)
(* Instances of PairChannel for TLC.                                       *)
(***************************************************************************)
EXTENDS PairChannel, TLC

CONSTANTS t1, t2

TwoThreads == {t1, t2}

Swap == Permutations(TwoThreads)
=============================================================================
