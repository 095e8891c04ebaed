--------------------------- MODULE MCPoolRegistry ---------------------------
(***************************************************************************)
(* Small instances of PoolRegistry for TLC.                                *)
(***************************************************************************)
EXTENDS PoolRegistry, TLC

CONSTANTS t1, t2, t3

MCThreads == {t1, t2, t3}

\* two adjacent ranges, one that overlaps both, and one apart
MCRegions == { <<1, 3>>, <<3, 5>>, <<2, 4>>, <<6, 8>> }

MCSymmetry == Permutations(MCThreads)
=============================================================================
