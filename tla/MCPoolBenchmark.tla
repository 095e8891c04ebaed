--------------------------- MODULE MCPoolBenchmark ---------------------------
(***************************************************************************)
(* A small instance of PoolBenchmark for TLC.                              *)
(***************************************************************************)
EXTENDS PoolBenchmark, TLC

CONSTANTS t1, t2, t3

MCThreads == {t1, t2, t3}
MCSymmetry == Permutations(MCThreads)
=============================================================================
