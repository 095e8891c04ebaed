---------------------------- MODULE PoolBenchmark ----------------------------
(***************************************************************************)
(* main of 07-non-blocking-pool with an allocator that its threads share:  *)
(* the command line chooses which, and every thread builds a list with it. *)
(***************************************************************************)
EXTENDS LockedPool

VARIABLE allocator  \* argv[1]

benchVars == <<vars, allocator>>

BenchInit ==
  /\ Init
  /\ LockInit
  /\ allocator \in {"LockedPoolAllocator", "LockFreePoolAllocator"}

BenchNext ==
  /\ \/ allocator = "LockFreePoolAllocator" /\ Next /\ UNCHANGED lockVars
     \/ allocator = "LockedPoolAllocator" /\ LockedNext
  /\ UNCHANGED allocator

BenchSpec == BenchInit /\ [][BenchNext]_benchVars
=============================================================================
