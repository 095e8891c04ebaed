---------------------------- MODULE MCThreadPool ----------------------------
(***************************************************************************)
(* Small instances of ThreadPool for TLC.                                  *)
(***************************************************************************)
EXTENDS ThreadPool

\* more threads than there are, then fewer and fewer; a copy that is too
\* short to be divided; sizes that the blocks do not divide
MCSteadyPlan == << [size |-> 9, threads_num |-> 5], [size |-> 7, threads_num |-> 3],
                   [size |-> 6, threads_num |-> 2],
                   [size |-> 2, threads_num |-> 1], [size |-> 5, threads_num |-> 1] >>

\* main: one thread, then two
MCGrowingPlan == << [size |-> 4, threads_num |-> 1], [size |-> 6, threads_num |-> 2] >>
=============================================================================
