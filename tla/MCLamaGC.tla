------------------------------ MODULE MCLamaGC ------------------------------
(***************************************************************************)
(* A small instance of LamaGC for TLC.                                     *)
(***************************************************************************)
EXTENDS LamaGCStore

\* every kind: an object without contents that ends at heap.current, mutable
\* ones that make cycles, a closure with two references, and a string that
\* needs another word when it is concatenated
MCShapes == { <<"ARRAY", 0>>, <<"ARRAY", 1>>, <<"SEXP", 1>>, <<"CLOSURE", 3>>,
              <<"STRING", 2>> }

\* two chunks that are further apart than any heap of the instance is long
MCBases == {1024, 4096}
=============================================================================
