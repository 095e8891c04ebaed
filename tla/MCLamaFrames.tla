---------------------------- MODULE MCLamaFrames ----------------------------
(***************************************************************************)
(* Small instances of LamaFrames for TLC.                                  *)
(***************************************************************************)
EXTENDS LamaFrames

MCShapes == { <<"ARRAY", 0>>, <<"CLOSURE", 2>> }

\* objects of two sizes, so that a collection moves a header into the middle
\* of where another object was
MCStaleShapes == { <<"ARRAY", 0>>, <<"ARRAY", 1>> }

MCBases == {1024}
MCBothBases == {1024, 4096}
=============================================================================
