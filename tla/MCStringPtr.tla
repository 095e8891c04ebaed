---------------------------- MODULE MCStringPtr ----------------------------
(***************************************************************************)
(* Small instances of StringPtr for TLC.                                   *)
(***************************************************************************)
EXTENDS StringPtr, TLC

CONSTANTS h1, h2, h3, h4, s1, s2, s3, x1, x2

MCHandles == {h1, h2, h3, h4}
MCStrings == {s1, s2, s3}
MCFewHandles == {h1, h2, h3}
MCFewStrings == {s1, s2}
MCTexts == {x1, x2}
MCSymmetry == Permutations(MCHandles) \cup Permutations(MCStrings)
                \cup Permutations(MCTexts)
=============================================================================
