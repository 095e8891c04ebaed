---------------------------- MODULE MCLamaValues ----------------------------
(***************************************************************************)
(* A small machine: words of 12 bits, tags of characters of two bits.      *)
(***************************************************************************)
EXTENDS LamaValues

\* just too far apart for their difference
MCInts == {-1, 1023}

\* the last one begins with '_'
MCNames == {<<1, 2, 3, 0, 1, 2>>, <<0, 1>>}

MCMakes == {[kind |-> "STRING", len |-> 1], [kind |-> "STRING", len |-> 2],
            [kind |-> "ARRAY", len |-> 0], [kind |-> "SEXP", len |-> 2], [kind |-> "CLOSURE", len |-> 0]}
=============================================================================
