----------------------------- MODULE MCMemPool ------------------------------
(***************************************************************************)
(* Three pools for two slots, with room for one object each.               *)
(***************************************************************************)
EXTENDS MemPool

CONSTANTS p1, p2, p3

MCPools == {p1, p2, p3}
=============================================================================
