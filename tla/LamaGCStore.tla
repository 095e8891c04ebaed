----------------------------- MODULE LamaGCStore -----------------------------
(***************************************************************************)
(* The collected, compacted and moved heap of LamaGC behaves as LamaStore, *)
(* in which objects never move and live forever: this is what makes the    *)
(* collector invisible to the interpreted program.                         *)
(*                                                                         *)
(* While an allocation is under way the heap is in pieces, so the store is *)
(* kept in a ghost variable as it was when the program last ran.           *)
(***************************************************************************)
EXTENDS LamaGC

VARIABLE store  \* ghost: the abstract store when the program last ran

storeVars == <<vars, store>>

Observe == store' = IF pc' = "run" THEN AbsStore(heap', mem', stack') ELSE store

StoreInit == Init /\ store = AbsStore(heap, mem, stack)
StoreNext == Next /\ Observe
StoreSpec == StoreInit /\ [][StoreNext]_storeVars

(***************************************************************************)
(* A call of alloc runs on the only thread, so it is never abandoned.      *)
(***************************************************************************)
FairSpec == StoreSpec /\ WF_vars(Collector)

Store == INSTANCE LamaStore WITH stack <- store.stack, graph <- store.graph

\* The program cannot tell the collected heap from a store that never moves
\* or loses an object.
RefinesStore == Store!Spec
=============================================================================
