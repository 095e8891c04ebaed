---------------------------- MODULE LockFreePool ----------------------------
(***************************************************************************)
(* LockFreePoolAllocator: allocate is one fetch_sub on first_free.  With a *)
(* single thread it also is PoolAllocator, which subtracts without an      *)
(* atomic.                                                                 *)
(***************************************************************************)
EXTENDS PoolMemory

Init == MemInit

\* mutant: pointer arithmetic on bytes instead of objects
Mutant_OneByte == first_free - 1

\* what fetch_sub leaves behind
Lowered == first_free - Size

\* mutant: fetch_sub returns the old value, which is not the object's
Mutant_OldValue == first_free

\* fetch_sub returns the old value; the object lies below it
Fetched == first_free - Size

FetchSub(t) ==
  /\ outcome = "running"
  /\ ptr[t] = None
  /\ ptr' = [ptr EXCEPT ![t] = Fetched]
  /\ first_free' = Lowered
  /\ UNCHANGED <<owner, outcome>>

Next == (\E t \in Threads : FetchSub(t) \/ WriteNode(t)) \/ Ended

Spec == Init /\ [][Next]_memVars

\* The lists are built as in a pool that hands out each address once.
Bump == INSTANCE BumpPool
RefinesBump == Bump!Spec

(***************************************************************************)
(* The invariant behind the proofs.                                        *)
(***************************************************************************)
TypeOK ==
  /\ first_free \in Int
  /\ ptr \in [Threads -> Int]
  /\ DOMAIN owner \subseteq Int
  /\ outcome \in {"running", "reported", "wild"}

\* everything handed out lies between first_free and the end of the pool
Above ==
  /\ \A a \in DOMAIN owner : Data <= a /\ first_free <= a /\ a + Size <= End
  /\ \A t \in Pending : first_free <= ptr[t] /\ ptr[t] + Size <= End
  /\ first_free <= End

\* the threads that hold an object outside the data area
Low == {t \in Pending : ptr[t] < Data}

\* first_free is past the data area only by what these threads have taken
Overrun == first_free >= Data - Size * Cardinality(Low)

Inv == TypeOK /\ NoOverlap /\ Above /\ Overrun
=============================================================================
