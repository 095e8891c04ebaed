----------------------------- MODULE PoolMemory -----------------------------
(***************************************************************************)
(* The memory of a pool of 07-non-blocking-pool, shared by its allocators: *)
(* guard pages at the lower end, objects cut off from the upper end.       *)
(* Addresses are numbers of bytes; nothing is ever returned to a pool.     *)
(***************************************************************************)
EXTENDS Integers, FiniteSets

CONSTANTS
  Threads,
  Begin,        \* what mmap returned
  PageSize,     \* sysconf(_SC_PAGE_SIZE)
  Size,         \* sizeof(Object)
  Capacity,     \* objects that the pool is built for
  RoundUp       \* the constructor rounds to whole pages: LockedPoolAllocator's

\* mutant: the size of an object is rounded down to pages
Mutant_RoundDown == Size \div PageSize

protected_pages == (Size + PageSize - 1) \div PageSize
Data == Begin + PageSize * protected_pages

Pages(bytes) == ((bytes + PageSize - 1) \div PageSize) * PageSize

pool_size ==
  LET exact == PageSize * protected_pages + Capacity * Size
  IN  IF RoundUp THEN Pages(exact) ELSE exact
End == Begin + pool_size

(***************************************************************************)
(* The guard pages are as many as one object needs, and every thread can   *)
(* take one more object before a fault stops the process: 16 threads of    *)
(* Nodes of 16 bytes against a page of 4096 in the program.                *)
(***************************************************************************)
ASSUME PoolAssumption ==
  /\ IsFiniteSet(Threads)
  /\ Begin \in Nat \ {0}
  /\ PageSize \in Nat \ {0}
  /\ Size \in Nat \ {0}
  /\ Capacity \in Nat
  /\ RoundUp \in BOOLEAN
  /\ Size * Cardinality(Threads) <= PageSize

VARIABLES
  first_free,   \* the lower end of the objects handed out
  ptr,          \* the object a thread has got and not yet written; 0 if none
  owner,        \* address of an object that has been written -> its thread
  outcome       \* "running", "reported" or "wild"

None == 0
memVars == <<first_free, ptr, owner, outcome>>

MemInit ==
  /\ first_free = End
  /\ ptr = [t \in Threads |-> None]
  /\ owner = <<>>
  /\ outcome = "running"

(***************************************************************************)
(* create_list: `*node = Node{list, i}`.  A write that touches the guard   *)
(* pages faults, and the handler ends the process; one below them goes     *)
(* wherever it goes.                                                       *)
(***************************************************************************)
WriteNode(t) ==
  /\ outcome = "running"
  /\ ptr[t] # None
  /\ IF ptr[t] >= Data
     THEN /\ owner' = [a \in DOMAIN owner \cup {ptr[t]} |->
                         IF a = ptr[t] THEN t ELSE owner[a]]
          /\ ptr' = [ptr EXCEPT ![t] = None]
          /\ UNCHANGED outcome
     ELSE /\ outcome' = IF ptr[t] >= Begin THEN "reported" ELSE "wild"
          /\ UNCHANGED <<owner, ptr>>
  /\ UNCHANGED first_free

Ended == outcome # "running" /\ UNCHANGED memVars

-----------------------------------------------------------------------------
\* the objects that exist: written ones, and ones just handed out
Pending == {t \in Threads : ptr[t] # None}
Apart(a, b) == a + Size <= b \/ b + Size <= a

\* No two objects overlap, whether they have been written or only handed out:
\* concurrent calls of allocate never return the same or interleaved memory.
NoOverlap ==
  /\ \A a, b \in DOMAIN owner : a # b => Apart(a, b)
  /\ \A t \in Pending : \A a \in DOMAIN owner : Apart(ptr[t], a)
  /\ \A t, u \in Pending : t # u => Apart(ptr[t], ptr[u])

\* A pool that is exhausted is noticed: however many threads are past the end
\* when the first of them faults, none writes below the guard pages.
NeverWild == outcome # "wild"
=============================================================================
