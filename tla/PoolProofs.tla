----------------------------- MODULE PoolProofs -----------------------------
(***************************************************************************)
(* Proofs about the allocators of 07, for any number of threads and any    *)
(* geometry of the pool in which the guard pages have room for one object  *)
(* of every thread.  The results about the lock-free pool come first; the  *)
(* locked one implements it, so they hold of it, too.                      *)
(***************************************************************************)
EXTENDS LockedPool, FiniteSetTheorems, TLAPS

\* Products of naturals, which the provers do not find by themselves.
LEMMA Products ==
  /\ \A a, b \in Nat : a * b \in Nat
  /\ \A a, b, c \in Nat : b <= c => a * b <= a * c
  /\ \A a, b \in Nat : a * (b + 1) = a * b + a
  /\ \A a \in Int : a * 0 = 0
  /\ \A a, b \in Nat : 1 <= b => a <= a * b
OBVIOUS

\* Rounding up to whole pages loses nothing.
LEMMA Rounds ==
  ASSUME NEW bytes \in Nat, PageSize \in Nat \ {0}
  PROVE  Pages(bytes) \in Nat /\ bytes <= Pages(bytes)
<1> DEFINE q == (bytes + PageSize - 1) \div PageSize
<1>1. q \in Nat
  OBVIOUS
<1>2. bytes + PageSize - 1 < q * PageSize + PageSize
  OBVIOUS
<1>3. q * PageSize \in Nat
  BY <1>1
<1> QED
  BY <1>1, <1>2, <1>3 DEF Pages

\* The objects of a page-aligned pool lie above the guard pages, of which
\* there is at least one.
LEMMA Geometry ==
  /\ Data \in Int
  /\ End \in Int
  /\ Begin + PageSize <= Data
  /\ Data <= End
<1>1. /\ Begin \in Nat
      /\ PageSize \in Nat \ {0}
      /\ Size \in Nat \ {0}
      /\ Capacity \in Nat
  BY PoolAssumption
<1>2. protected_pages \in Nat /\ 1 <= protected_pages
  BY <1>1 DEF protected_pages
<1>3. /\ PageSize * protected_pages \in Nat
      /\ PageSize <= PageSize * protected_pages
      /\ Capacity * Size \in Nat
  BY <1>1, <1>2, Products
<1> DEFINE exact == PageSize * protected_pages + Capacity * Size
<1>4. exact \in Nat /\ Pages(exact) \in Nat /\ exact <= Pages(exact)
  BY <1>1, <1>3, Rounds
<1>5. pool_size \in Nat /\ exact <= pool_size
  BY <1>4 DEF pool_size
<1> QED
  BY <1>1, <1>3, <1>5 DEF Data, End

\* Threads past the data area are too few to get below the guard pages: all of
\* them together, and one that is about to join them, fit in one page.
LEMMA GuardHolds ==
  ASSUME TypeOK, Overrun
  PROVE  /\ IsFiniteSet(Low)
         /\ Cardinality(Low) \in Nat
         /\ Begin <= first_free
         /\ \A t \in Threads : t \notin Low => Begin <= first_free - Size
<1>1. IsFiniteSet(Threads) /\ Low \subseteq Threads
  BY PoolAssumption DEF Low, Pending
<1>2. IsFiniteSet(Low) /\ Cardinality(Low) \in Nat
  BY <1>1, FS_Subset, FS_CardinalityType
<1>3. /\ Cardinality(Threads) \in Nat
      /\ Cardinality(Low) <= Cardinality(Threads)
  BY <1>1, FS_Subset, FS_CardinalityType
<1>4. Size \in Nat /\ PageSize \in Nat /\ Begin \in Nat
  BY PoolAssumption
<1>5. /\ Size * Cardinality(Low) \in Nat
      /\ Size * Cardinality(Low) <= Size * Cardinality(Threads)
      /\ Size * Cardinality(Threads) \in Nat
  BY <1>2, <1>3, <1>4, Products
<1>6. Size * Cardinality(Threads) <= PageSize
  BY PoolAssumption
<1>7. Begin <= first_free
  BY <1>4, <1>5, <1>6, Geometry DEF TypeOK, Overrun
<1>8. ASSUME NEW t \in Threads, t \notin Low
      PROVE  Begin <= first_free - Size
  <2>1. Cardinality(Low \cup {t}) = Cardinality(Low) + 1
    BY <1>2, <1>8, FS_AddElement
  <2>2. Cardinality(Low \cup {t}) <= Cardinality(Threads)
    BY <1>1, FS_Subset
  <2>3. Cardinality(Low) + 1 \in Nat
    BY <1>2
  <2>4. Size * (Cardinality(Low) + 1) <= Size * Cardinality(Threads)
    BY <2>1, <2>2, <2>3, <1>3, <1>4, Products
  <2>5. Size * (Cardinality(Low) + 1) = Size * Cardinality(Low) + Size
    BY <1>2, <1>4, Products
  <2> QED
    BY <2>4, <2>5, <1>4, <1>5, <1>6, Geometry DEF TypeOK, Overrun
<1> QED
  BY <1>2, <1>7, <1>8

-----------------------------------------------------------------------------
\* The invariant holds when the pool has been built.
LEMMA InvInit == Init => Inv
<1> SUFFICES ASSUME Init PROVE Inv
  OBVIOUS
<1>1. /\ first_free = End
      /\ ptr = [t \in Threads |-> 0]
      /\ DOMAIN owner = {}
      /\ outcome = "running"
  BY DEF Init, MemInit, None
<1>2. Pending = {} /\ Low = {}
  BY <1>1 DEF Pending, Low, None
<1>3. TypeOK
  BY <1>1, Geometry DEF TypeOK
<1>4. NoOverlap /\ Above
  BY <1>1, <1>2, Geometry DEF NoOverlap, Above
<1>5. Overrun
  <2>1. Size * Cardinality(Low) = 0
    BY <1>2, FS_EmptySet, Products, PoolAssumption
  <2> QED
    BY <2>1, <1>1, Geometry DEF Overrun
<1> QED
  BY <1>3, <1>4, <1>5 DEF Inv

\* allocate: the new object lies below all others.
LEMMA InvFetchSub ==
  ASSUME Inv, NEW t \in Threads, FetchSub(t)
  PROVE  Inv'
<1> DEFINE p == first_free - Size
<1>1. /\ first_free \in Int
      /\ Size \in Nat \ {0}
      /\ Begin \in Nat \ {0}
      /\ p \in Int
      /\ ptr \in [Threads -> Int]
      /\ Data \in Int /\ End \in Int
      /\ \A u \in Pending : u \in Threads /\ ptr[u] \in Int /\ first_free <= ptr[u]
      /\ \A a \in DOMAIN owner : a \in Int /\ first_free <= a
  BY PoolAssumption, Geometry DEF Inv, TypeOK, Above, Pending
<1>2. /\ ptr[t] = 0
      /\ ptr' = [ptr EXCEPT ![t] = p]
      /\ first_free' = p
      /\ UNCHANGED <<owner, outcome>>
  BY DEF FetchSub, Fetched, Lowered, None
<1>3. t \notin Pending /\ t \notin Low
  BY <1>2 DEF Pending, Low, None
<1>4. p # 0
  BY <1>1, <1>3, GuardHolds DEF Inv
<1>5. /\ Pending' = Pending \cup {t}
      /\ ptr'[t] = p
      /\ \A u \in Pending : ptr'[u] = ptr[u]
  BY <1>1, <1>2, <1>3, <1>4 DEF Pending, None
<1> HIDE DEF p
<1>6. TypeOK'
  BY <1>1, <1>2 DEF Inv, TypeOK
<1>7. NoOverlap'
  <2>1. /\ \A a \in DOMAIN owner : Apart(p, a)
        /\ \A u \in Pending : Apart(p, ptr[u]) /\ Apart(ptr[u], p)
    BY <1>1 DEF p, Apart
  <2>2. \A a, b \in DOMAIN owner' : a # b => Apart(a, b)
    BY <1>2 DEF Inv, NoOverlap
  <2>3. \A u \in Pending' : \A a \in DOMAIN owner' : Apart(ptr'[u], a)
    BY <2>1, <1>2, <1>5 DEF Inv, NoOverlap
  <2>4. \A u, v \in Pending' : u # v => Apart(ptr'[u], ptr'[v])
    BY <2>1, <1>5 DEF Inv, NoOverlap
  <2> QED
    BY <2>2, <2>3, <2>4 DEF NoOverlap, Apart
<1>8. Above'
  <2>1. p <= first_free /\ p + Size = first_free
    BY <1>1 DEF p
  <2>2. \A a \in DOMAIN owner' : Data <= a /\ first_free' <= a /\ a + Size <= End
    BY <2>1, <1>1, <1>2 DEF Inv, Above, p
  <2>3. \A u \in Pending' : first_free' <= ptr'[u] /\ ptr'[u] + Size <= End
    <3>1. first_free' <= ptr'[t] /\ ptr'[t] + Size <= End
      BY <2>1, <1>1, <1>2, <1>5 DEF Inv, Above, p
    <3>2. \A u \in Pending : first_free' <= ptr'[u] /\ ptr'[u] + Size <= End
      BY <2>1, <1>1, <1>2, <1>5 DEF Inv, Above, p
    <3> QED
      BY <3>1, <3>2, <1>5
  <2>4. first_free' <= End
    BY <2>1, <1>1, <1>2 DEF Inv, Above, p
  <2> QED
    BY <2>2, <2>3, <2>4 DEF Above, Data, End, pool_size, protected_pages
<1>9. Overrun'
  <2>1. Low' = IF p < Data THEN Low \cup {t} ELSE Low
    BY <1>3, <1>5 DEF Low, Data, protected_pages
  <2>2. IsFiniteSet(Low) /\ Cardinality(Low) \in Nat
    BY GuardHolds DEF Inv
  <2>3. CASE p < Data
    <3>1. Cardinality(Low') = Cardinality(Low) + 1
      BY <2>1, <2>2, <2>3, <1>3, FS_AddElement
    <3>2. /\ Size * (Cardinality(Low) + 1) = Size * Cardinality(Low) + Size
          /\ Size * Cardinality(Low) \in Nat
      BY <2>2, <1>1, Products
    <3>3. first_free >= Data - Size * Cardinality(Low)
      BY DEF Inv, Overrun
    <3>4. p >= Data - (Size * Cardinality(Low) + Size)
      BY <3>2, <3>3, <1>1 DEF p
    <3>5. first_free' >= Data - Size * Cardinality(Low')
      BY <3>1, <3>2, <3>4, <1>2
    <3> QED
      BY <3>5 DEF Overrun, Data, protected_pages
  <2>4. CASE ~(p < Data)
    <3>1. Size * Cardinality(Low) \in Nat
      BY <2>2, <1>1, Products
    <3>2. p >= Data - Size * Cardinality(Low)
      BY <2>4, <3>1, <1>1
    <3>3. first_free' >= Data - Size * Cardinality(Low')
      BY <2>1, <2>4, <3>2, <1>2
    <3> QED
      BY <3>3 DEF Overrun, Data, protected_pages
  <2> QED
    BY <2>3, <2>4
<1> QED
  BY <1>6, <1>7, <1>8, <1>9 DEF Inv

\* create_list writes an object: it stays where it is.
LEMMA InvWriteNode ==
  ASSUME Inv, NEW t \in Threads, WriteNode(t)
  PROVE  Inv'
<1> DEFINE p == ptr[t]
<1>1. /\ t \in Pending
      /\ first_free' = first_free
      /\ p \in Int
      /\ Data \in Int
      /\ ptr \in [Threads -> Int]
      /\ DOMAIN owner \subseteq Int
  BY Geometry DEF Inv, TypeOK, WriteNode, Pending
<1>2. CASE p >= Data
  <2>1. /\ DOMAIN owner' = DOMAIN owner \cup {p}
        /\ ptr' = [ptr EXCEPT ![t] = 0]
        /\ outcome' = outcome
    BY <1>2 DEF WriteNode, None
  <2>2. /\ Pending' = Pending \ {t}
        /\ \A u \in Pending' : ptr'[u] = ptr[u]
    BY <1>1, <2>1 DEF Pending, None
  <2>3. Low' = Low
    BY <1>1, <1>2, <2>2 DEF Low, Data, protected_pages
  <2>4. TypeOK'
    BY <1>1, <2>1 DEF Inv, TypeOK
  <2>5. NoOverlap'
    <3>1. \A a, b \in DOMAIN owner' : a # b => Apart(a, b)
      BY <1>1, <2>1, Zenon DEF Inv, NoOverlap, Apart
    <3>2. \A u \in Pending' : \A a \in DOMAIN owner' : Apart(ptr'[u], a)
      BY <1>1, <2>1, <2>2 DEF Inv, NoOverlap
    <3>3. \A u, v \in Pending' : u # v => Apart(ptr'[u], ptr'[v])
      BY <2>2 DEF Inv, NoOverlap
    <3> QED
      BY <3>1, <3>2, <3>3 DEF NoOverlap, Apart
  <2>6. Above'
    BY <1>1, <1>2, <2>1, <2>2
    DEF Inv, Above, Data, End, pool_size, protected_pages
  <2>7. Overrun'
    BY <1>1, <2>3 DEF Inv, Overrun, Data, protected_pages
  <2> QED
    BY <2>4, <2>5, <2>6, <2>7 DEF Inv
<1>3. CASE ~(p >= Data)
  <2>1. UNCHANGED <<first_free, ptr, owner>> /\ outcome' \in {"reported", "wild"}
    BY <1>3 DEF WriteNode
  <2> QED
    BY <2>1 DEF Inv, TypeOK, NoOverlap, Apart, Above, Overrun, Low, Pending,
                Data, End, pool_size, protected_pages
<1> QED
  BY <1>2, <1>3

\* Every allocation and every write preserves the invariant.
LEMMA InvNext == Inv /\ [Next]_memVars => Inv'
<1> SUFFICES ASSUME Inv, [Next]_memVars PROVE Inv'
  OBVIOUS
<1>1. ASSUME UNCHANGED memVars PROVE Inv'
  BY <1>1 DEF memVars, Inv, TypeOK, NoOverlap, Apart, Above, Overrun, Low,
              Pending, Data, End, pool_size, protected_pages
<1> QED
  BY <1>1, InvFetchSub, InvWriteNode DEF Next, Ended

\* first_free, the objects handed out and the threads in the guard pages stay
\* in step, whatever the order of the fetch_subs and the writes.
THEOREM Invariance == Spec => []Inv
BY InvInit, InvNext, PTL DEF Spec

\* Concurrent calls of LockFreePoolAllocator::allocate return disjoint objects,
\* for any number of threads and any size of objects and pages.
THEOREM ObjectsApart == Spec => []NoOverlap
<1>1. Inv => NoOverlap
  BY DEF Inv
<1> QED
  BY <1>1, Invariance, PTL

\* The guard pages of the pool catch every thread that runs past its end, as
\* long as one object of each thread fits in a page.
THEOREM GuardPagesSuffice == Spec => []NeverWild
<1>1. Init => NeverWild
  BY DEF Init, MemInit, NeverWild
<1>2. ASSUME Inv, NeverWild, [Next]_memVars PROVE NeverWild'
  <2>1. ASSUME NEW t \in Threads, WriteNode(t) PROVE NeverWild'
    <3>1. Begin <= ptr[t]
      <4>1. first_free <= ptr[t] /\ ptr[t] \in Int /\ first_free \in Int
        BY <1>2, <2>1 DEF Inv, Above, TypeOK, WriteNode, Pending
      <4> QED
        BY <4>1, <1>2, GuardHolds, PoolAssumption DEF Inv
    <3> QED
      BY <3>1, <2>1, <1>2 DEF WriteNode, NeverWild
  <2>2. ASSUME NEW t \in Threads, FetchSub(t) PROVE NeverWild'
    BY <1>2, <2>2 DEF FetchSub, NeverWild
  <2>3. ASSUME UNCHANGED memVars PROVE NeverWild'
    BY <1>2, <2>3 DEF memVars, NeverWild
  <2> QED
    BY <1>2, <2>1, <2>2, <2>3 DEF Next, Ended
<1> QED
  BY <1>1, <1>2, Invariance, PTL DEF Spec

\* The lock-free pool implements the abstract one: every object is written in
\* the data area, apart from all that were written before.
THEOREM ImplementsBump == Spec => RefinesBump
<1>1. Init => Bump!Init
  BY DEF Init, MemInit, Bump!Init
<1>2. ASSUME Inv, [Next]_memVars PROVE [Bump!Next]_owner
  <2>1. ASSUME NEW t \in Threads, WriteNode(t), ptr[t] >= Data PROVE Bump!Next
    <3> DEFINE a == ptr[t]
    <3>1. /\ t \in Pending
          /\ a \in Int
          /\ Data \in Int /\ End \in Int
          /\ Size \in Nat
      BY <1>2, <2>1, Geometry, PoolAssumption DEF Inv, TypeOK, WriteNode, Pending
    <3>2. a + Size <= End
      BY <3>1, <1>2 DEF Inv, Above
    <3>3. \A b \in DOMAIN owner : Bump!Disjoint(a, b)
      BY <3>1, <1>2 DEF Inv, NoOverlap, Apart, Bump!Disjoint
    <3>4. owner' = [b \in DOMAIN owner \cup {a} |-> IF b = a THEN t ELSE owner[b]]
      BY <2>1 DEF WriteNode
    <3>5. Data <= a /\ a \in Data..End
      BY <2>1, <3>1, <3>2
    <3>6. Bump!Write(t, a)
      BY <3>2, <3>3, <3>4, <3>5 DEF Bump!Write
    <3> QED
      BY <3>5, <3>6 DEF Bump!Next
  <2>2. ASSUME NEW t \in Threads, WriteNode(t), ~(ptr[t] >= Data)
        PROVE  UNCHANGED owner
    BY <2>2 DEF WriteNode
  <2>3. ASSUME NEW t \in Threads, FetchSub(t) PROVE UNCHANGED owner
    BY <2>3 DEF FetchSub
  <2> QED
    BY <1>2, <2>1, <2>2, <2>3 DEF Next, Ended, memVars
<1> QED
  BY <1>1, <1>2, Invariance, PTL DEF Spec, RefinesBump, Bump!Spec

-----------------------------------------------------------------------------
(***************************************************************************)
(* LockedPoolAllocator implements LockFreePoolAllocator: the mutex makes   *)
(* the load and the store of first_free one step.                          *)
(***************************************************************************)
\* At first nobody is inside the allocator.
LEMMA LockInvInit == Init /\ LockInit => LockInv
BY DEF Init, MemInit, LockInit, LockInv, LockTypeOK, Exclusive, None

\* The mutex keeps its promise from step to step.
LEMMA LockInvNext ==
  ASSUME LockInv, first_free \in Int, [LockedNext]_vars
  PROVE  LockInv'
<1> USE MutexAssumption DEF LockInv, LockTypeOK, Exclusive, None
<1>1. Size \in Nat
  BY PoolAssumption
<1>2. ASSUME NEW t \in Threads, Lock(t) PROVE LockInv'
  BY <1>2 DEF Lock, At, Goto, Unlocked, memVars
<1>3. ASSUME NEW t \in Threads, Load(t) PROVE LockInv'
  BY <1>3 DEF Load, At, Goto, memVars
<1>4. ASSUME NEW t \in Threads, Store(t) PROVE LockInv'
  BY <1>1, <1>4 DEF Store, At, Goto, Subtracted
<1>5. ASSUME NEW t \in Threads, Unlock(t) PROVE LockInv'
  BY <1>5 DEF Unlock, At, Goto, memVars
<1>6. ASSUME NEW t \in Threads, Write(t) PROVE LockInv'
  BY <1>6 DEF Write, WriteNode, At, lockVars
<1>7. CASE Ended /\ UNCHANGED lockVars
  BY <1>7 DEF Ended, memVars, lockVars
<1>8. CASE UNCHANGED vars
  BY <1>8 DEF vars, memVars, lockVars
<1> QED
  BY <1>2, <1>3, <1>4, <1>5, <1>6, <1>7, <1>8 DEF LockedNext

\* A step of the locked allocator is a step of the lock-free one, or leaves
\* the memory alone.
LEMMA StepRefines ==
  ASSUME LockInv, [LockedNext]_vars
  PROVE  [Next]_memVars
<1>1. ASSUME NEW t \in Threads, Store(t) PROVE Next
  <2>1. ptr[t] = None /\ loaded[t] = first_free
    BY <1>1 DEF Store, At, LockInv, Exclusive
  <2>2. FetchSub(t)
    BY <1>1, <2>1 DEF Store, At, FetchSub, Fetched, Lowered, Subtracted
  <2> QED
    BY <2>2 DEF Next
<1>2. ASSUME NEW t \in Threads, Write(t) PROVE Next
  BY <1>2 DEF Write, Next
<1>3. ASSUME NEW t \in Threads, Lock(t) \/ Load(t) \/ Unlock(t)
      PROVE  UNCHANGED memVars
  BY <1>3 DEF Lock, Load, Unlock
<1>4. CASE Ended /\ UNCHANGED lockVars
  BY <1>4 DEF Ended
<1>5. CASE UNCHANGED vars
  BY <1>5 DEF vars
<1> QED
  BY <1>1, <1>2, <1>3, <1>4, <1>5 DEF LockedNext

\* Under the mutex no other thread is inside allocate, and the pointer that a
\* thread has loaded is still the one that it replaces.
THEOREM Exclusion == LockedSpec => [](LockInv /\ Inv)
<1>1. Init /\ LockInit => LockInv /\ Inv
  BY LockInvInit, InvInit
<1>2. ASSUME LockInv, Inv, [LockedNext]_vars PROVE LockInv' /\ Inv'
  <2>1. first_free \in Int
    BY <1>2 DEF Inv, TypeOK
  <2>2. [Next]_memVars
    BY <1>2, StepRefines
  <2> QED
    BY <1>2, <2>1, <2>2, LockInvNext, InvNext
<1> QED
  BY <1>1, <1>2, PTL DEF LockedSpec

\* LockedPoolAllocator implements LockFreePoolAllocator, for any number of
\* threads and any geometry of the pool.
THEOREM ImplementsLockFree == LockedSpec => RefinesLockFree
<1>1. ASSUME LockInv, [LockedNext]_vars PROVE [Next]_memVars
  BY <1>1, StepRefines
<1> QED
  BY <1>1, Exclusion, PTL DEF LockedSpec, RefinesLockFree, Spec

\* What has been shown of the lock-free pool: objects are apart, and no thread
\* writes below the guard pages of a pool that is exhausted.
THEOREM LockedObjectsApart == LockedSpec => [](NoOverlap /\ NeverWild)
BY ImplementsLockFree, ObjectsApart, GuardPagesSuffice, PTL DEF RefinesLockFree
=============================================================================
