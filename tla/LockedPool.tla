----------------------------- MODULE LockedPool -----------------------------
(***************************************************************************)
(* LockedPoolAllocator: allocate subtracts under a mutex, so the load and  *)
(* the store of first_free are steps of their own, between which another   *)
(* thread may run.                                                         *)
(***************************************************************************)
EXTENDS LockFreePool

CONSTANT NoThread  \* the owner of a mutex that nobody holds

ASSUME MutexAssumption == NoThread \notin Threads

VARIABLES
  lock,         \* the thread that holds the mutex, or NoThread
  pc,           \* where in allocate a thread is
  loaded        \* the value of first_free that it has loaded

lockVars == <<lock, pc, loaded>>
vars == <<memVars, lockVars>>

LockInit ==
  /\ lock = NoThread
  /\ pc = [t \in Threads |-> "out"]
  /\ loaded = [t \in Threads |-> 0]

At(t, l) == outcome = "running" /\ pc[t] = l
Goto(t, l) == pc' = [pc EXCEPT ![t] = l]

\* mutant: the mutex keeps nobody out
Mutant_Open == TRUE

Unlocked == lock = NoThread

Lock(t) ==
  /\ At(t, "out")
  /\ ptr[t] = None
  /\ Unlocked
  /\ lock' = t
  /\ Goto(t, "load")
  /\ UNCHANGED <<memVars, loaded>>

Load(t) ==
  /\ At(t, "load")
  /\ loaded' = [loaded EXCEPT ![t] = first_free]
  /\ Goto(t, "store")
  /\ UNCHANGED <<memVars, lock>>

\* the subtracted pointer, which also is the object
Subtracted(t) == loaded[t] - Size

Store(t) ==
  /\ At(t, "store")
  /\ first_free' = loaded[t] - Size
  /\ ptr' = [ptr EXCEPT ![t] = Subtracted(t)]
  /\ Goto(t, "unlock")
  /\ UNCHANGED <<owner, outcome, lock, loaded>>

Unlock(t) ==
  /\ At(t, "unlock")
  /\ lock' = NoThread
  /\ loaded' = [loaded EXCEPT ![t] = 0]
  /\ Goto(t, "out")
  /\ UNCHANGED memVars

Write(t) == At(t, "out") /\ WriteNode(t) /\ UNCHANGED lockVars

LockedNext ==
  \/ \E t \in Threads : Lock(t) \/ Load(t) \/ Store(t) \/ Unlock(t) \/ Write(t)
  \/ Ended /\ UNCHANGED lockVars

LockedSpec == Init /\ LockInit /\ [][LockedNext]_vars

-----------------------------------------------------------------------------
(***************************************************************************)
(* Seen from the memory, allocate under the mutex is the one step of the   *)
(* lock-free allocator, so that whatever holds of that one holds here.     *)
(***************************************************************************)
RefinesLockFree == Spec

LockTypeOK ==
  /\ lock \in Threads \cup {NoThread}
  /\ pc \in [Threads -> {"out", "load", "store", "unlock"}]
  /\ loaded \in [Threads -> Int]
  /\ ptr \in [Threads -> Int]

\* A thread is inside only with the mutex, it has no object before it stores,
\* and what it has loaded is still first_free when it stores.
Exclusive ==
  \A t \in Threads :
    /\ pc[t] # "out" => lock = t
    /\ pc[t] \in {"load", "store"} => ptr[t] = None
    /\ pc[t] = "store" => loaded[t] = first_free

LockInv == LockTypeOK /\ Exclusive
=============================================================================
