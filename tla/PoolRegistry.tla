---------------------------- MODULE PoolRegistry ----------------------------
(***************************************************************************)
(* The registry of memory pools of 07-non-blocking-pool and the SIGSEGV    *)
(* handler that looks a faulting address up in it.                         *)
(*                                                                         *)
(* Each thread builds a pool, may run over its lower end into the guard    *)
(* pages, and otherwise destroys it and builds another.  The registry is   *)
(* an array of two atomics per slot, used without a lock: a thread steps   *)
(* between any two accesses to it.  The handler runs on the thread that    *)
(* faulted, so it sees its own writes; an exit ends every thread.          *)
(***************************************************************************)
EXTENDS Integers, FiniteSets

CONSTANTS
  Threads,
  POOL_LIMIT,   \* slots of known_pools
  Regions       \* address ranges <<begin, end>> that mmap may return

Slots == 1..POOL_LIMIT

ASSUME RegistryAssumption ==
  /\ POOL_LIMIT \in Nat
  /\ \A r \in Regions : r \in Nat \X Nat /\ 0 < r[1] /\ r[1] < r[2]

VARIABLES
  begin, end,   \* known_pools; begin is 0 for nullptr
  pc,           \* what each thread is doing
  pool,         \* the pool of each thread
  slot,         \* its slot, or the slot that add or the handler looks at
  own,          \* the slot of a thread whose handler is running
  seen,         \* the value of begin that the handler has loaded
  outcome       \* how the process has ended

vars == <<begin, end, pc, pool, slot, own, seen, outcome>>

NoPool == <<0, 0>>
Running == "running"

Init ==
  /\ begin = [s \in Slots |-> 0]
  /\ end = [s \in Slots |-> 0]
  /\ pc = [t \in Threads |-> "none"]
  /\ pool = [t \in Threads |-> NoPool]
  /\ slot = [t \in Threads |-> 0]
  /\ own = [t \in Threads |-> 0]
  /\ seen = [t \in Threads |-> 0]
  /\ outcome = Running

Overlap(r, q) == r[1] < q[2] /\ q[1] < r[2]

At(t, from) == outcome = Running /\ pc[t] = from
Goto(t, to) == pc' = [pc EXCEPT ![t] = to]

-----------------------------------------------------------------------------
\* the constructor's mmap: a range that no mapped pool overlaps
Map(t) ==
  /\ At(t, "none")
  /\ \E r \in Regions :
       /\ \A u \in Threads : pool[u] # NoPool => ~Overlap(r, pool[u])
       /\ pool' = [pool EXCEPT ![t] = r]
  /\ slot' = [slot EXCEPT ![t] = 1]
  /\ Goto(t, "add")
  /\ UNCHANGED <<begin, end, own, seen, outcome>>

\* mutant: the test and the store of add are not one compare_exchange
Mutant_TakesAny(s) == TRUE

Vacant(s) == begin[s] = 0

\* add: the compare_exchange that takes a slot
Take(t) ==
  /\ At(t, "add")
  /\ slot[t] <= POOL_LIMIT
  /\ IF Vacant(slot[t])
     THEN /\ begin' = [begin EXCEPT ![slot[t]] = pool[t][1]]
          /\ Goto(t, "storeEnd")
          /\ UNCHANGED slot
     ELSE /\ slot' = [slot EXCEPT ![t] = @ + 1]
          /\ UNCHANGED <<begin, pc>>
  /\ UNCHANGED <<end, pool, own, seen, outcome>>

StoredEnd(t) == pool[t][2]

\* add: the end follows
StoreEnd(t) ==
  /\ At(t, "storeEnd")
  /\ end' = [end EXCEPT ![slot[t]] = StoredEnd(t)]
  /\ Goto(t, "ready")
  /\ UNCHANGED <<begin, pool, slot, own, seen, outcome>>

\* no slot left: the exception leaves a thread's function, which ends the process
Throw(t) ==
  /\ At(t, "add")
  /\ slot[t] > POOL_LIMIT
  /\ outcome' = "terminate"
  /\ UNCHANGED <<begin, end, pc, pool, slot, own, seen>>

\* ~PoolAllocator: remove, then munmap
Remove(t) ==
  /\ At(t, "ready")
  /\ begin' = [begin EXCEPT ![slot[t]] = 0]
  /\ Goto(t, "unmap")
  /\ UNCHANGED <<end, pool, slot, own, seen, outcome>>

Unmap(t) ==
  /\ At(t, "unmap")
  /\ pool' = [pool EXCEPT ![t] = NoPool]
  /\ Goto(t, "none")
  /\ UNCHANGED <<begin, end, slot, own, seen, outcome>>

-----------------------------------------------------------------------------
(***************************************************************************)
(* alloc_handler.  The faulting address is in the guard pages, which start *)
(* at the pool's begin.                                                    *)
(***************************************************************************)
Failed(t) == pool[t][1]

Fault(t) ==
  /\ At(t, "ready")
  /\ own' = [own EXCEPT ![t] = slot[t]]
  /\ slot' = [slot EXCEPT ![t] = 1]
  /\ Goto(t, "loadBegin")
  /\ UNCHANGED <<begin, end, pool, seen, outcome>>

\* one turn of the loop; after the last slot, the handler that the process
\* had before, which is SIG_DFL
LoadBegin(t) ==
  /\ At(t, "loadBegin")
  /\ IF slot[t] > POOL_LIMIT
     THEN outcome' = "unknown fault" /\ UNCHANGED <<pc, slot, seen>>
     ELSE /\ IF ~Vacant(slot[t]) /\ begin[slot[t]] <= Failed(t)
             THEN /\ seen' = [seen EXCEPT ![t] = begin[slot[t]]]
                  /\ Goto(t, "loadEnd")
                  /\ UNCHANGED slot
             ELSE /\ slot' = [slot EXCEPT ![t] = @ + 1]
                  /\ UNCHANGED <<seen, pc>>
          /\ UNCHANGED outcome
  /\ UNCHANGED <<begin, end, pool, own>>

\* mutant: an address in the guard pages is not taken for the pool's
Mutant_StrictBegin(t) ==
  seen[t] < Failed(t) /\ Failed(t) < end[slot[t]]

InPool(t) == seen[t] <= Failed(t) /\ Failed(t) < end[slot[t]]

\* the message names begin, then exit(3)
LoadEnd(t) ==
  /\ At(t, "loadEnd")
  /\ IF InPool(t)
     THEN /\ outcome' = "reported"
          /\ Goto(t, "reported")
          /\ UNCHANGED slot
     ELSE /\ slot' = [slot EXCEPT ![t] = @ + 1]
          /\ Goto(t, "loadBegin")
          /\ UNCHANGED outcome
  /\ UNCHANGED <<begin, end, pool, own, seen>>

Ended == outcome # Running /\ UNCHANGED vars

Next ==
  \/ \E t \in Threads :
       \/ Map(t) \/ Take(t) \/ StoreEnd(t) \/ Throw(t) \/ Remove(t) \/ Unmap(t)
       \/ Fault(t) \/ LoadBegin(t) \/ LoadEnd(t)
  \/ Ended

Spec == Init /\ [][Next]_vars

-----------------------------------------------------------------------------
\* Every variable has its type.
TypeOK ==
  /\ begin \in [Slots -> {r[1] : r \in Regions} \cup {0}]
  /\ end \in [Slots -> {r[2] : r \in Regions} \cup {0}]
  /\ pool \in [Threads -> Regions \cup {NoPool}]
  /\ pc \in [Threads -> {"none", "add", "storeEnd", "ready", "unmap",
                         "loadBegin", "loadEnd", "reported"}]
  /\ slot \in [Threads -> 0..POOL_LIMIT + 1]
  /\ own \in [Threads -> 0..POOL_LIMIT]
  /\ seen \in [Threads -> {r[1] : r \in Regions} \cup {0}]

\* the slot of a pool that is built and not yet being destroyed
Slot(t) == IF pc[t] \in {"loadBegin", "loadEnd", "reported"} THEN own[t] ELSE slot[t]
Registered(t) == pc[t] \in {"ready", "loadBegin", "loadEnd", "reported"}

\* A pool keeps its slot while others take and give up theirs: the range in
\* the slot of every pool that is built is the pool's own.
SlotsKept ==
  \A t \in Threads : Registered(t) => <<begin[Slot(t)], end[Slot(t)]>> = pool[t]

\* A pool that runs into its guard pages is reported: the handler never gets
\* to the end of the registry, whatever other threads register meanwhile.
FaultIsReported == outcome # "unknown fault"

(***************************************************************************)
(* The invariant behind the proofs.                                        *)
(***************************************************************************)
InHandler(t) == pc[t] \in {"loadBegin", "loadEnd"}

\* from its compare_exchange until its remove a thread holds a slot
Holds(t) == pc[t] = "storeEnd" \/ Registered(t)

\* a held slot shows its holder's begin, and nobody else holds it
HeldApart ==
  \A t \in Threads : Holds(t) =>
    /\ Slot(t) \in Slots
    /\ begin[Slot(t)] = pool[t][1]
    /\ \A u \in Threads \ {t} : Holds(u) => Slot(u) # Slot(t)

Mapped ==
  \A t \in Threads :
    /\ pc[t] = "add" \/ Holds(t) => pool[t] \in Regions
    /\ pc[t] = "add" => slot[t] # 0

\* the handler has not passed its own pool's slot, and there it has loaded
\* its own pool's begin
OnTrack ==
  \A t \in Threads : InHandler(t) =>
    /\ 0 < slot[t]
    /\ slot[t] <= own[t]
    /\ pc[t] = "loadEnd" /\ slot[t] = own[t] => seen[t] = pool[t][1]

Inv == TypeOK /\ HeldApart /\ SlotsKept /\ Mapped /\ OnTrack /\ FaultIsReported
=============================================================================
