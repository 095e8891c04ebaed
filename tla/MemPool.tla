------------------------------ MODULE MemPool -------------------------------
(***************************************************************************)
(* 06-mempool: pools with guard pages at their lower end, their registry   *)
(* and the SIGSEGV handler that tells which pool has run out of memory.    *)
(* The program has one thread.  It also reads addresses that it knows      *)
(* nothing about, with safe_read_byte of 09-safe-byte-read, which takes    *)
(* the handler away and has to give it back; in the repository the two are *)
(* separate programs, and this one stands for a caller of safe_read_byte   *)
(* that has a handler of its own.                                          *)
(*                                                                         *)
(* A pool that cannot be registered is gone: the exception leaves its      *)
(* constructor, without unlocking the registry.                            *)
(***************************************************************************)
EXTENDS SafeRead, Integers, Sequences

CONSTANTS
  Pools,        \* the pools that the program builds
  POOL_LIMIT,   \* 100 in the code
  Capacity,     \* objects of a pool
  NoPool        \* a null pointer

ASSUME NoPoolAssumption == NoPool \notin Pools
ASSUME LimitAssumption == POOL_LIMIT \in Nat

VARIABLES
  known_pools,          \* slot -> pool, NoPool for nullptr
  register_index,       \* pool -> its slot
  first_free_pool_slot,
  free_pool_slots,      \* a queue
  pool_registry_status,
  used,                 \* pool -> objects allocated, for the pools that exist
  job,                  \* what the registry is locked for, and the pool
  i                     \* the handler's loop

poolVars == <<known_pools, register_index, first_free_pool_slot, free_pool_slots,
              pool_registry_status, used, job, i>>
vars == <<signalVars, pc, readVars, poolVars>>

Slots == 0..POOL_LIMIT - 1
Live == DOMAIN used

\* main installs segv_handler
Init ==
  /\ \E mask \in SUBSET SIGNALS :
       action = [sig \in SIGNALS |->
                   IF sig = "SIGSEGV" THEN Action("segv_handler", FALSE, mask) ELSE DFL]
  /\ blocked = {}
  /\ outcome = "running"
  /\ pc = "main"
  /\ ReadInit
  /\ known_pools = [s \in Slots |-> NoPool]
  /\ register_index = [p \in Pools |-> 0]
  /\ first_free_pool_slot = 0
  /\ free_pool_slots = <<>>
  /\ pool_registry_status = "IDLE"
  /\ used = <<>>
  /\ job = <<"none", NoPool>>
  /\ i = 0

-----------------------------------------------------------------------------
(***************************************************************************)
(* pool_registry_spinlock goes on as long as its compare_exchange          *)
(* succeeds: it takes a registry that is idle and finds out in the second  *)
(* round; one that is locked it does not wait for.                         *)
(***************************************************************************)
LockFor(what, p) ==
  /\ job' = <<what, p>>
  /\ pc' = "spinlock"

LockStatus == IF job[1] = "report" THEN "BAD_ALLOC" ELSE "UPDATING"

\* mutant: the loop waits until the compare_exchange succeeds
Mutant_Waits(succeeds) == ~succeeds

Again(succeeds) == succeeds

Spinlock ==
  /\ pc = "spinlock"
  /\ LET succeeds == pool_registry_status = "IDLE" IN
     /\ pool_registry_status' = IF succeeds THEN LockStatus ELSE pool_registry_status
     /\ pc' = IF Again(succeeds) THEN "spinlock" ELSE job[1]
  /\ UNCHANGED <<signalVars, readVars, known_pools, register_index, first_free_pool_slot,
                 free_pool_slots, used, job, i>>

\* the constructor, up to the registry
New(p) ==
  /\ pc = "main"
  /\ p \notin Live
  /\ LockFor("add", p)
  /\ UNCHANGED <<signalVars, readVars, known_pools, register_index, first_free_pool_slot,
                 free_pool_slots, pool_registry_status, used, i>>

\* mutant: the slot that is taken again stays in the queue
Mutant_NoPop(slots) == slots

Popped(slots) == Tail(slots)

pool_registry_add ==
  LET p == job[2]
      reused == free_pool_slots # <<>>
      slot == IF reused THEN Head(free_pool_slots) ELSE first_free_pool_slot
  IN  /\ pc = "add"
      /\ pc' = "main"
      /\ register_index' = [register_index EXCEPT ![p] = slot]
      /\ IF ~reused /\ first_free_pool_slot = POOL_LIMIT
         THEN UNCHANGED <<known_pools, first_free_pool_slot, free_pool_slots,
                          pool_registry_status, used>>
         ELSE /\ free_pool_slots' = IF reused THEN Popped(free_pool_slots) ELSE free_pool_slots
              /\ first_free_pool_slot' = IF reused THEN first_free_pool_slot
                                         ELSE first_free_pool_slot + 1
              /\ known_pools' = [known_pools EXCEPT ![slot] = p]
              /\ pool_registry_status' = "IDLE"
              /\ used' = [u \in Live \cup {p} |-> IF u = p THEN 0 ELSE used[u]]
      /\ UNCHANGED <<signalVars, readVars, job, i>>

\* ~PoolAllocator
Delete(p) ==
  /\ pc = "main"
  /\ p \in Live
  /\ LockFor("remove", p)
  /\ UNCHANGED <<signalVars, readVars, known_pools, register_index, first_free_pool_slot,
                 free_pool_slots, pool_registry_status, used, i>>

pool_registry_remove ==
  LET p == job[2] IN
  /\ pc = "remove"
  /\ free_pool_slots' = Append(free_pool_slots, register_index[p])
  /\ known_pools' = [known_pools EXCEPT ![register_index[p]] = NoPool]
  /\ pool_registry_status' = "IDLE"
  /\ used' = [u \in Live \ {p} |-> used[u]]
  /\ pc' = "main"
  /\ UNCHANGED <<signalVars, readVars, register_index, first_free_pool_slot, job, i>>

-----------------------------------------------------------------------------
(***************************************************************************)
(* create_list: allocate, and write the object.  The guard pages are as    *)
(* large as an object, so the first write past the capacity faults.  A     *)
(* fault that belongs to no pool has NoPool.                               *)
(***************************************************************************)
Fault(p) ==
  IF Fatal("SIGSEGV")
  THEN /\ outcome' = "killed"
       /\ pc' = "killed"
       /\ UNCHANGED <<action, blocked, job, i>>
  ELSE /\ blocked' = Entered("SIGSEGV")
       /\ LockFor("report", p)
       /\ i' = 0
       /\ UNCHANGED <<action, outcome>>

Allocate(p) ==
  /\ pc = "main"
  /\ p \in Live
  /\ IF used[p] < Capacity
     THEN /\ used' = [used EXCEPT ![p] = @ + 1]
          /\ UNCHANGED <<signalVars, pc, job, i>>
     ELSE Fault(p) /\ UNCHANGED used
  /\ UNCHANGED <<readVars, known_pools, register_index, first_free_pool_slot,
                 free_pool_slots, pool_registry_status>>

\* the program follows a wrong pointer
Wild ==
  /\ pc = "main"
  /\ Fault(NoPool)
  /\ UNCHANGED <<readVars, known_pools, register_index, first_free_pool_slot,
                 free_pool_slots, pool_registry_status, used>>

Exit(how) == outcome' = how /\ pc' = "exited" /\ UNCHANGED <<action, blocked, job>>

\* mutant: an address in the guard pages is not the pool's
Mutant_AboveBegin(p) == FALSE

Inside(p) == known_pools[i] = p

(***************************************************************************)
(* segv_handler looks at every slot.  One that nobody has used, or that    *)
(* has been given up, is a null pointer, and to follow it is a second      *)
(* SIGSEGV inside the handler.                                             *)
(***************************************************************************)
segv_handler ==
  /\ pc = "report"
  /\ IF i = POOL_LIMIT THEN Exit("exit") /\ UNCHANGED i
     ELSE IF known_pools[i] = NoPool THEN Fault(job[2])
     ELSE IF Inside(job[2]) THEN Exit("reported") /\ UNCHANGED i
     ELSE i' = i + 1 /\ UNCHANGED <<signalVars, pc, job>>
  /\ UNCHANGED <<readVars, known_pools, register_index, first_free_pool_slot,
                 free_pool_slots, pool_registry_status, used>>

Ended == outcome # "running" /\ UNCHANGED vars

PoolNext ==
  \/ \E p \in Pools : New(p) \/ Delete(p) \/ Allocate(p)
  \/ Spinlock \/ pool_registry_add \/ pool_registry_remove \/ Wild \/ segv_handler

Next ==
  \/ PoolNext
  \/ ReadNext /\ UNCHANGED poolVars
  \/ Ended

\* one thread, which goes on with what it has begun
Working == pc # "main" /\ Next

Spec == Init /\ [][Next]_vars

FairSpec == Spec /\ WF_vars(Working)

-----------------------------------------------------------------------------
\* The slots belong to the pools that exist, one each; all others that have
\* ever been used are in the queue, once, also after an exception.
SlotsAccounted ==
  /\ \A p \in Live : known_pools[register_index[p]] = p
  /\ {known_pools[s] : s \in Slots} \subseteq Live \cup {NoPool}
  /\ \A s \in Slots :
       LET queued == {n \in DOMAIN free_pool_slots : free_pool_slots[n] = s}
       IN  IF known_pools[s] = NoPool /\ s < first_free_pool_slot
           THEN \E n \in DOMAIN free_pool_slots : queued = {n}
           ELSE queued = {}

\* A pool that runs out of memory is reported, unless a slot below its own is
\* empty; then the handler follows a null pointer and the process is killed
\* without a word.  So it is by every other fault as long as there is an empty
\* slot.  There is no other way to be killed.
Diagnosed ==
  LET p == job[2]
      below == IF p = NoPool THEN Slots ELSE 0..register_index[p] - 1
      hole == \E s \in below : known_pools[s] = NoPool
  IN  /\ outcome = "killed" => hole
      /\ outcome = "reported" => p \in Live /\ ~hole
      /\ outcome = "exit" => p = NoPool /\ ~hole

\* Reads are safe and leave no trace: whatever was read in between, the program
\* runs with the handler it has installed, and without a blocked signal.
Restored ==
  /\ ReadsSafely
  /\ pc \in {"main", "spinlock", "add", "remove"} /\ job[1] # "report" =>
       /\ action["SIGSEGV"].handler = "segv_handler"
       /\ action["SIGBUS"] = DFL
       /\ blocked = {}

\* The thread always gets its lock or gets by without it, the handler too,
\* even if an exception has left the registry locked; every read returns.
NeverStuck == pc # "main" ~> (pc = "main" \/ outcome # "running")

-----------------------------------------------------------------------------
(***************************************************************************)
(* The invariant behind the proofs of the three safety properties.         *)
(***************************************************************************)
Types ==
  /\ known_pools \in [Slots -> Pools \cup {NoPool}]
  /\ register_index \in [Pools -> Nat]
  /\ first_free_pool_slot \in 0..POOL_LIMIT
  /\ free_pool_slots \in Seq(Slots)
  /\ Live \subseteq Pools
  /\ job \in {"none", "add", "remove", "report"} \X (Pools \cup {NoPool})
  /\ i \in 0..POOL_LIMIT
  /\ ptr \in Pointers
  /\ DOMAIN action = SIGNALS

\* pools and slots belong to each other, a slot with a pool has been used, and
\* the queue holds the used slots without one
Registry ==
  /\ \A p \in Live : register_index[p] \in Slots /\ known_pools[register_index[p]] = p
  /\ \A s \in Slots :
       known_pools[s] # NoPool =>
         /\ known_pools[s] \in Live
         /\ register_index[known_pools[s]] = s
         /\ s < first_free_pool_slot
  /\ \A n \in DOMAIN free_pool_slots :
       /\ free_pool_slots[n] < first_free_pool_slot
       /\ known_pools[free_pool_slots[n]] = NoPool
  /\ \A m, n \in DOMAIN free_pool_slots :
       free_pool_slots[m] = free_pool_slots[n] => m = n
  /\ \A s \in Slots :
       s < first_free_pool_slot /\ known_pools[s] = NoPool =>
         \E n \in DOMAIN free_pool_slots : free_pool_slots[n] = s

\* what the registry is, or is about to be, locked for
Reporting == job[1] = "report"

Jobs ==
  /\ pc \in {"main", "spinlock", "add", "remove", "report", "killed", "exited"}
              \cup Reading
  /\ pc \in {"add", "remove", "report"} => job[1] = pc
  /\ pc = "spinlock" => job[1] # "none"
  /\ pc \in {"main"} \cup Reading => ~Reporting
  /\ pc \in {"killed", "exited"} => Reporting
  /\ pc \in {"spinlock", "add"} /\ job[1] = "add" => job[2] \in Pools \ Live
  /\ pc \in {"spinlock", "remove"} /\ job[1] = "remove" => job[2] \in Live
  /\ Reporting => job[2] \in Live \cup {NoPool}

\* The program's own dispositions: SIGSEGV is blocked in its handler.
Own(a) ==
  /\ a["SIGSEGV"].handler = "segv_handler"
  /\ a["SIGSEGV"].nodefer = FALSE
  /\ a["SIGBUS"] = DFL

Dispositions ==
  /\ pc \in {"main", "spinlock", "add", "remove", "install", "returned"} => Own(action)
  /\ pc \in {"setjmp", "read", "safe_handler", "restore"} =>
       /\ Own(old)
       /\ \A sig \in SIGNALS : action[sig].handler = "safe_handler"
  /\ pc \in {"main", "spinlock", "add", "remove"} \cup (Reading \ {"safe_handler"})
       /\ ~Reporting => blocked = {}
  /\ pc \in {"spinlock", "report"} /\ Reporting => "SIGSEGV" \in blocked
  /\ pc \in {"read", "safe_handler", "restore"} => JMP = {}
  /\ pc = "safe_handler" => ptr # "byte"
  /\ pc \in {"restore", "returned"} => (result = "nullopt" <=> ptr # "byte")

\* the handler has found a pool in every slot below i, and not the one that
\* has run out of memory
HandlerScan ==
  /\ pc = "spinlock" /\ Reporting => i = 0
  /\ pc = "report" =>
       \A s \in Slots : s < i => known_pools[s] \notin {NoPool, job[2]}
  /\ pc = "killed" <=> outcome = "killed"
  /\ pc = "exited" <=> outcome \in {"reported", "exit"}
  /\ outcome \in {"running", "killed", "reported", "exit"}

Inv == Types /\ Registry /\ Jobs /\ Dispositions /\ HandlerScan /\ Diagnosed
=============================================================================
