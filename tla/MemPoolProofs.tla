---------------------------- MODULE MemPoolProofs ----------------------------
(***************************************************************************)
(* Proofs about MemPool, for any pools and any number of slots: slots are  *)
(* accounted for, a fault ends the process as it should, and reads with    *)
(* safe_read_byte leave no trace.                                          *)
(***************************************************************************)
EXTENDS MemPool, SequenceTheorems, TLAPS

\* While the thread goes on the process runs, and Diagnosed says nothing.
LEMMA Running ==
  ASSUME Inv, pc \notin {"killed", "exited"}
  PROVE  outcome = "running"
BY DEF Inv, HandlerScan

\* A step after which the process still runs says nothing of how it ends.
LEMMA StillRunning ==
  ASSUME Inv, outcome' = "running", pc' \notin {"killed", "exited"}
  PROVE  /\ Diagnosed'
         /\ (pc = "killed" <=> outcome = "killed")'
         /\ (pc = "exited" <=> outcome \in {"reported", "exit"})'
         /\ (outcome \in {"running", "killed", "reported", "exit"})'
BY DEF Diagnosed

\* The registry is only changed under its lock, or what stands for it.
LEMMA RegistryKept ==
  ASSUME Inv, UNCHANGED <<known_pools, register_index, first_free_pool_slot,
                          free_pool_slots>>, Live' = Live
  PROVE  Registry'
BY DEF Inv, Registry

-----------------------------------------------------------------------------
\* The invariant holds of an empty registry and the default dispositions.
LEMMA InitInv == Init => Inv
<1> SUFFICES ASSUME Init PROVE Inv
  OBVIOUS
<1> USE DEF Init, ReadInit
<1>1. Live = {}
  BY DEF Live
<1>2. free_pool_slots \in Seq(Slots) /\ DOMAIN free_pool_slots = {}
  OBVIOUS
<1>3. Types
  BY <1>1, <1>2, LimitAssumption DEF Types, Pointers
<1>4. Registry
  BY <1>1, <1>2, LimitAssumption DEF Registry, Slots
<1>5. Jobs
  BY DEF Jobs, Reporting
<1>6. Dispositions
  BY DEF Dispositions, Own, Reading, Action, SIGNALS, Reporting
<1>7. HandlerScan
  BY DEF HandlerScan, Reporting
<1>8. Diagnosed
  BY DEF Diagnosed
<1> QED
  BY <1>3, <1>4, <1>5, <1>6, <1>7, <1>8 DEF Inv

-----------------------------------------------------------------------------
(***************************************************************************)
(* The registry.                                                           *)
(***************************************************************************)
\* A constructor or a destructor asks for the lock.
LEMMA LockKeeps ==
  ASSUME Inv, NEW p \in Pools, New(p) \/ Delete(p)
  PROVE  Inv'
<1> USE DEF New, Delete, LockFor, signalVars, readVars
<1>1. Live' = Live
  BY DEF Live
<1>2. outcome' = "running" /\ pc' = "spinlock"
  BY Running
<1>3. Types'
  BY <1>1 DEF Inv, Types
<1>4. Registry'
  BY <1>1, RegistryKept
<1>5. Jobs'
  BY <1>1 DEF Inv, Jobs, Reading, Reporting
<1>6. Dispositions'
  BY DEF Inv, Jobs, Dispositions, Reading, Reporting
<1>7. HandlerScan' /\ Diagnosed'
  BY <1>2, StillRunning DEF HandlerScan, Reporting
<1> QED
  BY <1>3, <1>4, <1>5, <1>6, <1>7 DEF Inv

\* The lock is taken or not, and the thread goes on in either case.
LEMMA SpinlockKeeps == ASSUME Inv, Spinlock PROVE Inv'
<1> USE DEF Spinlock, signalVars, readVars
<1>1. Live' = Live
  BY DEF Live
<1>2. pc' \in {"spinlock", job[1]} /\ job[1] \in {"add", "remove", "report"}
  BY DEF Inv, Types, Jobs
<1>3. outcome' = "running" /\ pc' \notin {"killed", "exited"}
  BY <1>2, Running
<1>4. Types'
  BY <1>1 DEF Inv, Types
<1>5. Registry'
  BY <1>1, RegistryKept
<1>6. Jobs'
  BY <1>1, <1>2 DEF Inv, Jobs, Reading, Reporting
<1>7. Dispositions'
  BY <1>2 DEF Inv, Dispositions, Reading, Reporting
<1>8. HandlerScan'
  BY <1>2, <1>3, StillRunning, LimitAssumption DEF Inv, HandlerScan, Reporting, Slots
<1>9. Diagnosed'
  BY <1>3, StillRunning
<1> QED
  BY <1>4, <1>5, <1>6, <1>7, <1>8, <1>9 DEF Inv

\* What all steps have in common that give the registry up again.
LEMMA BackInMain ==
  ASSUME Inv, pc \in {"add", "remove"}, pc' = "main",
         UNCHANGED <<signalVars, readVars, job, i>>
  PROVE  /\ Jobs' /\ Dispositions' /\ HandlerScan' /\ Diagnosed'
<1> USE DEF signalVars, readVars
<1>1. outcome' = "running" /\ pc' \notin {"killed", "exited"}
  BY Running
<1>2. ~Reporting
  BY DEF Inv, Jobs, Reporting
<1>3. Jobs'
  BY <1>2 DEF Jobs, Reading, Reporting
<1>4. Dispositions'
  BY <1>2 DEF Inv, Dispositions, Reading, Reporting
<1>5. HandlerScan' /\ Diagnosed'
  BY <1>1, StillRunning DEF HandlerScan
<1> QED
  BY <1>3, <1>4, <1>5

\* A pool gets a slot that has none; without a slot, nothing of it remains.
LEMMA AddKeeps == ASSUME Inv, pool_registry_add PROVE Inv'
<1> DEFINE p == job[2]
           Q == free_pool_slots
           slot == IF Q # <<>> THEN Head(Q) ELSE first_free_pool_slot
<1>1. /\ p \in Pools \ Live
      /\ pc = "add" /\ pc' = "main"
      /\ UNCHANGED <<signalVars, readVars, job, i>>
      /\ register_index' = [register_index EXCEPT ![p] = slot]
  BY DEF Inv, Jobs, pool_registry_add
<1>2. Types /\ Registry
  BY DEF Inv
<1>3. CASE Q = <<>> /\ first_free_pool_slot = POOL_LIMIT
  <2>1. UNCHANGED <<known_pools, first_free_pool_slot, free_pool_slots,
                    pool_registry_status, used>>
    BY <1>3 DEF pool_registry_add
  <2>2. Live' = Live
    BY <2>1 DEF Live
  <2>3. Types'
    BY <1>1, <1>2, <1>3, <2>1, <2>2, LimitAssumption DEF Types, signalVars, readVars
  <2>4. \A o \in Live : register_index'[o] = register_index[o]
    BY <1>1, <1>2 DEF Types
  <2>5. Registry'
    BY <1>2, <2>1, <2>2, <2>4 DEF Registry
  <2> QED
    BY <1>1, <2>3, <2>5, BackInMain DEF Inv
<1>4. CASE ~(Q = <<>> /\ first_free_pool_slot = POOL_LIMIT)
  <2>1. /\ Q' = IF Q # <<>> THEN Tail(Q) ELSE Q
        /\ first_free_pool_slot' = IF Q # <<>> THEN first_free_pool_slot
                                   ELSE first_free_pool_slot + 1
        /\ known_pools' = [known_pools EXCEPT ![slot] = p]
        /\ used' = [u \in Live \cup {p} |-> IF u = p THEN 0 ELSE used[u]]
    BY <1>4 DEF pool_registry_add, Popped
  <2>2. Live' = Live \cup {p}
    BY <2>1 DEF Live
  <2>3. /\ slot \in Slots /\ slot \in Nat
        /\ known_pools[slot] = NoPool
    <3>1. CASE Q = <<>>
      BY <1>2, <1>4, <3>1, LimitAssumption DEF Types, Registry, Slots
    <3>2. CASE Q # <<>>
      BY <1>2, <3>2, LimitAssumption, HeadTailProperties DEF Types, Registry, Slots
    <3> QED
      BY <3>1, <3>2
  <2>4. /\ Q' \in Seq(Slots)
        /\ \A n \in DOMAIN Q' : Q'[n] # slot /\ \E m \in DOMAIN Q : Q'[n] = Q[m]
        /\ \A m, n \in DOMAIN Q' : Q'[m] = Q'[n] => m = n
        /\ \A n \in DOMAIN Q : Q[n] # slot => \E m \in DOMAIN Q' : Q'[m] = Q[n]
    <3>1. CASE Q = <<>>
      BY <1>2, <2>1, <3>1 DEF Types
    <3>2. CASE Q # <<>>
      <4>1. /\ Q \in Seq(Slots) /\ Len(Q) \in Nat \ {0} /\ DOMAIN Q = 1..Len(Q)
            /\ slot = Q[1]
        BY <1>2, <3>2 DEF Types
      <4>2. /\ Q' \in Seq(Slots) /\ DOMAIN Q' = 1..Len(Q) - 1
            /\ \A n \in DOMAIN Q' : Q'[n] = Q[n + 1] /\ n + 1 \in DOMAIN Q
        BY <2>1, <3>2, <4>1
      <4>3. \A m, n \in DOMAIN Q : Q[m] = Q[n] => m = n
        BY <1>2 DEF Registry
      <4>4. \A n \in DOMAIN Q : Q[n] # slot => n - 1 \in DOMAIN Q' /\ Q'[n - 1] = Q[n]
        BY <4>1, <4>2
      <4> HIDE DEF slot
      <4> QED
        BY <4>1, <4>2, <4>3, <4>4
    <3> QED
      BY <3>1, <3>2
  <2>5. first_free_pool_slot <= first_free_pool_slot' /\ slot < first_free_pool_slot'
    <3>1. CASE Q = <<>>
      BY <1>2, <2>1, <3>1 DEF Types
    <3>2. CASE Q # <<>>
      BY <1>2, <2>1, <3>2 DEF Types, Registry
    <3> QED
      BY <3>1, <3>2
  <2>6. first_free_pool_slot' \in 0..POOL_LIMIT
    BY <1>2, <1>4, <2>1, LimitAssumption DEF Types
  <2>7. \A s \in Slots : s < first_free_pool_slot' => s < first_free_pool_slot \/ s = slot
    BY <1>2, <2>1, LimitAssumption DEF Types, Slots
  <2> HIDE DEF slot
  <2>8. known_pools' \in [Slots -> Pools \cup {NoPool}] /\ register_index' \in [Pools -> Nat]
    BY <1>1, <1>2, <2>1, <2>3 DEF Types
  <2>9. Types'
    BY <1>1, <1>2, <2>2, <2>4, <2>6, <2>8 DEF Types, signalVars, readVars
  <2>10. /\ register_index'[p] = slot /\ known_pools'[slot] = p
         /\ \A o \in Live : register_index'[o] = register_index[o]
         /\ \A s \in Slots : s # slot => known_pools'[s] = known_pools[s]
    BY <1>1, <1>2, <2>1, <2>3 DEF Types
  <2>11. \A o \in Live' : register_index'[o] \in Slots /\ known_pools'[register_index'[o]] = o
    BY <1>1, <1>2, <2>2, <2>3, <2>10, NoPoolAssumption DEF Types, Registry
  <2>12. \A s \in Slots : known_pools'[s] # NoPool =>
            /\ known_pools'[s] \in Live'
            /\ register_index'[known_pools'[s]] = s
            /\ s < first_free_pool_slot'
    <3> SUFFICES ASSUME NEW s \in Slots, known_pools'[s] # NoPool
                 PROVE  /\ known_pools'[s] \in Live'
                        /\ register_index'[known_pools'[s]] = s
                        /\ s < first_free_pool_slot'
      OBVIOUS
    <3>1. CASE s = slot
      BY <2>2, <2>5, <2>10, <3>1
    <3>2. CASE s # slot
      <4>1. s \in Int
        BY LimitAssumption DEF Slots
      <4> QED
        BY <1>2, <2>2, <2>5, <2>6, <2>10, <3>2, <4>1, LimitAssumption DEF Types, Registry
    <3> QED
      BY <3>1, <3>2
  <2>13. \A n \in DOMAIN Q' : Q'[n] < first_free_pool_slot' /\ known_pools'[Q'[n]] = NoPool
    <3> SUFFICES ASSUME NEW n \in DOMAIN Q'
                 PROVE  Q'[n] < first_free_pool_slot' /\ known_pools'[Q'[n]] = NoPool
      OBVIOUS
    <3>1. PICK m \in DOMAIN Q : Q'[n] = Q[m] /\ Q'[n] # slot
      BY <2>4
    <3>2. Q[m] \in Slots /\ Q[m] \in Int
      BY <1>2, LimitAssumption DEF Types, Slots
    <3> QED
      BY <1>2, <2>5, <2>6, <2>10, <3>1, <3>2, LimitAssumption DEF Types, Registry
  <2>14. \A s \in Slots : s < first_free_pool_slot' /\ known_pools'[s] = NoPool =>
            \E n \in DOMAIN Q' : Q'[n] = s
    <3> SUFFICES ASSUME NEW s \in Slots, s < first_free_pool_slot', known_pools'[s] = NoPool
                 PROVE  \E n \in DOMAIN Q' : Q'[n] = s
      OBVIOUS
    <3>1. s # slot
      BY <1>1, <2>10, NoPoolAssumption
    <3>2. PICK n \in DOMAIN Q : Q[n] = s
      BY <1>2, <2>7, <2>10, <3>1 DEF Registry
    <3> QED
      BY <2>4, <3>1, <3>2
  <2>15. Registry'
    BY <2>4, <2>11, <2>12, <2>13, <2>14 DEF Registry
  <2> QED
    BY <1>1, <2>9, <2>15, BackInMain DEF Inv
<1> QED
  BY <1>3, <1>4

\* A pool leaves its slot to the queue.
LEMMA RemoveKeeps == ASSUME Inv, pool_registry_remove PROVE Inv'
<1> DEFINE p == job[2]
           Q == free_pool_slots
           slot == register_index[p]
<1>1. /\ p \in Live /\ p \in Pools
      /\ pc = "remove" /\ pc' = "main"
      /\ UNCHANGED <<signalVars, readVars, job, i, register_index, first_free_pool_slot>>
      /\ Q' = Append(Q, slot)
      /\ known_pools' = [known_pools EXCEPT ![slot] = NoPool]
      /\ used' = [u \in Live \ {p} |-> used[u]]
  BY DEF Inv, Types, Jobs, pool_registry_remove
<1>2. Types /\ Registry
  BY DEF Inv
<1>3. Live' = Live \ {p}
  BY <1>1 DEF Live
<1>4. slot \in Slots /\ slot \in Int /\ known_pools[slot] = p /\ slot < first_free_pool_slot
  BY <1>1, <1>2, NoPoolAssumption, LimitAssumption DEF Types, Registry, Slots
<1> HIDE DEF slot, p
<1>5. /\ Q' \in Seq(Slots) /\ Q'[Len(Q) + 1] = slot /\ Len(Q) \in Nat
      /\ DOMAIN Q' = 1..Len(Q) + 1 /\ DOMAIN Q = 1..Len(Q)
      /\ \A n \in DOMAIN Q : n \in DOMAIN Q' /\ Q'[n] = Q[n]
      /\ \A n \in DOMAIN Q' : n # Len(Q) + 1 => n \in DOMAIN Q
  BY <1>1, <1>2, <1>4 DEF Types
<1>6. /\ known_pools' \in [Slots -> Pools \cup {NoPool}]
      /\ known_pools'[slot] = NoPool
      /\ \A s \in Slots : s # slot => known_pools'[s] = known_pools[s]
  BY <1>1, <1>2, <1>4 DEF Types
<1>7. Types'
  BY <1>1, <1>2, <1>3, <1>5, <1>6 DEF Types, signalVars, readVars
<1>8. \A o \in Live' : register_index'[o] \in Slots /\ known_pools'[register_index'[o]] = o
  <2> SUFFICES ASSUME NEW o \in Live'
               PROVE  register_index'[o] \in Slots /\ known_pools'[register_index'[o]] = o
    OBVIOUS
  <2>1. o \in Live /\ o # p /\ register_index[o] \in Slots /\ known_pools[register_index[o]] = o
    BY <1>2, <1>3 DEF Registry
  <2>2. register_index[o] # slot
    BY <1>4, <2>1
  <2> QED
    BY <1>1, <1>6, <2>1, <2>2
<1>9. \A s \in Slots : known_pools'[s] # NoPool =>
         /\ known_pools'[s] \in Live'
         /\ register_index'[known_pools'[s]] = s
         /\ s < first_free_pool_slot'
  <2> SUFFICES ASSUME NEW s \in Slots, known_pools'[s] # NoPool
               PROVE  /\ known_pools'[s] \in Live'
                      /\ register_index'[known_pools'[s]] = s
                      /\ s < first_free_pool_slot'
    OBVIOUS
  <2>1. s # slot /\ known_pools'[s] = known_pools[s]
    BY <1>6
  <2>2. /\ known_pools[s] \in Live
        /\ register_index[known_pools[s]] = s
        /\ s < first_free_pool_slot
    BY <1>2, <2>1 DEF Registry
  <2>3. known_pools[s] # p
    BY <2>1, <2>2 DEF slot
  <2> QED
    BY <1>1, <1>3, <2>1, <2>2, <2>3
<1>10. \A n \in DOMAIN Q' : Q'[n] < first_free_pool_slot' /\ known_pools'[Q'[n]] = NoPool
  <2> SUFFICES ASSUME NEW n \in DOMAIN Q'
               PROVE  Q'[n] < first_free_pool_slot' /\ known_pools'[Q'[n]] = NoPool
    OBVIOUS
  <2>1. CASE n = Len(Q) + 1
    BY <1>1, <1>4, <1>5, <1>6, <2>1
  <2>2. CASE n # Len(Q) + 1
    <3>1. n \in DOMAIN Q /\ Q'[n] = Q[n] /\ Q[n] \in Slots
      BY <1>2, <1>5, <2>2 DEF Types
    <3> QED
      BY <1>1, <1>2, <1>6, <3>1 DEF Registry
  <2> QED
    BY <2>1, <2>2
<1>11. \A m, n \in DOMAIN Q' : Q'[m] = Q'[n] => m = n
  <2>1. \A n \in DOMAIN Q : Q[n] # slot
    BY <1>1, <1>2, <1>4, NoPoolAssumption DEF Registry, Types
  <2>2. \A m, n \in DOMAIN Q : Q[m] = Q[n] => m = n
    BY <1>2 DEF Registry
  <2> QED
    BY <1>5, <2>1, <2>2
<1>12. \A s \in Slots : s < first_free_pool_slot' /\ known_pools'[s] = NoPool =>
          \E n \in DOMAIN Q' : Q'[n] = s
  <2> SUFFICES ASSUME NEW s \in Slots, s < first_free_pool_slot', known_pools'[s] = NoPool
               PROVE  \E n \in DOMAIN Q' : Q'[n] = s
    OBVIOUS
  <2>1. CASE s = slot
    BY <1>5, <2>1
  <2>2. CASE s # slot
    <3>1. PICK n \in DOMAIN Q : Q[n] = s
      BY <1>1, <1>2, <1>6, <2>2 DEF Registry
    <3> QED
      BY <1>5, <3>1
  <2> QED
    BY <2>1, <2>2
<1>13. Registry'
  BY <1>8, <1>9, <1>10, <1>11, <1>12 DEF Registry
<1> QED
  BY <1>1, <1>7, <1>13, BackInMain DEF Inv

-----------------------------------------------------------------------------
(***************************************************************************)
(* Faults.  The program's own is never fatal, one in segv_handler always.  *)
(***************************************************************************)
LEMMA FaultKeeps ==
  ASSUME Inv, pc = "main", NEW p \in Live \cup {NoPool}, Fault(p),
         UNCHANGED <<readVars, known_pools, register_index, first_free_pool_slot,
                     free_pool_slots, pool_registry_status, used>>
  PROVE  Inv'
<1> USE DEF readVars
<1>1. Own(action) /\ blocked = {} /\ ~Fatal("SIGSEGV")
  BY DEF Inv, Jobs, Dispositions, Own, Fatal, DFL
<1>2. /\ job' = <<"report", p>> /\ pc' = "spinlock" /\ i' = 0
      /\ blocked' = Entered("SIGSEGV")
      /\ UNCHANGED <<action, outcome>>
  BY <1>1 DEF Fault, LockFor
<1>3. outcome' = "running"
  BY <1>2, Running
<1>4. Live' = Live
  BY DEF Live
<1>5. "SIGSEGV" \in blocked'
  BY <1>1, <1>2 DEF Entered, Own
<1>6. Types'
  BY <1>2, <1>4, LimitAssumption DEF Inv, Types
<1>7. Registry'
  BY <1>4, RegistryKept
<1>8. Jobs'
  BY <1>2, <1>4 DEF Jobs, Reporting, Reading
<1>9. Dispositions'
  BY <1>1, <1>2, <1>5 DEF Dispositions, Reporting, Reading, Own
<1>10. HandlerScan' /\ Diagnosed'
  BY <1>2, <1>3, StillRunning DEF HandlerScan
<1> QED
  BY <1>6, <1>7, <1>8, <1>9, <1>10 DEF Inv

\* A stray access raises SIGSEGV: the handler starts at the first slot.
LEMMA WildKeeps == ASSUME Inv, Wild PROVE Inv'
BY FaultKeeps DEF Wild

\* An allocation moves its pool down, or meets its guard page and faults.
LEMMA AllocateKeeps == ASSUME Inv, NEW p \in Pools, Allocate(p) PROVE Inv'
<1>1. CASE used[p] < Capacity
  <2> USE DEF signalVars, readVars
  <2>1. /\ used' = [used EXCEPT ![p] = @ + 1]
        /\ UNCHANGED <<signalVars, pc, job, i, readVars, known_pools, register_index,
                       first_free_pool_slot, free_pool_slots>>
        /\ pc = "main"
    BY <1>1 DEF Allocate
  <2>2. Live' = Live
    BY <2>1 DEF Live
  <2>3. Types'
    BY <2>1, <2>2 DEF Inv, Types
  <2>4. Registry'
    BY <2>1, <2>2, RegistryKept
  <2>5. Jobs'
    BY <2>1, <2>2 DEF Inv, Jobs, Reporting
  <2>6. Dispositions'
    BY <2>1 DEF Inv, Dispositions, Reporting
  <2>7. HandlerScan' /\ Diagnosed'
    BY <2>1, Running, StillRunning DEF HandlerScan
  <2> QED
    BY <2>3, <2>4, <2>5, <2>6, <2>7 DEF Inv
<1>2. CASE ~(used[p] < Capacity)
  BY <1>2, FaultKeeps DEF Allocate
<1> QED
  BY <1>1, <1>2

\* What the handler leaves alone when it goes on or ends the process.
LEMMA HandlerLeaves ==
  ASSUME Inv, segv_handler, UNCHANGED <<action, blocked, job>>, i' \in 0..POOL_LIMIT
  PROVE  Types' /\ Registry' /\ Live' = Live
<1> USE DEF segv_handler, readVars
<1>1. Live' = Live
  BY DEF Live
<1>2. Types'
  BY <1>1 DEF Inv, Types
<1>3. Registry'
  BY <1>1, RegistryKept
<1> QED
  BY <1>1, <1>2, <1>3

\* The handler looks at one slot, reports, exits, or follows a null pointer.
LEMMA HandlerKeeps == ASSUME Inv, segv_handler PROVE Inv'
<1> DEFINE p == job[2]
<1> USE DEF readVars
<1>1. /\ pc = "report" /\ job[1] = "report" /\ Reporting
      /\ p \in Live \cup {NoPool}
      /\ "SIGSEGV" \in blocked
      /\ i \in 0..POOL_LIMIT
      /\ outcome = "running"
      /\ \A s \in Slots : s < i => known_pools[s] \notin {NoPool, p}
      /\ UNCHANGED <<readVars, known_pools, register_index, used>>
  BY Running DEF Inv, Types, Jobs, Dispositions, HandlerScan, Reporting, segv_handler
\* p's own slot has not been seen, since it holds p
<1>2. p # NoPool =>
        /\ p \in Live /\ register_index[p] \in Slots
        /\ known_pools[register_index[p]] = p
        /\ i <= register_index[p]
  <2> SUFFICES ASSUME p # NoPool
               PROVE  /\ p \in Live /\ register_index[p] \in Slots
                      /\ known_pools[register_index[p]] = p
                      /\ i <= register_index[p]
    OBVIOUS
  <2>1. p \in Live /\ register_index[p] \in Slots /\ known_pools[register_index[p]] = p
    BY <1>1 DEF Inv, Registry
  <2>2. ~(register_index[p] < i)
    BY <1>1, <2>1
  <2> QED
    BY <1>1, <2>1, <2>2, LimitAssumption DEF Slots
<1>3. CASE i = POOL_LIMIT
  <2>1. /\ outcome' = "exit" /\ pc' = "exited" /\ i' = i
        /\ UNCHANGED <<action, blocked, job>>
    BY <1>1, <1>3 DEF segv_handler, Exit
  <2>2. Types' /\ Registry' /\ Live' = Live
    BY <1>1, <2>1, HandlerLeaves
  <2>3. p = NoPool
    BY <1>2, <1>3, LimitAssumption DEF Slots
  <2>4. Diagnosed'
    BY <1>1, <1>3, <2>1, <2>3, LimitAssumption DEF Diagnosed, Slots
  <2>5. Jobs' /\ Dispositions' /\ HandlerScan'
    BY <1>1, <2>1, <2>2 DEF Jobs, Dispositions, HandlerScan, Reporting, Reading
  <2> QED
    BY <2>2, <2>4, <2>5 DEF Inv
<1>4. CASE i # POOL_LIMIT /\ known_pools[i] = NoPool
  <2>1. Fatal("SIGSEGV")
    BY <1>1 DEF Fatal
  <2>2. /\ outcome' = "killed" /\ pc' = "killed" /\ i' = i
        /\ UNCHANGED <<action, blocked, job>>
    BY <1>1, <1>4, <2>1 DEF segv_handler, Fault
  <2>3. Types' /\ Registry' /\ Live' = Live
    BY <1>1, <2>2, HandlerLeaves
  <2>4. i \in Slots /\ (p # NoPool => i < register_index[p])
    <3>1. i \in Slots /\ i \in Int
      BY <1>1, <1>4, LimitAssumption DEF Slots
    <3>2. p # NoPool => i # register_index[p]
      BY <1>2, <1>4
    <3> QED
      BY <1>2, <3>1, <3>2, LimitAssumption DEF Slots
  <2>5. Diagnosed'
    BY <1>1, <1>2, <1>4, <2>2, <2>4, LimitAssumption DEF Diagnosed, Slots
  <2>6. Jobs' /\ Dispositions' /\ HandlerScan'
    BY <1>1, <2>2, <2>3 DEF Jobs, Dispositions, HandlerScan, Reporting, Reading
  <2> QED
    BY <2>3, <2>5, <2>6 DEF Inv
<1>5. CASE i # POOL_LIMIT /\ known_pools[i] # NoPool /\ known_pools[i] = p
  <2>1. /\ outcome' = "reported" /\ pc' = "exited" /\ i' = i
        /\ UNCHANGED <<action, blocked, job>>
    BY <1>1, <1>5 DEF segv_handler, Exit, Inside
  <2>2. Types' /\ Registry' /\ Live' = Live
    BY <1>1, <2>1, HandlerLeaves
  <2>3. i \in Slots /\ i = register_index[p]
    <3>1. i \in Slots
      BY <1>1, <1>5, LimitAssumption DEF Slots
    <3> QED
      BY <1>5, <3>1 DEF Inv, Registry
  <2>4. \A s \in 0..register_index[p] - 1 : known_pools[s] # NoPool
    BY <1>1, <2>3, LimitAssumption DEF Slots
  <2>5. Diagnosed'
    BY <1>1, <1>2, <1>5, <2>1, <2>2, <2>4 DEF Diagnosed
  <2>6. Jobs' /\ Dispositions' /\ HandlerScan'
    BY <1>1, <2>1, <2>2 DEF Jobs, Dispositions, HandlerScan, Reporting, Reading
  <2> QED
    BY <2>2, <2>5, <2>6 DEF Inv
<1>6. CASE i # POOL_LIMIT /\ known_pools[i] # NoPool /\ known_pools[i] # p
  <2>1. i' = i + 1 /\ UNCHANGED <<action, blocked, outcome, pc, job>>
    BY <1>1, <1>6 DEF segv_handler, Inside, signalVars
  <2>2. Types' /\ Registry' /\ Live' = Live
    BY <1>1, <1>6, <2>1, LimitAssumption, HandlerLeaves
  <2>3. Jobs' /\ Dispositions'
    BY <1>1, <2>1, <2>2 DEF Jobs, Dispositions, Reporting, Reading
  <2>4. \A s \in Slots : s < i' => known_pools[s] \notin {NoPool, p}
    BY <1>1, <1>6, <2>1, LimitAssumption DEF Slots
  <2>5. HandlerScan' /\ Diagnosed'
    BY <1>1, <2>1, <2>4, StillRunning DEF HandlerScan
  <2> QED
    BY <2>2, <2>3, <2>5 DEF Inv
<1> QED
  BY <1>3, <1>4, <1>5, <1>6

-----------------------------------------------------------------------------
(***************************************************************************)
(* A read.                                                                 *)
(***************************************************************************)
\* A read that goes on has no business with the registry or its handler.
LEMMA ReadLeaves ==
  ASSUME Inv, pc \in {"main"} \cup Reading, pc' \in {"main"} \cup Reading,
         UNCHANGED <<outcome, poolVars>>, ptr' \in Pointers, DOMAIN action' = SIGNALS
  PROVE  Types' /\ Registry' /\ Jobs' /\ HandlerScan' /\ Diagnosed' /\ ~Reporting
<1> USE DEF poolVars
<1>1. Live' = Live
  BY DEF Live
<1>2. ~Reporting /\ outcome = "running"
  BY Running DEF Inv, Jobs, Reading
<1>3. Types'
  BY <1>1 DEF Inv, Types
<1>4. Registry'
  BY <1>1, RegistryKept
<1>5. Jobs'
  BY <1>2 DEF Jobs, Reading, Reporting
<1>6. HandlerScan' /\ Diagnosed'
  BY <1>2, StillRunning DEF HandlerScan, Reading
<1> QED
  BY <1>2, <1>3, <1>4, <1>5, <1>6

\* A step of safe_read_byte leaves the registry alone.
LEMMA ReadKeeps == ASSUME Inv, ReadNext, UNCHANGED poolVars PROVE Inv'
<1> USE DEF signalVars, readVars
<1>1. Types /\ Dispositions /\ Jobs
  BY DEF Inv
<1>2. job' = job
  BY DEF poolVars
<1>3. ASSUME NEW p \in Pointers, Call(p) PROVE Inv'
  <2>1. Dispositions'
    BY <1>1, <1>2, <1>3 DEF Call, Jobs, Dispositions, Reading, Reporting
  <2> QED
    BY <1>1, <1>3, <2>1, ReadLeaves DEF Call, Reading, Inv, Types
<1>4. CASE Install
  <2>1. \A sig \in SIGNALS : action'[sig].handler = "safe_handler"
    BY <1>4 DEF Install, Handler, Action
  <2>2. Dispositions'
    BY <1>1, <1>2, <1>4, <2>1 DEF Install, Jobs, Dispositions, Reading, Reporting
  <2> QED
    BY <1>1, <1>4, <2>2, ReadLeaves DEF Install, Reading, Inv, Types
<1>5. CASE Setjmp
  <2>1. Dispositions'
    BY <1>1, <1>2, <1>5 DEF Setjmp, Jobs, Dispositions, Reading, Reporting
  <2> QED
    BY <1>1, <1>5, <2>1, ReadLeaves DEF Setjmp, Reading, Inv, Types
\* both signals have a handler, and none is blocked
<1>6. CASE Read
  <2>1. blocked = {} /\ JMP = {} /\ \A sig \in SIGNALS : action[sig].handler = "safe_handler"
    BY <1>1, <1>6 DEF Read, Jobs, Dispositions, Reading
  <2>2. CASE ptr = "byte"
    <3>1. Dispositions'
      BY <1>1, <1>2, <1>6, <2>1, <2>2 DEF Read, Jobs, Dispositions, Reading, Reporting
    <3> QED
      BY <1>1, <1>6, <2>2, <3>1, ReadLeaves DEF Read, Reading, Inv, Types
  <2>3. CASE ptr # "byte"
    <3>1. ptr \in SIGNALS
      BY <1>1, <2>3 DEF Types, Pointers
    <3>2. ~Fatal(ptr)
      BY <2>1, <3>1 DEF Fatal, DFL
    <3>3. pc' = "safe_handler" /\ UNCHANGED <<action, outcome, ptr, old, JMP>>
      BY <1>6, <2>1, <2>3, <3>1, <3>2 DEF Read
    <3>4. Dispositions'
      BY <1>1, <1>2, <1>6, <2>1, <2>3, <3>3
      DEF Read, Jobs, Dispositions, Reading, Reporting
    <3> QED
      BY <1>1, <1>6, <3>3, <3>4, ReadLeaves DEF Read, Reading, Inv, Types
  <2> QED
    BY <2>2, <2>3
<1>7. CASE safe_handler
  <2>1. Dispositions'
    BY <1>1, <1>2, <1>7
    DEF safe_handler, JumpMask, Jobs, Dispositions, Reading, Reporting
  <2> QED
    BY <1>1, <1>7, <2>1, ReadLeaves DEF safe_handler, Reading, Inv, Types
<1>8. CASE Restore
  <2>1. Own(old)
    BY <1>1, <1>8 DEF Restore, Dispositions
  <2>2. Own(action')
    BY <1>8, <2>1 DEF Restore, OldAction, Own, SIGNALS
  <2>3. Dispositions'
    BY <1>1, <1>2, <1>8, <2>2 DEF Restore, Jobs, Dispositions, Reading, Reporting
  <2> QED
    BY <1>1, <1>8, <2>3, ReadLeaves DEF Restore, Reading, Inv, Types
<1>9. CASE Returned
  <2>1. Dispositions'
    BY <1>1, <1>2, <1>9 DEF Returned, Jobs, Dispositions, Reading, Reporting
  <2> QED
    BY <1>1, <1>9, <2>1, ReadLeaves DEF Returned, Reading, Inv, Types
<1> QED
  BY <1>3, <1>4, <1>5, <1>6, <1>7, <1>8, <1>9 DEF ReadNext

-----------------------------------------------------------------------------
\* Every step keeps the invariant.
LEMMA NextInv == Inv /\ [Next]_vars => Inv'
<1> SUFFICES ASSUME Inv, [Next]_vars PROVE Inv'
  OBVIOUS
<1>1. CASE \E p \in Pools : New(p) \/ Delete(p)
  BY <1>1, LockKeeps
<1>2. CASE \E p \in Pools : Allocate(p)
  BY <1>2, AllocateKeeps
<1>3. CASE UNCHANGED vars
  <2> USE <1>3 DEF vars, signalVars, readVars, poolVars
  <2>1. Live' = Live /\ (Reporting <=> Reporting')
    BY DEF Live, Reporting
  <2>2. Types' /\ Registry'
    BY <2>1, RegistryKept DEF Inv, Types
  <2>3. Jobs' /\ Dispositions'
    BY <2>1 DEF Inv, Jobs, Dispositions
  <2>4. HandlerScan' /\ Diagnosed'
    BY <2>1 DEF Inv, HandlerScan, Diagnosed
  <2> QED
    BY <2>2, <2>3, <2>4 DEF Inv
<1> QED
  BY <1>1, <1>2, <1>3, SpinlockKeeps, AddKeeps, RemoveKeeps, WildKeeps, HandlerKeeps, ReadKeeps
  DEF Next, PoolNext, Ended

\* The invariant holds in every state of every behaviour.
THEOREM Invariance == Spec => []Inv
BY InitInv, NextInv, PTL DEF Spec

\* Slots belong to the pools that exist, and the queue holds the others, once
\* each: no slot is lost to the registry, and none is given to two pools.
THEOREM Accounting == Spec => []SlotsAccounted
<1>1. Inv => SlotsAccounted
  <2> SUFFICES ASSUME Inv PROVE SlotsAccounted
    OBVIOUS
  <2> USE DEF Inv, Types, Registry
  <2>1. \A p \in Live : known_pools[register_index[p]] = p
    OBVIOUS
  <2>2. {known_pools[s] : s \in Slots} \subseteq Live \cup {NoPool}
    OBVIOUS
  <2>3. ASSUME NEW s \in Slots
        PROVE  LET queued == {n \in DOMAIN free_pool_slots : free_pool_slots[n] = s}
               IN  IF known_pools[s] = NoPool /\ s < first_free_pool_slot
                   THEN \E n \in DOMAIN free_pool_slots : queued = {n}
                   ELSE queued = {}
    <3>1. CASE known_pools[s] = NoPool /\ s < first_free_pool_slot
      <4>1. PICK n \in DOMAIN free_pool_slots : free_pool_slots[n] = s
        BY <2>3, <3>1
      <4>2. {m \in DOMAIN free_pool_slots : free_pool_slots[m] = s} = {n}
        BY <4>1
      <4> QED
        BY <3>1, <4>1, <4>2
    <3>2. CASE ~(known_pools[s] = NoPool /\ s < first_free_pool_slot)
      BY <2>3, <3>2
    <3> QED
      BY <3>1, <3>2
  <2> QED
    BY <2>1, <2>2, <2>3 DEF SlotsAccounted
<1> QED
  BY <1>1, Invariance, PTL

\* The process ends as the handler intends, and without a word only where there
\* is an empty slot on the handler's way.
THEOREM FaultsDiagnosed == Spec => []Diagnosed
<1>1. Inv => Diagnosed
  BY DEF Inv
<1> QED
  BY <1>1, Invariance, PTL

\* Reads never kill the process and leave its handler and its mask as they were.
THEOREM ReadsRestore == Spec => []Restored
<1>1. Inv => Restored
  <2> SUFFICES ASSUME Inv PROVE Restored
    OBVIOUS
  <2>1. ReadsSafely
    BY Running DEF Inv, Dispositions, ReadsSafely, Reading
  <2>2. pc \in {"main", "spinlock", "add", "remove"} /\ ~Reporting => Own(action) /\ blocked = {}
    BY DEF Inv, Dispositions
  <2> QED
    BY <2>1, <2>2 DEF Restored, Own, Reporting
<1> QED
  BY <1>1, Invariance, PTL
=============================================================================
