------------------------ MODULE PoolRegistryProofs ------------------------
(***************************************************************************)
(* Proofs about PoolRegistry, for any number of threads, slots and address *)
(* ranges.                                                                 *)
(***************************************************************************)
EXTENDS PoolRegistry, TLAPS

\* t steps and leaves the own state of every other thread alone
Alone(t) ==
  \A u \in Threads \ {t} :
    /\ pc'[u] = pc[u]
    /\ slot'[u] = slot[u]
    /\ own'[u] = own[u]
    /\ pool'[u] = pool[u]
    /\ seen'[u] = seen[u]

\* What a thread holds depends on its own state only.
LEMMA Others ==
  ASSUME NEW t \in Threads, Alone(t)
  PROVE  \A u \in Threads \ {t} :
           /\ Holds(u)' <=> Holds(u)
           /\ Registered(u)' <=> Registered(u)
           /\ InHandler(u)' <=> InHandler(u)
           /\ Slot(u)' = Slot(u)
BY DEF Alone, Holds, Registered, InHandler, Slot

\* The facts about one thread that the invariant states.
OneHolder(t) ==
  Holds(t) =>
    /\ Slot(t) \in Slots
    /\ begin[Slot(t)] = pool[t][1]
    /\ \A u \in Threads \ {t} : Holds(u) => Slot(u) # Slot(t)
OneKept(t) == Registered(t) => <<begin[Slot(t)], end[Slot(t)]>> = pool[t]
OneMapped(t) ==
  /\ pc[t] = "add" \/ Holds(t) => pool[t] \in Regions
  /\ pc[t] = "add" => slot[t] # 0
OneOnTrack(t) ==
  InHandler(t) =>
    /\ 0 < slot[t]
    /\ slot[t] <= own[t]
    /\ pc[t] = "loadEnd" /\ slot[t] = own[t] => seen[t] = pool[t][1]
One(t) == OneHolder(t) /\ OneKept(t) /\ OneMapped(t) /\ OneOnTrack(t)

\* The invariant is what One says of every thread, and the rest.
LEMMA InvIsOne ==
  Inv <=> TypeOK /\ FaultIsReported /\ \A t \in Threads : One(t)
BY DEF Inv, HeldApart, SlotsKept, Mapped, OnTrack, One, OneHolder, OneKept,
       OneMapped, OneOnTrack

\* A step of t that writes no slot another thread holds, and brings t into no
\* such slot, leaves the facts about the other threads as they are.
LEMMA OthersKeep ==
  ASSUME NEW t \in Threads, Alone(t), \A u \in Threads : One(u),
         \A u \in Threads \ {t} : Holds(u) =>
           /\ begin'[Slot(u)] = begin[Slot(u)]
           /\ end'[Slot(u)] = end[Slot(u)]
           /\ Holds(t)' => Slot(t)' # Slot(u)
  PROVE  \A u \in Threads \ {t} : One(u)'
<1> SUFFICES ASSUME NEW u \in Threads \ {t} PROVE One(u)'
  OBVIOUS
<1>1. /\ Holds(u)' <=> Holds(u)
      /\ Registered(u)' <=> Registered(u)
      /\ InHandler(u)' <=> InHandler(u)
      /\ Slot(u)' = Slot(u)
  BY Others
<1>2. \A v \in Threads \ {t} : (Holds(v)' <=> Holds(v)) /\ Slot(v)' = Slot(v)
  BY Others
<1>3. OneHolder(u)'
  <2> SUFFICES ASSUME Holds(u)'
               PROVE  /\ Slot(u)' \in Slots
                      /\ begin'[Slot(u)'] = pool'[u][1]
                      /\ \A v \in Threads \ {u} : Holds(v)' => Slot(v)' # Slot(u)'
    BY DEF OneHolder, Slots
  <2>1. Slot(u)' \in Slots /\ begin'[Slot(u)'] = pool'[u][1]
    BY <1>1 DEF One, OneHolder, Alone
  <2>2. Holds(t)' => Slot(t)' # Slot(u)'
    BY <1>1
  <2>3. \A v \in Threads \ {u, t} : Holds(v)' => Slot(v)' # Slot(u)'
    BY <1>1, <1>2 DEF One, OneHolder
  <2> QED
    BY <2>1, <2>2, <2>3
<1>4. OneKept(u)'
  <2>1. Registered(u) => Holds(u)
    BY DEF Holds
  <2> QED
    BY <1>1, <2>1 DEF One, OneKept, Alone
<1>5. OneMapped(u)'
  BY <1>1 DEF One, OneMapped, Alone
<1>6. OneOnTrack(u)'
  BY <1>1 DEF One, OneOnTrack, Alone
<1> QED
  BY <1>3, <1>4, <1>5, <1>6 DEF One

-----------------------------------------------------------------------------
\* What the invariant says of the thread that takes the next step.
LEMMA Stepper ==
  ASSUME TypeOK, NEW t \in Threads, One(t)
  PROVE  /\ pc[t] = "add" => slot[t] \in Nat \ {0} /\ pool[t] \in Regions
         /\ pc[t] \in {"storeEnd", "ready"} =>
              /\ slot[t] \in Slots
              /\ begin[slot[t]] = pool[t][1]
              /\ pool[t] \in Regions
         /\ pc[t] = "ready" => <<begin[slot[t]], end[slot[t]]>> = pool[t]
         /\ InHandler(t) =>
              /\ own[t] \in Slots
              /\ slot[t] \in Slots
              /\ slot[t] <= own[t]
              /\ <<begin[own[t]], end[own[t]]>> = pool[t]
              /\ pool[t] \in Regions
<1>1. slot[t] \in Nat /\ own[t] \in Nat /\ POOL_LIMIT \in Nat
  BY RegistryAssumption DEF TypeOK
<1>2. pc[t] = "add" => slot[t] \in Nat \ {0} /\ pool[t] \in Regions
  BY <1>1 DEF One, OneMapped
<1>3. pc[t] \in {"storeEnd", "ready"} => Holds(t) /\ Slot(t) = slot[t]
  BY DEF Holds, Registered, Slot
<1>4. pc[t] = "ready" => Registered(t)
  BY DEF Registered
<1>5. InHandler(t) => Holds(t) /\ Registered(t) /\ Slot(t) = own[t]
  BY DEF Holds, Registered, Slot, InHandler
<1>6. InHandler(t) => 0 < slot[t] /\ slot[t] <= own[t]
  BY DEF One, OneOnTrack
<1>7. Holds(t) => /\ Slot(t) \in Slots
                  /\ begin[Slot(t)] = pool[t][1]
                  /\ pool[t] \in Regions
  BY DEF One, OneHolder, OneMapped
<1>8. Registered(t) => <<begin[Slot(t)], end[Slot(t)]>> = pool[t]
  BY DEF One, OneKept
<1>9. InHandler(t) => slot[t] \in Slots
  BY <1>1, <1>5, <1>6, <1>7 DEF Slots
<1> QED
  BY <1>2, <1>3, <1>4, <1>5, <1>6, <1>7, <1>8, <1>9

\* An address range is a pair of numbers and starts above zero.
LEMMA Ranges ==
  ASSUME NEW r \in Regions
  PROVE  /\ r[1] \in Nat \ {0}
         /\ r[2] \in Nat
         /\ r[1] < r[2]
         /\ r = <<r[1], r[2]>>
BY RegistryAssumption

\* Two holders have different slots.
LEMMA Distinct ==
  ASSUME NEW t \in Threads, NEW u \in Threads \ {t}, One(t), Holds(t), Holds(u)
  PROVE  Slot(t) # Slot(u)
BY DEF One, OneHolder

\* The constructor's mmap: the thread holds no slot yet.
LEMMA InvMap ==
  ASSUME TypeOK, FaultIsReported, \A u \in Threads : One(u),
         NEW t \in Threads, Map(t)
  PROVE  TypeOK' /\ FaultIsReported' /\ \A u \in Threads : One(u)'
<1>1. TypeOK'
  BY RegistryAssumption DEF TypeOK, Map, Goto
<1>2. Alone(t)
  BY DEF TypeOK, Map, Alone, Goto
<1>3. One(t)'
  <2>1. pc'[t] = "add" /\ slot'[t] = 1 /\ pool'[t] \in Regions
    BY DEF TypeOK, Map, Goto
  <2> QED
    BY <2>1 DEF One, OneHolder, OneKept, OneMapped, OneOnTrack,
         Holds, Registered, InHandler, Slot
<1>4. ASSUME NEW u \in Threads \ {t}, Holds(u)
      PROVE  /\ begin'[Slot(u)] = begin[Slot(u)]
             /\ end'[Slot(u)] = end[Slot(u)]
             /\ Holds(t)' => Slot(t)' # Slot(u)
  <2>1. pc'[t] = "add"
    BY DEF TypeOK, Map, Goto
  <2> QED
    BY <2>1 DEF Map, Holds, Registered
<1>5. FaultIsReported'
  BY DEF Map, FaultIsReported
<1> QED
  BY <1>1, <1>2, <1>3, <1>4, <1>5, OthersKeep

\* compare_exchange_strong takes a slot that shows nullptr: nobody holds it.
LEMMA InvTake ==
  ASSUME TypeOK, FaultIsReported, \A u \in Threads : One(u),
         NEW t \in Threads, Take(t)
  PROVE  TypeOK' /\ FaultIsReported' /\ \A u \in Threads : One(u)'
<1>0. /\ slot[t] \in Slots
      /\ slot[t] + 1 \in 0..POOL_LIMIT + 1
      /\ pool[t] \in Regions
      /\ pc[t] = "add"
  BY RegistryAssumption, Stepper DEF Take, At, Slots
<1>1. TypeOK'
  <2>1. CASE Vacant(slot[t])
    BY <1>0, <2>1 DEF TypeOK, Take, Goto
  <2>2. CASE ~Vacant(slot[t])
    BY <1>0, <2>2 DEF TypeOK, Take
  <2> QED
    BY <2>1, <2>2
<1>2. Alone(t)
  BY DEF TypeOK, Take, Alone, Goto
<1>3. One(t)'
  <2>1. CASE Vacant(slot[t])
    <3>1. /\ pc'[t] = "storeEnd"
          /\ slot' = slot /\ pool' = pool
          /\ begin'[slot[t]] = pool[t][1]
          /\ begin[slot[t]] = 0
      BY <1>0, <2>1 DEF TypeOK, Take, Goto, Vacant
    <3>2. Holds(t)' /\ ~Registered(t)' /\ ~InHandler(t)' /\ Slot(t)' = slot[t]
      BY <3>1 DEF Holds, Registered, InHandler, Slot
    <3>3. ASSUME NEW u \in Threads \ {t}, Holds(u)' PROVE Slot(u)' # slot[t]
      <4>1. Holds(u) /\ Slot(u)' = Slot(u)
        BY <3>3, <1>2, Others
      <4>2. begin[Slot(u)] = pool[u][1] /\ pool[u] \in Regions
        BY <4>1 DEF One, OneHolder, OneMapped
      <4> QED
        BY <4>1, <4>2, <3>1, Ranges
    <3>4. OneHolder(t)'
      BY <3>1, <3>2, <3>3, <1>0 DEF OneHolder, Slots
    <3> QED
      BY <3>1, <3>2, <3>4, <1>0 DEF One, OneKept, OneMapped, OneOnTrack
  <2>2. CASE ~Vacant(slot[t])
    <3>1. pc'[t] = "add" /\ pool'[t] \in Regions
      BY <1>0, <2>2 DEF Take
    <3>2. slot'[t] = slot[t] + 1 /\ slot[t] \in Nat
      BY <1>0, <2>2 DEF TypeOK, Take, Slots
    <3>3. slot'[t] # 0
      BY <3>2
    <3> QED
      BY <3>1, <3>3 DEF One, OneHolder, OneKept, OneMapped, OneOnTrack,
         Holds, Registered, InHandler, Slot
  <2> QED
    BY <2>1, <2>2
<1>4. ASSUME NEW u \in Threads \ {t}, Holds(u)
      PROVE  /\ begin'[Slot(u)] = begin[Slot(u)]
             /\ end'[Slot(u)] = end[Slot(u)]
             /\ Holds(t)' => Slot(t)' # Slot(u)
  <2>1. begin[Slot(u)] = pool[u][1] /\ pool[u] \in Regions /\ Slot(u) \in Slots
    BY <1>4 DEF One, OneHolder, OneMapped
  <2>2. begin[Slot(u)] # 0
    BY <2>1, Ranges
  <2>3. CASE Vacant(slot[t])
    <3>1. Slot(u) # slot[t]
      BY <2>2, <2>3 DEF Vacant
    <3>2. Slot(t)' = slot[t]
      BY <1>0, <2>3 DEF TypeOK, Take, Goto, Slot
    <3> QED
      BY <3>1, <3>2, <2>1, <2>3 DEF TypeOK, Take
  <2>4. CASE ~Vacant(slot[t])
    <3>1. ~Holds(t)'
      BY <1>0, <2>4 DEF Take, Holds, Registered
    <3> QED
      BY <3>1, <2>4 DEF Take
  <2> QED
    BY <2>3, <2>4
<1>5. FaultIsReported'
  BY DEF Take, FaultIsReported
<1> QED
  BY <1>1, <1>2, <1>3, <1>4, <1>5, OthersKeep

\* The end goes into the slot that the thread holds.
LEMMA InvStoreEnd ==
  ASSUME TypeOK, FaultIsReported, \A u \in Threads : One(u),
         NEW t \in Threads, StoreEnd(t)
  PROVE  TypeOK' /\ FaultIsReported' /\ \A u \in Threads : One(u)'
<1>0. /\ slot[t] \in Slots
      /\ begin[slot[t]] = pool[t][1]
      /\ pool[t] \in Regions
      /\ pc[t] = "storeEnd"
      /\ Holds(t) /\ Slot(t) = slot[t]
  BY Stepper DEF StoreEnd, At, Holds, Slot
<1>1. TypeOK'
  BY <1>0 DEF TypeOK, StoreEnd, Goto, StoredEnd
<1>2. Alone(t)
  BY DEF TypeOK, StoreEnd, Alone, Goto
<1>3. One(t)'
  <2>1. /\ pc'[t] = "ready"
        /\ UNCHANGED <<slot, pool, begin>>
        /\ end'[slot[t]] = pool[t][2]
    BY <1>0 DEF TypeOK, StoreEnd, Goto, StoredEnd
  <2>2. Holds(t)' /\ Registered(t)' /\ ~InHandler(t)' /\ Slot(t)' = slot[t]
    BY <2>1 DEF Holds, Registered, InHandler, Slot
  <2>3. ASSUME NEW u \in Threads \ {t}, Holds(u)' PROVE Slot(u)' # slot[t]
    BY <2>3, <1>0, <1>2, Others, Distinct
  <2>4. OneHolder(t)'
    BY <1>0, <2>1, <2>2, <2>3 DEF OneHolder, Slots
  <2>5. OneKept(t)'
    BY <1>0, <2>1, <2>2, Ranges DEF OneKept
  <2> QED
    BY <1>0, <2>1, <2>2, <2>4, <2>5 DEF One, OneMapped, OneOnTrack
<1>4. ASSUME NEW u \in Threads \ {t}, Holds(u)
      PROVE  /\ begin'[Slot(u)] = begin[Slot(u)]
             /\ end'[Slot(u)] = end[Slot(u)]
             /\ Holds(t)' => Slot(t)' # Slot(u)
  <2>1. Slot(u) # slot[t] /\ Slot(u) \in Slots
    BY <1>0, <1>4, Distinct DEF One, OneHolder
  <2>2. Slot(t)' = slot[t]
    BY <1>0 DEF TypeOK, StoreEnd, Goto, Slot
  <2> QED
    BY <2>1, <2>2 DEF TypeOK, StoreEnd
<1>5. FaultIsReported'
  BY DEF StoreEnd, FaultIsReported
<1> QED
  BY <1>1, <1>2, <1>3, <1>4, <1>5, OthersKeep

\* A thread that finds no slot ends the process.
LEMMA InvThrow ==
  ASSUME TypeOK, FaultIsReported, \A u \in Threads : One(u),
         NEW t \in Threads, Throw(t)
  PROVE  TypeOK' /\ FaultIsReported' /\ \A u \in Threads : One(u)'
<1>1. TypeOK'
  BY DEF TypeOK, Throw
<1>2. Alone(t)
  BY DEF TypeOK, Throw, Alone, Goto
<1>3. One(t)'
  <2>1. UNCHANGED <<begin, end, pc, pool, slot, own, seen>>
    BY DEF Throw
  <2> QED
    BY <2>1 DEF One, OneHolder, OneKept, OneMapped, OneOnTrack,
         Holds, Registered, InHandler, Slot
<1>4. ASSUME NEW u \in Threads \ {t}, Holds(u)
      PROVE  /\ begin'[Slot(u)] = begin[Slot(u)]
             /\ end'[Slot(u)] = end[Slot(u)]
             /\ Holds(t)' => Slot(t)' # Slot(u)
  <2>1. UNCHANGED <<begin, end, pc, slot, own>>
    BY DEF Throw
  <2>2. Holds(t) => Slot(t) # Slot(u)
    BY <1>4, Distinct
  <2> QED
    BY <2>1, <2>2 DEF Holds, Registered, Slot
<1>5. FaultIsReported'
  BY DEF Throw, FaultIsReported
<1> QED
  BY <1>1, <1>2, <1>3, <1>4, <1>5, OthersKeep

\* remove clears the slot that the thread held.
LEMMA InvRemove ==
  ASSUME TypeOK, FaultIsReported, \A u \in Threads : One(u),
         NEW t \in Threads, Remove(t)
  PROVE  TypeOK' /\ FaultIsReported' /\ \A u \in Threads : One(u)'
<1>0. /\ slot[t] \in Slots
      /\ Holds(t) /\ Slot(t) = slot[t]
  BY Stepper DEF Remove, At, Holds, Registered, Slot
<1>1. TypeOK'
  BY <1>0 DEF TypeOK, Remove, Goto
<1>2. Alone(t)
  BY DEF TypeOK, Remove, Alone, Goto
<1>3. One(t)'
  <2>1. pc'[t] = "unmap"
    BY DEF TypeOK, Remove, Goto
  <2> QED
    BY <2>1 DEF One, OneHolder, OneKept, OneMapped, OneOnTrack,
         Holds, Registered, InHandler, Slot
<1>4. ASSUME NEW u \in Threads \ {t}, Holds(u)
      PROVE  /\ begin'[Slot(u)] = begin[Slot(u)]
             /\ end'[Slot(u)] = end[Slot(u)]
             /\ Holds(t)' => Slot(t)' # Slot(u)
  <2>1. Slot(u) # slot[t] /\ Slot(u) \in Slots
    BY <1>0, <1>4, Distinct DEF One, OneHolder
  <2>2. ~Holds(t)'
    BY DEF TypeOK, Remove, Goto, Holds, Registered
  <2> QED
    BY <2>1, <2>2 DEF TypeOK, Remove
<1>5. FaultIsReported'
  BY DEF Remove, FaultIsReported
<1> QED
  BY <1>1, <1>2, <1>3, <1>4, <1>5, OthersKeep

\* munmap: the slot is another's by now.
LEMMA InvUnmap ==
  ASSUME TypeOK, FaultIsReported, \A u \in Threads : One(u),
         NEW t \in Threads, Unmap(t)
  PROVE  TypeOK' /\ FaultIsReported' /\ \A u \in Threads : One(u)'
<1>1. TypeOK'
  BY DEF TypeOK, Unmap, Goto
<1>2. Alone(t)
  BY DEF TypeOK, Unmap, Alone, Goto
<1>3. One(t)'
  <2>1. pc'[t] = "none"
    BY DEF TypeOK, Unmap, Goto
  <2> QED
    BY <2>1 DEF One, OneHolder, OneKept, OneMapped, OneOnTrack,
         Holds, Registered, InHandler, Slot
<1>4. ASSUME NEW u \in Threads \ {t}, Holds(u)
      PROVE  /\ begin'[Slot(u)] = begin[Slot(u)]
             /\ end'[Slot(u)] = end[Slot(u)]
             /\ Holds(t)' => Slot(t)' # Slot(u)
  <2>1. ~Holds(t)'
    BY DEF TypeOK, Unmap, Goto, Holds, Registered
  <2> QED
    BY <2>1 DEF Unmap
<1>5. FaultIsReported'
  BY DEF Unmap, FaultIsReported
<1> QED
  BY <1>1, <1>2, <1>3, <1>4, <1>5, OthersKeep

\* The handler starts at the first slot, and its own is ahead.
LEMMA InvFault ==
  ASSUME TypeOK, FaultIsReported, \A u \in Threads : One(u),
         NEW t \in Threads, Fault(t)
  PROVE  TypeOK' /\ FaultIsReported' /\ \A u \in Threads : One(u)'
<1>0. /\ slot[t] \in Slots
      /\ slot[t] \in 0..POOL_LIMIT
      /\ 1 <= slot[t]
      /\ 1 \in 0..POOL_LIMIT + 1
      /\ <<begin[slot[t]], end[slot[t]]>> = pool[t]
      /\ pool[t] \in Regions
      /\ Holds(t) /\ Slot(t) = slot[t]
  BY RegistryAssumption, Stepper DEF Fault, At, Holds, Registered, Slot, Slots
<1>1. TypeOK'
  BY <1>0 DEF TypeOK, Fault, Goto
<1>2. Alone(t)
  BY DEF TypeOK, Fault, Alone, Goto
<1>3. One(t)'
  <2>1. /\ pc'[t] = "loadBegin"
        /\ slot'[t] = 1
        /\ own'[t] = slot[t]
        /\ UNCHANGED <<begin, end, pool>>
    BY DEF TypeOK, Fault, Goto
  <2>2. Holds(t)' /\ Registered(t)' /\ InHandler(t)' /\ Slot(t)' = slot[t]
    BY <2>1 DEF Holds, Registered, InHandler, Slot
  <2>3. ASSUME NEW u \in Threads \ {t}, Holds(u)' PROVE Slot(u)' # slot[t]
    BY <2>3, <1>0, <1>2, Others, Distinct
  <2>4. OneHolder(t)'
    <3>1. begin[slot[t]] = pool[t][1]
      BY <1>0, Ranges
    <3> QED
      BY <3>1, <1>0, <2>1, <2>2, <2>3 DEF OneHolder, Slots
  <2>5. OneOnTrack(t)'
    BY <1>0, <2>1 DEF OneOnTrack
  <2> QED
    BY <1>0, <2>1, <2>2, <2>4, <2>5 DEF One, OneKept, OneMapped
<1>4. ASSUME NEW u \in Threads \ {t}, Holds(u)
      PROVE  /\ begin'[Slot(u)] = begin[Slot(u)]
             /\ end'[Slot(u)] = end[Slot(u)]
             /\ Holds(t)' => Slot(t)' # Slot(u)
  <2>1. Slot(u) # slot[t]
    BY <1>0, <1>4, Distinct
  <2>2. Slot(t)' = slot[t]
    BY DEF TypeOK, Fault, Goto, Slot
  <2> QED
    BY <2>1, <2>2 DEF Fault
<1>5. FaultIsReported'
  BY DEF Fault, FaultIsReported
<1> QED
  BY <1>1, <1>2, <1>3, <1>4, <1>5, OthersKeep

\* The handler does not pass its own slot without looking at its end.
LEMMA InvLoadBegin ==
  ASSUME TypeOK, FaultIsReported, \A u \in Threads : One(u),
         NEW t \in Threads, LoadBegin(t)
  PROVE  TypeOK' /\ FaultIsReported' /\ \A u \in Threads : One(u)'
<1>0. /\ InHandler(t)
      /\ own[t] \in Slots
      /\ slot[t] \in Slots
      /\ slot[t] <= own[t]
      /\ <<begin[own[t]], end[own[t]]>> = pool[t]
      /\ pool[t] \in Regions
      /\ Holds(t) /\ Slot(t) = own[t]
      /\ slot[t] + 1 \in 0..POOL_LIMIT + 1
  <2>1. InHandler(t) /\ Holds(t) /\ Slot(t) = own[t]
    BY DEF LoadBegin, At, InHandler, Holds, Registered, Slot
  <2>2. ASSUME slot[t] \in Slots PROVE slot[t] + 1 \in 0..POOL_LIMIT + 1
    BY <2>2, RegistryAssumption DEF Slots
  <2> QED
    BY <2>1, <2>2, Stepper
<1>a. ~(slot[t] > POOL_LIMIT)
  BY <1>0, RegistryAssumption DEF Slots
<1> DEFINE hit == ~Vacant(slot[t]) /\ begin[slot[t]] <= Failed(t)
<1>b. /\ UNCHANGED <<begin, end, pool, own>>
      /\ outcome' = outcome
      /\ hit => /\ seen' = [seen EXCEPT ![t] = begin[slot[t]]]
                /\ pc' = [pc EXCEPT ![t] = "loadEnd"]
                /\ slot' = slot
      /\ ~hit => /\ slot' = [slot EXCEPT ![t] = slot[t] + 1]
                 /\ seen' = seen /\ pc' = pc
  BY <1>a DEF LoadBegin, Goto
<1>c. slot[t] = own[t] => hit
  <2>1. begin[own[t]] = pool[t][1] /\ pool[t][1] \in Nat \ {0}
    BY <1>0, Ranges
  <2> QED
    BY <2>1 DEF Vacant, Failed
<1>d. pc'[t] \in {"loadBegin", "loadEnd"}
  BY <1>0, <1>b DEF TypeOK, InHandler
<1> HIDE DEF hit
<1>1. TypeOK'
  <2>1. CASE hit
    BY <1>0, <1>b, <2>1 DEF TypeOK
  <2>2. CASE ~hit
    BY <1>0, <1>b, <2>2 DEF TypeOK
  <2> QED
    BY <2>1, <2>2
<1>2. Alone(t)
  BY DEF TypeOK, LoadBegin, Alone, Goto
<1>3. One(t)'
  <2>1. Holds(t)' /\ Registered(t)' /\ InHandler(t)' /\ Slot(t)' = own[t]
    BY <1>b, <1>d DEF Holds, Registered, InHandler, Slot
  <2>2. ASSUME NEW u \in Threads \ {t}, Holds(u)' PROVE Slot(u)' # own[t]
    BY <2>2, <1>0, <1>2, Others, Distinct
  <2>3. OneHolder(t)'
    <3>1. begin[own[t]] = pool[t][1]
      BY <1>0, Ranges
    <3> QED
      BY <3>1, <1>0, <1>b, <2>1, <2>2 DEF OneHolder, Slots
  <2>4. OneOnTrack(t)'
    <3>1. CASE hit
      <4>1. slot'[t] = slot[t] /\ own'[t] = own[t] /\ seen'[t] = begin[slot[t]]
        BY <3>1, <1>b DEF TypeOK
      <4>2. 0 < slot[t] /\ begin[own[t]] = pool[t][1]
        BY <1>0, Ranges DEF Slots
      <4> QED
        BY <4>1, <4>2, <1>0, <1>b DEF OneOnTrack
    <3>2. CASE ~hit
      <4>1. slot'[t] = slot[t] + 1 /\ own'[t] = own[t] /\ pc'[t] = pc[t]
        BY <3>2, <1>b DEF TypeOK
      <4>2. slot[t] # own[t] /\ slot[t] \in Nat /\ own[t] \in Nat
        BY <3>2, <1>0, <1>c DEF Slots
      <4>3. 0 < slot'[t] /\ slot'[t] <= own'[t]
        BY <4>1, <4>2, <1>0
      <4>4. pc'[t] # "loadEnd"
        BY <4>1 DEF LoadBegin, At
      <4> QED
        BY <4>3, <4>4 DEF OneOnTrack
    <3> QED
      BY <3>1, <3>2
  <2>5. pc'[t] # "add"
    BY <1>d
  <2> QED
    BY <1>0, <1>b, <2>1, <2>3, <2>4, <2>5 DEF One, OneKept, OneMapped
<1>4. ASSUME NEW u \in Threads \ {t}, Holds(u)
      PROVE  /\ begin'[Slot(u)] = begin[Slot(u)]
             /\ end'[Slot(u)] = end[Slot(u)]
             /\ Holds(t)' => Slot(t)' # Slot(u)
  <2>1. Slot(u) # own[t]
    BY <1>0, <1>4, Distinct
  <2>2. Slot(t)' = own[t]
    BY <1>b, <1>d DEF Slot
  <2> QED
    BY <2>1, <2>2, <1>b
<1>5. FaultIsReported'
  BY <1>b DEF FaultIsReported
<1> QED
  BY <1>1, <1>2, <1>3, <1>4, <1>5, OthersKeep

\* At its own slot the handler finds its own pool.
LEMMA InvLoadEnd ==
  ASSUME TypeOK, FaultIsReported, \A u \in Threads : One(u),
         NEW t \in Threads, LoadEnd(t)
  PROVE  TypeOK' /\ FaultIsReported' /\ \A u \in Threads : One(u)'
<1>0. /\ InHandler(t)
      /\ own[t] \in Slots
      /\ slot[t] \in Slots
      /\ slot[t] <= own[t]
      /\ <<begin[own[t]], end[own[t]]>> = pool[t]
      /\ pool[t] \in Regions
      /\ Holds(t) /\ Slot(t) = own[t]
      /\ slot[t] + 1 \in 0..POOL_LIMIT + 1
  <2>1. InHandler(t) /\ Holds(t) /\ Slot(t) = own[t]
    BY DEF LoadEnd, At, InHandler, Holds, Registered, Slot
  <2>2. ASSUME slot[t] \in Slots PROVE slot[t] + 1 \in 0..POOL_LIMIT + 1
    BY <2>2, RegistryAssumption DEF Slots
  <2> QED
    BY <2>1, <2>2, Stepper
<1>a. slot[t] = own[t] => InPool(t)
  <2>1. /\ begin[own[t]] = pool[t][1] /\ end[own[t]] = pool[t][2]
        /\ pool[t][1] \in Nat /\ pool[t][1] < pool[t][2]
    BY <1>0, Ranges
  <2>2. slot[t] = own[t] => seen[t] = pool[t][1]
    BY <1>0 DEF One, OneOnTrack, LoadEnd, At
  <2> QED
    BY <2>1, <2>2 DEF InPool, Failed
<1>b. /\ UNCHANGED <<begin, end, pool, own, seen>>
      /\ InPool(t) => /\ outcome' = "reported"
                      /\ pc' = [pc EXCEPT ![t] = "reported"]
                      /\ slot' = slot
      /\ ~InPool(t) => /\ slot' = [slot EXCEPT ![t] = slot[t] + 1]
                       /\ pc' = [pc EXCEPT ![t] = "loadBegin"]
                       /\ outcome' = outcome
  BY DEF LoadEnd, Goto
<1>c. pc'[t] \in {"loadBegin", "reported"}
  BY <1>b DEF TypeOK
<1>1. TypeOK'
  <2>1. CASE InPool(t)
    BY <1>0, <1>b, <2>1 DEF TypeOK
  <2>2. CASE ~InPool(t)
    BY <1>0, <1>b, <2>2 DEF TypeOK
  <2> QED
    BY <2>1, <2>2
<1>2. Alone(t)
  BY DEF TypeOK, LoadEnd, Alone, Goto
<1>3. One(t)'
  <2>1. Holds(t)' /\ Registered(t)' /\ Slot(t)' = own[t]
    BY <1>b, <1>c DEF Holds, Registered, Slot
  <2>2. ASSUME NEW u \in Threads \ {t}, Holds(u)' PROVE Slot(u)' # own[t]
    BY <2>2, <1>0, <1>2, Others, Distinct
  <2>3. OneHolder(t)'
    <3>1. begin[own[t]] = pool[t][1]
      BY <1>0, Ranges
    <3> QED
      BY <3>1, <1>0, <1>b, <2>1, <2>2 DEF OneHolder, Slots
  <2>4. OneOnTrack(t)'
    <3>1. CASE InPool(t)
      <4>1. ~InHandler(t)'
        BY <3>1, <1>b DEF TypeOK, InHandler
      <4> QED
        BY <4>1 DEF OneOnTrack
    <3>2. CASE ~InPool(t)
      <4>1. slot'[t] = slot[t] + 1 /\ own'[t] = own[t] /\ pc'[t] = "loadBegin"
        BY <3>2, <1>b DEF TypeOK
      <4>2. slot[t] # own[t] /\ slot[t] \in Nat /\ own[t] \in Nat
        BY <3>2, <1>0, <1>a DEF Slots
      <4>3. 0 < slot'[t] /\ slot'[t] <= own'[t]
        BY <4>1, <4>2, <1>0
      <4> QED
        BY <4>1, <4>3 DEF OneOnTrack
    <3> QED
      BY <3>1, <3>2
  <2>5. pc'[t] # "add"
    BY <1>c
  <2> QED
    BY <1>0, <1>b, <2>1, <2>3, <2>4, <2>5 DEF One, OneKept, OneMapped
<1>4. ASSUME NEW u \in Threads \ {t}, Holds(u)
      PROVE  /\ begin'[Slot(u)] = begin[Slot(u)]
             /\ end'[Slot(u)] = end[Slot(u)]
             /\ Holds(t)' => Slot(t)' # Slot(u)
  <2>1. Slot(u) # own[t]
    BY <1>0, <1>4, Distinct
  <2>2. Slot(t)' = own[t]
    BY <1>b, <1>c DEF Slot
  <2> QED
    BY <2>1, <2>2, <1>b
<1>5. FaultIsReported'
  BY <1>b DEF FaultIsReported
<1> QED
  BY <1>1, <1>2, <1>3, <1>4, <1>5, OthersKeep

\* The invariant holds for the empty registry.
LEMMA InvInit == Init => Inv
BY RegistryAssumption DEF Init, Inv, TypeOK, HeldApart, SlotsKept, Mapped, OnTrack, FaultIsReported,
   Holds, Registered, InHandler, Slot, Slots, NoPool, Running

\* Every step of every thread preserves the invariant.
LEMMA InvNext == Inv /\ [Next]_vars => Inv'
<1> SUFFICES ASSUME Inv, [Next]_vars PROVE Inv'
  OBVIOUS
<1>1. TypeOK /\ FaultIsReported /\ \A t \in Threads : One(t)
  BY InvIsOne
<1>2. ASSUME NEW t \in Threads,
             \/ Map(t) \/ Take(t) \/ StoreEnd(t) \/ Throw(t) \/ Remove(t)
             \/ Unmap(t) \/ Fault(t) \/ LoadBegin(t) \/ LoadEnd(t)
      PROVE  TypeOK' /\ FaultIsReported' /\ \A u \in Threads : One(u)'
  BY <1>1, <1>2, InvMap, InvTake, InvStoreEnd, InvThrow, InvRemove, InvUnmap,
     InvFault, InvLoadBegin, InvLoadEnd
<1>3. (Inv <=> TypeOK /\ FaultIsReported /\ \A t \in Threads : One(t))'
  BY InvIsOne, PTL
<1>4. ASSUME UNCHANGED vars PROVE Inv'
  BY <1>4 DEF vars, Inv, TypeOK, HeldApart, SlotsKept, Mapped, OnTrack,
     FaultIsReported, Holds, Registered, InHandler, Slot
<1> QED
  BY <1>2, <1>3, <1>4 DEF Next, Ended

\* Every slot of the registry has at most one holder and shows its range, and
\* every handler that runs still has its own slot ahead of it.
THEOREM Invariance == Spec => []Inv
BY InvInit, InvNext, PTL DEF Spec

\* add and remove of pool_registry keep the slots of different pools apart,
\* without a lock, for any number of threads and slots.
THEOREM SlotsAreKept == Spec => []SlotsKept
<1>1. Inv => SlotsKept
  BY DEF Inv
<1> QED
  BY <1>1, Invariance, PTL

\* alloc_handler always finds the pool whose guard pages were hit, or one that
\* it takes for it, and never falls through to the default action.
THEOREM FaultsAreReported == Spec => []FaultIsReported
<1>1. Inv => FaultIsReported
  BY DEF Inv
<1> QED
  BY <1>1, Invariance, PTL

\* The slots hold ends of ranges that mmap has returned, and no scan goes
\* further than one behind the last slot.
THEOREM TypesKept == Spec => []TypeOK
<1>1. Inv => TypeOK
  BY DEF Inv
<1> QED
  BY <1>1, Invariance, PTL
=============================================================================
