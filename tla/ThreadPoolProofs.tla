-------------------------- MODULE ThreadPoolProofs --------------------------
(***************************************************************************)
(* Proofs about ThreadPool, for every number of workers and every steady   *)
(* sequence of calls: what parallelMemcpy returns has been copied, and no  *)
(* worker is late.                                                         *)
(***************************************************************************)
EXTENDS ThreadPool, FiniteSetTheorems, SequenceTheorems, TLAPS

-----------------------------------------------------------------------------
(***************************************************************************)
(* How a call is cut into blocks.                                          *)
(***************************************************************************)
\* What \div does: C++ rounds down as well.
LEMMA Division ==
  ASSUME NEW n \in Nat, NEW b \in Nat \ {0}
  PROVE  /\ n \div b \in Nat
         /\ b * (n \div b) <= n
         /\ n < b * (n \div b) + b
BY SMT

\* A call has at least one block, blocks are not empty, and workers get at
\* most as many as there are workers.
LEMMA PlanFacts ==
  ASSUME Steady, NEW c \in 1..Len(Plan)
  PROVE  /\ Plan[c].size \in Nat \ {0}
         /\ Alive(c) \in 0..MAX_THREADS
         /\ block_size(c) \in Nat \ {0}
         /\ tasks_num(c) \in Nat \ {0}
         /\ Handed(c) \in 0..MAX_THREADS
         /\ Handed(c) = tasks_num(c) - 1
         /\ tasks_num(c) > 1 => Handed(c) = Alive(c)
<1>1. Plan[c] \in [size: Nat, threads_num: Nat]
  <2>1. Plan \in Seq([size: Nat, threads_num: Nat])
    BY PlanAssumption
  <2> QED BY <2>1, ElementOfSeq
<1>2. Plan[c].size \in Nat \ {0} /\ Plan[c].threads_num \in Nat
  BY <1>1 DEF Steady
<1>3. Alive(c) \in 0..MAX_THREADS
  BY <1>2, PlanAssumption DEF Alive, MinOf
<1>4. (Plan[c].size + Alive(c)) \div (Alive(c) + 1) \in Nat
  <2>1. Plan[c].size + Alive(c) \in Nat /\ Alive(c) + 1 \in Nat \ {0}
    BY <1>2, <1>3, PlanAssumption
  <2> QED BY <2>1, Division
<1>5. block_size(c) \in Nat \ {0}
  BY <1>4, PlanAssumption DEF block_size, MaxOf
<1>6. tasks_num(c) \in Nat \ {0}
  <2> DEFINE n == Plan[c].size + block_size(c) - 1
             t == n \div block_size(c)
  <2>1. n \in Nat /\ n >= block_size(c)
    BY <1>2, <1>5
  <2>2. t \in Nat /\ n < block_size(c) * t + block_size(c)
    BY <2>1, <1>5, Division
  <2>3. t # 0
    <3> HIDE DEF n, t
    <3> QED BY <2>1, <2>2, <1>5
  <2> QED BY <2>2, <2>3 DEF tasks_num
<1>7. Handed(c) = tasks_num(c) - 1
  BY DEF Handed
<1>8. tasks_num(c) > 1 => Handed(c) = Alive(c)
  BY DEF Steady
<1>9. Handed(c) \in 0..MAX_THREADS
  <2>1. CASE tasks_num(c) = 1
    BY <2>1, <1>7, PlanAssumption
  <2>2. CASE tasks_num(c) > 1
    BY <2>2, <1>3, <1>8
  <2> QED BY <2>1, <2>2, <1>6
<1> QED BY <1>2, <1>3, <1>5, <1>6, <1>7, <1>8, <1>9

\* The blocks of a call are its bytes, no more and no less.
LEMMA Blocks ==
  ASSUME Steady, NEW c \in 1..Len(Plan)
  PROVE  /\ \A i \in Nat : Block(c, i) \subseteq Bytes(c)
         /\ \A x \in Bytes(c) : \E i \in 0..tasks_num(c) - 1 : x \in Block(c, i)
<1> DEFINE s == Plan[c].size
           b == block_size(c)
           t == tasks_num(c)
<1>1. s \in Nat \ {0} /\ b \in Nat \ {0} /\ t \in Nat \ {0}
  BY PlanFacts
<1>2. ASSUME NEW i \in Nat
      PROVE  Block(c, i) \subseteq Bytes(c)
  <2> DEFINE first == b * i
  <2>1. first \in Nat
    BY <1>1
  <2>2. Block(c, i) = first..first + MinOf(s - first, b) - 1
    BY DEF Block
  <2>3. MinOf(s - first, b) \in Int /\ MinOf(s - first, b) <= s - first
    <3> HIDE DEF first, s, b
    <3> QED BY <2>1, <1>1 DEF MinOf
  <2>4. Bytes(c) = 0..s - 1
    BY DEF Bytes
  <2> HIDE DEF first, s, b
  <2> QED BY <2>1, <2>2, <2>3, <2>4, <1>1
<1>3. ASSUME NEW x \in Bytes(c)
      PROVE  \E i \in 0..t - 1 : x \in Block(c, i)
  <2> DEFINE k == x \div b
             n == s + b - 1
  <2>1. x \in Nat /\ x < s
    BY <1>1 DEF Bytes
  <2>2. k \in Nat /\ b * k <= x /\ x < b * k + b
    BY <2>1, <1>1, Division
  <2>3. n \in Nat /\ t = n \div b
    BY <1>1 DEF tasks_num
  <2>4. n < b * t + b
    BY <2>3, <1>1, Division
  <2>5. k < t
    <3> HIDE DEF k, n, s, b, t
    <3>1. SUFFICES ASSUME k >= t PROVE FALSE
      BY <1>1, <2>2
    <3>2. b * k >= b * t
      BY <3>1, <1>1, <2>2, SMT
    <3>3. n = s + b - 1
      BY DEF n
    <3>4. b * k \in Nat /\ b * t \in Nat
      BY <1>1, <2>2
    <3> QED BY <3>2, <3>3, <3>4, <2>1, <2>2, <2>4, <1>1
  <2>6. x \in Block(c, k)
    <3>1. Block(c, k) = b * k..b * k + MinOf(s - b * k, b) - 1
      BY DEF Block
    <3> HIDE DEF k, n, s, b, t
    <3>2. b * k \in Nat
      BY <1>1, <2>2
    <3> QED BY <3>1, <3>2, <2>1, <2>2, <1>1 DEF MinOf
  <2> HIDE DEF k
  <2> QED BY <2>2, <2>5, <2>6, <1>1
<1> QED BY <1>2, <1>3

\* A block is a set of numbers.
LEMMA BlockType ==
  ASSUME Steady, NEW c \in 1..Len(Plan), NEW i \in Nat
  PROVE  Block(c, i) \in SUBSET Int
<1>1. Block(c, i) \subseteq Bytes(c)
  BY Blocks
<1> QED BY <1>1 DEF Bytes

-----------------------------------------------------------------------------
(***************************************************************************)
(* Sets of numbers below n.                                                *)
(***************************************************************************)
\* They are finite and have at most n elements.
LEMMA Small ==
  ASSUME NEW n \in Nat, NEW S \in SUBSET (0..n - 1)
  PROVE  IsFiniteSet(S) /\ Cardinality(S) \in Nat /\ Cardinality(S) <= n
<1>1. IsFiniteSet(0..n - 1) /\ Cardinality(0..n - 1) = n
  <2>1. 0 \in Int /\ n - 1 \in Int
    OBVIOUS
  <2>2. IsFiniteSet(0..n - 1)
    BY <2>1, FS_Interval
  <2>3. Cardinality(0..n - 1) = IF 0 > n - 1 THEN 0 ELSE (n - 1) - 0 + 1
    BY <2>1, FS_Interval
  <2> QED BY <2>2, <2>3
<1>2. IsFiniteSet(S) /\ Cardinality(S) <= Cardinality(0..n - 1)
  BY <1>1, FS_Subset
<1>3. Cardinality(S) \in Nat
  BY <1>2, FS_CardinalityType
<1> QED BY <1>1, <1>2, <1>3

\* A part has no more elements.
LEMMA Part ==
  ASSUME NEW n \in Nat, NEW S \in SUBSET (0..n - 1), NEW T \in SUBSET S
  PROVE  Cardinality(T) \in Nat /\ Cardinality(T) <= Cardinality(S)
<1>1. IsFiniteSet(S)
  BY Small
<1>2. IsFiniteSet(T) /\ Cardinality(T) <= Cardinality(S)
  BY <1>1, FS_Subset
<1> QED BY <1>2, FS_CardinalityType

\* Without one of its elements a set has one element less.
LEMMA Less ==
  ASSUME NEW n \in Nat, NEW S \in SUBSET (0..n - 1), NEW i \in S
  PROVE  Cardinality(S \ {i}) = Cardinality(S) - 1 /\ Cardinality(S) > 0
<1>1. IsFiniteSet(S) /\ Cardinality(S) \in Nat
  BY Small
<1>2. IsFiniteSet(S \ {i}) /\ Cardinality(S \ {i}) = Cardinality(S) - 1
  BY <1>1, FS_RemoveElement
<1>3. Cardinality(S \ {i}) \in Nat
  BY <1>2, FS_CardinalityType
<1> QED BY <1>1, <1>2, <1>3

\* Only the empty set has no elements.
LEMMA Nothing ==
  ASSUME NEW n \in Nat, NEW S \in SUBSET (0..n - 1), Cardinality(S) = 0
  PROVE  S = {}
<1>1. IsFiniteSet(S)
  BY Small
<1> QED BY <1>1, FS_EmptySet

-----------------------------------------------------------------------------
(***************************************************************************)
(* The invariant holds at first, and every action of the client keeps it.  *)
(***************************************************************************)
\* No worker has been woken up when the pool has been built.
LEMMA InitInv == Init => Inv
<1> SUFFICES ASSUME Init PROVE Inv
  OBVIOUS
<1> USE DEF Init
<1>1. Types
  <2>1. Len(Plan) \in Nat
    BY PlanAssumption, LenProperties
  <2>2. NoTask \in Tasks /\ NoTask.call = 0
    BY <2>1 DEF NoTask, Tasks
  <2>3. call \in 1..Len(Plan) + 1 /\ waiting_for \in 0..SIZE_MOD - 1
    BY <2>1, PlanAssumption
  <2>4. alive_threads \in 0..MAX_THREADS
    BY PlanAssumption
  <2>5. \A i \in Workers : slot[i].call \in 0..Len(Plan) /\ mine[i].call \in 0..Len(Plan)
    BY <2>1, <2>2
  <2>6. TypeOK
    BY <2>3, <2>4, <2>5 DEF TypeOK
  <2> QED BY <2>2, <2>6 DEF Types
<1>2. Locked
  BY DEF Locked, Workers, Free
<1>3. Phases
  BY DEF Phases, InCall
<1>4. Quiet
  BY DEF Quiet, Owing
<1>5. Working /\ Within /\ CopyComplete
  BY DEF Working, Within, CopyComplete, InCall
<1> QED BY <1>1, <1>2, <1>3, <1>4, <1>5 DEF Inv

\* alive_threads never grows, so that no worker that is still awake begins to
\* owe something.
LEMMA StoreAliveKeeps == ASSUME Steady, Inv, StoreAlive PROVE Inv'
<1> USE DEF Inv, StoreAlive
<1>1. call \in 1..Len(Plan) /\ Len(Plan) \in Nat
  BY PlanAssumption, LenProperties DEF Types, TypeOK
<1>2. Alive(call) \in 0..MAX_THREADS
  BY <1>1, PlanFacts
<1>3. Types'
  BY <1>2 DEF Types, TypeOK
<1>4. Locked'
  BY DEF Locked
<1>5. Owing' = {}
  <2>1. CASE call = 1
    BY <2>1 DEF Phases, Owing
  <2>2. CASE call > 1
    <3>1. call \in 2..Len(Plan) /\ call - 1 \in 1..Len(Plan)
      BY <1>1, <2>2
    <3>2. Alive(call) <= alive_threads
      BY <3>1, <2>2 DEF Phases, Steady
    <3>3. Owing = {}
      BY DEF Quiet, InCall
    <3>4. alive_threads \in Nat /\ alive_threads' = Alive(call)
      BY PlanAssumption DEF Types, TypeOK
    <3> QED BY <3>2, <3>3, <3>4, <1>2 DEF Owing, Workers
  <2> QED BY <2>1, <2>2, <1>1
<1>6. Phases'
  BY <1>1 DEF Phases, InCall
<1>7. Quiet' /\ Working' /\ Within' /\ CopyComplete'
  BY <1>5 DEF Quiet, Working, Within, CopyComplete, InCall
<1> QED BY <1>3, <1>4, <1>6, <1>7

\* The call in progress.
LEMMA CallFacts ==
  ASSUME Steady, Inv, InCall \/ client = "lock"
  PROVE  /\ call \in 1..Len(Plan)
         /\ Len(Plan) \in Nat
         /\ Handed(call) \in 0..MAX_THREADS
         /\ Handed(call) \in Nat
         /\ tasks_num(call) = Handed(call) + 1
         /\ tasks_num(call) > 1 => Handed(call) = alive_threads
         /\ alive_threads = Alive(call)
         /\ MAX_THREADS \in Nat
<1>1. call \in 1..Len(Plan) /\ Len(Plan) \in Nat /\ alive_threads = Alive(call)
  BY PlanAssumption, LenProperties DEF Inv, Types, TypeOK, Phases
<1>2. /\ Handed(call) \in 0..MAX_THREADS
      /\ tasks_num(call) \in Nat
      /\ Handed(call) = tasks_num(call) - 1
      /\ tasks_num(call) > 1 => Handed(call) = Alive(call)
  BY <1>1, PlanFacts
<1> QED BY <1>1, <1>2, PlanAssumption

\* When fewer workers owe something and more has been copied, no more blocks
\* are undone.
LEMMA Fewer ==
  ASSUME Steady, Inv, InCall, Owing' \subseteq Owing, dst \subseteq dst',
         UNCHANGED <<call, waiting_for>>
  PROVE  (Cardinality(Undone) <= waiting_for)'
<1>1. Handed(call) \in Nat
  BY CallFacts
<1>2. Undone \in SUBSET (0..Handed(call) - 1)
  BY DEF Undone
<1>3. Undone' \in SUBSET Undone
  BY DEF Undone
<1>4. Cardinality(Undone') \in Nat /\ Cardinality(Undone') <= Cardinality(Undone)
  BY <1>1, <1>2, <1>3, Part
<1>5. Cardinality(Undone) \in Nat
  BY <1>1, <1>2, Small
<1>6. Cardinality(Undone) <= waiting_for /\ waiting_for \in Int
  BY DEF Inv, Working, Types, TypeOK
<1> QED BY <1>4, <1>5, <1>6

\* A worker that owes something works for the call in progress.
LEMMA OwingFacts ==
  ASSUME Steady, Inv, NEW i \in Owing, client # "join"
  PROVE  /\ InCall
         /\ i \in 0..Handed(call) - 1
         /\ slot[i] = [call |-> call, bytes |-> Block(call, i)]
<1>1. InCall
  BY DEF Inv, Quiet
<1>2. i \in Nat /\ i < Handed(call) /\ Handed(call) \in Nat
  <2>1. i \in Workers
    BY DEF Owing
  <2>2. i < Handed(call)
    BY <1>1 DEF Inv, Working
  <2>3. Handed(call) \in Nat /\ MAX_THREADS \in Nat
    BY <1>1, CallFacts
  <2> QED BY <2>1, <2>2, <2>3 DEF Workers
<1>3. i \in 0..Handed(call) - 1
  BY <1>2
<1> QED BY <1>1, <1>3 DEF Inv, Working

\* The client fills the slots of exactly the workers that will look at them.
LEMMA PublishKeeps == ASSUME Steady, Inv, Publish PROVE Inv'
<1> USE DEF Publish
<1> DEFINE h == Handed(call)
<1>1. /\ call \in 1..Len(Plan) /\ Len(Plan) \in Nat /\ MAX_THREADS \in Nat
      /\ h \in Nat /\ h <= MAX_THREADS /\ tasks_num(call) = h + 1
      /\ tasks_num(call) > 1 => h = alive_threads
  BY CallFacts
<1> waiting_for' = h
  <2>1. SIZE_MOD \in Nat /\ h < SIZE_MOD
    BY <1>1, PlanAssumption
  <2>2. h % SIZE_MOD = h
    BY <1>1, <2>1
  <2> QED BY <2>2
<1>2. Owing = {}
  BY DEF Inv, Quiet, InCall
<1>3. \A i \in Workers : worker[i] # "tested"
  BY DEF Inv, Locked, Workers, Free
<1>4. \A i \in Workers : i + 1 < tasks_num(call) <=> i < h
  BY <1>1 DEF Workers
<1>5. Types'
  <2>1. waiting_for' \in 0..SIZE_MOD - 1
    BY <1>1, PlanAssumption
  <2>2. \A i \in Workers : [call |-> call, bytes |-> Block(call, i)] \in Tasks
    BY <1>1, BlockType DEF Tasks, Workers
  <2>3. slot' \in [Workers -> Tasks]
    BY <2>2 DEF Inv, Types
  <2>4. \A i \in Workers : slot'[i].call \in 0..Len(Plan)
    BY <2>3 DEF Tasks
  <2>5. worker' \in [Workers -> {"start", "waiting", "woken", "tested", "fetch",
                                "memcpy", "relock", "exited"}]
    BY DEF Inv, Types, TypeOK, NotifyAll
  <2> QED BY <2>1, <2>3, <2>4, <2>5 DEF Inv, Types, TypeOK
<1>6. Locked'
  BY <1>3 DEF Inv, Types, TypeOK, Locked, NotifyAll, Workers, Free
<1>7. Phases'
  BY DEF Inv, Phases, InCall
<1>8. \A i \in Owing' : i \in Workers /\ i < h /\ worker'[i] = "woken"
  <2>1. \A i \in Workers : worker[i] \notin {"fetch", "memcpy", "relock"}
    BY <1>2 DEF Owing
  <2>2. \A i \in Workers :
          worker'[i] = worker[i] \/ (worker'[i] = "woken" /\ h = alive_threads)
    BY <1>1 DEF Inv, Types, TypeOK, NotifyAll
  <2>3. \A i \in Workers : worker[i] = "woken" => ~(i < alive_threads)
    BY <1>2 DEF Owing
  <2> QED BY <1>3, <2>1, <2>2, <2>3 DEF Owing
<1>9. \A i \in Owing' : slot'[i] = [call |-> call, bytes |-> Block(call, i)]
  BY <1>4, <1>8
<1>10. (Cardinality(Undone) <= waiting_for)'
  <2>1. Undone' \in SUBSET (0..h - 1)
    BY DEF Undone
  <2>2. Cardinality(Undone') <= h
    BY <2>1, <1>1, Small
  <2> QED BY <2>2
<1>11. Working'
  BY <1>1, <1>8, <1>9, <1>10 DEF Working
<1>12. Quiet' /\ Within' /\ CopyComplete'
  BY DEF Inv, Quiet, Within, CopyComplete, InCall
<1> QED BY <1>5, <1>6, <1>7, <1>11, <1>12 DEF Inv

\* The client copies the last block.
LEMMA OwnCopyKeeps == ASSUME Steady, Inv, OwnCopy PROVE Inv'
<1> USE DEF OwnCopy
<1>1. InCall /\ InCall'
  BY DEF InCall
<1>2. call \in 1..Len(Plan) /\ Handed(call) \in Nat /\ tasks_num(call) = Handed(call) + 1
  BY <1>1, CallFacts
<1>3. Types' /\ Locked' /\ Phases'
  BY DEF Inv, Types, TypeOK, Locked, Phases, InCall
<1>4. Owing' = Owing
  BY DEF Owing
<1>5. (Cardinality(Undone) <= waiting_for)'
  BY <1>1, <1>4, Fewer
<1>6. Working'
  BY <1>1, <1>4, <1>5 DEF Inv, Working
<1>7. Within'
  <2>1. Block(call, tasks_num(call) - 1) \subseteq Bytes(call)
    BY <1>2, Blocks
  <2> QED BY <1>1, <2>1 DEF Inv, Within
<1>8. Quiet' /\ CopyComplete'
  BY <1>1 DEF Quiet, CopyComplete
<1> QED BY <1>3, <1>6, <1>7, <1>8 DEF Inv

\* The client waits.
LEMMA AwaitKeeps == ASSUME Steady, Inv, Await PROVE Inv'
<1> USE DEF Await
<1>1. InCall /\ InCall' /\ client # "copy"
  BY DEF InCall
<1>2. Types' /\ Locked' /\ Phases' /\ Within'
  BY <1>1 DEF Inv, Types, TypeOK, Locked, Phases, Within, InCall
<1>3. Owing' = Owing
  BY DEF Owing
<1>4. (Cardinality(Undone) <= waiting_for)'
  BY <1>1, <1>3, Fewer
<1>5. Working'
  BY <1>1, <1>3, <1>4 DEF Inv, Working
<1>6. Quiet' /\ CopyComplete'
  BY <1>1 DEF Quiet, CopyComplete
<1> QED BY <1>2, <1>5, <1>6 DEF Inv

\* When the counter is 0, every block has been copied.
LEMMA ReturnKeeps == ASSUME Steady, Inv, Return PROVE Inv'
<1> USE DEF Return
<1> DEFINE h == Handed(call)
<1>1. InCall /\ ~InCall' /\ client # "copy"
  BY DEF InCall
<1>2. /\ call \in 1..Len(Plan) /\ Len(Plan) \in Nat /\ h \in Nat
      /\ tasks_num(call) = h + 1 /\ alive_threads = Alive(call)
  BY <1>1, CallFacts
<1>3. Undone = {}
  <2>1. Undone \in SUBSET (0..h - 1)
    BY DEF Undone
  <2>2. Cardinality(Undone) \in Nat /\ Cardinality(Undone) <= h
    BY <2>1, <1>2, Small
  <2>3. Cardinality(Undone) <= waiting_for
    BY <1>1 DEF Inv, Working
  <2>4. Cardinality(Undone) = 0
    BY <2>2, <2>3, <1>2 DEF AllDone
  <2> QED BY <2>1, <2>4, <1>2, Nothing
<1>4. Owing = {}
  <2>1. \A i \in Owing : i \in 0..h - 1
    BY OwingFacts
  <2> QED BY <2>1, <1>3 DEF Undone
<1>5. dst = Bytes(call)
  <2>1. dst \subseteq Bytes(call)
    BY <1>1 DEF Inv, Within
  <2>2. ASSUME NEW x \in Bytes(call)
        PROVE  x \in dst
    <3>1. PICK i \in 0..h : x \in Block(call, i)
      BY <1>2, Blocks
    <3>2. CASE i = h
      <4>1. Block(call, tasks_num(call) - 1) \subseteq dst
        BY <1>1 DEF Inv, Working
      <4>2. tasks_num(call) - 1 = h
        BY <1>2
      <4> QED BY <3>1, <3>2, <4>1, <4>2
    <3>3. CASE i # h
      <4>1. i \in 0..h - 1
        BY <3>3, <1>2
      <4>2. Block(call, i) \subseteq dst
        BY <4>1, <1>3 DEF Undone
      <4> QED BY <3>1, <4>2
    <3> QED BY <3>2, <3>3
  <2> QED BY <2>1, <2>2
<1>6. call' - 1 = call /\ call' # 1
  BY <1>2
<1>7. Types' /\ Locked'
  BY <1>2 DEF Inv, Types, TypeOK, Locked
<1>8. Phases'
  BY <1>2, <1>6, <1>1 DEF Inv, Phases, InCall
<1>9. Quiet'
  BY <1>4 DEF Quiet, Owing
<1>10. Working' /\ Within'
  BY <1>1 DEF Working, Within
<1>11. CopyComplete'
  BY <1>5, <1>6 DEF CopyComplete, Bytes
<1> QED BY <1>7, <1>8, <1>9, <1>10, <1>11 DEF Inv

\* The destructor stores destroy.
LEMMA SetDestroyKeeps == ASSUME Steady, Inv, SetDestroy PROVE Inv'
<1> USE DEF SetDestroy
<1>1. Types' /\ Locked'
  BY DEF Inv, Types, TypeOK, Locked
<1>2. Phases'
  BY DEF Inv, Phases, InCall
<1>3. Owing' = {}
  BY DEF Inv, Quiet, InCall, Owing
<1>4. Quiet' /\ Working' /\ Within' /\ CopyComplete'
  BY <1>3 DEF Quiet, Working, Within, CopyComplete, InCall
<1> QED BY <1>1, <1>2, <1>4 DEF Inv

\* The destructor wakes up who waits.
LEMMA NotifyDestroyKeeps == ASSUME Steady, Inv, NotifyDestroy PROVE Inv'
<1> USE DEF NotifyDestroy
<1>1. \A i \in Workers :
        worker'[i] = worker[i] \/ (worker[i] = "waiting" /\ worker'[i] = "woken")
  BY DEF Inv, Types, TypeOK, NotifyAll
<1>2. Types'
  BY DEF Inv, Types, TypeOK, NotifyAll
<1>3. Locked'
  BY <1>1 DEF Inv, Locked
<1>4. Phases'
  BY DEF Inv, Phases, InCall
<1>5. Quiet'
  <2>1. Owing = {}
    BY DEF Inv, Quiet, InCall
  <2>2. \A i \in Owing' : worker'[i] = "woken"
    BY <1>1, <2>1 DEF Owing
  <2> QED BY <2>2 DEF Quiet
<1>6. Working' /\ Within' /\ CopyComplete'
  BY DEF Working, Within, CopyComplete, InCall
<1> QED BY <1>2, <1>3, <1>4, <1>5, <1>6 DEF Inv

-----------------------------------------------------------------------------
(***************************************************************************)
(* Every action of a worker keeps the invariant.                           *)
(***************************************************************************)
\* What all steps of a worker have in common that neither copy nor count.
LEMMA Moves ==
  ASSUME Steady, Inv, NEW i \in Workers, NEW to,
         Goes(i, worker[i], to),
         UNCHANGED <<client, call, alive_threads, waiting_for, slot, dst, destroy>>,
         Owing' \subseteq Owing,
         i \in Owing' => /\ client # "join"
                         /\ to # "relock"
                         /\ to = "memcpy" => mine'[i] = slot[i],
         \A j \in Workers \ {i} : mine'[j] = mine[j]
  PROVE  Quiet' /\ Working' /\ Within' /\ CopyComplete'
<1>1. worker'[i] = to /\ \A j \in Workers \ {i} : worker'[j] = worker[j]
  BY DEF Goes, Inv, Types, TypeOK
<1>2. Quiet'
  <2>1. \A j \in Owing' : ~InCall => j # i /\ client = "join" /\ worker[j] = "woken"
    BY DEF Inv, Quiet
  <2>2. \A j \in Owing' : j \in Workers
    BY DEF Owing
  <2>3. \A j \in Owing' : ~InCall => client = "join" /\ worker'[j] = "woken"
    BY <1>1, <2>1, <2>2
  <2> QED BY <2>3 DEF Quiet, InCall
<1>3. Working'
  <2>1. SUFFICES ASSUME InCall PROVE Working'
    BY DEF Working, InCall
  <2>2. (Cardinality(Undone) <= waiting_for)'
    BY <2>1, Fewer
  <2>3. ASSUME NEW j \in Owing'
        PROVE  /\ j < Handed(call)
               /\ slot[j] = [call |-> call, bytes |-> Block(call, j)]
               /\ worker'[j] = "memcpy" => mine'[j] = slot[j]
               /\ worker'[j] = "relock" => Block(call, j) \subseteq dst
    <3>1. j \in Workers
      BY <2>3 DEF Owing
    <3>2. CASE j = i
      BY <2>1, <2>3, <3>2, <1>1 DEF Inv, Working
    <3>3. CASE j # i
      BY <2>1, <2>3, <3>1, <3>3, <1>1 DEF Inv, Working
    <3> QED BY <3>2, <3>3
  <2> QED BY <2>1, <2>2, <2>3 DEF Inv, Working
<1>4. Within' /\ CopyComplete'
  BY DEF Inv, Within, CopyComplete, InCall
<1> QED BY <1>2, <1>3, <1>4

\* A thread begins and waits.
LEMMA StartKeeps == ASSUME Steady, Inv, NEW i \in Workers, Start(i) PROVE Inv'
<1> USE DEF Start
<1>1. Types'
  BY DEF Inv, Types, TypeOK, Goes
<1>2. Locked'
  BY DEF Inv, Types, TypeOK, Locked, Goes
<1>3. Phases'
  BY DEF Inv, Types, TypeOK, Phases, InCall, Goes
<1>4. Owing' \subseteq Owing /\ i \notin Owing'
  BY DEF Inv, Types, TypeOK, Owing, Goes
<1>5. Goes(i, worker[i], "waiting")
  BY DEF Goes
<1>6. Quiet' /\ Working' /\ Within' /\ CopyComplete'
  BY <1>4, <1>5, Moves
<1> QED BY <1>1, <1>2, <1>3, <1>6 DEF Inv

\* A woken worker has the mutex, or leaves.
LEMMA WakeKeeps == ASSUME Steady, Inv, NEW i \in Workers, Wake(i) PROVE Inv'
<1> USE DEF Wake, Leaves
<1> DEFINE to == IF destroy THEN "exited" ELSE "tested"
<1>1. Types'
  BY DEF Inv, Types, TypeOK, Goes
<1>2. Locked'
  BY DEF Inv, Types, TypeOK, Locked, Goes, Workers, Free
<1>3. Phases'
  BY DEF Inv, Types, TypeOK, Phases, InCall, Goes
<1>4. Owing' \subseteq Owing
  BY DEF Inv, Types, TypeOK, Owing, Goes
<1>5. i \in Owing' => client # "join"
  BY DEF Inv, Types, TypeOK, Phases, Owing, Goes
<1>6. Goes(i, worker[i], to)
  BY DEF Goes
<1>7. Quiet' /\ Working' /\ Within' /\ CopyComplete'
  BY <1>4, <1>5, <1>6, Moves
<1> QED BY <1>1, <1>2, <1>3, <1>7 DEF Inv

\* A worker whose number is too large waits again.
LEMMA DecideKeeps == ASSUME Steady, Inv, NEW i \in Workers, Decide(i) PROVE Inv'
<1> USE DEF Decide, NotNeeded
<1> DEFINE to == IF i >= alive_threads THEN "waiting" ELSE "fetch"
<1>1. Types'
  BY DEF Inv, Types, TypeOK, Goes
<1>2. Locked'
  BY DEF Inv, Types, TypeOK, Locked, Goes, Workers, Free
<1>3. Phases'
  BY DEF Inv, Types, TypeOK, Phases, InCall, Goes
<1>4. Owing' \subseteq Owing
  BY PlanAssumption DEF Inv, Types, TypeOK, Owing, Goes, Workers
<1>5. i \in Owing' => client # "join"
  BY <1>4 DEF Inv, Quiet, InCall, Goes
<1>6. Goes(i, worker[i], to)
  BY DEF Goes
<1>7. Quiet' /\ Working' /\ Within' /\ CopyComplete'
  BY <1>4, <1>5, <1>6, Moves
<1> QED BY <1>1, <1>2, <1>3, <1>7 DEF Inv

\* A worker reads its slot while it holds the block of the call in progress.
LEMMA FetchKeeps == ASSUME Steady, Inv, NEW i \in Workers, Fetch(i) PROVE Inv'
<1> USE DEF Fetch
<1>1. Types'
  <2>1. mine' \in [Workers -> Tasks]
    BY DEF Inv, Types
  <2>2. \A j \in Workers : mine'[j].call \in 0..Len(Plan)
    BY <2>1 DEF Tasks
  <2> QED BY <2>1, <2>2 DEF Inv, Types, TypeOK, Goes
<1>2. Locked'
  BY DEF Inv, Types, TypeOK, Locked, Goes
<1>3. Phases'
  BY DEF Inv, Types, TypeOK, Phases, InCall, Goes
<1>4. Owing' \subseteq Owing
  BY DEF Inv, Types, TypeOK, Owing, Goes
<1>5. i \in Owing' => client # "join"
  BY <1>4 DEF Inv, Quiet, InCall, Goes
<1>6. Goes(i, worker[i], "memcpy")
  BY DEF Goes
<1>7. mine'[i] = slot[i] /\ \A j \in Workers \ {i} : mine'[j] = mine[j]
  BY DEF Inv, Types
<1>8. Quiet' /\ Working' /\ Within' /\ CopyComplete'
  BY <1>4, <1>5, <1>6, <1>7, Moves
<1> QED BY <1>1, <1>2, <1>3, <1>8 DEF Inv

\* A worker copies the block with its number.
LEMMA CopyKeeps == ASSUME Steady, Inv, NEW i \in Workers, Copy(i) PROVE Inv'
<1> USE DEF Copy
<1>1. /\ i \in Owing /\ worker[i] = "memcpy"
      /\ worker' = [worker EXCEPT ![i] = "relock"]
  BY DEF Goes, Owing
<1>2. client # "join"
  BY <1>1 DEF Inv, Quiet, InCall
<1>3. /\ InCall /\ InCall'
      /\ i \in 0..Handed(call) - 1
      /\ mine[i] = [call |-> call, bytes |-> Block(call, i)]
  <2>1. InCall /\ i \in 0..Handed(call) - 1
        /\ slot[i] = [call |-> call, bytes |-> Block(call, i)]
    BY <1>1, <1>2, OwingFacts
  <2>2. mine[i] = slot[i]
    BY <1>1, <2>1 DEF Inv, Working
  <2> QED BY <2>1, <2>2 DEF InCall
<1>4. dst' = dst \cup Block(call, i)
  BY <1>3
<1>5. call \in 1..Len(Plan) /\ Len(Plan) \in Nat /\ Handed(call) \in Nat
  BY <1>3, CallFacts
<1>6. Types'
  <2>1. NoTask \in Tasks /\ NoTask.call = 0
    BY <1>5 DEF NoTask, Tasks
  <2>2. mine' \in [Workers -> Tasks]
    BY <2>1 DEF Inv, Types
  <2>3. \A j \in Workers : mine'[j].call \in 0..Len(Plan)
    BY <2>2 DEF Tasks
  <2> QED BY <2>2, <2>3, <1>1 DEF Inv, Types, TypeOK
<1>7. Locked'
  BY <1>1 DEF Inv, Types, TypeOK, Locked
<1>8. Phases'
  BY <1>1, <1>3 DEF Inv, Phases, InCall
<1>9. Owing' = Owing
  BY <1>1 DEF Inv, Types, TypeOK, Owing
<1>10. (Cardinality(Undone) <= waiting_for)'
  BY <1>3, <1>4, <1>9, Fewer
<1>11. ASSUME NEW j \in Owing'
       PROVE  /\ j < Handed(call)
              /\ slot[j] = [call |-> call, bytes |-> Block(call, j)]
              /\ worker'[j] = "memcpy" => mine'[j] = slot[j]
              /\ worker'[j] = "relock" => Block(call, j) \subseteq dst'
  <2>1. j \in Owing /\ j \in Workers
    BY <1>9 DEF Owing
  <2>2. /\ j < Handed(call)
        /\ slot[j] = [call |-> call, bytes |-> Block(call, j)]
        /\ worker[j] = "memcpy" => mine[j] = slot[j]
        /\ worker[j] = "relock" => Block(call, j) \subseteq dst
    BY <2>1, <1>3 DEF Inv, Working
  <2>3. CASE j = i
    BY <2>1, <2>2, <2>3, <1>1, <1>4 DEF Inv, Types, TypeOK
  <2>4. CASE j # i
    <3>1. worker'[j] = worker[j] /\ mine'[j] = mine[j]
      BY <2>1, <2>4, <1>1 DEF Inv, Types, TypeOK
    <3> QED BY <2>2, <3>1, <1>4
  <2> QED BY <2>3, <2>4
<1>12. client # "copy" => Block(call, tasks_num(call) - 1) \subseteq dst'
  BY <1>3, <1>4 DEF Inv, Working
<1>13. Working'
  <2>1. waiting_for <= Handed(call)
    BY <1>3 DEF Inv, Working
  <2> QED BY <2>1, <1>10, <1>11, <1>12 DEF Working
<1>14. Within'
  <2>1. Block(call, i) \subseteq Bytes(call)
    BY <1>3, <1>5, Blocks
  <2> QED BY <1>3, <1>4, <2>1 DEF Inv, Within
<1>15. Quiet' /\ CopyComplete'
  BY <1>3 DEF Quiet, CopyComplete, InCall
<1> QED BY <1>6, <1>7, <1>8, <1>13, <1>14, <1>15 DEF Inv

\* The worker that counts down is one of those that the counter counts.
LEMMA CountDownOwes ==
  ASSUME Steady, Inv, NEW i \in Workers, CountDown(i)
  PROVE  waiting_for > 0
<1> DEFINE h == Handed(call)
<1>1. i \in Owing
  BY DEF CountDown, Goes, Owing
<1>2. client # "join"
  BY <1>1 DEF Inv, Quiet, InCall, CountDown, Goes
<1>3. InCall /\ i \in 0..h - 1
  BY <1>1, <1>2, OwingFacts
<1>4. h \in Nat
  BY <1>3, CallFacts
<1>5. i \in Undone /\ Undone \in SUBSET (0..h - 1)
  BY <1>1, <1>3 DEF Undone
<1>6. Cardinality(Undone) > 0 /\ Cardinality(Undone) \in Nat
  BY <1>4, <1>5, Less, Small
<1>7. Cardinality(Undone) <= waiting_for /\ waiting_for \in Int
  BY <1>3, PlanAssumption DEF Inv, Working, Types, TypeOK
<1> QED BY <1>6, <1>7

\* The counter does not pass 0: the worker's own block is still counted.
LEMMA CountDownKeeps == ASSUME Steady, Inv, NEW i \in Workers, CountDown(i) PROVE Inv'
<1> USE DEF CountDown
<1> DEFINE h == Handed(call)
<1>1. /\ i \in Owing /\ worker[i] = "relock"
      /\ worker' = [worker EXCEPT ![i] = "waiting"]
  BY DEF Goes, Owing
<1>2. client # "join"
  BY <1>1 DEF Inv, Quiet, InCall
<1>3. InCall /\ InCall' /\ i \in 0..h - 1 /\ (client' = "copy" <=> client = "copy")
  BY <1>1, <1>2, OwingFacts DEF InCall, NotifyOne
<1>4. h \in Nat /\ h < SIZE_MOD
  BY <1>3, CallFacts, PlanAssumption
<1>5. Block(call, i) \subseteq dst
  BY <1>1, <1>3 DEF Inv, Working
<1>6. Owing' = Owing \ {i}
  BY <1>1 DEF Inv, Types, TypeOK, Owing
<1>7. i \in Undone /\ Undone \in SUBSET (0..h - 1) /\ Undone' = Undone \ {i}
  BY <1>1, <1>3, <1>5, <1>6 DEF Undone
<1>8. Cardinality(Undone') = Cardinality(Undone) - 1 /\ Cardinality(Undone) > 0
      /\ Cardinality(Undone) \in Nat
  BY <1>4, <1>7, Less, Small
<1>9. Cardinality(Undone) <= waiting_for /\ waiting_for <= h
  BY <1>3 DEF Inv, Working
<1>10. waiting_for' = waiting_for - 1 /\ waiting_for \in 1..SIZE_MOD - 1
  <2>1. waiting_for \in 1..SIZE_MOD - 1 /\ SIZE_MOD \in Nat
    BY <1>8, <1>9, PlanAssumption DEF Inv, Types, TypeOK
  <2>2. (waiting_for - 1) % SIZE_MOD = waiting_for - 1
    BY <2>1
  <2> QED BY <2>1, <2>2
<1>11. Types'
  <2>1. waiting_for' \in 0..SIZE_MOD - 1
    BY <1>10, PlanAssumption
  <2> QED BY <2>1, <1>1 DEF Inv, Types, TypeOK, NotifyOne
<1>12. Locked'
  BY <1>1 DEF Inv, Types, TypeOK, Locked
<1>13. Phases'
  BY <1>1, <1>3 DEF Inv, Phases, InCall, NotifyOne
<1>14. ASSUME NEW j \in Owing'
       PROVE  /\ j < h
              /\ slot[j] = [call |-> call, bytes |-> Block(call, j)]
              /\ worker'[j] = "memcpy" => mine[j] = slot[j]
              /\ worker'[j] = "relock" => Block(call, j) \subseteq dst
  <2>1. j \in Owing /\ j # i
    BY <1>6
  <2>2. worker'[j] = worker[j]
    BY <2>1, <1>1 DEF Inv, Types, TypeOK, Owing
  <2> QED BY <2>1, <2>2, <1>3 DEF Inv, Working
<1>15. (Cardinality(Undone) <= waiting_for)' /\ waiting_for' <= h
  BY <1>4, <1>8, <1>9, <1>10
<1>16. client' # "copy" => Block(call, tasks_num(call) - 1) \subseteq dst
  BY <1>3 DEF Inv, Working
<1>17. Working'
  BY <1>14, <1>15, <1>16 DEF Working
<1>18. Quiet' /\ Within' /\ CopyComplete'
  BY <1>3 DEF Inv, Quiet, Within, CopyComplete, InCall
<1> QED BY <1>11, <1>12, <1>13, <1>17, <1>18 DEF Inv

-----------------------------------------------------------------------------
(***************************************************************************)
(* The theorems.                                                           *)
(***************************************************************************)
\* Every step of the pool keeps the invariant.
LEMMA StepKeeps == ASSUME Steady, Inv, [Next]_vars PROVE Inv'
<1>1. CASE Client
  BY <1>1, StoreAliveKeeps, PublishKeeps, OwnCopyKeeps, AwaitKeeps, ReturnKeeps,
     SetDestroyKeeps, NotifyDestroyKeeps DEF Client
<1>2. CASE \E i \in Workers : Worker(i)
  <2>1. PICK i \in Workers : Worker(i)
    BY <1>2
  <2> QED BY <2>1, StartKeeps, WakeKeeps, DecideKeeps, FetchKeeps, CopyKeeps,
             CountDownKeeps DEF Worker
<1>3. CASE UNCHANGED vars
  BY <1>3 DEF vars, Inv, Types, TypeOK, Locked, Phases, Quiet, Working, Within,
     CopyComplete, InCall, Owing, Undone
<1> QED BY <1>1, <1>2, <1>3 DEF Next

\* With as many threads as the first call asks for, and calls that either are
\* not divided or give every awake worker a block, the invariant holds.
THEOREM Invariance == Steady => (Spec => []Inv)
<1>1. Init => Inv
  BY InitInv
<1>2. Steady /\ Inv /\ [Next]_vars => Inv'
  BY StepKeeps
<1>3. SUFFICES ASSUME Steady PROVE Spec => []Inv
  OBVIOUS
<1>4. Inv /\ [Next]_vars => Inv'
  BY <1>2, <1>3
<1> QED BY <1>1, <1>4, PTL DEF Spec

\* The workers' fetch_sub never takes the counter below 0: nobody counts down
\* twice for a block, or for a call that has returned.
THEOREM CounterNeverWraps == Steady => (Spec => NeverWraps)
<1>1. SUFFICES ASSUME Steady PROVE Spec => NeverWraps
  OBVIOUS
<1>2. Inv /\ [Next]_vars => [\A i \in Workers : CountDown(i) => waiting_for > 0]_vars
  BY <1>1, CountDownOwes
<1>3. Spec => []Inv
  BY <1>1, Invariance
<1> QED BY <1>2, <1>3, PTL DEF Spec, NeverWraps

\* Every variable has its type.
THEOREM TypesKept == Steady => (Spec => []TypeOK)
<1>1. Inv => TypeOK
  BY DEF Inv, Types
<1>2. SUFFICES ASSUME Steady PROVE Spec => []TypeOK
  OBVIOUS
<1>3. Spec => []Inv
  BY <1>2, Invariance
<1> QED BY <1>1, <1>3, PTL

\* When parallelMemcpy has returned, every byte has been copied: the assertion
\* of run_with_n_threads.
THEOREM CopiesComplete == Steady => (Spec => []CopyComplete)
<1>1. Inv => CopyComplete
  BY DEF Inv
<1>2. SUFFICES ASSUME Steady PROVE Spec => []CopyComplete
  OBVIOUS
<1>3. Spec => []Inv
  BY <1>2, Invariance
<1> QED BY <1>1, <1>3, PTL

\* The counter that the client trusts covers every worker that has a block to
\* copy, and does not wrap around.
THEOREM CountsCover == Steady => (Spec => []CountsOwing)
<1>1. SUFFICES ASSUME Steady PROVE Spec => []CountsOwing
  OBVIOUS
<1>2. Inv => CountsOwing
  <2>1. SUFFICES ASSUME Inv, InCall
                 PROVE  Cardinality(Owing) <= waiting_for /\ waiting_for < tasks_num(call)
    BY DEF CountsOwing, InCall
  <2>2. Handed(call) \in Nat /\ tasks_num(call) = Handed(call) + 1
    BY <1>1, <2>1, CallFacts
  <2>3. Undone \in SUBSET (0..Handed(call) - 1)
    BY DEF Undone
  <2>4. Owing \in SUBSET Undone
    <3>1. \A i \in Owing : i \in 0..Handed(call) - 1
      BY <1>1, <2>1, OwingFacts DEF InCall
    <3> QED BY <3>1 DEF Undone
  <2>5. /\ Cardinality(Owing) \in Nat /\ Cardinality(Undone) \in Nat
        /\ Cardinality(Owing) <= Cardinality(Undone)
    BY <2>2, <2>3, <2>4, Part, Small
  <2>6. /\ Cardinality(Undone) <= waiting_for /\ waiting_for <= Handed(call)
        /\ waiting_for \in Int
    BY <2>1 DEF Inv, Working, Types, TypeOK
  <2> QED BY <2>2, <2>5, <2>6
<1>3. Spec => []Inv
  BY <1>1, Invariance
<1> QED BY <1>2, <1>3, PTL

\* A worker that reads or uses a task works for the call in progress: no
\* destination is written after its caller has got it back.
THEOREM TasksFresh == Steady => (Spec => []NoStaleTask)
<1>1. SUFFICES ASSUME Steady PROVE Spec => []NoStaleTask
  OBVIOUS
<1>2. Inv => NoStaleTask
  <2>1. SUFFICES ASSUME Inv, NEW i \in Workers, worker[i] \in {"fetch", "memcpy"}
                 PROVE  /\ worker[i] = "memcpy" => mine[i].call = call
                        /\ slot[i].call = call
                        /\ InCall
    BY DEF NoStaleTask, InCall
  <2>2. i \in Owing
    BY <2>1 DEF Owing
  <2>3. client # "join"
    BY <2>1, <2>2 DEF Inv, Quiet, InCall
  <2>4. InCall /\ slot[i] = [call |-> call, bytes |-> Block(call, i)]
    BY <1>1, <2>1, <2>2, <2>3, OwingFacts
  <2>5. worker[i] = "memcpy" => mine[i] = slot[i]
    BY <2>1, <2>2, <2>4 DEF Inv, Working
  <2> QED BY <2>4, <2>5
<1>3. Spec => []Inv
  BY <1>1, Invariance
<1> QED BY <1>2, <1>3, PTL

=============================================================================
