----------------------------- MODULE ThreadPool -----------------------------
(***************************************************************************)
(* The thread pool of 10-parallel-memcpy: a client cuts a copy into        *)
(* blocks, hands all but the last to worker threads, wakes them up, copies *)
(* the last block itself and waits until the workers have counted down.    *)
(*                                                                         *)
(* Threads step between the operations that others can observe: a wait for *)
(* the mutex, a wait on a condition variable, and the accesses that the    *)
(* code makes without the mutex (alive_threads, the task slots, destroy).  *)
(* What a thread does without giving the mutex up is one step.  Condition  *)
(* variables wake only waiters that are waiting when they are notified.    *)
(***************************************************************************)
EXTENDS Integers, Sequences, FiniteSets

CONSTANTS
  MAX_THREADS,  \* number of worker threads
  Plan,         \* the calls of parallelMemcpy: [size, threads_num], in order
  MIN_BLOCK,    \* the smallest block, 1024 in the code
  SIZE_MOD      \* 2 to the width of size_t

Workers == 0..MAX_THREADS-1
Free == -1

ASSUME PlanAssumption ==
  /\ MAX_THREADS \in Nat
  /\ MIN_BLOCK \in Nat \ {0}
  /\ SIZE_MOD \in Nat /\ SIZE_MOD > MAX_THREADS
  /\ Plan \in Seq([size: Nat, threads_num: Nat])

VARIABLES
  mutex,          \* worker_mutex: Free or the worker that holds it
  worker,         \* what each worker is doing
  mine,           \* the task a worker has read from its slot
  client,         \* what the calling thread is doing
  call,           \* number of the current or next call
  alive_threads,
  waiting_for,
  slot,           \* thread_dst, thread_src and thread_size of each worker
  dst,            \* the bytes of the current call that have been copied
  destroy

vars == <<mutex, worker, mine, client, call, alive_threads, waiting_for,
          slot, dst, destroy>>

MinOf(a, b) == IF a < b THEN a ELSE b
MaxOf(a, b) == IF a > b THEN a ELSE b

-----------------------------------------------------------------------------
(***************************************************************************)
(* How a call is cut into blocks.                                          *)
(***************************************************************************)
Alive(c) == MinOf(MAX_THREADS, Plan[c].threads_num)

block_size(c) ==
  MaxOf(MIN_BLOCK, (Plan[c].size + Alive(c)) \div (Alive(c) + 1))

tasks_num(c) == (Plan[c].size + block_size(c) - 1) \div block_size(c)

\* the bytes of block i
Block(c, i) ==
  LET first == block_size(c) * i
      len == MinOf(Plan[c].size - first, block_size(c))
  IN  first..first + len - 1

\* a task names the call that wrote it; nullptr and size 0 at first
NoTask == [call |-> 0, bytes |-> {}]

-----------------------------------------------------------------------------
\* when the constructor has started the threads
Init ==
  /\ mutex = Free
  /\ worker = [i \in Workers |-> "start"]
  /\ mine = [i \in Workers |-> NoTask]
  /\ client = "idle"
  /\ call = 1
  /\ alive_threads = 0
  /\ waiting_for = 0
  /\ slot = [i \in Workers |-> NoTask]
  /\ dst = {}
  /\ destroy = FALSE

\* worker_cv.notify_all
NotifyAll(ws) == [i \in Workers |-> IF ws[i] = "waiting" THEN "woken" ELSE ws[i]]

Goes(i, from, to) == worker[i] = from /\ worker' = [worker EXCEPT ![i] = to]

-----------------------------------------------------------------------------
(***************************************************************************)
(* The client: parallelMemcpy.                                             *)
(***************************************************************************)
\* alive_threads.store, before the mutex is taken
StoreAlive ==
  /\ client = "idle"
  /\ call <= Len(Plan)
  /\ alive_threads' = Alive(call)
  /\ dst' = {}
  /\ client' = "lock"
  /\ UNCHANGED <<mutex, worker, mine, call, waiting_for, slot, destroy>>

\* mutant: the client's own block is counted
Mutant_CountAll(c) == tasks_num(c)

\* the number of blocks that workers copy; -1 if there is nothing to copy
Handed(c) == tasks_num(c) - 1

\* under the mutex: the counter, the slots and the notification
Publish ==
  /\ client = "lock"
  /\ mutex = Free
  /\ waiting_for' = Handed(call) % SIZE_MOD
  /\ slot' = [i \in Workers |->
                IF i + 1 < tasks_num(call)
                THEN [call |-> call, bytes |-> Block(call, i)] ELSE slot[i]]
  /\ worker' = IF tasks_num(call) > 1 THEN NotifyAll(worker) ELSE worker
  /\ client' = "copy"
  /\ UNCHANGED <<mutex, mine, call, alive_threads, dst, destroy>>

\* the last block
OwnCopy ==
  /\ client = "copy"
  /\ dst' = dst \cup Block(call, tasks_num(call) - 1)
  /\ client' = "relock"
  /\ UNCHANGED <<mutex, worker, mine, call, alive_threads, waiting_for, slot, destroy>>

\* mutant: a client that was woken up does not look at the counter again
Mutant_WaitOnce ==
  client = "woken" \/ tasks_num(call) <= 1 \/ waiting_for = 0

AllDone == tasks_num(call) <= 1 \/ waiting_for = 0

Await ==
  /\ client \in {"relock", "woken"}
  /\ mutex = Free
  /\ ~AllDone
  /\ client' = "waiting"
  /\ UNCHANGED <<mutex, worker, mine, call, alive_threads, waiting_for, slot, dst, destroy>>

Return ==
  /\ client \in {"relock", "woken"}
  /\ mutex = Free
  /\ AllDone
  /\ client' = "idle"
  /\ call' = call + 1
  /\ UNCHANGED <<mutex, worker, mine, alive_threads, waiting_for, slot, dst, destroy>>

\* ~ThreadPool takes no mutex
SetDestroy ==
  /\ client = "idle"
  /\ call > Len(Plan)
  /\ destroy' = TRUE
  /\ client' = "notify"
  /\ UNCHANGED <<mutex, worker, mine, call, alive_threads, waiting_for, slot, dst>>

NotifyDestroy ==
  /\ client = "notify"
  /\ worker' = NotifyAll(worker)
  /\ client' = "join"
  /\ UNCHANGED <<mutex, mine, call, alive_threads, waiting_for, slot, dst, destroy>>

-----------------------------------------------------------------------------
(***************************************************************************)
(* The workers.                                                            *)
(***************************************************************************)
\* the lock of the thread's first lines, then wait
Start(i) ==
  /\ mutex = Free
  /\ Goes(i, "start", "waiting")
  /\ UNCHANGED <<mutex, mine, client, call, alive_threads, waiting_for, slot, dst, destroy>>

\* mutant: destroy is tested behind alive_threads
Mutant_OnlyNeeded(i) == destroy /\ i < alive_threads

Leaves(i) == destroy

\* wait returns with the mutex, and destroy is tested.  It has no predicate, so
\* a spurious wake-up would look like a notification; there are none here.
Wake(i) ==
  /\ mutex = Free
  /\ Goes(i, "woken", IF Leaves(i) THEN "exited" ELSE "tested")
  /\ mutex' = IF Leaves(i) THEN Free ELSE i
  /\ UNCHANGED <<mine, client, call, alive_threads, waiting_for, slot, dst, destroy>>

\* mutant: the guard admits one worker too many
Mutant_OneMore(i) == i > alive_threads

NotNeeded(i) == i >= alive_threads

\* alive_threads is read; the mutex is given up by wait or by unlock
Decide(i) ==
  /\ Goes(i, "tested", IF NotNeeded(i) THEN "waiting" ELSE "fetch")
  /\ mutex' = Free
  /\ UNCHANGED <<mine, client, call, alive_threads, waiting_for, slot, dst, destroy>>

\* the arguments of memcpy are read without the mutex
Fetch(i) ==
  /\ Goes(i, "fetch", "memcpy")
  /\ mine' = [mine EXCEPT ![i] = slot[i]]
  /\ UNCHANGED <<mutex, client, call, alive_threads, waiting_for, slot, dst, destroy>>

\* a copy to the destination of an earlier call leaves this one's alone
Copy(i) ==
  /\ Goes(i, "memcpy", "relock")
  /\ dst' = IF mine[i].call = call THEN dst \cup mine[i].bytes ELSE dst
  /\ mine' = [mine EXCEPT ![i] = NoTask]
  /\ UNCHANGED <<mutex, client, call, alive_threads, waiting_for, slot, destroy>>

\* mutant: receiver_cv.notify_one is forgotten
Mutant_NoNotify(c) == c

\* receiver_cv.notify_one, for a client in state c
NotifyOne(c) == IF c = "waiting" THEN "woken" ELSE c

\* the count, the notification of the client, and wait again
CountDown(i) ==
  /\ mutex = Free
  /\ Goes(i, "relock", "waiting")
  /\ waiting_for' = (waiting_for - 1) % SIZE_MOD
  /\ client' = NotifyOne(client)
  /\ UNCHANGED <<mutex, mine, call, alive_threads, slot, dst, destroy>>

-----------------------------------------------------------------------------
Client ==
  \/ StoreAlive \/ Publish \/ OwnCopy \/ Await \/ Return
  \/ SetDestroy \/ NotifyDestroy

Worker(i) ==
  \/ Start(i) \/ Wake(i) \/ Decide(i) \/ Fetch(i) \/ Copy(i) \/ CountDown(i)

Next == Client \/ \E i \in Workers : Worker(i)

Spec == Init /\ [][Next]_vars

(***************************************************************************)
(* Every thread keeps running.  Weak fairness is enough for the mutex: a   *)
(* worker takes it a bounded number of times per notification.             *)
(***************************************************************************)
Fairness == WF_vars(Client) /\ \A i \in Workers : WF_vars(Worker(i))

FairSpec == Spec /\ Fairness

-----------------------------------------------------------------------------
\* Every variable has its type.
TypeOK ==
  /\ mutex \in Workers \cup {Free}
  /\ worker \in [Workers -> {"start", "waiting", "woken", "tested", "fetch",
                             "memcpy", "relock", "exited"}]
  /\ client \in {"idle", "lock", "copy", "relock", "waiting", "woken",
                 "notify", "join"}
  /\ call \in 1..Len(Plan) + 1
  /\ alive_threads \in 0..MAX_THREADS
  /\ waiting_for \in 0..SIZE_MOD-1
  /\ \A i \in Workers : slot[i].call \in 0..Len(Plan) /\ mine[i].call \in 0..Len(Plan)
  /\ destroy \in BOOLEAN

\* The assertion of run_with_n_threads (main.cpp:126): when parallelMemcpy
\* has returned, every byte of the destination has been copied.
CopyComplete ==
  client = "idle" /\ call > 1 => dst = 0..Plan[call-1].size - 1

\* the workers that owe the current call a copy
Owing ==
  {i \in Workers :
     \/ worker[i] \in {"fetch", "memcpy", "relock"}
     \/ worker[i] \in {"woken", "tested"} /\ i < alive_threads}

\* waiting_for, which the client trusts, never falls below the number of
\* workers that have a block to copy and have not counted down, and never
\* wraps around: no worker runs twice for a call, and none runs that has no
\* block, as long as wait (main.cpp:32) does not wake up spuriously.  (The
\* counter is larger when a worker that started late has missed its
\* notification.)
CountsOwing ==
  client \in {"copy", "relock", "waiting", "woken"} =>
    Cardinality(Owing) <= waiting_for /\ waiting_for < tasks_num(call)

\* fetch_sub never takes from 0, which would leave the client waiting for a
\* counter of SIZE_MOD - 1 to come down.
NeverWraps == [][\A i \in Workers : CountDown(i) => waiting_for > 0]_vars

\* A worker that reads or uses a task is working for the call in progress: it
\* never writes to a destination that its caller has already got back, and
\* the client never rewrites a slot that a worker may be reading.
NoStaleTask ==
  \A i \in Workers :
    /\ worker[i] = "memcpy" => mine[i].call = call
    /\ worker[i] = "fetch" => slot[i].call = call
    /\ worker[i] \in {"fetch", "memcpy"} =>
         client \in {"copy", "relock", "waiting", "woken"}

\* Once all workers wait for work, every further call returns: neither the
\* client nor a worker that it needs misses the other's notification.
AllCallsReturn ==
  (client = "idle" /\ \A i \in Workers : worker[i] = "waiting") ~> (call > Len(Plan))

\* The destructor does not take the mutex, and a worker between its test of
\* destroy and its wait misses the notification.  Every other worker leaves,
\* so that the jthreads can be joined: also one that no call has needed.
WorkersLeave ==
  \A i \in Workers :
    (client = "notify" /\ worker[i] \in {"waiting", "woken"}) ~> (worker[i] = "exited")
-----------------------------------------------------------------------------
(***************************************************************************)
(* The calls for which the pool works, and the invariant behind the proof  *)
(* that it does.                                                           *)
(***************************************************************************)
\* There is something to copy; either a call is too short to be divided, or
\* every worker below alive_threads has a block; and no call has more workers
\* than the one before.
Steady ==
  /\ \A c \in 1..Len(Plan) : Plan[c].size > 0
  /\ \A c \in 1..Len(Plan) : tasks_num(c) > 1 => Handed(c) = Alive(c)
  /\ \A c \in 2..Len(Plan) : Alive(c) <= Alive(c - 1)

InCall == client \in {"copy", "relock", "waiting", "woken"}
Bytes(c) == 0..Plan[c].size - 1
Tasks == [call: 0..Len(Plan), bytes: SUBSET Int]

\* the handed blocks that have not been copied and counted down
Undone ==
  {i \in 0..Handed(call) - 1 : i \in Owing \/ ~(Block(call, i) \subseteq dst)}

Types ==
  /\ TypeOK
  /\ slot \in [Workers -> Tasks]
  /\ mine \in [Workers -> Tasks]

\* the mutex is held between the two tests of a worker
Locked == \A i \in Workers : worker[i] = "tested" <=> mutex = i

\* alive_threads belongs to the call in progress, or to the last one
Phases ==
  /\ destroy <=> client \in {"notify", "join"}
  /\ InCall \/ client = "lock" => call <= Len(Plan) /\ alive_threads = Alive(call)
  /\ client = "idle" /\ call > 1 => alive_threads = Alive(call - 1)
  /\ client \in {"idle", "lock"} /\ call = 1 =>
       \A i \in Workers : worker[i] \in {"start", "waiting"}

\* between calls nobody owes anything; the destructor wakes all up
Quiet == ~InCall => \A i \in Owing : client = "join" /\ worker[i] = "woken"

\* during a call a worker that owes a copy has the block with its number
Working ==
  InCall =>
    /\ \A i \in Owing :
         /\ i < Handed(call)
         /\ slot[i] = [call |-> call, bytes |-> Block(call, i)]
         /\ worker[i] = "memcpy" => mine[i] = slot[i]
         /\ worker[i] = "relock" => Block(call, i) \subseteq dst
    /\ Cardinality(Undone) <= waiting_for
    /\ waiting_for <= Handed(call)
    /\ client # "copy" => Block(call, tasks_num(call) - 1) \subseteq dst

Within == InCall \/ client = "lock" => dst \subseteq Bytes(call)

Inv == Types /\ Locked /\ Phases /\ Quiet /\ Working /\ Within /\ CopyComplete
=============================================================================
