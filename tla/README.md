# A TLA+ verification of plvm-homeworks

The repository holds the homework of a course on virtual machines: a bytecode
interpreter for the language Lama with its runtime, garbage collector and
verifier (`lama-tools`), and small C++ programs about memory, signals and
threads (`01-cache-metrics` to `10-parallel-memcpy`). This directory models the
parts of it whose correctness depends on the order of steps, and checks and
proves what makes them correct. `PROJECT.json` maps every definition to the
source lines it stands for.

## 1. Inventory

| part | state | operations | what is hard | what makes it correct |
|---|---|---|---|---|
| heap and collector, `runtime/gc.c` | `heap`, headers with a forward address and two bits, extra roots, the stack as roots | `alloc`, `gc_alloc`, `mark_phase`, `compact_phase` with three passes, `push/pop_extra_root` | the queue of `mark` lives in the forward addresses; objects slide over each other; `mremap` may move the heap half way | the collector cannot be noticed: live objects survive, garbage goes, every allocation ends |
| builtins, `runtime/runtime.c` | none of their own | `Barray`, `Bsexp`, `Bclosure`, `Bstring`, `Belem`, `Bsta`, `Lclone`, ... | values held in C variables across an allocation | as above |
| interpreter, `tools/interprete.cpp` | virtual stack, call stack | one case per opcode | operands that must stay on the stack while the collector may run; locals that are not cleared; closures found through the stack | no stale word is followed; frames stay nested |
| verifier, `tools/verify.cpp`, `functors/` | work lists, visited sets, layouts, `min_args_count` | `verify_reachable_instructions`, `verify_function`, `verify_calls` | loops, branches that meet, functions found while scanning | compiled programs pass, what passes runs safely, it ends |
| `bcstats`, `tools/bcstats.cpp` | none that outlives `main` | `mark_reachable_instructions`, `mark_jumps`, counting, grouping | reachability over loops; labels and jumps decide which neighbours are a pair | the numbers are those of what can be executed |
| reader, opcodes, loader, `bcdump` | the file | decoding, printing | nothing concurrent or stateful | – |
| values, `runtime/runtime.c` | the heap, read only | `Lcompare`, `Lhash`, `LtagHash`, patterns, integer operators | cycles, results that are one bit short, a hash that stops half way | comparison is equality and an order; hash and patterns agree with it |
| `07-non-blocking-pool` | registry of pools; per pool a pointer that goes down, a mutex | `add`, `remove`, `allocate`, the SIGSEGV handler | several threads and a signal handler on the same atomics | objects are disjoint; an exhausted pool is reported, never overrun |
| `06-mempool` | registry with a queue of free slots and a lock that is no lock | `pool_registry_add`, `pool_registry_remove`, `allocate`, `segv_handler` | faults inside the handler; an exception with the registry locked | slots are not lost; a fault ends the process as it should |
| `08-string-ptr` | text pointer with a counter in its low bits | constructors, assignments, destructor | a one-bit counter that saturates; moves between handles on the same string | handles behave as independent text variables |
| `09-safe-byte-read` | one jump buffer, signal dispositions, the signal mask | `safe_read_byte`, `safe_handler` | a handler that never returns; a mask that nobody sets | gives back dispositions and mask, returns a byte or nothing |
| `10-parallel-memcpy` | mutex, two condition variables, counters, a task slot per worker | `parallelMemcpy`, workers, destructor | calls follow each other while workers are still awake | what returns has been copied; every call returns |
| `01-cache-metrics` | timers | measurements | – | – |

The interpreter calls the builtins, they call `alloc`, and `alloc` may run the
collector, which reads the interpreter's stack. The verifier runs once, before
the interpreter. The numbered programs are independent of each other and of
Lama.

## 2. Modules

| module | models | used by |
|---|---|---|
| `LamaData` | kinds, sizes and shapes of objects, words, reachability | `LamaStore`, `LamaGC` |
| `LamaStore` | abstract: objects that never move and never die while reachable | refined by `LamaGCStore` |
| `LamaGC` | `gc.c` and the heap operations of interpreter and builtins | `LamaGCStore`, `LamaFrames`, `LamaGCInv` |
| `LamaGCInv` | the inductive invariant of the collector, phase by phase | `LamaGCProofs` |
| `LamaGCStore` | what an observer of `LamaGC` sees, its fairness, and the refinement | `MCLamaGC` |
| `LamaGCProofs` | proofs about `LamaGC`, from `LamaGCInv` | `LamaProgramProofs` |
| `LamaProgramProofs` | proofs about `LamaGCStore` and `LamaFrames` | – |
| `LamaFrames` | `interprete.cpp`: calls, closures, variables, on top of `LamaGC` | `MCLamaFrames` |
| `LamaValues` | `runtime.c`: comparison, hashing, tags, patterns, arithmetic | `MCLamaValues` |
| `Bytecode` | `opcode.h`, `stack_depth.h`, `successors.h`, the interpreter's effect on the depth; what a compiled program is | `Verify` |
| `Verify` | `verify.cpp`, then a run of `main` | `BcStats`, `VerifyProofs` |
| `BcStats` | `bcstats.cpp` | `MCVerify` |
| `PoolRegistry` | registry and handler of 07 | `MCPoolRegistry`, `PoolRegistryProofs` |
| `PoolMemory` | memory of a pool of 07 with its guard pages, and the threads that fill it | `LockFreePool` |
| `BumpPool` | abstract: every object in the data area, where no other is | refined by `LockFreePool` |
| `LockFreePool` | the lock-free allocator of 07 | `LockedPool`, `PoolProofs` |
| `LockedPool` | the locked allocator of 07, which refines the lock-free one | `PoolBenchmark`, `PoolProofs` |
| `PoolBenchmark` | `main` of 07: threads that share an allocator of either kind | `MCPoolBenchmark` |
| `Signals` | external: delivery of a fault to a process with one thread | `SafeRead` |
| `SafeRead` | 09 | `MemPool` |
| `MemPool` | 06, and a caller of 09 that has a handler of its own | `MCMemPool`, `MemPoolProofs` |
| `StringValue` | abstract: variables that hold a text | refined by `StringPtr` |
| `StringPtr` | 08 | `MCStringPtr`, `StringPtrProofs` |
| `ThreadPool` | 10 | `MCThreadPool`, `ThreadPoolProofs` |

### LamaGC, LamaGCStore and LamaStore

A word is an integer: odd words are unboxed, even words are byte addresses.
`heap` is the chunk, `mem` maps the offset of a header to the object there.
The mutator's actions are the operations of the interpreter and the builtins
that move words or touch the heap: `Const`, `Dup`, `Drop`, `Swap`, `Compute`
(binary operators), `Inspect` and `StringPatt` (tags, lengths and patterns),
`Elem`, `StA`, `Make` (arrays, s-expressions and closures), `Bstring`, `Lstring`,
`Lclone`, `Lsubstring` and `Lstrcat` (`++`). An operation that allocates
goes through `alloc` with its operands on the stack, or in extra roots, and is
finished after it; `req.reads` says how many of the extra roots it reads again.
The collector takes one step per root, queue cell, field or object, so that
the invariants see it half way. A read of a header that is not there, and a use
of a `NULL` from `alloc`, lead to `pc = "crashed"`; `mremap` may return any base
of `Bases`, and `compact_phase` may `exit(1)`.

An `Opcode_Closure` is modelled as the loads of the captured variables followed
by the making of the closure. `Lread` is a `Const`. `Lclone`, `Lsubstring` and
`++` are operations of `runtime.c` that compiled code uses; the interpreter has
no opcode for them, but they are the users of extra roots, and two roots at
once. Indexes into objects, and the position of a substring, are within bounds:
every unboxed integer is one value, so an index is chosen among the valid ones.
The build is the one the Makefile makes: 32 bits, no `DEBUG_VERSION`, no
`LAMA_ENV`.

`LamaStore` has the same operations on a graph of allocation numbers.
`LamaGCStore` adds the ghost `store`: what the concrete heap stands for whenever
`pc = "run"`, and the store from before the operation while one is under way.

### LamaValues

A store of a few objects is built and changed in every way (`Bstring`,
`Barray`, `Bclosure`, `BSexp`, `Bsta`), cycles included, and the functions of
`runtime.c` are evaluated on all its words. The widths of a word, of a character
in a tag and of a hash are constants, so that integers that are "too far apart"
exist in a small instance. `Lcompare` carries the depth that is left, and says
`Never` when a path is longer than there are pairs of objects. The reference is
`Equal`, the largest relation in which related words look alike.

### LamaFrames

Adds the array behind the stack (`slots`), in which a pop leaves its word, and
the frames. `Call`, `CallC`, `End`, loads and stores of globals, locals,
arguments and captured variables are actions; every action of `LamaGC` also
happens inside a frame, above its locals. The bytecode is assumed to be well
formed: a function does not pop what it has not pushed.

### Bytecode and Verify

`Pops`, `Pushes` and `Goes` are the interpreter, `Effect` and `Successors` the
verifier's two functors, `Compiled` what the compiler emits. An instruction takes
one address, so jumps into the middle of an instruction are not modelled. `Scan`
is the loop of `verify_reachable_instructions`, `Enter`, `Visit` and `Leave` go
through one function in one of the two passes. The specialisation of
`StackDepthFunctor` for `Fail` has other operands than the reader passes, so it
never applies. In `verify_calls` the functor that should read the callee's
address is specialised for `char *`, the reader uses the one for `const char *`:
`offset` is never written, and the model chooses between an entry of
`min_args_count` and the exception of `at` (`CallThrows`). When everything is
accepted `Execute` runs `main` as a depth and an address.

### BcStats

`reachable`, `jump`, `label`, `counted` and `idiom_groups` are the steps of
`bcstats` on a program of `Bytecode`. An idiom is a sequence of one or two
instructions; the program keeps ranges of bytes, and since no encoding is a
prefix of another one they are equal at the same time. The reference says what
the numbers mean: `IsReached` is the least set that execution does not leave, and
`Straight` are the places where the second instruction always follows the
first. The exception is in `Straight` as it is in the code: `End` and `Ret` are
no jumps for `mark_jumps`. `Sorted` makes equal idioms neighbours in some order,
which is all that the order of the bytes is good for.

### PoolRegistry, PoolMemory, LockFreePool, LockedPool and PoolBenchmark

A thread of `PoolRegistry` takes a step for each access to an atomic. It builds a
pool in a region that no mapped pool overlaps, may fault in its guard pages and
then runs the handler slot by slot, or destroys the pool (the slot first, then the
mapping). The pools are seen as one pointer that goes down; an object is handed
out (`ptr`) and then written (`owner`), and the write is where a guard page stops
the process. The locked allocator loads and stores the pointer in two steps
between `Lock` and `Unlock`, and rounds the pool to whole pages (`RoundUp`).
`PoolAllocator`, which is not synchronised, is `LockFreePool` with one thread.

### Signals, SafeRead and MemPool

`Signals` holds the dispositions and the signal mask of a process with one
thread. Neither program sets `sa_mask`, so the mask of a handler is any set of
the two signals. `SafeRead` takes one step per system call of `safe_read_byte`.
`MemPool` takes one step per turn of `pool_registry_spinlock` and per slot that
`segv_handler` looks at; following the pointer of an empty slot is a fault like
any other. In the repository the two are separate programs. They are composed
because `safe_read_byte` promises to be callable by a program that has a handler
of its own, and 06 is the program here that has one.

### StringPtr

`cstr` is what a handle points to, `rc` the counter of a `CString`. Each
constructor, assignment and destructor is one action, with the temporary of the
copy-and-swap inside it. `SAT` is `REF_COUNT_SATURATION`. `RefinesValue` has two
halves: every step is a step of `StringValue`, and it is the one that the
operation asks for (`AsAsked`): a copy shows what its source shows, a new text is
the one that was given.

### ThreadPool

`StoreAlive`, `Publish`, `OwnCopy`, `Await` and `Return` are `parallelMemcpy`
between the places where it can be interrupted; `Start`, `Wake`, `Decide`, `Fetch`,
`Copy` and `CountDown` are a worker. What a thread does while it holds the
mutex, and nobody reads without it, is one step. There are no spurious wake-ups.
A call may have size 0: then `tasks_num` is 0, `waiting_for` wraps around to
`SIZE_MOD - 1`, and the client's own block starts `block_size` bytes before the
buffers. `main` never makes such a call (lines 125 and 132) and neither do the
instances; the theorems exclude it (`Steady`).

## 3. Runs

| run | question | result |
|---|---|---|
| `gc` | does each phase of the collector find what it relies on, in every state between its steps; can an interpreted program notice the collector; does an allocation end, on cycles too? | it does; it cannot (`RefinesStore`); it does (`AllocTerminates`) |
| `frames` | are closures and frames intact whenever the collector has run? | holds |
| `frames_locals` | are all roots objects, as `gc.c:512` says? | no: locals are not cleared |
| `values` | is `Lcompare` 0 for equal values only, an order, and does it end; do hash and patterns agree with it; can tags be read back; what does arithmetic do at its ends? | holds, up to the limits the properties state |
| `threadpool` | late workers, thread numbers that do not grow: is what returns copied, do the counters agree, does every call return once all workers wait, and every worker leave that waits when it is told? | holds |
| `threadpool_growing` | the same for a number that grows, as in `main` | no: `alive_threads` is stored too early |
| `registry` | does a pool keep its slot, does the handler find it? | holds |
| `pools` | are objects disjoint, do guard pages suffice for several threads, does the locked pool implement the lock-free one and both `BumpPool`? | holds |
| `signals` | does a read ever kill the process, does the handler of the caller come back; are slots lost; how does a fault end; does anything wait for ever? | no; yes; no; as `Diagnosed` says; no |
| `stringptr` | does a handle dangle, is the counter exact, can sharing be noticed? | no, yes, no (`RefinesValue`) |
| `verify` | are compiled programs accepted, underflows of the frame caught, all reachable functions verified, does it end; does `bcstats` count what can be executed? | holds |
| `verify_underflow` | does an accepted program only take what it has pushed? | no |

The three runs that end in a violation are the findings of `PROJECT.json`. More
disagreements are visible in the properties and the model without a run of their
own:

* `verify_function` returns the `args` of a layout that its loop shadows, so
  `Returned` is 0, while the comment at `verify.cpp:26` promises the "minimal
  possible number of arguments".
* `JumpsOut` accepts the address behind the `End`, which the message at
  `verify.cpp:82` calls a "jump out of the function body".
* `Diagnosed` states when 06 reports a pool: only if every slot below its own is
  taken. Otherwise the handler follows a null pointer first.
* The spinlock of 06 never waits. With one thread that is what keeps a fault
  after the exception at line 63 from hanging in the handler (`NeverStuck`).
* A call of `parallelMemcpy` that is short for its number of threads (3000 bytes
  and 8 threads, say: three blocks of 1024) has fewer blocks than
  `alive_threads`; workers without a block of it then count down as well. That
  is why `Steady` has its second condition.
* The registry of 07 stores `begin` before `end` and never clears `end`, so
  another thread's handler may pair a new begin with an old end; what is checked
  is that the faulting thread's own pool is found.
* A string with a zero inside has a hash that depends on its length, while
  `Lcompare` stops at the zero (`NulFree` in `HashAgrees`). Integers more than
  half the range apart compare the wrong way round (`Near` in `CompareOrders`).
  Two addresses that are exactly half of all apart are equal for `Lcompare` and
  `LflatCompare`, because their difference is lost in `BOX` (`Antipodes` in
  `CompareIsEquality`, `Addresses` in `WordsSuffice`).

### Bounds and why they are enough

* `gc`: three allocations of five shapes, a stack of three words, two bases. A
  collection then meets garbage below, between and above live objects, cycles of
  one and two objects, an empty object at `heap.current`, a heap that grows in
  place, that moves, and that does neither. `MINIMUM_HEAP_CAPACITY` is the 4
  words of `gc.h`, so the second or third allocation collects. The string is one
  that needs another word when it is concatenated.
* `frames`: two objects, one global, up to one argument, three frames: a closure
  calls another while its own collection is under way. `frames_locals` uses
  objects of two sizes so that a stale address points into the middle of one.
* `values`: three objects with two fields at most, of all kinds and with strings
  of two lengths, in which `Bsta` puts zeros as well; words of 12 bits, tags of
  characters of two bits, a hash of nine; the two integers are as far apart as to
  overflow by one. Three objects make cycles of
  every length up to three, two equal cyclic values that are different objects,
  and a chain; five characters times two bits fit into the word with one bit
  over, as five times six fit into 32. `CHECK_DEADLOCK FALSE`: nothing happens
  after `failure`.
* `threadpool`: four workers and five calls whose number of threads goes
  5, 3, 2, 1, 1; the first is cut to the size of the pool, one is too short to
  be divided, and sizes are not multiples of the blocks. `SIZE_MOD` keeps the
  wrap-around of `waiting_for`. `CHECK_DEADLOCK FALSE`: a late worker leaves the
  client waiting, and a destroyed pool stops.
* `registry`: three threads on two slots, so that one waits for a slot; regions
  that touch, overlap and lie apart.
* `pools`: three threads past the end of a pool of six objects, with guard pages
  that just hold one object of each. The objects fill whole pages, so that one
  instance serves the constructor that rounds and the one that does not.
* `signals`: three pools for two slots, so that one is turned away with the
  registry locked and slots are taken again in another order; one object per
  pool; both signals and every mask.
* strings: four handles and three addresses; `SAT = 1` is the one bit of
  the code. The proofs cover wider counters.
* `verify`: all 13 718 functions with three instructions out of nineteen between
  Begin and End, and all programs of three functions from nine instructions,
  with one and with two entry points. `MaxDepth` bounds the run of a loop that
  pushes. The properties of `BcStats` are evaluated once per program.

Symmetry is used for safety only, over threads, handles, addresses and texts,
which no definition tells apart.

### Fairness

`gc`: weak fairness of the collector; the program has one thread and `alloc`
returns to nobody before it is done. `verify`: weak fairness of the
verifier, for the same reason. `signals`: weak fairness of what the only thread
has begun, not of its beginning anything. `threadpool`: weak fairness of each thread;
the mutex is free again and again and a worker takes it a bounded number of times per
notification, so a thread that is never scheduled is all that is excluded.
`AllCallsReturn` speaks of calls made when all workers wait, because a worker that
starts late misses the first notification, and then the call does not return:
`wait` has no predicate. `WorkersLeave` speaks of the workers that wait, or have
been woken, when the destructor notifies.

## 4. Proofs

All for every value of the constants that satisfies the named assumptions. The
type invariants and the inductive invariants (`Inv`, `LockInv`) of these modules
hold in the instances of section 3 as well, where they were checked before they
were proved; the configurations list only the properties that they are for.

* `StringPtrProofs`. The invariant is types, `NoDangling`, `Counted` and
  `NullSaturated`. None is inductive alone: `NoDangling` needs `Counted`
  (a counter of 0 means that the handle is the last one), `Counted` needs the
  finiteness of the set of handles and `NullSaturated` keeps `null_string` out of
  `delete`. `ImplementsValue` maps a handle to the text it shows; the lemma behind
  it is that an address that is used again has no other handle. `AllAsAsked` says
  the same of each operation by itself.
* `PoolProofs`. `first_free` is below everything handed out, and objects
  are `Size` apart, so disjointness is preserved by `fetch_sub`. For
  `GuardPagesSuffice` the invariant counts: `first_free` is at most one object per
  thread with a pending write below the data, from `PoolAssumption`
  (`Size * Cardinality(Threads) <= PageSize`; in the program 16 threads of 16 bytes against 4096).
  In the locked allocator `LockInv` says that a thread is inside `allocate` only with
  the mutex, and that what it has loaded is still `first_free` when it stores.
  Then `Store` is the `fetch_sub` of the lock-free allocator and every other
  step leaves the memory alone (`ImplementsLockFree`), so the theorems about
  the lock-free pool hold of the locked one without a second proof
  (`LockedObjectsApart`).
* `PoolRegistryProofs`. `HeldApart` (threads between their exchange and their
  remove hold different slots), `SlotsKept`, `Mapped` and `OnTrack` (a handler has
  not passed its own slot, and has loaded its own `begin` when it is there);
  `TypesKept` is a part of the same invariant.
* `ThreadPoolProofs`, under `Steady`: no call has size 0; a call is not divided or
  gives every worker below `alive_threads` a block; and no call uses more threads
  than the one before. Without the third condition `threadpool_growing` is a
  counterexample, without the other two there are those of sections 2 and 3.
  `CountsOwing` is not inductive: a worker has to be counted until its block is
  in the destination *and* it has counted down. `Undone` is the set of such
  blocks, and the invariant bounds it by `waiting_for` (`Working`); when the
  client reads 0 nothing is undone, and the blocks are all the bytes
  (`Blocks`). Between calls nobody owes anything (`Quiet`); a worker that is
  still awake has a number that is too large, and stays so because
  `alive_threads` does not grow. `Undone` may have more members than there are workers
  that owe something, because a late worker misses its notification.
  `CounterNeverWraps` follows: a worker that counts down has its own block still
  undone, so `waiting_for` is not 0 when it takes 1 off it. This is not in the
  types, because `% SIZE_MOD` keeps them after a wrap as well.
* `VerifyProofs`. `Inv` says that on a compiled program queue, begins and jumps
  stay inside functions and that the depth the verifier carries is at least the
  compiler's; the verifier forgets what `SExp`, `Barray` and calls take, so it
  errs on one side only, and the depth at which an instruction is first reached
  does not matter. `CompiledIsAccepted` follows. The second pass compares with
  results that are 0. `EveryCallVerified` holds of every file, compiled or not:
  the invariant `Coverage` has a set of addresses that the scan leaves only
  through its queue, so that what control may reach in a function (`ReachedIn`,
  the least set that control does not leave) is in it, with the targets of its
  calls. `RunKeepsFrame` follows the depth of `main`: when `main` has been
  visited there is a set of its instructions, closed under what control may do, at
  each of which the verifier has carried the depth `prog.depth` says
  (`MainVisited`); the run stays in that set with that depth.
* `MemPoolProofs`, for any slots, pools and objects. `Registry` is where slots
  are between the steps of `add` and `remove`, also after the exception that leaves
  the lock taken; `HandlerScan` that every slot the handler has passed is full;
  `Dispositions` what `safe_read_byte` has saved and has to put back at
  each of its system calls, whatever the mask of the handler is. The three
  properties are projections of this invariant; none of them is inductive alone.
* `LamaGCProofs`, with the invariant in `LamaGCInv`, for any shapes, stack size
  and addresses that `mremap` may return. Its parts follow the phases.
  * `Quiet`: outside compaction the heap is `Sound`: objects tile it in the order
    of their ids, and every word of a field, of the stack or of a root is unboxed,
    unset or the address of the contents of an object.
  * `Marking`: the queue of `mark` lives in the forward addresses, and its tail
    must not run past the heap. Every cell before the tail was taken for an object
    of its own, so cells are no more than objects seen
    (`Cardinality` in `Queue`, lemma `QueueHasRoom`): an unseen object leaves a cell.
    `Followed` says which fields and roots are done, `OnlyReached` that nothing is
    marked in vain: the marked and queued objects lie in every set that
    keeps what the roots need.
  * `Locating`: the homes given so far are packed from 0 and lie at or below
    their objects (`Packed`).
  * `Moving`: the heap during the three passes is described by the heap that it
    will be (`FutureMem`: what has arrived, and what waits at its new home with
    redirected fields). `Remap` establishes that this heap is sound, rooted
    and exact (`RehousedSound`, `RehousedRooted`, `RehousedReached`), and no step of
    `Update`, `FixRoots` and `Relocate` changes it. The step that could is the move
    of a live object: what it overwrites is neither settled nor waiting, because
    homes keep the order of the objects (`RelocateLiveInv`).

  The properties follow: `CollectorSafe` is that `crashed` is no value of `pc` in
  `Types`; `MarksExactly` and `CollectsExactly` carry reachability from offsets to
  the numbers of the abstract graph (`ReachIs`). `Inv` of `LamaGCInv` was checked on the
  instance of `gc` (839 688 states) before it was proved. The only assumptions are
  `ShapesAssumption`, `BoundsAssumption` and `BasesAssumption` (`mremap` returns
  aligned addresses other than null).

* `LamaProgramProofs`: what the program sees of it.
  * `ImplementsStore` is `RefinesStore` without fairness, step by step. The
    ghost `store` is fixed while an allocation runs, the heap is not, so the proof
    needs to know what the heap in pieces stands for. `View` says it: the
    graph that the waiting words reach, in the heap as it is while the collector
    marks and locates, in the heap that will be during the three passes.
    The waiting words are the stack and the extra roots that an operation
    has popped (`Waiting`), because it is finished with what the collector has
    made of them. `CollectorKeeps` shows that no step of the collector changes
    `View`: the marking passes touch flags only (`MarkLeaves`), `Remap` renames
    every word in step with the objects (`StoreSent`), the passes keep the heap
    that will be, and what compaction drops nothing names (`PruneRestricted`). So
    `Kept`, `store = View`, is invariant. `Asked` remembers what the
    operation has asked for, with operands described by the store alone; when
    `Place` fills the object, that is the operation of `LamaStore`
    (`PlaceStep`). Operations that do not allocate are done when they
    are called (`RunStep`). Both invariants were checked on the instance of `gc`
    before they were proved.
  * `ClosuresStayActive` is about the call stack. `ActiveClosures` is not
    inductive: it says nothing while the collector runs, and nothing of
    operands. `FramesInv` adds the invariant of the collector, `Nested` (frames
    and the operands of the operation under way lie above each other, in every
    phase) and `Called` (each closure is one now, or will be in the heap that
    compaction makes). Every step of the heap leaves the words below the floor of
    its frame in place and objects what they are (`FrameKept`); the addresses of
    closures change with the heap, and compaction finds them because they lie on
    the stack. Its hypothesis is that no function has locals
    (`LocalCounts \subseteq {0}`), as in the instance of `frames`. With
    locals the invariant of the collector is false: it says that every even word
    on the stack is the address of an object, and `frames_locals` is the
    counterexample. `FramesInv` was checked on the instance of `frames`
    (2 544 976 states) before it was proved.
  * Both rest on lemmas of `LamaGCProofs`: `FutureKept`, which each pass of
    compaction establishes of its steps, says that the heap that will be does not
    change, and `InvInitWith` that `Inv` holds of any initial stack of unset words,
    which is where the globals come from.

Reachability is a least closed set in `Reach` and `ReachedIn`, not a recursive
function, so that the prover can use it; TLC enumerates the subsets.

Model-checked only:

* all liveness, and with it the fairness of `FairSpec`: `AllocTerminates`,
  `AllCallsReturn`, `WorkersLeave`, `NeverStuck`, `VerificationEnds`;
* the properties of `LamaValues`: what `Lcompare` and `Lhash` compute is recursive
  over the heap, and induction over data cannot be used with the installed provers;
* `StatsExact` of `BcStats` for the same reason: the marking is a recursion
  over a work list.

## 5. Not modelled

* The loader, the decoding of bytes (an instruction takes one address) and the
  printer of `bcdump`: pure functions of the file.
* Printing, formatting, regular expressions, files and the other builtins that
  talk to the world outside.
* `LdA` and `StI`, whose address into the middle of a closure would need a third
  kind of word; `Ls__Infix_58`, which passes copies of its extra roots to
  a variadic `Bsexp`; strings with a zero inside, except in `LamaValues`.
* The debug builds of the collector, and its tests.
* The one word past the bottom of the stack that `scan_and_fix_region`
  looks at (`gc.c:441`); the interpreter keeps no heap address there (`FixRoots`).
* Two threads in `safe_read_byte`: jumping into another thread's frame is
  undefined.
* The signed index of a pair of `bcstats` that ends in `Stop`.
* Spurious wake-ups of the thread pool, which only add wake-ups of
  workers whose numbers are tested again, but for the needed ones, which would
  run twice: nothing useful could be stated of a pool whose `wait` has no
  predicate. The joins behind the destructor's notification.
* The length of the text buffers of 08.
* `01-cache-metrics`, which only measures time.

Memory is sequentially consistent. The relaxed accesses of 07 allow more for the
slots of other threads; `FaultIsReported` rests on the slot that the faulting
thread has written itself.

## 6. Plan

1. Done: the collector with its store and builtins, frames, values, verifier and
   `bcstats`, all of 06 to 10, and the proofs of section 4.
2. Left to model: `LdA`/`StI`, `Ls__Infix_58`, the decoding of operands,
   the lengths of the buffers of 08.
3. Left to prove: nothing of what the runs check and the provers can reach; with
   an induction principle, `CompareIsEquality` and `StatsExact` would be next.
