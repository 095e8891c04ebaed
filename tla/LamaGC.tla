------------------------------- MODULE LamaGC -------------------------------
(***************************************************************************)
(* The Lama runtime's allocator and its mark-compact collector             *)
(* (runtime/gc.c), driven by the operations of tools/interprete.cpp and    *)
(* runtime/runtime.c that allocate, read or write heap objects.            *)
(*                                                                         *)
(* A machine word is an integer: an odd word is unboxed, an even word is a *)
(* byte address.  The heap is a chunk of words; mem maps the word offset   *)
(* of a header to the object that starts there.  Objects carry two header  *)
(* words, the second of which (forward_address) holds an address and two   *)
(* bits, so an object keeps fwd, marked and enqueued.  The field id is a   *)
(* ghost, as in the DEBUG_VERSION build.                                   *)
(*                                                                         *)
(* The collector is the 32-bit production build (-m32, no DEBUG_VERSION).  *)
(* It runs one step per root, queue element, field or object, so that what *)
(* it relies on half way can be stated.  An access to a header that is not *)
(* there, and a use of the NULL that alloc returns, lead to pc "crashed".  *)
(***************************************************************************)
EXTENDS LamaData, SequencesExt, FiniteSetsExt

CONSTANT
  Bases         \* byte addresses that mmap and mremap may return

VARIABLES
  heap,         \* [begin: address, size: words, current: words in use]
  mem,          \* offset of a header -> object
  stack,        \* the live part of the virtual stack, bottom first
  xroots,       \* the words held by the registered extra roots
  nextid,       \* ghost: number of the next allocation
  pc,           \* what the runtime is doing
  req,          \* the allocation that is under way
  gc            \* registers of the collector

vars == <<heap, mem, stack, xroots, nextid, pc, req, gc>>

MINIMUM_HEAP_CAPACITY == 4
EXTRA_ROOM_HEAP_COEFFICIENT == 2
INIT_HEAP_SIZE == MINIMUM_HEAP_CAPACITY

ASSUME BasesAssumption ==
  \A b \in Bases : b \in Nat /\ b % W = 0 /\ b > 2

BOXED == 1                        \* BOX(n), for every n
EXTERNAL == 2                     \* an address outside every heap
Unboxed(w) == w % 2 = 1

\* a word that the program uses as a reference; it never uses a variable it
\* has not set, which is a zero word
Boxed(w) == ~Unboxed(w) /\ w # 0

-----------------------------------------------------------------------------
(***************************************************************************)
(* Addresses and headers.                                                  *)
(***************************************************************************)
ObjSize(off) == SizeOf(mem[off].kind, mem[off].len)

Content(h, off) == h.begin + W * (off + HDR)
HeaderOf(h, w) == (w - h.begin) \div W - HDR

\* the range test of is_valid_heap_pointer, against any chunk
Within(h, w) == h.begin <= w /\ w <= h.begin + W * h.current

\* mutant: an object without contents at the end of the heap is no object
Mutant_StrictEnd(w) ==
  ~Unboxed(w) /\ heap.begin <= w /\ w < heap.begin + W * heap.current

is_valid_heap_pointer(w) == ~Unboxed(w) /\ Within(heap, w)

\* w is the address of the contents of an object that chunk h has in m
Names(h, m, w) == ~Unboxed(w) /\ Within(h, w) /\ HeaderOf(h, w) \in DOMAIN m

IsObj(h, w) == Names(h, mem, w)

-----------------------------------------------------------------------------
(***************************************************************************)
(* The abstract store that a state stands for.                             *)
(***************************************************************************)
AbsWord(h, m, w) == IF Names(h, m, w) THEN Obj(m[HeaderOf(h, w)].id) ELSE Val
AbsSeq(h, m, ws) == [k \in DOMAIN ws |-> AbsWord(h, m, ws[k])]

AbsGraph(h, m) ==
  LET at(i) == CHOOSE off \in DOMAIN m : m[off].id = i
  IN  [i \in {m[off].id : off \in DOMAIN m} |->
         LET o == m[at(i)] IN
         [kind |-> o.kind, len |-> o.len, fields |-> AbsSeq(h, m, o.fields)]]

AbsStore(h, m, st) ==
  [stack |-> AbsSeq(h, m, st), graph |-> Prune(AbsGraph(h, m), AbsSeq(h, m, st))]

\* the objects that the virtual stack and the extra roots reach
Live == Reach(AbsGraph(heap, mem), AbsSeq(heap, mem, stack \o xroots))

\* the values of req and gc while no allocation is under way
Idle == [kind |-> "NONE", len |-> 0, used |-> 0, reads |-> 0]
NoGC == [root |-> 1, head |-> 0, tail |-> 0, cur |-> -1, fld |-> 1,
         scan |-> 0, free |-> 0, old |-> <<>>]

-----------------------------------------------------------------------------
\* __init, and vstack_init with the words st on the stack
InitWith(st) ==
  /\ heap \in [begin: Bases, size: {INIT_HEAP_SIZE}, current: {0}]
  /\ mem = <<>>
  /\ stack = st
  /\ xroots = <<>>
  /\ nextid = 1
  /\ pc = "run"
  /\ req = Idle
  /\ gc = NoGC

Init == InitWith(<<>>)

Depth == Len(stack)
Top == stack[Depth]
Lower(n) == SubSeq(stack, 1, Depth - n)

Crash ==
  /\ pc' = "crashed"
  /\ UNCHANGED <<heap, mem, stack, xroots, nextid, req, gc>>

(***************************************************************************)
(* Operations that do not allocate.                                        *)
(***************************************************************************)
StackOp(st) ==
  /\ stack' = st
  /\ UNCHANGED <<heap, mem, xroots, nextid, pc, req, gc>>

\* mutant: vstack_push without its overflow check
Mutant_Unchecked(w) == StackOp(Append(stack, w))

Push(w) == Depth < VSTACK_SIZE - 1 /\ StackOp(Append(stack, w))

Const == pc = "run" /\ Push(BOXED)

Dup == pc = "run" /\ Depth > 0 /\ Push(Top)

Drop == pc = "run" /\ Depth > 0 /\ StackOp(Lower(1))

Swap ==
  /\ pc = "run"
  /\ Depth > 1
  /\ StackOp(Lower(2) \o <<Top, stack[Depth-1]>>)

\* Binop of two words, and the two patterns that only look at the bits of one:
\* no word is followed
Compute(n) ==
  /\ pc = "run"
  /\ Depth >= n
  /\ StackOp(Append(Lower(n), BOXED))

\* a word that an operation follows although no object is there
Dangling(w) == Boxed(w) /\ ~IsObj(heap, w)

\* Tag, Array, Llength and the tag patterns: a boxed operand's header is read
Inspect ==
  /\ pc = "run"
  /\ Depth > 0
  /\ IF Dangling(Top) THEN Crash ELSE StackOp(Append(Lower(1), BOXED))

\* Bstring_patt of the top word with the string below it
StringPatt ==
  /\ pc = "run"
  /\ Depth > 1
  /\ LET y == stack[Depth-1] IN
     /\ Boxed(y)
     /\ IF Dangling(y) \/ Dangling(Top) THEN Crash
        ELSE /\ mem[HeaderOf(heap, y)].kind = "STRING"
             /\ StackOp(Append(Lower(2), BOXED))

\* pops an index and an object (Belem)
Elem(k) ==
  /\ pc = "run"
  /\ Depth > 1
  /\ Unboxed(Top)
  /\ LET p == stack[Depth-1] IN
     /\ Boxed(p)
     /\ IF ~IsObj(heap, p) THEN Crash
        ELSE LET o == mem[HeaderOf(heap, p)] IN
             /\ InBounds(o, k)
             /\ StackOp(Append(Lower(2),
                               IF o.kind = "STRING" THEN BOXED ELSE o.fields[k]))

\* pops a value, an index and an object, and pushes the value (Bsta)
StA(k) ==
  /\ pc = "run"
  /\ Depth > 2
  /\ Unboxed(stack[Depth-1])
  /\ LET x == stack[Depth-2] IN
     /\ Boxed(x)
     /\ IF ~IsObj(heap, x) THEN Crash
        ELSE LET off == HeaderOf(heap, x) IN
             /\ InBounds(mem[off], k)
             /\ mem' = IF mem[off].kind = "STRING" THEN mem
                       ELSE [mem EXCEPT ![off].fields[k] = Top]
             /\ stack' = Append(Lower(3), Top)
             /\ UNCHANGED <<heap, xroots, nextid, pc, req, gc>>

-----------------------------------------------------------------------------
(***************************************************************************)
(* Operations that allocate: each prepares its request, and alloc places   *)
(* the object, on the existing heap or after a collection.                 *)
(***************************************************************************)
Request(r, st, roots) ==
  /\ pc = "run"
  /\ nextid <= MaxId
  /\ req' = r
  /\ stack' = st
  /\ xroots' = roots
  /\ pc' = "alloc"
  /\ UNCHANGED <<heap, mem, nextid, gc>>

\* Barray, BSexp, Bclosure: the fields are popped after the allocation.
Make(kind, len) ==
  /\ kind # "STRING"
  /\ FieldCount(kind, len) <= Depth
  /\ Depth - FieldCount(kind, len) < VSTACK_SIZE - 1
  /\ Request([kind |-> kind, len |-> len,
              used |-> FieldCount(kind, len), reads |-> 0], stack, <<>>)

\* Bstring of a literal: its address in the bytefile is an extra root.
Bstring(len) ==
  /\ Depth < VSTACK_SIZE - 1
  /\ Request([kind |-> "STRING", len |-> len, used |-> 0, reads |-> 0],
             stack, <<EXTERNAL>>)

\* Lstring pops its argument; Bstring then copies the string buffer.
Lstring(len) ==
  /\ Depth > 0
  /\ Request([kind |-> "STRING", len |-> len, used |-> 0, reads |-> 0],
             Lower(1), <<Top, EXTERNAL>>)

\* Lclone of a popped argument, which is read again after the allocation;
\* for a string Bstring registers the same address once more.
Lclone ==
  /\ Depth > 0
  /\ Boxed(Top)
  /\ pc = "run"
  /\ IF ~IsObj(heap, Top) THEN Crash
     ELSE LET o == mem[HeaderOf(heap, Top)] IN
          Request([kind |-> o.kind, len |-> o.len, used |-> 0, reads |-> 1],
                  Lower(1), IF o.kind = "STRING" THEN <<Top, Top>> ELSE <<Top>>)

\* a boxed operand whose header says that it is a string
IsString(w) == IsObj(heap, w) /\ mem[HeaderOf(heap, w)].kind = "STRING"
LenOf(w) == mem[HeaderOf(heap, w)].len

\* Lsubstring: the subject is read again after the allocation.  The position
\* and the length are immediate: nothing but their bound matters here.
Lsubstring(len) ==
  /\ pc = "run"
  /\ Depth > 0
  /\ IF Dangling(Top) THEN Crash
     ELSE /\ IsString(Top)
          /\ len <= LenOf(Top)
          /\ Request([kind |-> "STRING", len |-> len, used |-> 0, reads |-> 1],
                     Lower(1), <<Top>>)

\* ++ (Li__Infix_4343): both strings are read again after the allocation
Lstrcat ==
  /\ pc = "run"
  /\ Depth > 1
  /\ LET a == stack[Depth-1]
         b == Top
     IN  IF Dangling(a) \/ Dangling(b) THEN Crash
         ELSE /\ IsString(a) /\ IsString(b)
              /\ Request([kind |-> "STRING", len |-> LenOf(a) + LenOf(b),
                          used |-> 0, reads |-> 2], Lower(2), <<a, b>>)

(***************************************************************************)
(* gc_alloc_on_existing_heap, and what the requesting operation does with  *)
(* the object: fill it, pop its operands, unregister its roots, push it.   *)
(***************************************************************************)
Fits == heap.current + SizeOf(req.kind, req.len) <= heap.size

Contents ==
  IF req.reads > 0 THEN mem[HeaderOf(heap, xroots[1])].fields
               ELSE SubSeq(stack, Depth - req.used + 1, Depth)

Place ==
  LET off == heap.current
      o == [kind |-> req.kind, len |-> req.len, id |-> nextid,
            fields |-> Contents, fwd |-> 0, marked |-> FALSE, enqueued |-> FALSE]
  IN  IF \E k \in 1..req.reads : ~IsObj(heap, xroots[k]) THEN Crash
      ELSE /\ mem' = [i \in DOMAIN mem \cup {off} |-> IF i = off THEN o ELSE mem[i]]
           /\ heap' = [heap EXCEPT !.current = @ + SizeOf(req.kind, req.len)]
           /\ stack' = Append(Lower(req.used), Content(heap, off))
           /\ xroots' = <<>>
           /\ nextid' = nextid + 1
           /\ pc' = "run"
           /\ req' = Idle
           /\ gc' = NoGC

AllocOnExistingHeap == pc = "alloc" /\ Fits /\ Place

StartGC ==
  /\ pc = "alloc"
  /\ ~Fits
  /\ pc' = "mark"
  /\ gc' = NoGC
  /\ UNCHANGED <<heap, mem, stack, xroots, nextid, req>>

\* gc_alloc ends with a second attempt, whose NULL nobody tests
AllocAfterGC == pc = "place" /\ IF Fits THEN Place ELSE Crash

-----------------------------------------------------------------------------
(***************************************************************************)
(* mark_phase: the stack from its top, then the extra roots.  The queue of *)
(* the breadth-first search lives in the forward addresses of the objects  *)
(* between two heap iterators, head and tail.                              *)
(***************************************************************************)
Roots == Reverse(stack) \o xroots

\* queue_enqueue at the tail t; g holds the other registers of the collector
Enqueue(t, w, g) ==
  IF t \notin DOMAIN mem THEN Crash
  ELSE /\ mem' = [mem EXCEPT ![t].fwd = w, ![HeaderOf(heap, w)].enqueued = TRUE]
       /\ gc' = [g EXCEPT !.tail = t + ObjSize(t)]
       /\ UNCHANGED <<heap, stack, xroots, nextid, pc, req>>

GCStep(g) ==
  /\ gc' = g
  /\ UNCHANGED <<heap, mem, stack, xroots, nextid, pc, req>>

\* mutant: queue_dequeue that leaves its iterator where it is
Mutant_SameHead == gc.head

\* queue_dequeue moves on to the next cell
NextHead == gc.head + ObjSize(gc.head)

\* mutant: an object that has been marked is enqueued again
Mutant_EnqueuedOnly(off) == mem[off].enqueued

\* mark does not follow a field to this object
Seen(off) == mem[off].marked \/ mem[off].enqueued

QueueEmpty == gc.head = gc.tail /\ gc.cur = -1

\* mark(root), up to the first queue_enqueue
MarkRoot ==
  /\ pc = "mark"
  /\ QueueEmpty
  /\ gc.root <= Len(Roots)
  /\ LET w == Roots[gc.root]
         g == [gc EXCEPT !.root = @ + 1, !.head = 0, !.tail = 0]
     IN  IF ~is_valid_heap_pointer(w) THEN GCStep(g)
         ELSE IF ~IsObj(heap, w) THEN Crash
         ELSE IF mem[HeaderOf(heap, w)].marked THEN GCStep(g)
         ELSE Enqueue(0, w, g)

\* queue_dequeue, mark_object
Dequeue ==
  /\ pc = "mark"
  /\ gc.cur = -1
  /\ gc.head # gc.tail
  /\ IF gc.head \notin DOMAIN mem \/ ~IsObj(heap, mem[gc.head].fwd) THEN Crash
     ELSE LET off == HeaderOf(heap, mem[gc.head].fwd) IN
          /\ mem' = [mem EXCEPT ![off].enqueued = FALSE, ![off].marked = TRUE]
          /\ gc' = [gc EXCEPT !.head = NextHead, !.cur = off, !.fld = 1]
          /\ UNCHANGED <<heap, stack, xroots, nextid, pc, req>>

\* one turn of the field loop of mark
ScanField ==
  /\ pc = "mark"
  /\ gc.cur # -1
  /\ IF gc.fld > Len(mem[gc.cur].fields) THEN GCStep([gc EXCEPT !.cur = -1])
     ELSE LET w == mem[gc.cur].fields[gc.fld]
              g == [gc EXCEPT !.fld = @ + 1]
          IN  IF ~is_valid_heap_pointer(w) THEN GCStep(g)
              ELSE IF ~IsObj(heap, w) THEN Crash
              ELSE IF Seen(HeaderOf(heap, w)) THEN GCStep(g)
              ELSE Enqueue(gc.tail, w, g)

EndMark ==
  /\ pc = "mark"
  /\ QueueEmpty
  /\ gc.root > Len(Roots)
  /\ pc' = "locate"
  /\ UNCHANGED <<heap, mem, stack, xroots, nextid, req, gc>>

-----------------------------------------------------------------------------
(***************************************************************************)
(* compact_phase.                                                          *)
(***************************************************************************)
\* mutant: a forward address that points to the contents, not the header
Mutant_ContentAddress == Content(heap, gc.free)

\* the forward address of the next live object: that of its header
ForwardAddress == heap.begin + W * gc.free

\* compute_locations: the next object of the heap gets its new address
Locate ==
  /\ pc = "locate"
  /\ gc.scan < heap.current
  /\ IF gc.scan \notin DOMAIN mem THEN Crash
     ELSE LET live == mem[gc.scan].marked
              sz == ObjSize(gc.scan)
          IN  /\ mem' = IF live THEN [mem EXCEPT ![gc.scan].fwd = ForwardAddress] ELSE mem
              /\ gc' = [gc EXCEPT !.scan = @ + sz, !.free = IF live THEN @ + sz ELSE @]
              /\ UNCHANGED <<heap, stack, xroots, nextid, pc, req>>

\* mutant: the new heap has no room for the object that is waited for
Mutant_NoAdditionalSize ==
  Max({gc.free * EXTRA_ROOM_HEAP_COEFFICIENT, MINIMUM_HEAP_CAPACITY, heap.size})

\* the size that compact_phase asks mremap for
NextHeapSize ==
  Max({gc.free * EXTRA_ROOM_HEAP_COEFFICIENT + SizeOf(req.kind, req.len),
       MINIMUM_HEAP_CAPACITY, heap.size})

\* mremap leaves a chunk whose size does not change where it is
Remap ==
  /\ pc = "locate"
  /\ gc.scan >= heap.current
  /\ \E b \in IF NextHeapSize = heap.size THEN {heap.begin} ELSE Bases :
        heap' = [heap EXCEPT !.begin = b, !.size = NextHeapSize]
  /\ gc' = [gc EXCEPT !.old = heap, !.scan = 0]
  /\ pc' = "update"
  /\ UNCHANGED <<mem, stack, xroots, nextid, req>>

RemapFails ==
  /\ pc = "locate"
  /\ gc.scan >= heap.current
  /\ NextHeapSize # heap.size
  /\ pc' = "exited"
  /\ UNCHANGED <<heap, mem, stack, xroots, nextid, req, gc>>

\* mutant: the new address is one in the old chunk
Mutant_OldChunk(w) == mem[HeaderOf(gc.old, w)].fwd + W * HDR

\* a word that pointed into the old chunk, and what it is replaced by
Stale(w) == ~Unboxed(w) /\ Within(gc.old, w)

Forward(w) ==
  heap.begin + (mem[HeaderOf(gc.old, w)].fwd - gc.old.begin) + W * HDR
Fix(w) == IF Stale(w) THEN Forward(w) ELSE w
CanFix(ws) == \A k \in DOMAIN ws : Stale(ws[k]) => IsObj(gc.old, ws[k])

\* update_references, one marked object of the heap
Update ==
  /\ pc = "update"
  /\ gc.scan < heap.current
  /\ IF gc.scan \notin DOMAIN mem \/ (mem[gc.scan].marked /\ ~CanFix(mem[gc.scan].fields))
     THEN Crash
     ELSE /\ mem' = IF mem[gc.scan].marked
                    THEN [mem EXCEPT ![gc.scan].fields = [k \in DOMAIN @ |-> Fix(@[k])]]
                    ELSE mem
          /\ gc' = [gc EXCEPT !.scan = @ + ObjSize(gc.scan)]
          /\ UNCHANGED <<heap, stack, xroots, nextid, pc, req>>

\* scan_and_fix_region over the stack, then scan_and_fix_region_roots.  The
\* region goes one word past the bottom of the stack (gc.c:441), where the
\* interpreter keeps no address of the heap; such a word stays as it is.
FixRoots ==
  /\ pc = "update"
  /\ gc.scan >= heap.current
  /\ IF ~CanFix(stack) \/ ~CanFix(xroots) THEN Crash
     ELSE /\ stack' = [k \in DOMAIN stack |-> Fix(stack[k])]
          /\ xroots' = [k \in DOMAIN xroots |-> Fix(xroots[k])]
          /\ pc' = "relocate"
          /\ gc' = [gc EXCEPT !.scan = 0]
          /\ UNCHANGED <<heap, mem, nextid, req>>

\* mutant: a moved object stays marked
Mutant_StillMarked(o) == o

Unmark(o) == [o EXCEPT !.marked = FALSE]

\* memmove of the object at `from` to `to`: what it overwrites is lost
Moved(from, to) ==
  LET sz == ObjSize(from)
      hit == {i \in DOMAIN mem : i < to + sz /\ to < i + ObjSize(i)}
  IN  [i \in (DOMAIN mem \ hit) \cup {to} |->
         IF i = to THEN Unmark(mem[from]) ELSE mem[i]]

\* physically_relocate, one object; its successor is found before the move
Relocate ==
  /\ pc = "relocate"
  /\ gc.scan < heap.current
  /\ IF gc.scan \notin DOMAIN mem THEN Crash
     ELSE /\ mem' = IF mem[gc.scan].marked
                    THEN Moved(gc.scan, (mem[gc.scan].fwd - gc.old.begin) \div W)
                    ELSE mem
          /\ gc' = [gc EXCEPT !.scan = @ + ObjSize(gc.scan)]
          /\ UNCHANGED <<heap, stack, xroots, nextid, pc, req>>

\* mutant: heap.current is not set back
Mutant_SameCurrent == heap.current

\* where allocation goes on after the collection
NewCurrent == gc.free

EndCompact ==
  /\ pc = "relocate"
  /\ gc.scan >= heap.current
  /\ heap' = [heap EXCEPT !.current = NewCurrent]
  /\ mem' = [i \in {j \in DOMAIN mem : j < NewCurrent} |-> mem[i]]
  /\ pc' = "place"
  /\ UNCHANGED <<stack, xroots, nextid, req, gc>>

-----------------------------------------------------------------------------
Mutator ==
  \/ Const \/ Dup \/ Drop \/ Swap
  \/ \E n \in 1..2 : Compute(n)
  \/ Inspect \/ StringPatt
  \/ \E k \in 1..MaxLen : Elem(k) \/ StA(k)
  \/ \E s \in Shapes : Make(s[1], s[2])
  \/ \E s \in Shapes :
       s[1] = "STRING" /\ (Bstring(s[2]) \/ Lstring(s[2]) \/ Lsubstring(s[2]))
  \/ Lclone \/ Lstrcat

Collector ==
  \/ AllocOnExistingHeap \/ StartGC \/ AllocAfterGC
  \/ MarkRoot \/ Dequeue \/ ScanField \/ EndMark
  \/ Locate \/ Remap \/ RemapFails
  \/ Update \/ FixRoots \/ Relocate \/ EndCompact

\* the program has stopped: exit(1) in compact_phase, or a crash
Stopped == pc \in {"exited", "crashed"} /\ UNCHANGED vars

Next == Mutator \/ Collector \/ Stopped

Spec == Init /\ [][Next]_vars

-----------------------------------------------------------------------------
(***************************************************************************)
(* Properties.                                                             *)
(***************************************************************************)
Object == [kind: Kinds, len: Nat, id: 1..MaxId, fields: Seq(Nat),
           fwd: Nat, marked: BOOLEAN, enqueued: BOOLEAN]

\* Every variable has its type.
TypeOK ==
  /\ heap \in [begin: Bases, size: Nat, current: Nat]
  /\ DOMAIN mem \subseteq Nat
  /\ \A off \in DOMAIN mem : mem[off] \in Object
  /\ stack \in Seq(Nat) /\ Depth < VSTACK_SIZE
  /\ xroots \in Seq(Nat)
  /\ nextid \in 1..MaxId + 1
  /\ pc \in {"run", "alloc", "mark", "locate", "update", "relocate", "place",
             "exited", "crashed"}

\* The collector never reads a header that is not there, alloc_* never uses
\* the NULL that a second failed attempt returns, and no operation of the
\* interpreter dereferences a word that a collection left dangling.
NeverCrashes == pc # "crashed"

\* offsets of the queue's cells, head to tail, and what is in the queue
Cells == {off \in DOMAIN mem : gc.head <= off /\ off < gc.tail}
Queued == {mem[off].fwd : off \in Cells}

\* The comment in mark (gc.c:512): the queue contains only contents of
\* unmarked objects, each of them once, and exactly those are flagged.
QueueInvariant ==
  pc = "mark" =>
    /\ \A c \in Cells : IsObj(heap, mem[c].fwd)
    /\ \A c, d \in Cells : mem[c].fwd = mem[d].fwd => c = d
    /\ \A off \in DOMAIN mem :
         /\ mem[off].enqueued <=> Content(heap, off) \in Queued
         /\ ~(mem[off].enqueued /\ mem[off].marked)

\* When marking is over, the marked objects are those that the virtual stack
\* and the extra roots reach: no garbage is kept and no live object is lost.
MarkExact ==
  pc = "locate" =>
    {mem[off].id : off \in {i \in DOMAIN mem : mem[i].marked}}
      = Live

\* Between collections the objects tile the heap up to `current`, in the
\* order of their allocation, with both bits clear: every heap iterator that
\* starts at heap.begin walks from header to header and stops at current.
HeapTiled ==
  pc \in {"run", "alloc", "place"} =>
    /\ \A off \in DOMAIN mem : ~mem[off].marked /\ ~mem[off].enqueued
    /\ heap.current = 0 \/ 0 \in DOMAIN mem
    /\ heap.current <= heap.size
    /\ \A off \in DOMAIN mem :
         LET next == off + ObjSize(off) IN
         /\ next = heap.current \/ next \in DOMAIN mem
         /\ next \in DOMAIN mem => mem[off].id < mem[next].id

\* An object that physically_relocate has not reached yet is intact: what was
\* moved before it ends at or below its header.
SlideSafe ==
  pc = "relocate" =>
    LET todo == {off \in DOMAIN mem : gc.scan <= off /\ mem[off].marked} IN
    /\ gc.scan < heap.current => gc.scan \in DOMAIN mem
    /\ \A off \in todo : mem[off].fwd - gc.old.begin <= W * off
    /\ \A off \in todo, c \in DOMAIN mem : c < gc.scan => c + ObjSize(c) <= off

\* A collection frees what is not reachable: after it the heap holds the
\* objects that the stack or an extra root reaches, and nothing else.
OnlyLiveRemains ==
  pc = "place" =>
    {mem[off].id : off \in DOMAIN mem} = Live

\* An allocation ends: mark, which follows cycles, and the loops over the
\* heap terminate, and the operation gets its object or the program exits.
AllocTerminates == (pc = "alloc") ~> (pc \in {"run", "exited"})
=============================================================================
