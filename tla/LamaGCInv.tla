----------------------------- MODULE LamaGCInv -----------------------------
(***************************************************************************)
(* The inductive invariant of the Lama collector: what each phase has done *)
(* and what it may rely on, so that the next phase finds every header.     *)
(*                                                                         *)
(* While compact_phase moves the heap, the heap is described by what it    *)
(* will be (FutureMem): no step of update_references, of the two fixing    *)
(* loops or of physically_relocate changes that.                           *)
(***************************************************************************)
EXTENDS LamaGC

Size(o) == SizeOf(o.kind, o.len)

\* an object as alloc_array, alloc_sexp, alloc_closure or alloc_string makes it
ObjectOK(o) ==
  /\ o \in Object
  /\ o.kind = "CLOSURE" => o.len > 0
  /\ Len(o.fields) = FieldCount(o.kind, o.len)

-----------------------------------------------------------------------------
(***************************************************************************)
(* A chunk h with the objects m.                                           *)
(***************************************************************************)
\* the objects at the offsets D follow each other from lo to hi
Tiles(m, D, lo, hi) ==
  /\ lo = hi \/ lo \in D
  /\ \A a \in D : LET next == a + Size(m[a]) IN
       lo <= a /\ next <= hi /\ (next = hi \/ next \in D)
  /\ \A a, b \in D : a < b => a + Size(m[a]) <= b /\ m[a].id < m[b].id

\* the objects whose contents one of the words ws addresses
Targets(h, m, ws) == {off \in DOMAIN m : \E k \in DOMAIN ws : ws[k] = Content(h, off)}

\* a word that no operation misreads: unboxed, never set, or a reference
Word(h, m, w) == Unboxed(w) \/ w = 0 \/ \E off \in DOMAIN m : w = Content(h, off)

Sound(h, m) ==
  /\ DOMAIN m \subseteq Nat
  /\ Tiles(m, DOMAIN m, 0, h.current)
  /\ \A a \in DOMAIN m :
       /\ ObjectOK(m[a])
       /\ \A k \in DOMAIN m[a].fields : Word(h, m, m[a].fields[k])

\* the words of the stack and the extra roots; the operation that waits for the
\* object of request r reads r.reads objects again, the first of which it copies
Rooted(h, m, st, xr, r) ==
  /\ \A k \in DOMAIN st : Word(h, m, st[k])
  /\ \A k \in DOMAIN xr : xr[k] = EXTERNAL \/ Word(h, m, xr[k])
  /\ \A k \in 1..r.reads :
       /\ k \in DOMAIN xr
       /\ \E off \in DOMAIN m :
            /\ xr[k] = Content(h, off)
            /\ k = 1 => Len(m[off].fields) = FieldCount(r.kind, r.len)

MarkedIn(m) == {a \in DOMAIN m : m[a].marked}
SeenIn(m) == {a \in DOMAIN m : m[a].marked \/ m[a].enqueued}
CellsIn(m, hd, tl) == {c \in DOMAIN m : hd <= c /\ c < tl}

Unflagged(m) == \A a \in DOMAIN m : ~m[a].marked /\ ~m[a].enqueued

\* what a set must hold that keeps every object the stack and the roots need
ClosedAt(h, m, S) == \A a \in S : Targets(h, m, m[a].fields) \subseteq S
Holds(h, m, st, xr, S) ==
  /\ Targets(h, m, st) \cup Targets(h, m, xr) \subseteq S
  /\ ClosedAt(h, m, S)

\* every object in S is one that the stack or an extra root reaches
OnlyReached(h, m, st, xr, S) ==
  \A T \in SUBSET DOMAIN m : Holds(h, m, st, xr, T) => S \subseteq T

-----------------------------------------------------------------------------
(***************************************************************************)
(* The parts of the invariant.                                             *)
(***************************************************************************)
Registers(olds) ==
  [root: Nat, head: Nat, tail: Nat, cur: Nat \cup {-1}, fld: Nat,
   scan: Nat, free: Nat, old: olds]

Chunk == [begin: Bases, size: Nat, current: Nat]

Types ==
  /\ heap \in Chunk /\ heap.current <= heap.size
  /\ DOMAIN mem \subseteq Nat
  /\ \A off \in DOMAIN mem : ObjectOK(mem[off]) /\ mem[off].id < nextid
  /\ stack \in Seq(Nat) /\ Depth < VSTACK_SIZE
  /\ xroots \in Seq(Nat)
  /\ nextid \in 1..MaxId + 1
  /\ pc \in {"run", "alloc", "mark", "locate", "update", "relocate", "place", "exited"}

\* the allocation that is under way, if there is one
Requested ==
  IF pc = "run" THEN req = Idle
  ELSE /\ req \in [kind: Kinds, len: Nat, used: Nat, reads: Nat]
       /\ req.kind = "CLOSURE" => req.len > 0
       /\ nextid <= MaxId
       /\ req.used <= Depth
       /\ Depth - req.used < VSTACK_SIZE - 1
       /\ req.reads = 0 => req.used = FieldCount(req.kind, req.len)

\* outside compact_phase's moves the heap is whole
Quiet ==
  /\ pc \in {"run", "alloc", "mark", "locate", "place"} =>
       Sound(heap, mem) /\ Rooted(heap, mem, stack, xroots, req)
  /\ pc \in {"run", "alloc", "place"} => Unflagged(mem)
  /\ pc = "place" => Fits

\* what mark has found is what it has followed: the fields of the marked
\* objects, those of the current one up to fld, and the roots before `root`
Followed(h, m, roots, root, cur, fld) ==
  /\ \A k \in DOMAIN roots, off \in DOMAIN m :
       k < root /\ roots[k] = Content(h, off) => off \in SeenIn(m)
  /\ \A a \in MarkedIn(m), off \in DOMAIN m : \A k \in DOMAIN m[a].fields :
       (a = cur => k < fld) /\ m[a].fields[k] = Content(h, off) => off \in SeenIn(m)

\* the cells of the queue between its iterators, the objects that are in it,
\* and why tl stays in the heap: every cell was taken for an object of its own
Queue(h, m, hd, tl) ==
  /\ hd \in DOMAIN m \cup {h.current}
  /\ tl \in DOMAIN m \cup {h.current}
  /\ hd <= tl
  /\ \A c \in CellsIn(m, hd, tl) : \E off \in DOMAIN m : m[c].fwd = Content(h, off)
  /\ \A c, d \in CellsIn(m, hd, tl) : m[c].fwd = m[d].fwd => c = d
  /\ \A off \in DOMAIN m :
       /\ m[off].enqueued <=> \E c \in CellsIn(m, hd, tl) : m[c].fwd = Content(h, off)
       /\ ~(m[off].enqueued /\ m[off].marked)
  /\ Cardinality(CellsIn(m, 0, tl)) <= Cardinality(SeenIn(m))

Marking ==
  pc = "mark" =>
    /\ gc \in Registers({<<>>})
    /\ gc.scan = 0 /\ gc.free = 0
    /\ gc.root >= 1
    /\ gc.cur = -1 \/ (gc.cur \in MarkedIn(mem) /\ gc.fld >= 1)
    /\ Queue(heap, mem, gc.head, gc.tail)
    /\ Followed(heap, mem, Roots, gc.root, gc.cur, gc.fld)
    /\ OnlyReached(heap, mem, stack, xroots, SeenIn(mem))

\* the offset that the object at a will have; forward addresses count from the
\* start o of the chunk that is being compacted
Home(m, o, a) == (m[a].fwd - o) \div W

\* the objects at the offsets A will follow each other, up to the offset free
Packed(m, o, A, free) ==
  /\ \A a \in A : LET next == Home(m, o, a) + Size(m[a]) IN
       /\ Home(m, o, a) \in 0..a
       /\ m[a].fwd = o + W * Home(m, o, a)
       /\ next <= free
       /\ next = free \/ \E b \in A : Home(m, o, b) = next
  /\ \A a, b \in A : a < b => Home(m, o, a) + Size(m[a]) <= Home(m, o, b)

Placed(m, scan) == {a \in MarkedIn(m) : a < scan}

Locating ==
  pc = "locate" =>
    /\ gc \in Registers({<<>>})
    /\ gc.scan \in DOMAIN mem \cup {heap.current}
    /\ gc.free <= gc.scan
    /\ \A a \in DOMAIN mem : ~mem[a].enqueued
    /\ Holds(heap, mem, stack, xroots, MarkedIn(mem))
    /\ OnlyReached(heap, mem, stack, xroots, MarkedIn(mem))
    /\ Packed(mem, heap.begin, Placed(mem, gc.scan), gc.free)
    /\ gc.free = 0 \/ \E a \in Placed(mem, gc.scan) : Home(mem, heap.begin, a) = 0

-----------------------------------------------------------------------------
(***************************************************************************)
(* The heap that a collection leaves, from what it has not moved yet       *)
(* (Movers) and what it has moved (Settled): below every home that waits.  *)
(***************************************************************************)
Movers == {a \in MarkedIn(mem) : pc = "relocate" => gc.scan <= a}

NewHome(a) == Home(mem, gc.old.begin, a)

Settled ==
  {c \in DOMAIN mem : /\ pc = "relocate"
                      /\ c < gc.scan /\ c < gc.free
                      /\ \A a \in Movers : c < NewHome(a)}

\* Fix and CanFix of words of the old chunk h, which has become g
Redirect(h, m, g, w) ==
  IF ~Unboxed(w) /\ Within(h, w)
  THEN g.begin + (m[HeaderOf(h, w)].fwd - h.begin) + W * HDR
  ELSE w
Redirected(h, m, g, ws) == [k \in DOMAIN ws |-> Redirect(h, m, g, ws[k])]
Fixable(h, m, ws) ==
  \A k \in DOMAIN ws : ~Unboxed(ws[k]) /\ Within(h, ws[k]) => Names(h, m, ws[k])

FutureWords(ws) ==
  IF pc = "update" THEN Redirected(gc.old, mem, heap, ws) ELSE ws
FutureFields(a) == IF gc.scan <= a THEN FutureWords(mem[a].fields) ELSE mem[a].fields

\* object o after its move, with the fields ws
Arrived(o, ws) == [Unmark(o) EXCEPT !.fields = ws]

\* the objects of m at the offsets S, and those at A in their homes, the fields
\* of which are now as F says
Assembled(m, o, S, A, F) ==
  [x \in S \cup {Home(m, o, a) : a \in A} |->
     IF x \in S THEN m[x]
     ELSE LET a == CHOOSE b \in A : Home(m, o, b) = x IN Arrived(m[a], F[a])]

FutureHeap == [heap EXCEPT !.current = gc.free]

FutureMem ==
  Assembled(mem, gc.old.begin, Settled, Movers, [a \in Movers |-> FutureFields(a)])

FutureStack == FutureWords(stack)
FutureXroots == FutureWords(xroots)

\* update_references: the words it has not reached yet point into the old chunk
Fixing ==
  /\ Tiles(mem, DOMAIN mem, 0, heap.current)
  /\ \A a \in Movers : gc.scan <= a => Fixable(gc.old, mem, mem[a].fields)
  /\ Fixable(gc.old, mem, stack) /\ Fixable(gc.old, mem, xroots)

\* physically_relocate: the objects from scan on are untouched, and what has
\* been moved ends below them
Sliding ==
  /\ Tiles(mem, {c \in DOMAIN mem : gc.scan <= c}, gc.scan, heap.current)
  /\ \A c \in DOMAIN mem : c < gc.scan => c + ObjSize(c) <= gc.scan
  /\ gc.free <= gc.scan \/ \E a \in Movers : NewHome(a) <= gc.scan

Moving ==
  pc \in {"update", "relocate"} =>
    /\ gc \in Registers(Chunk)
    /\ gc.old.current = heap.current
    /\ gc.scan \in DOMAIN mem \cup {heap.current}
    /\ gc.free <= heap.current
    /\ gc.free + SizeOf(req.kind, req.len) <= heap.size
    /\ Packed(mem, gc.old.begin, Movers, gc.free)
    /\ FutureStack \in Seq(Nat) /\ FutureXroots \in Seq(Nat)
    /\ Sound(FutureHeap, FutureMem)
    /\ Rooted(FutureHeap, FutureMem, FutureStack, FutureXroots, req)
    /\ Unflagged(FutureMem)
    /\ OnlyReached(FutureHeap, FutureMem, FutureStack, FutureXroots, DOMAIN FutureMem)
    /\ pc = "update" => Fixing
    /\ pc = "relocate" => Sliding

Compacted ==
  pc = "place" => OnlyReached(heap, mem, stack, xroots, DOMAIN mem)

Inv ==
  /\ Types /\ Requested /\ Quiet
  /\ Marking /\ Locating /\ Moving /\ Compacted
=============================================================================
