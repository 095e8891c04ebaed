---------------------------- MODULE LamaGCProofs ----------------------------
(***************************************************************************)
(* The Lama collector keeps the heap: theorems about LamaGC.               *)
(*                                                                         *)
(* The argument is the invariant of LamaGCInv.  mark keeps its queue       *)
(* inside the heap because every cell was taken for another object;        *)
(* compute_locations gives the marked objects homes that follow each other *)
(* and lie at or below where the objects are; and the heap that these      *)
(* homes describe is the same after every step that moves it.              *)
(***************************************************************************)
EXTENDS LamaGCInv, FiniteSetTheorems, TLAPS

-----------------------------------------------------------------------------
(***************************************************************************)
(* Objects and addresses.                                                  *)
(***************************************************************************)

\* SizeOf and FieldCount of what a program may allocate: two words at least.
LEMMA SizeType ==
  ASSUME NEW kind \in Kinds, NEW len \in Nat, kind = "CLOSURE" => len > 0
  PROVE  /\ SizeOf(kind, len) \in Nat /\ SizeOf(kind, len) >= 2
         /\ FieldCount(kind, len) \in Nat
  BY DEF Kinds, SizeOf, FieldCount, HDR, W

\* The fields of an object, its id and its size have their types.
LEMMA ObjectType ==
  ASSUME NEW o, ObjectOK(o)
  PROVE  /\ Size(o) \in Nat /\ Size(o) >= 2
         /\ o.kind \in Kinds /\ o.len \in Nat
         /\ o.fields \in Seq(Nat) /\ o.id \in Nat /\ o.fwd \in Nat
         /\ o.marked \in BOOLEAN /\ o.enqueued \in BOOLEAN
         /\ Len(o.fields) = FieldCount(o.kind, o.len)
  BY SizeType DEF ObjectOK, Object, Size

\* An address of contents is an even word, and it determines the header.
LEMMA Address ==
  ASSUME NEW h \in Chunk, NEW off \in Nat
  PROVE  /\ Content(h, off) \in Nat
         /\ ~Unboxed(Content(h, off))
         /\ Content(h, off) # 0 /\ Content(h, off) # EXTERNAL
         /\ h.begin <= Content(h, off)
         /\ HeaderOf(h, Content(h, off)) = off
<1>1. h.begin \in Nat /\ h.begin % 4 = 0 /\ h.begin > 2
  BY BasesAssumption DEF Chunk, W
<1>2. Content(h, off) = h.begin + 4 * (off + 2)
  BY DEF Content, W, HDR
<1>3. (h.begin + 4 * (off + 2) - h.begin) \div 4 - 2 = off
  BY <1>1
<1>4. (h.begin + 4 * (off + 2)) % 2 = 0
  BY <1>1
<1>5. HeaderOf(h, Content(h, off)) = off
  BY <1>1, <1>2, <1>3 DEF HeaderOf, W, HDR
<1>6. Content(h, off) \in Nat /\ h.begin <= Content(h, off) /\ Content(h, off) > 2
  BY <1>1, <1>2
<1>7. ~Unboxed(Content(h, off))
  BY <1>2, <1>4 DEF Unboxed
<1> QED
  BY <1>5, <1>6, <1>7 DEF EXTERNAL

\* Two headers of a chunk have different contents.
LEMMA SameContent ==
  ASSUME NEW h \in Chunk, NEW a \in Nat, NEW b \in Nat, Content(h, a) = Content(h, b)
  PROVE  a = b
  BY Address

\* The contents of an object of a tiled chunk lie within it.
LEMMA NamesObject ==
  ASSUME NEW h \in Chunk, NEW m, DOMAIN m \subseteq Nat,
         Tiles(m, DOMAIN m, 0, h.current),
         NEW off \in DOMAIN m, ObjectOK(m[off])
  PROVE  Names(h, m, Content(h, off)) /\ HeaderOf(h, Content(h, off)) = off
<1>1. off + Size(m[off]) <= h.current /\ Size(m[off]) \in Nat /\ Size(m[off]) >= 2
  BY ObjectType DEF Tiles
<1>2. h.begin \in Nat /\ h.current \in Nat
  BY BasesAssumption DEF Chunk
<1>3. Content(h, off) <= h.begin + W * h.current
  BY <1>1, <1>2 DEF Content, W, HDR
<1> QED
  BY <1>3, Address DEF Names, Within

\* Of the words that are kept, those that pass the range test are contents of
\* objects: no even word of the program lies in the heap by chance.
LEMMA WordIs ==
  ASSUME NEW h \in Chunk, NEW m, Sound(h, m), NEW w \in Nat,
         w = EXTERNAL \/ Word(h, m, w)
  PROVE  /\ ~Unboxed(w) /\ Within(h, w) =>
              \E off \in DOMAIN m : w = Content(h, off) /\ HeaderOf(h, w) = off
         /\ Names(h, m, w) <=> \E off \in DOMAIN m : w = Content(h, off)
         /\ Names(h, m, w) <=> ~Unboxed(w) /\ Within(h, w)
<1>1. h.begin \in Nat /\ h.begin > 2
  BY BasesAssumption DEF Chunk
<1>2. \A off \in DOMAIN m : Names(h, m, Content(h, off)) /\ HeaderOf(h, Content(h, off)) = off
  BY NamesObject DEF Sound
<1>3. w = 0 \/ w = EXTERNAL => ~Within(h, w)
  BY <1>1 DEF Within, EXTERNAL
<1>4. ~Unboxed(w) /\ Within(h, w) =>
        \E off \in DOMAIN m : w = Content(h, off) /\ HeaderOf(h, w) = off
  BY <1>2, <1>3 DEF Word
<1>5. Names(h, m, w) => ~Unboxed(w) /\ Within(h, w)
  BY DEF Names
<1> QED
  BY <1>2, <1>4, <1>5

-----------------------------------------------------------------------------
(***************************************************************************)
(* The operations of the program.                                          *)
(***************************************************************************)

\* The invariant holds of an empty heap, whatever words the stack begins with.
LEMMA InvInitWith ==
  ASSUME NEW st \in Seq(Nat), Len(st) < VSTACK_SIZE, InitWith(st),
         \A k \in DOMAIN st : Word(heap, mem, st[k])
  PROVE  Inv
<1> USE DEF InitWith
<1>1. DOMAIN mem = {} /\ DOMAIN xroots = {} /\ stack = st
  OBVIOUS
<1>2. heap \in Chunk /\ heap.current = 0
  BY DEF Chunk, INIT_HEAP_SIZE, MINIMUM_HEAP_CAPACITY
<1>3. Types
  BY <1>1, <1>2, BoundsAssumption DEF Types, Depth, INIT_HEAP_SIZE, MINIMUM_HEAP_CAPACITY
<1>4. Requested
  BY DEF Requested
<1>5. Sound(heap, mem) /\ Unflagged(mem)
  BY <1>1, <1>2 DEF Sound, Tiles, Unflagged
<1>6. Rooted(heap, mem, stack, xroots, req)
  BY <1>1 DEF Rooted, Idle
<1>7. Quiet
  BY <1>5, <1>6 DEF Quiet
<1> QED
  BY <1>3, <1>4, <1>7 DEF Inv, Marking, Locating, Moving, Compacted

\* So it does when the program starts.
LEMMA InvInit == Init => Inv
<1>1. <<>> \in Seq(Nat) /\ Len(<<>>) = 0 /\ DOMAIN <<>> = {}
  OBVIOUS
<1>2. 0 < VSTACK_SIZE
  BY BoundsAssumption
<1> QED
  BY <1>1, <1>2, InvInitWith DEF Init

\* What Inv says while the program runs.
LEMMA Running ==
  ASSUME Inv, pc = "run"
  PROVE  /\ heap \in Chunk /\ Sound(heap, mem) /\ Unflagged(mem)
         /\ \A k \in DOMAIN stack : stack[k] \in Nat /\ Word(heap, mem, stack[k])
         /\ stack \in Seq(Nat) /\ Depth \in Nat
         /\ req = Idle
<1>1. Types /\ Requested /\ Quiet
  BY DEF Inv
<1>2. stack \in Seq(Nat) /\ Depth \in Nat
  BY <1>1 DEF Types, Depth
<1> QED
  BY <1>1, <1>2 DEF Types, Requested, Quiet, Rooted

\* An operation that only changes the stack leaves words that were there.
LEMMA StackOpInv ==
  ASSUME Inv, pc = "run", NEW st \in Seq(Nat), Len(st) < VSTACK_SIZE, StackOp(st),
         \A k \in DOMAIN st : Word(heap, mem, st[k])
  PROVE  Inv'
<1> USE DEF StackOp
<1>1. Types /\ Requested /\ Quiet /\ req = Idle
  BY Running DEF Inv
<1>2. Types'
  BY <1>1 DEF Types, Depth
<1>3. Requested'
  BY <1>1 DEF Requested
<1>4. Sound(heap, mem)' /\ Unflagged(mem)'
  BY <1>1 DEF Quiet, Sound, Unflagged
<1>5. Rooted(heap, mem, stack, xroots, req)'
  <2>1. \A k \in DOMAIN xroots : xroots[k] = EXTERNAL \/ Word(heap, mem, xroots[k])
    BY <1>1 DEF Quiet, Rooted
  <2>2. \A k \in 1..req.reads : FALSE
    BY <1>1 DEF Idle
  <2> QED
    BY <2>1, <2>2 DEF Rooted, Word
<1>6. Quiet'
  BY <1>4, <1>5 DEF Quiet
<1> QED
  BY <1>2, <1>3, <1>6 DEF Inv, Marking, Locating, Moving, Compacted

\* The words of a sequence to which one is appended.
LEMMA Appended ==
  ASSUME NEW s \in Seq(Nat), NEW w \in Nat
  PROVE  /\ Append(s, w) \in Seq(Nat) /\ Len(Append(s, w)) = Len(s) + 1
         /\ DOMAIN Append(s, w) = 1..Len(s) + 1
         /\ \A k \in 1..Len(s) : Append(s, w)[k] = s[k]
         /\ Append(s, w)[Len(s) + 1] = w
  OBVIOUS

\* The stack without its upper words.
LEMMA LowerType ==
  ASSUME stack \in Seq(Nat), NEW n \in Nat, n <= Depth
  PROVE  /\ Lower(n) \in Seq(Nat) /\ Len(Lower(n)) = Depth - n
         /\ \A k \in 1..Depth - n : k \in DOMAIN stack /\ Lower(n)[k] = stack[k]
  BY DEF Lower, Depth

\* A pushed word was somewhere before, or is new and unboxed.
LEMMA PushInv ==
  ASSUME Inv, pc = "run", NEW n \in Nat, n <= Depth, NEW w \in Nat,
         Word(heap, mem, w), Depth - n < VSTACK_SIZE - 1,
         StackOp(Append(Lower(n), w))
  PROVE  Inv'
<1>1. stack \in Seq(Nat) /\ Depth \in Nat
      /\ \A k \in DOMAIN stack : Word(heap, mem, stack[k])
  BY Running
<1> DEFINE st == Append(Lower(n), w)
<1>2. Lower(n) \in Seq(Nat) /\ Len(Lower(n)) = Depth - n
      /\ \A k \in 1..Depth - n : k \in DOMAIN stack /\ Lower(n)[k] = stack[k]
  BY <1>1, LowerType
<1>3. /\ st \in Seq(Nat) /\ Len(st) = Depth - n + 1
      /\ DOMAIN st = 1..Depth - n + 1
      /\ \A k \in 1..Depth - n : st[k] = stack[k]
      /\ st[Depth - n + 1] = w
  <2>1. PICK low \in Seq(Nat) : low = Lower(n)
    BY <1>2
  <2> QED
    BY <1>2, <2>1, Appended
<1> HIDE DEF st
<1>4. ASSUME NEW k \in DOMAIN st
      PROVE  Word(heap, mem, st[k])
  <2>1. CASE k = Depth - n + 1
    <3>1. st[k] = w
      BY <1>3, <2>1
    <3> QED
      BY <3>1
  <2>2. CASE k # Depth - n + 1
    <3>1. Depth - n \in Nat
      BY <1>1
    <3>2. k \in 1..Depth - n
      BY <1>3, <2>2, <3>1
    <3>3. k \in DOMAIN stack
      BY <1>2, <3>2
    <3>4. st[k] = stack[k]
      BY <1>3, <3>2
    <3> QED
      BY <1>1, <3>3, <3>4
  <2> QED
    BY <2>1, <2>2
<1>5. Len(st) < VSTACK_SIZE
  BY <1>1, <1>3, BoundsAssumption
<1>6. StackOp(st)
  BY DEF st
<1> QED
  BY <1>3, <1>4, <1>5, <1>6, StackOpInv

\* A boxed word of the stack is a reference to an object.
LEMMA StackWord ==
  ASSUME Inv, pc = "run", NEW k \in DOMAIN stack
  PROVE  /\ stack[k] \in Nat /\ Word(heap, mem, stack[k])
         /\ ~Dangling(stack[k])
         /\ Boxed(stack[k]) =>
              /\ IsObj(heap, stack[k])
              /\ HeaderOf(heap, stack[k]) \in DOMAIN mem
              /\ stack[k] = Content(heap, HeaderOf(heap, stack[k]))
<1>1. heap \in Chunk /\ Sound(heap, mem) /\ stack[k] \in Nat /\ Word(heap, mem, stack[k])
  BY Running
<1>2. \A off \in DOMAIN mem : HeaderOf(heap, Content(heap, off)) = off
  BY <1>1, Address DEF Sound
<1>3. ASSUME Boxed(stack[k])
      PROVE  /\ IsObj(heap, stack[k])
             /\ HeaderOf(heap, stack[k]) \in DOMAIN mem
             /\ stack[k] = Content(heap, HeaderOf(heap, stack[k]))
  <2>1. PICK off \in DOMAIN mem : stack[k] = Content(heap, off)
    BY <1>1, <1>3 DEF Word, Boxed
  <2> QED
    BY <1>1, <1>2, <2>1, WordIs DEF IsObj
<1> QED
  BY <1>1, <1>3 DEF Dangling

\* BOX(n) is a word.
LEMMA BoxedIsWord == BOXED \in Nat /\ Word(heap, mem, BOXED)
  BY DEF BOXED, Word, Unboxed

\* Popping nothing leaves the stack.
LEMMA NothingDropped ==
  ASSUME stack \in Seq(Nat)
  PROVE  Lower(0) = stack
  BY DEF Lower, Depth

\* Const and Dup
LEMMA PushesInv ==
  ASSUME Inv, Const \/ Dup
  PROVE  Inv'
<1>1. pc = "run"
  BY DEF Const, Dup
<1>2. stack \in Seq(Nat) /\ Depth \in Nat
  BY <1>1, Running
<1>3. Lower(0) = stack
  BY <1>2, NothingDropped
<1>4. CASE Const
  <2>1. Depth < VSTACK_SIZE - 1 /\ StackOp(Append(stack, BOXED))
    BY <1>4 DEF Const, Push
  <2>2. Depth - 0 < VSTACK_SIZE - 1 /\ 0 <= Depth
    BY <1>2, <2>1
  <2> QED
    BY <1>1, <1>3, <2>1, <2>2, BoxedIsWord, PushInv
<1>5. CASE Dup
  <2>1. Depth > 0 /\ Depth < VSTACK_SIZE - 1 /\ StackOp(Append(stack, Top))
    BY <1>5 DEF Dup, Push
  <2>2. Depth - 0 < VSTACK_SIZE - 1 /\ 0 <= Depth /\ Depth \in DOMAIN stack
    BY <1>2, <2>1 DEF Depth
  <2>3. Top \in Nat /\ Word(heap, mem, Top)
    BY <1>1, <2>2, StackWord DEF Top
  <2> QED
    BY <1>1, <1>3, <2>1, <2>2, <2>3, PushInv
<1> QED
  BY <1>4, <1>5

\* Drop
LEMMA DropInv ==
  ASSUME Inv, Drop
  PROVE  Inv'
<1>1. pc = "run" /\ Depth > 0 /\ StackOp(Lower(1))
  BY DEF Drop
<1>2. stack \in Seq(Nat) /\ Depth \in Nat /\ Depth < VSTACK_SIZE
      /\ \A k \in DOMAIN stack : Word(heap, mem, stack[k])
  BY <1>1, Running DEF Inv, Types
<1>3. /\ Lower(1) \in Seq(Nat) /\ Len(Lower(1)) = Depth - 1
      /\ \A k \in 1..Depth - 1 : k \in DOMAIN stack /\ Lower(1)[k] = stack[k]
  <2> 1 <= Depth
    BY <1>1, <1>2
  <2> QED
    BY <1>2, LowerType
<1>4. PICK st \in Seq(Nat) : st = Lower(1)
  BY <1>3
<1>5. \A k \in DOMAIN st : Word(heap, mem, st[k])
  BY <1>2, <1>3, <1>4
<1>6. Len(st) < VSTACK_SIZE
  BY <1>2, <1>3, <1>4, BoundsAssumption
<1> QED
  BY <1>1, <1>4, <1>5, <1>6, StackOpInv

\* Swap
LEMMA SwapInv ==
  ASSUME Inv, Swap
  PROVE  Inv'
<1>1. pc = "run" /\ Depth > 1 /\ StackOp(Lower(2) \o <<Top, stack[Depth-1]>>)
  BY DEF Swap
<1>2. stack \in Seq(Nat) /\ Depth \in Nat /\ Depth < VSTACK_SIZE
      /\ \A k \in DOMAIN stack : stack[k] \in Nat /\ Word(heap, mem, stack[k])
  BY <1>1, Running DEF Inv, Types
<1>3. /\ Lower(2) \in Seq(Nat) /\ Len(Lower(2)) = Depth - 2
      /\ \A k \in 1..Depth - 2 : k \in DOMAIN stack /\ Lower(2)[k] = stack[k]
  <2> 2 <= Depth
    BY <1>1, <1>2
  <2> QED
    BY <1>2, LowerType
<1>4. PICK low \in Seq(Nat) : low = Lower(2)
  BY <1>3
<1>5. Depth \in DOMAIN stack /\ Depth - 1 \in DOMAIN stack
  BY <1>1, <1>2 DEF Depth
<1>6. PICK a \in Nat, b \in Nat : a = Top /\ b = stack[Depth-1]
  BY <1>2, <1>5 DEF Top
<1>7. PICK st : st = low \o <<a, b>>
  OBVIOUS
<1>8. /\ st \in Seq(Nat) /\ Len(st) = Len(low) + 2
      /\ \A k \in 1..Len(low) : st[k] = low[k]
      /\ st[Len(low) + 1] = a /\ st[Len(low) + 2] = b
  <2>1. <<a, b>> \in Seq(Nat) /\ Len(<<a, b>>) = 2
    OBVIOUS
  <2> QED
    BY <1>7, <2>1
<1>9. \A k \in DOMAIN st : Word(heap, mem, st[k])
  <2> SUFFICES ASSUME NEW k \in DOMAIN st
               PROVE  Word(heap, mem, st[k])
    OBVIOUS
  <2>1. k \in 1..Len(low) \/ k = Len(low) + 1 \/ k = Len(low) + 2
    BY <1>8
  <2>2. CASE k \in 1..Len(low)
    <3>1. k \in DOMAIN stack /\ st[k] = stack[k]
      BY <1>3, <1>4, <1>8, <2>2
    <3> QED
      BY <1>2, <3>1
  <2>3. CASE k = Len(low) + 1 \/ k = Len(low) + 2
    BY <1>2, <1>5, <1>6, <1>8, <2>3 DEF Top
  <2> QED
    BY <2>1, <2>2, <2>3
<1>10. Len(st) < VSTACK_SIZE
  BY <1>2, <1>3, <1>4, <1>8
<1> QED
  BY <1>1, <1>4, <1>6, <1>7, <1>8, <1>9, <1>10, StackOpInv

\* Compute, Inspect, StringPatt and Elem push one word for those they pop.
LEMMA PopsInv ==
  ASSUME Inv, pc = "run", NEW n \in Nat, n >= 1, n <= Depth, NEW w \in Nat,
         Word(heap, mem, w), StackOp(Append(Lower(n), w))
  PROVE  Inv'
<1>1. Depth \in Nat /\ Depth < VSTACK_SIZE
  BY Running DEF Inv, Types
<1>2. Depth - n < VSTACK_SIZE - 1
  BY <1>1, BoundsAssumption
<1> QED
  BY <1>2, PushInv

\* Compute, and Inspect and StringPatt, whose operands are objects
LEMMA ComputesInv ==
  ASSUME Inv, (\E n \in 1..2 : Compute(n)) \/ Inspect \/ StringPatt
  PROVE  Inv'
<1>1. pc = "run"
  BY DEF Compute, Inspect, StringPatt
<1>2. stack \in Seq(Nat) /\ Depth \in Nat
  BY <1>1, Running
<1>3. \A k \in 1..Depth : ~Dangling(stack[k])
  BY <1>1, <1>2, StackWord DEF Depth
<1>4. ASSUME NEW n \in 1..2, Compute(n)
      PROVE  Inv'
  BY <1>1, <1>4, BoxedIsWord, PopsInv DEF Compute
<1>5. CASE Inspect
  <2>1. Depth >= 1 /\ ~Dangling(Top)
    BY <1>2, <1>3, <1>5 DEF Inspect, Top
  <2>2. StackOp(Append(Lower(1), BOXED))
    BY <1>5, <2>1 DEF Inspect
  <2> QED
    BY <1>1, <2>1, <2>2, BoxedIsWord, PopsInv
<1>6. CASE StringPatt
  <2>1. Depth >= 2 /\ ~Dangling(Top) /\ ~Dangling(stack[Depth-1])
    BY <1>2, <1>3, <1>6 DEF StringPatt, Top
  <2>2. StackOp(Append(Lower(2), BOXED))
    BY <1>6, <2>1 DEF StringPatt
  <2> QED
    BY <1>1, <2>1, <2>2, BoxedIsWord, PopsInv
<1> QED
  BY <1>4, <1>5, <1>6

\* Index k of an object that Belem accepts is a field, and holds a word.
LEMMA FieldWord ==
  ASSUME Sound(heap, mem), NEW off \in DOMAIN mem, NEW k, InBounds(mem[off], k),
         mem[off].kind # "STRING"
  PROVE  /\ k \in DOMAIN mem[off].fields
         /\ mem[off].fields[k] \in Nat
         /\ Word(heap, mem, mem[off].fields[k])
<1>1. ObjectOK(mem[off]) /\ \A j \in DOMAIN mem[off].fields : Word(heap, mem, mem[off].fields[j])
  BY DEF Sound
<1>2. /\ mem[off].fields \in Seq(Nat) /\ mem[off].len \in Nat
      /\ Len(mem[off].fields) = FieldCount(mem[off].kind, mem[off].len)
      /\ mem[off].kind \in {"ARRAY", "SEXP"}
  BY <1>1, ObjectType DEF InBounds, Kinds
<1>3. k \in 1..Len(mem[off].fields)
  BY <1>2 DEF InBounds, FieldCount
<1> QED
  BY <1>1, <1>2, <1>3

\* Elem
LEMMA ElemInv ==
  ASSUME Inv, NEW k, Elem(k)
  PROVE  Inv'
<1>1. pc = "run" /\ Depth > 1 /\ Boxed(stack[Depth-1])
  BY DEF Elem
<1>2. stack \in Seq(Nat) /\ Depth \in Nat /\ Sound(heap, mem)
  BY <1>1, Running
<1>3. Depth - 1 \in DOMAIN stack
  BY <1>1, <1>2 DEF Depth
<1>4. IsObj(heap, stack[Depth-1]) /\ HeaderOf(heap, stack[Depth-1]) \in DOMAIN mem
  BY <1>1, <1>3, StackWord
<1> DEFINE o == mem[HeaderOf(heap, stack[Depth-1])]
           w == IF o.kind = "STRING" THEN BOXED ELSE o.fields[k]
<1>5. InBounds(o, k) /\ StackOp(Append(Lower(2), w))
  BY <1>4 DEF Elem
<1>6. w \in Nat /\ Word(heap, mem, w)
  <2>1. CASE o.kind = "STRING"
    BY <2>1, BoxedIsWord
  <2>2. CASE o.kind # "STRING"
    BY <1>2, <1>4, <1>5, <2>2, FieldWord
  <2> QED
    BY <2>1, <2>2
<1> HIDE DEF w
<1>7. 2 <= Depth
  BY <1>1, <1>2
<1> QED
  BY <1>1, <1>5, <1>6, <1>7, PopsInv

-----------------------------------------------------------------------------
(***************************************************************************)
(* Changes that leave every object where it is.                            *)
(***************************************************************************)

\* n has the objects of m, at the same offsets and with the same shapes
SameShape(m, n) ==
  /\ DOMAIN n = DOMAIN m
  /\ \A a \in DOMAIN m :
       /\ n[a].kind = m[a].kind /\ n[a].len = m[a].len /\ n[a].id = m[a].id
       /\ ObjectOK(m[a]) /\ ObjectOK(n[a])

\* What depends on nothing but the shapes of the objects.
LEMMA ShapesKept ==
  ASSUME NEW m, NEW n, SameShape(m, n)
  PROVE  /\ \A D \in SUBSET DOMAIN m : \A lo, hi : Tiles(m, D, lo, hi) => Tiles(n, D, lo, hi)
         /\ \A h, w : Word(h, m, w) <=> Word(h, n, w)
         /\ \A h, ws : Targets(h, m, ws) = Targets(h, n, ws)
         /\ \A h, st, xr, r : Rooted(h, m, st, xr, r) => Rooted(h, n, st, xr, r)
         /\ \A a \in DOMAIN m : Len(m[a].fields) = Len(n[a].fields) /\ Size(m[a]) = Size(n[a])
<1>1. DOMAIN n = DOMAIN m
  BY DEF SameShape
<1>2. \A a \in DOMAIN m : Size(m[a]) = Size(n[a]) /\ m[a].id = n[a].id
  BY DEF SameShape, Size
<1>3. \A a \in DOMAIN m : Len(m[a].fields) = Len(n[a].fields)
  BY DEF SameShape, ObjectOK
<1>4. ASSUME NEW D \in SUBSET DOMAIN m, NEW lo, NEW hi, Tiles(m, D, lo, hi)
      PROVE  Tiles(n, D, lo, hi)
  <2>1. \A a \in D : Size(m[a]) = Size(n[a]) /\ m[a].id = n[a].id
    BY <1>2
  <2> QED
    BY <1>4, <2>1 DEF Tiles
<1>5. \A h, w : Word(h, m, w) <=> Word(h, n, w)
  BY <1>1 DEF Word
<1>6. \A h, ws : Targets(h, m, ws) = Targets(h, n, ws)
  BY <1>1 DEF Targets
<1>7. \A h, st, xr, r : Rooted(h, m, st, xr, r) => Rooted(h, n, st, xr, r)
  BY <1>1, <1>3, <1>5 DEF Rooted
<1> QED
  BY <1>2, <1>3, <1>4, <1>5, <1>6, <1>7

\* A heap stays sound when its objects keep their shapes and hold words.
LEMMA SoundKept ==
  ASSUME NEW h, NEW m, NEW n, SameShape(m, n), Sound(h, m),
         \A a \in DOMAIN m : \A k \in DOMAIN n[a].fields : Word(h, m, n[a].fields[k])
  PROVE  Sound(h, n)
<1>1. DOMAIN n = DOMAIN m /\ Tiles(n, DOMAIN n, 0, h.current)
  BY ShapesKept DEF Sound, SameShape
<1>2. \A a \in DOMAIN m : ObjectOK(n[a])
  BY DEF SameShape
<1> QED
  BY <1>1, <1>2, ShapesKept DEF Sound

\* What the stack and the roots reach is the same when the fields are.
LEMMA ReachKept ==
  ASSUME NEW m, NEW n, SameShape(m, n), \A a \in DOMAIN m : m[a].fields = n[a].fields
  PROVE  /\ \A h, st, xr, S : S \subseteq DOMAIN m =>
              (Holds(h, m, st, xr, S) <=> Holds(h, n, st, xr, S))
         /\ \A h, st, xr, S : OnlyReached(h, m, st, xr, S) <=> OnlyReached(h, n, st, xr, S)
<1>1. DOMAIN n = DOMAIN m /\ \A h, ws : Targets(h, m, ws) = Targets(h, n, ws)
  BY ShapesKept DEF SameShape
<1>2. \A h, S : S \subseteq DOMAIN m => (ClosedAt(h, m, S) <=> ClosedAt(h, n, S))
  BY <1>1 DEF ClosedAt
<1>3. \A h, st, xr, S : S \subseteq DOMAIN m =>
              (Holds(h, m, st, xr, S) <=> Holds(h, n, st, xr, S))
  BY <1>1, <1>2 DEF Holds
<1> QED
  BY <1>1, <1>3 DEF OnlyReached

\* Changing one field of an object makes an object of the same shape.
LEMMA FieldStored ==
  ASSUME NEW o, ObjectOK(o), NEW k \in DOMAIN o.fields, NEW w \in Nat
  PROVE  LET p == [o EXCEPT !.fields[k] = w] IN
         /\ ObjectOK(p)
         /\ p.kind = o.kind /\ p.len = o.len /\ p.id = o.id
         /\ p.marked = o.marked /\ p.enqueued = o.enqueued
         /\ DOMAIN p.fields = DOMAIN o.fields
         /\ \A j \in DOMAIN o.fields : p.fields[j] = IF j = k THEN w ELSE o.fields[j]
<1>1. o \in Object /\ o.fields \in Seq(Nat)
  BY DEF ObjectOK, Object
<1>2. PICK ws : ws = [o.fields EXCEPT ![k] = w]
  OBVIOUS
<1>3. /\ ws \in Seq(Nat) /\ Len(ws) = Len(o.fields) /\ DOMAIN ws = DOMAIN o.fields
      /\ \A j \in DOMAIN o.fields : ws[j] = IF j = k THEN w ELSE o.fields[j]
  BY <1>1, <1>2
<1>4. [o EXCEPT !.fields[k] = w] = [o EXCEPT !.fields = ws]
  BY <1>2
<1>5. [o EXCEPT !.fields = ws] \in Object
  BY <1>1, <1>3 DEF Object
<1> QED
  BY <1>1, <1>3, <1>4, <1>5 DEF ObjectOK, Object

\* StA
LEMMA StAInv ==
  ASSUME Inv, NEW k, StA(k)
  PROVE  Inv'
<1>1. pc = "run" /\ Depth > 2 /\ Boxed(stack[Depth-2])
  BY DEF StA
<1>2. stack \in Seq(Nat) /\ Depth \in Nat /\ Sound(heap, mem) /\ Unflagged(mem)
  BY <1>1, Running
<1>3. Types /\ Requested /\ Quiet /\ req = Idle
  BY <1>1, Running DEF Inv
<1>4. Depth \in DOMAIN stack /\ Depth - 2 \in DOMAIN stack
  BY <1>1, <1>2 DEF Depth
<1>5. PICK off \in DOMAIN mem : off = HeaderOf(heap, stack[Depth-2])
  BY <1>1, <1>4, StackWord
<1>6. Top \in Nat /\ Word(heap, mem, Top)
  BY <1>1, <1>4, StackWord DEF Top
<1>7. IsObj(heap, stack[Depth-2])
  BY <1>1, <1>4, StackWord
<1>8. /\ InBounds(mem[off], k)
      /\ mem' = IF mem[off].kind = "STRING" THEN mem
                ELSE [mem EXCEPT ![off].fields[k] = Top]
      /\ stack' = Append(Lower(3), Top)
      /\ UNCHANGED <<heap, xroots, nextid, pc, req, gc>>
  BY <1>5, <1>7 DEF StA
<1>9. /\ SameShape(mem, mem')
      /\ \A a \in DOMAIN mem : \A j \in DOMAIN mem'[a].fields :
            Word(heap, mem, mem'[a].fields[j])
      /\ Unflagged(mem')
  <2>1. \A a \in DOMAIN mem : ObjectOK(mem[a])
    BY <1>2 DEF Sound
  <2>2. CASE mem[off].kind = "STRING"
    BY <1>2, <1>8, <2>1, <2>2 DEF SameShape, Sound
  <2>3. CASE mem[off].kind # "STRING"
    <3>1. k \in DOMAIN mem[off].fields
      BY <1>2, <1>8, <2>3, FieldWord
    <3>2. mem' = [mem EXCEPT ![off] = [mem[off] EXCEPT !.fields[k] = Top]]
      BY <1>8, <2>3
    <3>3. /\ DOMAIN mem' = DOMAIN mem
          /\ mem'[off] = [mem[off] EXCEPT !.fields[k] = Top]
          /\ \A a \in DOMAIN mem \ {off} : mem'[a] = mem[a]
      BY <3>2
    <3>4. /\ ObjectOK(mem'[off])
          /\ mem'[off].kind = mem[off].kind /\ mem'[off].len = mem[off].len
          /\ mem'[off].id = mem[off].id
          /\ mem'[off].marked = mem[off].marked /\ mem'[off].enqueued = mem[off].enqueued
          /\ DOMAIN mem'[off].fields = DOMAIN mem[off].fields
          /\ \A j \in DOMAIN mem[off].fields :
               mem'[off].fields[j] = IF j = k THEN Top ELSE mem[off].fields[j]
      BY <1>6, <2>1, <3>1, <3>3, FieldStored
    <3>5. SameShape(mem, mem')
      BY <2>1, <3>3, <3>4 DEF SameShape
    <3>6. Unflagged(mem')
      BY <1>2, <3>3, <3>4 DEF Unflagged
    <3>7. \A a \in DOMAIN mem : \A j \in DOMAIN mem[a].fields : Word(heap, mem, mem[a].fields[j])
      BY <1>2 DEF Sound
    <3>8. ASSUME NEW a \in DOMAIN mem, NEW j \in DOMAIN mem'[a].fields
          PROVE  Word(heap, mem, mem'[a].fields[j])
      BY <1>6, <3>3, <3>4, <3>7, <3>8
    <3> QED
      BY <3>5, <3>6, <3>8
  <2> QED
    BY <2>2, <2>3
<1>10. Sound(heap, mem)'
  <2>1. Sound(heap, mem')
    BY <1>2, <1>9, SoundKept
  <2> QED
    BY <1>8, <2>1 DEF Sound
<1>11. /\ stack' \in Seq(Nat) /\ Len(stack') = Depth - 2
       /\ \A j \in DOMAIN stack' : Word(heap, mem, stack'[j])
  <2>1. 3 <= Depth
    BY <1>1, <1>2
  <2>2. PICK low \in Seq(Nat) : low = Lower(3)
    BY <1>2, <2>1, LowerType
  <2>3. Len(low) = Depth - 3 /\ \A j \in 1..Depth - 3 : j \in DOMAIN stack /\ low[j] = stack[j]
    BY <1>2, <2>1, <2>2, LowerType
  <2>4. \A j \in DOMAIN stack : Word(heap, mem, stack[j])
    BY <1>1, Running
  <2>5. /\ stack' \in Seq(Nat) /\ Len(stack') = Len(low) + 1
        /\ DOMAIN stack' = 1..Len(low) + 1
        /\ \A j \in 1..Len(low) : stack'[j] = low[j]
        /\ stack'[Len(low) + 1] = Top
    BY <1>6, <1>8, <2>2, Appended
  <2>6. ASSUME NEW j \in DOMAIN stack'
        PROVE  Word(heap, mem, stack'[j])
    BY <1>6, <2>3, <2>4, <2>5
  <2> QED
    BY <1>2, <2>3, <2>5, <2>6
<1>12. Types'
  <2>1. \A a \in DOMAIN mem' : ObjectOK(mem'[a]) /\ mem'[a].id < nextid
    BY <1>3, <1>9 DEF SameShape, Types
  <2>2. DOMAIN mem' \subseteq Nat
    BY <1>3, <1>9 DEF Types, SameShape
  <2>3. Len(stack') < VSTACK_SIZE
    BY <1>2, <1>3, <1>11, BoundsAssumption DEF Types
  <2> QED
    BY <1>3, <1>8, <1>11, <2>1, <2>2, <2>3 DEF Types, Depth
<1>13. Requested'
  BY <1>1, <1>3, <1>8 DEF Requested
<1>14. Rooted(heap, mem, stack, xroots, req)'
  <2>1. \A j \in DOMAIN xroots : xroots[j] = EXTERNAL \/ Word(heap, mem, xroots[j])
    BY <1>1, <1>3 DEF Quiet, Rooted
  <2>2. Rooted(heap, mem, stack', xroots, req)
    BY <1>3, <1>11, <2>1 DEF Rooted, Idle
  <2>3. Rooted(heap, mem', stack', xroots, req)
    BY <1>9, <2>2, ShapesKept
  <2> QED
    BY <1>8, <2>3 DEF Rooted
<1>15. Quiet'
  BY <1>1, <1>8, <1>9, <1>10, <1>14 DEF Quiet, Unflagged
<1> QED
  BY <1>1, <1>8, <1>12, <1>13, <1>15 DEF Inv, Marking, Locating, Moving, Compacted

-----------------------------------------------------------------------------
(***************************************************************************)
(* The operations that allocate.                                           *)
(***************************************************************************)

\* the extra roots are words, and what will be read again is an object; the
\* first of them is copied into an object of this kind and length
Readable(kind, len, reads, roots) ==
  /\ \A k \in DOMAIN roots : roots[k] = EXTERNAL \/ Word(heap, mem, roots[k])
  /\ \A k \in 1..reads :
       /\ k \in DOMAIN roots
       /\ \E off \in DOMAIN mem :
            /\ roots[k] = Content(heap, off)
            /\ k = 1 => Len(mem[off].fields) = FieldCount(kind, len)

\* A request whose operands are on the stack or in the extra roots.
LEMMA RequestInv ==
  ASSUME Inv, NEW r \in [kind: Kinds, len: Nat, used: Nat, reads: Nat],
         NEW st \in Seq(Nat), NEW roots \in Seq(Nat), Request(r, st, roots),
         r.kind = "CLOSURE" => r.len > 0,
         Len(st) < VSTACK_SIZE, r.used <= Len(st), Len(st) - r.used < VSTACK_SIZE - 1,
         r.reads = 0 => r.used = FieldCount(r.kind, r.len),
         \A k \in DOMAIN st : Word(heap, mem, st[k]),
         Readable(r.kind, r.len, r.reads, roots)
  PROVE  Inv'
<1>1. /\ pc = "run" /\ nextid <= MaxId
      /\ req' = r /\ stack' = st /\ xroots' = roots /\ pc' = "alloc"
      /\ UNCHANGED <<heap, mem, nextid, gc>>
  BY DEF Request
<1>2. Types /\ Sound(heap, mem) /\ Unflagged(mem)
  BY <1>1, Running DEF Inv
<1>3. Types'
  BY <1>1, <1>2 DEF Types, Depth
<1>4. Requested'
  BY <1>1 DEF Requested, Depth
<1>5. Rooted(heap, mem, stack, xroots, req)'
  BY <1>1 DEF Rooted, Word, Readable
<1>6. Sound(heap, mem)' /\ Unflagged(mem)'
  BY <1>1, <1>2 DEF Sound, Unflagged
<1>7. Quiet'
  BY <1>1, <1>5, <1>6 DEF Quiet
<1> QED
  BY <1>1, <1>3, <1>4, <1>7 DEF Inv, Marking, Locating, Moving, Compacted

\* What the lemmas about requests know of the stack.
LEMMA Operands ==
  ASSUME Inv, pc = "run"
  PROVE  /\ stack \in Seq(Nat) /\ Depth \in Nat /\ Depth < VSTACK_SIZE
         /\ \A k \in DOMAIN stack : stack[k] \in Nat /\ Word(heap, mem, stack[k])
         /\ \A n \in Nat : n <= Depth =>
              /\ Lower(n) \in Seq(Nat) /\ Len(Lower(n)) = Depth - n
              /\ \A k \in DOMAIN Lower(n) : Word(heap, mem, Lower(n)[k])
         /\ \A k \in 1..Depth : stack[k] \in Nat /\ Word(heap, mem, stack[k])
         /\ \A k \in 1..Depth : Boxed(stack[k]) =>
              \E off \in DOMAIN mem :
                /\ stack[k] = Content(heap, off) /\ HeaderOf(heap, stack[k]) = off
                /\ IsObj(heap, stack[k]) /\ ObjectOK(mem[off])
<1>1. /\ stack \in Seq(Nat) /\ Depth \in Nat /\ Depth < VSTACK_SIZE
      /\ \A k \in DOMAIN stack : stack[k] \in Nat /\ Word(heap, mem, stack[k])
  BY Running DEF Inv, Types
<1>2. ASSUME NEW n \in Nat, n <= Depth
      PROVE  /\ Lower(n) \in Seq(Nat) /\ Len(Lower(n)) = Depth - n
             /\ \A k \in DOMAIN Lower(n) : Word(heap, mem, Lower(n)[k])
  <2>1. PICK low \in Seq(Nat) : low = Lower(n)
    BY <1>1, <1>2, LowerType
  <2>2. Len(low) = Depth - n /\ \A k \in 1..Depth - n : k \in DOMAIN stack /\ low[k] = stack[k]
    BY <1>1, <1>2, <2>1, LowerType
  <2> QED
    BY <1>1, <2>1, <2>2
<1>3. ASSUME NEW k \in 1..Depth, Boxed(stack[k])
      PROVE  \E off \in DOMAIN mem :
                /\ stack[k] = Content(heap, off) /\ HeaderOf(heap, stack[k]) = off
                /\ IsObj(heap, stack[k]) /\ ObjectOK(mem[off])
  <2>1. k \in DOMAIN stack
    BY <1>1 DEF Depth
  <2>2. HeaderOf(heap, stack[k]) \in DOMAIN mem /\ IsObj(heap, stack[k])
        /\ stack[k] = Content(heap, HeaderOf(heap, stack[k]))
    BY <1>3, <2>1, StackWord
  <2> QED
    BY <2>2 DEF Inv, Types
<1> QED
  BY <1>1, <1>2, <1>3 DEF Depth

\* Make: Barray, BSexp and Bclosure
LEMMA MakeInv ==
  ASSUME Inv, NEW s \in Shapes, Make(s[1], s[2])
  PROVE  Inv'
<1>1. pc = "run" /\ FieldCount(s[1], s[2]) <= Depth
      /\ Depth - FieldCount(s[1], s[2]) < VSTACK_SIZE - 1
  BY DEF Make, Request
<1>2. s[1] \in Kinds /\ s[2] \in Nat /\ (s[1] = "CLOSURE" => s[2] > 0)
      /\ FieldCount(s[1], s[2]) \in Nat
  BY ShapesAssumption, SizeType
<1>3. PICK r : r = [kind |-> s[1], len |-> s[2], used |-> FieldCount(s[1], s[2]), reads |-> 0]
  OBVIOUS
<1>4. r \in [kind: Kinds, len: Nat, used: Nat, reads: Nat]
      /\ r.kind = s[1] /\ r.len = s[2] /\ r.used = FieldCount(s[1], s[2]) /\ r.reads = 0
  BY <1>2, <1>3
<1>5. Request(r, stack, <<>>)
  BY <1>3 DEF Make
<1>6. stack \in Seq(Nat) /\ Len(stack) < VSTACK_SIZE
      /\ \A k \in DOMAIN stack : Word(heap, mem, stack[k])
  BY <1>1, Operands DEF Depth
<1>7. PICK roots \in Seq(Nat) : roots = <<>> /\ DOMAIN roots = {}
  <2> <<>> \in Seq(Nat) /\ DOMAIN <<>> = {}
    OBVIOUS
  <2> QED
    OBVIOUS
<1>8. \A k \in 1..r.reads : FALSE
  BY <1>4
<1>9. Request(r, stack, roots)
  BY <1>5, <1>7
<1>10. r.used <= Len(stack) /\ Len(stack) - r.used < VSTACK_SIZE - 1
  BY <1>1, <1>4 DEF Depth
<1>11. r.reads = 0 => r.used = FieldCount(r.kind, r.len)
  BY <1>4
<1>12. Readable(r.kind, r.len, r.reads, roots)
  BY <1>7, <1>8 DEF Readable
<1> QED
  BY <1>2, <1>4, <1>6, <1>9, <1>10, <1>11, <1>12, RequestInv

\* The operations that pop their operands first, and read some of them again.
LEMMA CopyRequestInv ==
  ASSUME Inv, pc = "run", NEW kind \in Kinds, NEW len \in Nat, kind = "CLOSURE" => len > 0,
         NEW n \in Nat, n <= Depth, NEW reads \in Nat,
         NEW roots \in Seq(Nat),
         Depth - n < VSTACK_SIZE - 1,
         Request([kind |-> kind, len |-> len, used |-> 0, reads |-> reads], Lower(n), roots),
         reads = 0 => kind = "STRING",
         Readable(kind, len, reads, roots)
  PROVE  Inv'
<1>1. PICK r : r = [kind |-> kind, len |-> len, used |-> 0, reads |-> reads]
  OBVIOUS
<1>2. r \in [kind: Kinds, len: Nat, used: Nat, reads: Nat]
      /\ r.kind = kind /\ r.len = len /\ r.used = 0 /\ r.reads = reads
  BY <1>1
<1>3. /\ Depth \in Nat /\ Depth < VSTACK_SIZE
      /\ Lower(n) \in Seq(Nat) /\ Len(Lower(n)) = Depth - n
      /\ \A k \in DOMAIN Lower(n) : Word(heap, mem, Lower(n)[k])
  BY Operands
<1>4. PICK st \in Seq(Nat) : st = Lower(n)
  BY <1>3
<1>5. Len(st) < VSTACK_SIZE /\ r.used <= Len(st) /\ Len(st) - r.used < VSTACK_SIZE - 1
  BY <1>2, <1>3, <1>4, BoundsAssumption
<1>6. r.reads = 0 => r.used = FieldCount(r.kind, r.len)
  BY <1>2 DEF FieldCount
<1>7. Request(r, st, roots)
  BY <1>1, <1>4
<1>8. Readable(r.kind, r.len, r.reads, roots) /\ (r.kind = "CLOSURE" => r.len > 0)
  BY <1>2
<1>9. \A k \in DOMAIN st : Word(heap, mem, st[k])
  BY <1>3, <1>4
<1> QED
  BY <1>2, <1>5, <1>6, <1>7, <1>8, <1>9, RequestInv

\* Bstring and Lstring; the string that is copied is no object
LEMMA StringsInv ==
  ASSUME Inv, NEW len \in Nat, Bstring(len) \/ Lstring(len)
  PROVE  Inv'
<1>1. pc = "run" /\ Depth \in Nat /\ Depth < VSTACK_SIZE
  BY Operands DEF Bstring, Lstring, Request
<1>2. "STRING" \in Kinds
  BY DEF Kinds
<1>3. \A k \in 1..0 : FALSE
  OBVIOUS
<1>4. CASE Bstring(len)
  <2>1. PICK roots \in Seq(Nat) : roots = <<EXTERNAL>> /\ \A k \in DOMAIN roots : roots[k] = EXTERNAL
    <3> <<EXTERNAL>> \in Seq(Nat) /\ \A k \in DOMAIN <<EXTERNAL>> : <<EXTERNAL>>[k] = EXTERNAL
      BY DEF EXTERNAL
    <3> QED
      OBVIOUS
  <2>2. Lower(0) = stack
    BY <1>1, Operands, NothingDropped
  <2>3. Request([kind |-> "STRING", len |-> len, used |-> 0, reads |-> 0], Lower(0), roots)
    BY <1>4, <2>1, <2>2 DEF Bstring
  <2>4. Depth - 0 < VSTACK_SIZE - 1 /\ 0 <= Depth
    BY <1>1, <1>4 DEF Bstring
  <2>5. Readable("STRING", len, 0, roots)
    BY <1>3, <2>1 DEF Readable
  <2> QED
    BY <1>1, <1>2, <2>3, <2>4, <2>5, CopyRequestInv
<1>5. CASE Lstring(len)
  <2>1. Depth >= 1 /\ Depth \in 1..Depth
    BY <1>1, <1>5 DEF Lstring
  <2>2. PICK top \in Nat : top = Top /\ Word(heap, mem, top)
    BY <1>1, <2>1, Operands DEF Top
  <2>3. PICK roots \in Seq(Nat) :
           roots = <<top, EXTERNAL>> /\ \A k \in DOMAIN roots : roots[k] \in {top, EXTERNAL}
    <3> <<top, EXTERNAL>> \in Seq(Nat)
        /\ \A k \in DOMAIN <<top, EXTERNAL>> : <<top, EXTERNAL>>[k] \in {top, EXTERNAL}
      BY DEF EXTERNAL
    <3> QED
      OBVIOUS
  <2>4. Request([kind |-> "STRING", len |-> len, used |-> 0, reads |-> 0], Lower(1), roots)
    BY <1>5, <2>2, <2>3 DEF Lstring
  <2>5. Depth - 1 < VSTACK_SIZE - 1
    BY <1>1, BoundsAssumption
  <2>6. Readable("STRING", len, 0, roots)
    BY <1>3, <2>2, <2>3 DEF Readable
  <2> QED
    BY <1>1, <1>2, <2>1, <2>4, <2>5, <2>6, CopyRequestInv
<1> QED
  BY <1>4, <1>5

\* An operand that the code takes for a string is one.
LEMMA StringOperand ==
  ASSUME Inv, pc = "run", NEW w \in Nat, Word(heap, mem, w), IsString(w)
  PROVE  \E off \in DOMAIN mem :
           /\ w = Content(heap, off) /\ ObjectOK(mem[off]) /\ mem[off].kind = "STRING"
           /\ LenOf(w) \in Nat
<1>1. heap \in Chunk /\ Sound(heap, mem)
  BY Running
<1>2. Names(heap, mem, w) /\ mem[HeaderOf(heap, w)].kind = "STRING"
  BY DEF IsString, IsObj
<1>3. PICK off \in DOMAIN mem : w = Content(heap, off)
  BY <1>1, <1>2, WordIs
<1>4. HeaderOf(heap, w) = off /\ ObjectOK(mem[off])
  BY <1>1, <1>3, Address DEF Sound
<1>5. mem[off].len \in Nat
  BY <1>4, ObjectType
<1> QED
  BY <1>2, <1>3, <1>4, <1>5 DEF LenOf

\* Lclone, Lsubstring and ++: each object that is read again is a root.
LEMMA CopiesInv ==
  ASSUME Inv, Lclone \/ (\E len \in Nat : Lsubstring(len)) \/ Lstrcat
  PROVE  Inv'
<1>1. pc = "run"
  BY DEF Lclone, Lsubstring, Lstrcat
<1>2. Depth \in Nat /\ Depth < VSTACK_SIZE /\ Depth \in 1..Depth
  <2>1. Depth \in Nat /\ Depth < VSTACK_SIZE
    BY <1>1, Operands
  <2>2. Depth > 0 \/ Depth > 1
    BY DEF Lclone, Lsubstring, Lstrcat
  <2> QED
    BY <2>1, <2>2
<1>3. "STRING" \in Kinds /\ \A len \in Nat : FieldCount("STRING", len) = 0
  BY DEF Kinds, FieldCount
<1>4. PICK top \in Nat : top = Top /\ Word(heap, mem, top)
  BY <1>1, <1>2, Operands DEF Top
<1>5. Boxed(top) => \E off \in DOMAIN mem :
         /\ top = Content(heap, off) /\ HeaderOf(heap, top) = off
         /\ IsObj(heap, top) /\ ObjectOK(mem[off])
  BY <1>1, <1>2, <1>4, Operands DEF Top
<1>6. Depth - 1 < VSTACK_SIZE - 1 /\ 1 <= Depth
  BY <1>1, <1>2, BoundsAssumption
<1>7. PICK one \in Seq(Nat) : one = <<top>> /\ DOMAIN one = 1..1 /\ one[1] = top
  <2> <<top>> \in Seq(Nat) /\ DOMAIN <<top>> = 1..1 /\ <<top>>[1] = top
    OBVIOUS
  <2> QED
    OBVIOUS
<1>8. CASE Lclone
  <2>1. Boxed(top)
    BY <1>4, <1>8 DEF Lclone
  <2>2. PICK off \in DOMAIN mem : /\ top = Content(heap, off) /\ HeaderOf(heap, top) = off
                                  /\ IsObj(heap, top) /\ ObjectOK(mem[off])
    BY <1>5, <2>1
  <2>3. PICK two \in Seq(Nat) : two = <<top, top>> /\ DOMAIN two = 1..2 /\ two[1] = top /\ two[2] = top
    <3> <<top, top>> \in Seq(Nat) /\ DOMAIN <<top, top>> = 1..2
        /\ <<top, top>>[1] = top /\ <<top, top>>[2] = top
      OBVIOUS
    <3> QED
      OBVIOUS
  <2>4. PICK roots \in {one, two} : roots = IF mem[off].kind = "STRING" THEN two ELSE one
    OBVIOUS
  <2>5. /\ roots = IF mem[off].kind = "STRING" THEN <<top, top>> ELSE <<top>>
        /\ 1 \in DOMAIN roots /\ \A k \in DOMAIN roots : roots[k] = top
    BY <1>7, <2>3, <2>4
  <2>6. /\ mem[off].kind \in Kinds /\ mem[off].len \in Nat
        /\ mem[off].kind = "CLOSURE" => mem[off].len > 0
        /\ Len(mem[off].fields) = FieldCount(mem[off].kind, mem[off].len)
    BY <2>2, ObjectType DEF ObjectOK
  <2>7. PICK kind \in Kinds, len \in Nat : kind = mem[off].kind /\ len = mem[off].len
    BY <2>6
  <2>8. Request([kind |-> kind, len |-> len, used |-> 0, reads |-> 1], Lower(1), roots)
    BY <1>4, <1>8, <2>2, <2>5, <2>7 DEF Lclone
  <2>9. Readable(kind, len, 1, roots)
    BY <1>4, <2>2, <2>5, <2>6, <2>7 DEF Readable
  <2>10. kind = "CLOSURE" => len > 0
    BY <2>6, <2>7
  <2>11. PICK ws \in Seq(Nat) : ws = roots
    BY <2>4
  <2> QED
    BY <1>1, <1>6, <2>8, <2>9, <2>10, <2>11, CopyRequestInv
<1>9. ASSUME NEW len \in Nat, Lsubstring(len)
      PROVE  Inv'
  <2>1. ~Dangling(top)
    BY <1>4, <1>5 DEF Dangling
  <2>2. IsString(top)
    BY <1>4, <1>9, <2>1 DEF Lsubstring
  <2>3. PICK off \in DOMAIN mem : /\ top = Content(heap, off) /\ ObjectOK(mem[off])
                                  /\ mem[off].kind = "STRING"
    BY <1>1, <1>4, <2>2, StringOperand
  <2>4. Request([kind |-> "STRING", len |-> len, used |-> 0, reads |-> 1], Lower(1), one)
    BY <1>4, <1>7, <1>9, <2>1 DEF Lsubstring
  <2>5. Len(mem[off].fields) = FieldCount("STRING", len)
    BY <1>3, <2>3, ObjectType
  <2>6. Readable("STRING", len, 1, one)
    BY <1>4, <1>7, <2>3, <2>5 DEF Readable
  <2> QED
    BY <1>1, <1>3, <1>6, <2>4, <2>6, CopyRequestInv
<1>10. CASE Lstrcat
  <2>1. Depth > 1 /\ Depth - 1 \in 1..Depth /\ 2 <= Depth
    BY <1>2, <1>10 DEF Lstrcat
  <2>2. PICK a \in Nat : a = stack[Depth-1] /\ Word(heap, mem, a)
    BY <1>1, <2>1, Operands
  <2>3. Boxed(a) => \E off \in DOMAIN mem :
           /\ a = Content(heap, off) /\ HeaderOf(heap, a) = off
           /\ IsObj(heap, a) /\ ObjectOK(mem[off])
    BY <1>1, <2>1, <2>2, Operands
  <2>4. ~Dangling(a) /\ ~Dangling(top)
    BY <1>5, <2>3 DEF Dangling
  <2>5. IsString(a) /\ IsString(top)
    BY <1>4, <1>10, <2>2, <2>4 DEF Lstrcat
  <2>6. PICK i \in DOMAIN mem : a = Content(heap, i) /\ mem[i].kind = "STRING" /\ ObjectOK(mem[i])
    BY <1>1, <2>2, <2>5, StringOperand
  <2>7. PICK j \in DOMAIN mem : top = Content(heap, j) /\ mem[j].kind = "STRING" /\ ObjectOK(mem[j])
    BY <1>1, <1>4, <2>5, StringOperand
  <2>8. LenOf(a) \in Nat /\ LenOf(top) \in Nat
    BY <1>1, <1>4, <2>2, <2>5, StringOperand
  <2>9. PICK len \in Nat : len = LenOf(a) + LenOf(top)
    BY <2>8
  <2>10. PICK roots \in Seq(Nat) : roots = <<a, top>> /\ DOMAIN roots = 1..2
                                   /\ roots[1] = a /\ roots[2] = top
    <3> <<a, top>> \in Seq(Nat) /\ DOMAIN <<a, top>> = 1..2
        /\ <<a, top>>[1] = a /\ <<a, top>>[2] = top
      OBVIOUS
    <3> QED
      OBVIOUS
  <2>11. Request([kind |-> "STRING", len |-> len, used |-> 0, reads |-> 2], Lower(2), roots)
    BY <1>4, <1>10, <2>2, <2>4, <2>9, <2>10 DEF Lstrcat
  <2>12. Len(mem[i].fields) = FieldCount("STRING", len)
    BY <1>3, <2>6, <2>9, ObjectType
  <2>13. Depth - 2 < VSTACK_SIZE - 1
    BY <1>2, <1>6, BoundsAssumption
  <2>14. Readable("STRING", len, 2, roots)
    BY <1>4, <2>2, <2>6, <2>7, <2>10, <2>12 DEF Readable
  <2> QED
    BY <1>1, <1>3, <2>1, <2>11, <2>13, <2>14, CopyRequestInv
<1> QED
  BY <1>8, <1>9, <1>10

\* No operation of the program breaks the invariant or crashes.
LEMMA MutatorInv ==
  ASSUME Inv, Mutator
  PROVE  Inv'
<1>1. \A s \in Shapes : s[2] \in Nat
  BY ShapesAssumption
<1>2. CASE Const \/ Dup \/ Drop \/ Swap
  BY <1>2, PushesInv, DropInv, SwapInv
<1>3. CASE (\E n \in 1..2 : Compute(n)) \/ Inspect \/ StringPatt
  BY <1>3, ComputesInv
<1>4. CASE \E k \in 1..MaxLen : Elem(k) \/ StA(k)
  BY <1>4, ElemInv, StAInv
<1>5. CASE \E s \in Shapes : Make(s[1], s[2])
  BY <1>5, MakeInv
<1>6. CASE \E s \in Shapes : s[1] = "STRING"
             /\ (Bstring(s[2]) \/ Lstring(s[2]) \/ Lsubstring(s[2]))
  BY <1>1, <1>6, StringsInv, CopiesInv
<1>7. CASE Lclone \/ Lstrcat
  BY <1>7, CopiesInv
<1> QED
  BY <1>2, <1>3, <1>4, <1>5, <1>6, <1>7 DEF Mutator

\* The last words of a sequence.
LEMMA Upper ==
  ASSUME NEW s \in Seq(Nat), NEW u \in Nat, u <= Len(s)
  PROVE  LET ws == SubSeq(s, Len(s) - u + 1, Len(s)) IN
         /\ ws \in Seq(Nat) /\ Len(ws) = u
         /\ \A k \in DOMAIN ws : \E j \in DOMAIN s : ws[k] = s[j]
<1>1. PICK n \in Nat : n = Len(s)
  OBVIOUS
<1>2. PICK from \in Nat : from = n - u /\ from + u = n
  <2> n - u \in Nat /\ (n - u) + u = n
    BY <1>1
  <2> QED
    OBVIOUS
<1>3. PICK ws : ws = SubSeq(s, from + 1, n)
  OBVIOUS
<1>4. /\ ws \in Seq(Nat) /\ Len(ws) = u
      /\ \A k \in 1..u : ws[k] = s[from + k]
  BY <1>1, <1>2, <1>3
<1>5. \A k \in 1..u : from + k \in DOMAIN s
  BY <1>1, <1>2
<1>6. ASSUME NEW k \in DOMAIN ws
      PROVE  \E j \in DOMAIN s : ws[k] = s[j]
  <2>1. k \in 1..u
    BY <1>4
  <2>2. from + k \in DOMAIN s /\ ws[k] = s[from + k]
    BY <1>4, <1>5, <2>1
  <2> QED
    BY <2>2
<1>7. ws = SubSeq(s, Len(s) - u + 1, Len(s))
  BY <1>1, <1>2, <1>3
<1> QED
  BY <1>4, <1>6, <1>7

\* What an operation reads again is there, and what it copies fits its object.
LEMMA ContentsType ==
  ASSUME Inv, pc \in {"alloc", "place"}
  PROVE  /\ \A k \in 1..req.reads : IsObj(heap, xroots[k])
         /\ Contents \in Seq(Nat)
         /\ Len(Contents) = FieldCount(req.kind, req.len)
         /\ \A k \in DOMAIN Contents : Word(heap, mem, Contents[k])
<1>1. /\ heap \in Chunk /\ Sound(heap, mem) /\ Rooted(heap, mem, stack, xroots, req)
      /\ stack \in Seq(Nat) /\ Requested
  BY DEF Inv, Types, Quiet
<1>2. /\ req.reads \in Nat /\ req.used \in Nat /\ req.used <= Depth
      /\ req.reads = 0 => req.used = FieldCount(req.kind, req.len)
  BY <1>1 DEF Requested
<1>3. \A off \in DOMAIN mem : /\ IsObj(heap, Content(heap, off))
                              /\ HeaderOf(heap, Content(heap, off)) = off
  BY <1>1, NamesObject DEF IsObj, Sound
<1>4. \A k \in 1..req.reads : IsObj(heap, xroots[k])
  BY <1>1, <1>3 DEF Rooted
<1>5. CASE req.reads > 0
  <2>1. PICK off \in DOMAIN mem : /\ xroots[1] = Content(heap, off)
                                  /\ Len(mem[off].fields) = FieldCount(req.kind, req.len)
    BY <1>1, <1>2, <1>5 DEF Rooted
  <2>2. Contents = mem[off].fields
    BY <1>3, <1>5, <2>1 DEF Contents
  <2>3. ObjectOK(mem[off]) /\ \A k \in DOMAIN mem[off].fields : Word(heap, mem, mem[off].fields[k])
    BY <1>1 DEF Sound
  <2> QED
    BY <1>4, <2>1, <2>2, <2>3, ObjectType
<1>6. CASE ~(req.reads > 0)
  <2>1. req.reads = 0 /\ req.used = FieldCount(req.kind, req.len)
    BY <1>2, <1>6
  <2>2. Contents = SubSeq(stack, Depth - req.used + 1, Depth)
    BY <1>6 DEF Contents
  <2>3. PICK ws : ws = Contents
    OBVIOUS
  <2>4. /\ ws \in Seq(Nat) /\ Len(ws) = req.used
        /\ \A k \in DOMAIN ws : \E j \in DOMAIN stack : ws[k] = stack[j]
    BY <1>1, <1>2, <2>2, <2>3, Upper DEF Depth
  <2>5. \A k \in DOMAIN ws : Word(heap, mem, ws[k])
    BY <1>1, <2>4 DEF Rooted
  <2> QED
    BY <1>4, <2>1, <2>3, <2>4, <2>5
<1> QED
  BY <1>5, <1>6

\* the objects m, and object o at this offset
Extended(m, at, o) == [i \in DOMAIN m \cup {at} |-> IF i = at THEN o ELSE m[i]]

\* A new object behind the last one keeps the heap tiled and its words valid.
LEMMA SoundExtended ==
  ASSUME NEW h \in Chunk, NEW m, Sound(h, m), NEW o, ObjectOK(o),
         \A a \in DOMAIN m : m[a].id < o.id,
         \A k \in DOMAIN o.fields : Word(h, m, o.fields[k]),
         NEW g \in Chunk, g.begin = h.begin, g.current = h.current + Size(o)
  PROVE  LET n == Extended(m, h.current, o) IN
         /\ Sound(g, n)
         /\ \A w : Word(h, m, w) => Word(g, n, w)
         /\ h.current \in DOMAIN n /\ Content(g, h.current) = Content(h, h.current)
<1> DEFINE top == h.current
           n == Extended(m, h.current, o)
<1>1. top \in Nat /\ g.current = top + Size(o) /\ Size(o) \in Nat /\ Size(o) >= 2
  BY ObjectType DEF Chunk
<1>2. \A a \in DOMAIN m : /\ a \in Nat /\ ObjectOK(m[a])
                          /\ Size(m[a]) \in Nat /\ Size(m[a]) >= 2
                          /\ a + Size(m[a]) <= top
                          /\ (a + Size(m[a]) = top \/ a + Size(m[a]) \in DOMAIN m)
  BY ObjectType DEF Sound, Tiles
<1>3. top \notin DOMAIN m
  BY <1>1, <1>2
<1>4. /\ DOMAIN n = DOMAIN m \cup {top} /\ n[top] = o
      /\ \A a \in DOMAIN m : a # top /\ n[a] = m[a]
  BY <1>3 DEF Extended
<1> HIDE DEF top, n
<1>5. \A off : Content(g, off) = Content(h, off)
  BY DEF Content
<1>6. \A w : Word(h, m, w) => Word(g, n, w)
  BY <1>4, <1>5 DEF Word
<1>7. Tiles(n, DOMAIN n, 0, g.current)
  <2>1. 0 = g.current \/ 0 \in DOMAIN n
    BY <1>4 DEF Sound, Tiles, top
  <2>2. ASSUME NEW a \in DOMAIN n
        PROVE  /\ 0 <= a /\ a + Size(n[a]) <= g.current
               /\ (a + Size(n[a]) = g.current \/ a + Size(n[a]) \in DOMAIN n)
    BY <1>1, <1>2, <1>4
  <2>3. ASSUME NEW a \in DOMAIN n, NEW b \in DOMAIN n, a < b
        PROVE  a + Size(n[a]) <= b /\ n[a].id < n[b].id
    <3>1. a \in DOMAIN m
      BY <1>1, <1>2, <1>4, <2>3
    <3>2. CASE b = top
      BY <1>2, <1>4, <3>1, <3>2
    <3>3. CASE b \in DOMAIN m
      BY <1>4, <2>3, <3>1, <3>3 DEF Sound, Tiles
    <3> QED
      BY <1>4, <3>2, <3>3
  <2> QED
    BY <2>1, <2>2, <2>3 DEF Tiles
<1>8. ASSUME NEW a \in DOMAIN n
      PROVE  ObjectOK(n[a])
             /\ \A k \in DOMAIN n[a].fields : Word(g, n, n[a].fields[k])
  <2>1. CASE a = top
    <3>1. n[a] = o
      BY <1>4, <2>1
    <3>2. \A k \in DOMAIN o.fields : Word(g, n, o.fields[k])
      BY <1>6
    <3> QED
      BY <3>1, <3>2
  <2>2. CASE a \in DOMAIN m
    <3>1. n[a] = m[a] /\ ObjectOK(m[a])
      BY <1>2, <1>4, <2>2
    <3>2. \A k \in DOMAIN m[a].fields : Word(h, m, m[a].fields[k])
      BY <2>2 DEF Sound
    <3>3. \A k \in DOMAIN m[a].fields : Word(g, n, m[a].fields[k])
      BY <1>6, <3>2
    <3> QED
      BY <3>1, <3>3
  <2> QED
    BY <1>4, <2>1, <2>2
<1>9. DOMAIN n \subseteq Nat
  BY <1>1, <1>2, <1>4
<1> QED
  BY <1>4, <1>5, <1>6, <1>7, <1>8, <1>9 DEF Sound, top, n

\* The new object is placed behind the others, and its address is pushed.
LEMMA PlaceInv ==
  ASSUME Inv, pc \in {"alloc", "place"}, Fits, Place
  PROVE  Inv'
<1>1. /\ heap \in Chunk /\ Sound(heap, mem) /\ Rooted(heap, mem, stack, xroots, req)
      /\ stack \in Seq(Nat) /\ Types /\ Unflagged(mem)
      /\ req.kind \in Kinds /\ req.len \in Nat /\ (req.kind = "CLOSURE" => req.len > 0)
      /\ nextid \in 1..MaxId /\ req.used \in Nat /\ req.used <= Depth
      /\ Depth - req.used < VSTACK_SIZE - 1
  <2>1. Types /\ Requested /\ Quiet
    BY DEF Inv
  <2> QED
    BY <2>1, BoundsAssumption DEF Types, Requested, Quiet
<1>2. PICK o : o = [kind |-> req.kind, len |-> req.len, id |-> nextid, fields |-> Contents,
                    fwd |-> 0, marked |-> FALSE, enqueued |-> FALSE]
  OBVIOUS
<1>3. /\ Contents \in Seq(Nat) /\ Len(Contents) = FieldCount(req.kind, req.len)
      /\ \A k \in DOMAIN Contents : Word(heap, mem, Contents[k])
      /\ \A k \in 1..req.reads : IsObj(heap, xroots[k])
  BY ContentsType
<1>4. /\ o \in Object /\ o.id = nextid /\ o.fields = Contents
      /\ o.kind = req.kind /\ o.len = req.len /\ ~o.marked /\ ~o.enqueued
  BY <1>1, <1>2, <1>3 DEF Object
<1>5. ObjectOK(o) /\ Size(o) = SizeOf(req.kind, req.len)
  BY <1>1, <1>3, <1>4 DEF ObjectOK, Size
<1>6. /\ mem' = [i \in DOMAIN mem \cup {heap.current} |-> IF i = heap.current THEN o ELSE mem[i]]
      /\ heap' = [heap EXCEPT !.current = @ + SizeOf(req.kind, req.len)]
      /\ stack' = Append(Lower(req.used), Content(heap, heap.current))
      /\ xroots' = <<>> /\ nextid' = nextid + 1 /\ pc' = "run" /\ req' = Idle
  BY <1>2, <1>3 DEF Place
<1>7. Size(o) \in Nat
  BY <1>5, ObjectType
<1>8. /\ heap' \in Chunk /\ heap'.begin = heap.begin
      /\ heap'.current = heap.current + Size(o) /\ heap'.current <= heap'.size
  <2>1. heap.begin \in Bases /\ heap.size \in Nat /\ heap.current \in Nat
    BY <1>1 DEF Chunk
  <2>2. heap' = [begin |-> heap.begin, size |-> heap.size, current |-> heap.current + Size(o)]
    BY <1>1, <1>5, <1>6 DEF Chunk
  <2>3. heap.current + Size(o) <= heap.size
    BY <1>5 DEF Fits
  <2> QED
    BY <1>7, <2>1, <2>2, <2>3 DEF Chunk
<1>9. /\ Sound(heap', mem')
      /\ \A w : Word(heap, mem, w) => Word(heap', mem', w)
      /\ heap.current \in DOMAIN mem'
      /\ Content(heap', heap.current) = Content(heap, heap.current)
  <2>1. \A k \in DOMAIN o.fields : Word(heap, mem, o.fields[k])
    BY <1>3, <1>4
  <2>2. \A a \in DOMAIN mem : mem[a].id < o.id
    BY <1>1, <1>4 DEF Types
  <2>3. mem' = Extended(mem, heap.current, o)
    BY <1>6 DEF Extended
  <2>5. PICK g \in Chunk : g = heap'
    BY <1>8
  <2>6. g.begin = heap.begin /\ g.current = heap.current + Size(o)
    BY <1>8, <2>5
  <2> QED
    BY <1>1, <1>5, <2>1, <2>2, <2>3, <2>5, <2>6, SoundExtended
<1>10. \A a \in DOMAIN mem' : mem'[a] = o \/ (a \in DOMAIN mem /\ mem'[a] = mem[a])
  BY <1>6
<1>11. /\ stack' \in Seq(Nat) /\ Len(stack') < VSTACK_SIZE
       /\ \A k \in DOMAIN stack' : Word(heap', mem', stack'[k])
  <2>1. PICK low \in Seq(Nat) : low = Lower(req.used)
    BY <1>1, LowerType
  <2>2. /\ Len(low) = Depth - req.used
        /\ \A k \in 1..Depth - req.used : k \in DOMAIN stack /\ low[k] = stack[k]
    BY <1>1, <2>1, LowerType
  <2>3. PICK w \in Nat : w = Content(heap, heap.current) /\ Word(heap', mem', w)
    <3>1. heap.current \in Nat
      BY <1>1 DEF Chunk
    <3>2. Content(heap, heap.current) \in Nat
      BY <1>1, <3>1, Address
    <3>3. Word(heap', mem', Content(heap, heap.current))
      BY <1>9 DEF Word
    <3> QED
      BY <3>2, <3>3
  <2>4. /\ stack' \in Seq(Nat) /\ Len(stack') = Len(low) + 1
        /\ DOMAIN stack' = 1..Len(low) + 1
        /\ \A k \in 1..Len(low) : stack'[k] = low[k]
        /\ stack'[Len(low) + 1] = w
    BY <1>6, <2>1, <2>3, Appended
  <2>5. Len(stack') < VSTACK_SIZE
    BY <1>1, <2>2, <2>4, BoundsAssumption
  <2>6. ASSUME NEW k \in DOMAIN stack'
        PROVE  Word(heap', mem', stack'[k])
    <3>1. CASE k = Len(low) + 1
      BY <2>3, <2>4, <3>1
    <3>2. CASE k \in 1..Len(low)
      <4>1. k \in DOMAIN stack /\ stack'[k] = stack[k]
        BY <2>2, <2>4, <3>2
      <4>2. Word(heap, mem, stack[k])
        BY <1>1, <4>1 DEF Rooted
      <4> QED
        BY <1>9, <4>1, <4>2
    <3> QED
      BY <2>4, <3>1, <3>2
  <2> QED
    BY <2>4, <2>5, <2>6
<1>12. Types'
  <2>1. DOMAIN mem' \subseteq Nat /\ \A a \in DOMAIN mem' : ObjectOK(mem'[a])
    BY <1>9 DEF Sound
  <2>2. xroots' \in Seq(Nat)
    BY <1>6
  <2>3. nextid' \in 1..MaxId + 1
    BY <1>1, <1>6, BoundsAssumption
  <2>4. \A a \in DOMAIN mem' : mem'[a].id < nextid'
    <3>1. \A a \in DOMAIN mem : mem[a].id < nextid + 1
      BY <1>1, ObjectType DEF Types
    <3> QED
      BY <1>1, <1>4, <1>6, <1>10, <3>1
  <2> QED
    BY <1>6, <1>8, <1>11, <2>1, <2>2, <2>3, <2>4 DEF Types, Depth
<1>13. Requested'
  BY <1>6 DEF Requested
<1>14. Rooted(heap, mem, stack, xroots, req)'
  <2>1. DOMAIN xroots' = {} /\ \A k \in 1..req'.reads : FALSE
    BY <1>6 DEF Idle
  <2> QED
    BY <1>11, <2>1 DEF Rooted, Word
<1>15. Unflagged(mem)'
  BY <1>1, <1>4, <1>10 DEF Unflagged
<1>16. Quiet'
  BY <1>6, <1>9, <1>14, <1>15 DEF Quiet
<1> QED
  BY <1>6, <1>12, <1>13, <1>16 DEF Inv, Marking, Locating, Moving, Compacted

\* A second attempt finds the room that the collection made: alloc_* never
\* uses a NULL.
LEMMA AllocInv ==
  ASSUME Inv, AllocOnExistingHeap \/ AllocAfterGC
  PROVE  Inv'
<1>1. pc \in {"alloc", "place"}
  BY DEF AllocOnExistingHeap, AllocAfterGC
<1>2. pc = "place" => Fits
  BY DEF Inv, Quiet
<1>3. Fits /\ Place
  BY <1>2 DEF AllocOnExistingHeap, AllocAfterGC
<1> QED
  BY <1>1, <1>3, PlaceInv

\* Nothing is marked or queued when a collection starts.
LEMMA StartInv ==
  ASSUME Inv, StartGC
  PROVE  Inv'
<1>1. /\ pc = "alloc" /\ pc' = "mark" /\ gc' = NoGC
      /\ UNCHANGED <<heap, mem, stack, xroots, nextid, req>>
  BY DEF StartGC
<1>2. /\ Types /\ Requested /\ Sound(heap, mem) /\ Rooted(heap, mem, stack, xroots, req)
      /\ Unflagged(mem)
  BY <1>1 DEF Inv, Quiet
<1>3. Types' /\ Requested'
  BY <1>1, <1>2 DEF Types, Requested, Depth
<1>4. Quiet'
  BY <1>1, <1>2 DEF Quiet, Sound, Rooted, Word
<1>5. /\ gc'.root = 1 /\ gc'.head = 0 /\ gc'.tail = 0 /\ gc'.cur = -1 /\ gc'.fld = 1
      /\ gc'.scan = 0 /\ gc'.free = 0 /\ gc'.old = <<>>
      /\ gc' \in Registers({<<>>})
  BY <1>1 DEF NoGC, Registers
<1>6. MarkedIn(mem) = {} /\ SeenIn(mem) = {}
  BY <1>2 DEF MarkedIn, SeenIn, Unflagged
<1>7. Queue(heap, mem, 0, 0)
  <2>1. CellsIn(mem, 0, 0) = {}
    BY <1>2 DEF CellsIn, Types
  <2>2. Cardinality(CellsIn(mem, 0, 0)) <= Cardinality(SeenIn(mem))
    BY <1>6, <2>1, FS_EmptySet
  <2>3. 0 \in DOMAIN mem \cup {heap.current}
    BY <1>2 DEF Sound, Tiles
  <2> QED
    BY <1>2, <2>1, <2>2, <2>3 DEF Queue, Unflagged
<1>8. Followed(heap, mem, Roots', 1, -1, 1)
  <2>1. \A k \in DOMAIN Roots' : ~(k < 1)
    BY <1>1, <1>2 DEF Types, Roots, Reverse
  <2> QED
    BY <1>6, <2>1 DEF Followed
<1>9. OnlyReached(heap, mem, stack, xroots, SeenIn(mem))
  BY <1>6 DEF OnlyReached
<1>10. Marking'
  BY <1>1, <1>5, <1>7, <1>8, <1>9 DEF Marking
<1> QED
  BY <1>1, <1>3, <1>4, <1>10 DEF Inv, Locating, Moving, Compacted

-----------------------------------------------------------------------------
(***************************************************************************)
(* mark_phase.                                                             *)
(***************************************************************************)

\* The words of two sequences one after the other.
LEMMA Joined ==
  ASSUME NEW s \in Seq(Nat), NEW t \in Seq(Nat)
  PROVE  /\ s \o t \in Seq(Nat) /\ Len(s \o t) = Len(s) + Len(t)
         /\ DOMAIN (s \o t) = 1..Len(s) + Len(t)
         /\ \A k \in 1..Len(s) : (s \o t)[k] = s[k]
         /\ \A k \in 1..Len(t) : (s \o t)[Len(s) + k] = t[k]
<1>1. s \o t \in Seq(Nat) /\ Len(s \o t) = Len(s) + Len(t)
  OBVIOUS
<1>2. \A k \in 1..Len(s) : (s \o t)[k] = s[k]
  OBVIOUS
<1>3. ASSUME NEW k \in 1..Len(t)
      PROVE  (s \o t)[Len(s) + k] = t[k]
  OBVIOUS
<1> QED
  BY <1>1, <1>2, <1>3

\* The roots are the words of the stack and the extra roots.
LEMMA RootsAre ==
  ASSUME Types
  PROVE  /\ Len(Roots) \in Nat /\ DOMAIN Roots = 1..Len(Roots)
         /\ \A k \in DOMAIN Roots : Roots[k] \in Nat
              /\ \/ \E j \in DOMAIN stack : Roots[k] = stack[j]
                 \/ \E j \in DOMAIN xroots : Roots[k] = xroots[j]
         /\ \A j \in DOMAIN stack : \E k \in DOMAIN Roots : Roots[k] = stack[j]
         /\ \A j \in DOMAIN xroots : \E k \in DOMAIN Roots : Roots[k] = xroots[j]
<1>1. stack \in Seq(Nat) /\ xroots \in Seq(Nat)
  BY DEF Types
<1>2. PICK n \in Nat, x \in Nat : n = Len(stack) /\ x = Len(xroots)
  BY <1>1
<1>3. PICK rev : rev = Reverse(stack)
  OBVIOUS
<1>4. rev \in Seq(Nat) /\ Len(rev) = n /\ \A k \in 1..n : rev[k] = stack[n - k + 1]
  BY <1>1, <1>2, <1>3 DEF Reverse
<1>5. Roots = rev \o xroots
  BY <1>3 DEF Roots
<1>6. /\ Roots \in Seq(Nat) /\ Len(Roots) = n + x /\ DOMAIN Roots = 1..n + x
      /\ \A k \in 1..n : Roots[k] = rev[k]
      /\ \A k \in 1..x : Roots[n + k] = xroots[k]
  <2>1. /\ rev \o xroots \in Seq(Nat) /\ Len(rev \o xroots) = Len(rev) + Len(xroots)
        /\ DOMAIN (rev \o xroots) = 1..Len(rev) + Len(xroots)
        /\ \A k \in 1..Len(rev) : (rev \o xroots)[k] = rev[k]
        /\ \A k \in 1..Len(xroots) : (rev \o xroots)[Len(rev) + k] = xroots[k]
    BY <1>1, <1>4, Joined, Zenon
  <2> QED
    BY <1>2, <1>4, <1>5, <2>1, Zenon
<1>7. ASSUME NEW k \in DOMAIN Roots
      PROVE  /\ Roots[k] \in Nat
             /\ \/ \E j \in DOMAIN stack : Roots[k] = stack[j]
                \/ \E j \in DOMAIN xroots : Roots[k] = xroots[j]
  <2>1. CASE k \in 1..n
    <3>1. PICK j \in 1..n : j = n - k + 1
      <4> n - k + 1 \in 1..n
        BY <2>1
      <4> QED
        OBVIOUS
    <3>2. Roots[k] = rev[k] /\ rev[k] = stack[n - k + 1]
      BY <1>4, <1>6, <2>1
    <3>3. Roots[k] = stack[j] /\ j \in DOMAIN stack
      BY <1>1, <1>2, <3>1, <3>2
    <3> QED
      BY <1>1, <3>3
  <2>2. CASE k \in n + 1..n + x
    <3>1. PICK j \in 1..x : k = n + j
      <4>1. k - n \in 1..x /\ k = n + (k - n)
        BY <2>2
      <4> QED
        BY <4>1
    <3>2. Roots[k] = xroots[j] /\ j \in DOMAIN xroots
      BY <1>1, <1>2, <1>6, <3>1
    <3> QED
      BY <1>6, <3>2
  <2> QED
    BY <1>6, <2>1, <2>2
<1>8. ASSUME NEW j \in DOMAIN stack
      PROVE  \E k \in DOMAIN Roots : Roots[k] = stack[j]
  <2>1. PICK k \in 1..n : j = n - k + 1
    <3>1. n - j + 1 \in 1..n /\ j = n - (n - j + 1) + 1
      BY <1>1, <1>2
    <3> QED
      BY <3>1
  <2>2. k \in DOMAIN Roots /\ Roots[k] = stack[j]
    BY <1>4, <1>6, <2>1
  <2> QED
    BY <2>2
<1>9. ASSUME NEW j \in DOMAIN xroots
      PROVE  \E k \in DOMAIN Roots : Roots[k] = xroots[j]
  <2>1. j \in 1..x
    BY <1>1, <1>2
  <2>2. n + j \in DOMAIN Roots /\ Roots[n + j] = xroots[j]
    BY <1>6, <2>1
  <2> QED
    BY <2>2
<1>10. Len(Roots) \in Nat /\ DOMAIN Roots = 1..Len(Roots)
  BY <1>6
<1> QED
  BY <1>7, <1>8, <1>9, <1>10

\* n is m after queue_enqueue of the object at off in the cell at t
Enqueued(h, m, n, t, off) ==
  /\ SameShape(m, n)
  /\ \A a \in DOMAIN m :
       /\ n[a].fields = m[a].fields
       /\ n[a].marked = m[a].marked
       /\ n[a].enqueued = (m[a].enqueued \/ a = off)
       /\ n[a].fwd = IF a = t THEN Content(h, off) ELSE m[a].fwd

\* The queue has room: every cell up to tl was used for another object that
\* has been seen, and off has not.
LEMMA QueueHasRoom ==
  ASSUME NEW h \in Chunk, NEW m, Sound(h, m), NEW hd, NEW tl, Queue(h, m, hd, tl),
         NEW off \in DOMAIN m, off \notin SeenIn(m)
  PROVE  /\ tl \in DOMAIN m
         /\ IsFiniteSet(DOMAIN m)
<1>1. \A a \in DOMAIN m : a \in Nat /\ a + Size(m[a]) <= h.current /\ Size(m[a]) \in Nat
                          /\ Size(m[a]) >= 2
  BY ObjectType DEF Sound, Tiles
<1>2. h.current \in Nat
  BY DEF Chunk
<1>3. DOMAIN m \in SUBSET Nat /\ \A a \in DOMAIN m : a < h.current /\ 0 <= a /\ a <= h.current
  BY <1>1, <1>2
<1>4. IsFiniteSet(DOMAIN m)
  BY <1>2, <1>3, FS_BoundedSetOfNaturals
<1>5. ASSUME tl \notin DOMAIN m
      PROVE  FALSE
  <2>1. tl = h.current
    BY <1>5 DEF Queue
  <2>2. CellsIn(m, 0, tl) = DOMAIN m
    BY <1>3, <2>1 DEF CellsIn
  <2>3. SeenIn(m) \in SUBSET (DOMAIN m \ {off})
    BY DEF SeenIn
  <2>4. /\ IsFiniteSet(DOMAIN m \ {off})
        /\ Cardinality(DOMAIN m \ {off}) = Cardinality(DOMAIN m) - 1
    BY <1>4, FS_RemoveElement
  <2>5. Cardinality(SeenIn(m)) <= Cardinality(DOMAIN m) - 1
    BY <2>3, <2>4, FS_Subset
  <2>6. Cardinality(DOMAIN m) \in Nat /\ Cardinality(SeenIn(m)) \in Nat
    BY <1>4, <2>3, <2>4, FS_CardinalityType, FS_Subset
  <2>7. Cardinality(DOMAIN m) <= Cardinality(SeenIn(m))
    BY <2>2 DEF Queue
  <2> QED
    BY <2>5, <2>6, <2>7
<1> QED
  BY <1>4, <1>5

\* queue_enqueue of an object that has not been seen keeps the queue.
LEMMA EnqueueKeeps ==
  ASSUME NEW h \in Chunk, NEW m, Sound(h, m), NEW hd \in Nat, NEW tl \in Nat,
         Queue(h, m, hd, tl),
         NEW off \in DOMAIN m, off \notin SeenIn(m), NEW n, Enqueued(h, m, n, tl, off)
  PROVE  /\ SeenIn(n) = SeenIn(m) \cup {off} /\ MarkedIn(n) = MarkedIn(m)
         /\ Queue(h, n, hd, tl + Size(m[tl]))
<1>1. tl \in DOMAIN m /\ IsFiniteSet(DOMAIN m)
  BY QueueHasRoom
<1>2. /\ DOMAIN n = DOMAIN m
      /\ \A a \in DOMAIN m : /\ n[a].marked = m[a].marked
                             /\ n[a].enqueued = (m[a].enqueued \/ a = off)
                             /\ n[a].fwd = IF a = tl THEN Content(h, off) ELSE m[a].fwd
  BY DEF Enqueued, SameShape
<1>3. SeenIn(n) = SeenIn(m) \cup {off} /\ MarkedIn(n) = MarkedIn(m)
  BY <1>2 DEF SeenIn, MarkedIn
<1>4. \A a \in DOMAIN m : a \in Nat /\ Size(m[a]) \in Nat /\ Size(m[a]) >= 2
  BY ObjectType DEF Sound
<1> DEFINE nx == tl + Size(m[tl])
<1>5. nx \in Nat /\ tl < nx /\ nx \in DOMAIN m \cup {h.current}
      /\ \A c \in DOMAIN m : c < nx => c <= tl
  BY <1>1, <1>4 DEF Sound, Tiles
<1> HIDE DEF nx
<1>6. hd <= tl /\ \A lo \in Nat : lo <= tl => CellsIn(n, lo, nx) = CellsIn(m, lo, tl) \cup {tl}
  BY <1>1, <1>2, <1>4, <1>5 DEF CellsIn, Queue
<1>7. tl \notin CellsIn(m, hd, tl) /\ tl \notin CellsIn(m, 0, tl)
  BY DEF CellsIn
<1>8. CellsIn(m, hd, tl) \subseteq DOMAIN m
  BY DEF CellsIn
<1>9. \A c \in CellsIn(m, hd, tl) : n[c].fwd = m[c].fwd
  BY <1>2, <1>7, <1>8
<1>10. n[tl].fwd = Content(h, off)
  BY <1>1, <1>2
<1>11. \A c \in CellsIn(m, hd, tl) : m[c].fwd # Content(h, off)
  BY DEF Queue, SeenIn
<1>12. \A c \in CellsIn(n, hd, nx) : \E a \in DOMAIN n : n[c].fwd = Content(h, a)
  <2>1. \A c \in CellsIn(m, hd, tl) : \E a \in DOMAIN m : m[c].fwd = Content(h, a)
    BY DEF Queue
  <2> QED
    BY <1>2, <1>6, <1>9, <1>10, <2>1
<1>13. \A c, d \in CellsIn(n, hd, nx) : n[c].fwd = n[d].fwd => c = d
  <2>1. \A c, d \in CellsIn(m, hd, tl) : m[c].fwd = m[d].fwd => c = d
    BY DEF Queue
  <2> QED
    BY <1>6, <1>9, <1>10, <1>11, <2>1
<1>14. ASSUME NEW a \in DOMAIN n
       PROVE  /\ n[a].enqueued <=> \E c \in CellsIn(n, hd, nx) : n[c].fwd = Content(h, a)
              /\ ~(n[a].enqueued /\ n[a].marked)
  <2>1. a \in DOMAIN m /\ a \in Nat /\ off \in Nat
    BY <1>2, <1>4
  <2>2. /\ m[a].enqueued <=> \E c \in CellsIn(m, hd, tl) : m[c].fwd = Content(h, a)
        /\ ~(m[a].enqueued /\ m[a].marked)
    BY <2>1 DEF Queue
  <2>3. CASE a = off
    BY <1>2, <1>6, <1>10, <2>1, <2>3 DEF SeenIn
  <2>4. CASE a # off
    <3>1. Content(h, a) # Content(h, off)
      BY <2>1, <2>4, SameContent
    <3>2. n[a].enqueued = m[a].enqueued /\ n[a].marked = m[a].marked
      BY <1>2, <2>1, <2>4, ObjectType DEF Enqueued, SameShape
    <3> QED
      BY <1>6, <1>9, <1>10, <2>2, <3>1, <3>2
  <2> QED
    BY <2>3, <2>4
<1>15. Cardinality(CellsIn(n, 0, nx)) <= Cardinality(SeenIn(n))
  <2>1. CellsIn(m, 0, tl) \in SUBSET DOMAIN m /\ SeenIn(m) \in SUBSET DOMAIN m
    BY DEF CellsIn, SeenIn
  <2>2. IsFiniteSet(CellsIn(m, 0, tl)) /\ IsFiniteSet(SeenIn(m))
    BY <1>1, <2>1, FS_Subset
  <2>3. /\ Cardinality(CellsIn(m, 0, tl) \cup {tl}) = Cardinality(CellsIn(m, 0, tl)) + 1
        /\ Cardinality(SeenIn(m) \cup {off}) = Cardinality(SeenIn(m)) + 1
    BY <1>7, <2>2, FS_AddElement
  <2>4. Cardinality(CellsIn(m, 0, tl)) \in Nat /\ Cardinality(SeenIn(m)) \in Nat
    BY <2>2, FS_CardinalityType
  <2>5. Cardinality(CellsIn(m, 0, tl)) <= Cardinality(SeenIn(m))
    BY DEF Queue
  <2>6. CellsIn(n, 0, nx) = CellsIn(m, 0, tl) \cup {tl}
    BY <1>6
  <2>7. Cardinality(CellsIn(n, 0, nx)) = Cardinality(CellsIn(m, 0, tl)) + 1
    BY <2>3, <2>6
  <2>8. Cardinality(SeenIn(n)) = Cardinality(SeenIn(m)) + 1
    BY <1>3, <2>3
  <2> QED
    BY <2>4, <2>5, <2>7, <2>8
<1>16. hd \in DOMAIN n \cup {h.current} /\ hd <= nx
  BY <1>2, <1>5, <1>6 DEF Queue
<1>17. Queue(h, n, hd, nx)
  BY <1>2, <1>5, <1>12, <1>13, <1>14, <1>15, <1>16 DEF Queue
<1> QED
  BY <1>3, <1>17 DEF nx

\* queue_dequeue takes the object out of its cell, and mark_object marks it.
LEMMA DequeueKeeps ==
  ASSUME NEW h \in Chunk, NEW m, Sound(h, m), NEW hd \in Nat, NEW tl \in Nat,
         Queue(h, m, hd, tl), hd # tl, NEW off \in DOMAIN m, m[hd].fwd = Content(h, off),
         NEW n, SameShape(m, n),
         \A a \in DOMAIN m :
           /\ n[a].fwd = m[a].fwd
           /\ n[a].marked = (m[a].marked \/ a = off)
           /\ n[a].enqueued = (m[a].enqueued /\ a # off)
  PROVE  /\ hd \in DOMAIN m
         /\ SeenIn(n) = SeenIn(m) /\ MarkedIn(n) = MarkedIn(m) \cup {off}
         /\ off \in SeenIn(m)
         /\ Queue(h, n, hd + Size(m[hd]), tl)
<1>1. \A a \in DOMAIN m : a \in Nat /\ Size(m[a]) \in Nat /\ Size(m[a]) >= 2
                          /\ a + Size(m[a]) <= h.current
  BY ObjectType DEF Sound, Tiles
<1>2. hd \in DOMAIN m
  BY <1>1 DEF Queue, Chunk
<1>3. hd \in CellsIn(m, hd, tl)
  BY <1>2 DEF Queue, CellsIn
<1>4. m[off].enqueued
  BY <1>3 DEF Queue
<1>5. DOMAIN n = DOMAIN m
  BY DEF SameShape
<1>6. SeenIn(n) = SeenIn(m) /\ MarkedIn(n) = MarkedIn(m) \cup {off} /\ off \in SeenIn(m)
  BY <1>4, <1>5 DEF SeenIn, MarkedIn
<1> DEFINE nx == hd + Size(m[hd])
<1>7. /\ nx \in DOMAIN m \cup {h.current} /\ nx \in Nat /\ hd < nx
      /\ \A c \in DOMAIN m : hd < c => nx <= c
      /\ nx <= h.current
  BY <1>1, <1>2 DEF Sound, Tiles
<1> HIDE DEF nx
<1>8. nx <= tl
  BY <1>2, <1>7 DEF Queue
<1>9. CellsIn(n, nx, tl) = CellsIn(m, hd, tl) \ {hd} /\ CellsIn(n, 0, tl) = CellsIn(m, 0, tl)
  BY <1>1, <1>2, <1>5, <1>7 DEF CellsIn
<1>10. CellsIn(m, hd, tl) \subseteq DOMAIN m
  BY DEF CellsIn
<1>11. /\ \A c \in CellsIn(m, hd, tl) : \E a \in DOMAIN m : m[c].fwd = Content(h, a)
       /\ \A c, d \in CellsIn(m, hd, tl) : m[c].fwd = m[d].fwd => c = d
  BY DEF Queue
<1>12. /\ \A c \in CellsIn(n, nx, tl) : \E a \in DOMAIN n : n[c].fwd = Content(h, a)
       /\ \A c, d \in CellsIn(n, nx, tl) : n[c].fwd = n[d].fwd => c = d
  BY <1>5, <1>9, <1>10, <1>11
<1>13. ASSUME NEW a \in DOMAIN n
       PROVE  /\ n[a].enqueued <=> \E c \in CellsIn(n, nx, tl) : n[c].fwd = Content(h, a)
              /\ ~(n[a].enqueued /\ n[a].marked)
  <2>1. a \in DOMAIN m /\ a \in Nat /\ off \in Nat
    BY <1>1, <1>5
  <2>2. /\ m[a].enqueued <=> \E c \in CellsIn(m, hd, tl) : m[c].fwd = Content(h, a)
        /\ ~(m[a].enqueued /\ m[a].marked)
    BY <2>1 DEF Queue
  <2>3. CASE a = off
    BY <1>3, <1>9, <1>10, <1>11, <2>1, <2>3
  <2>4. CASE a # off
    <3>1. Content(h, a) # Content(h, off)
      BY <2>1, <2>4, SameContent
    <3>2. n[a].enqueued <=> m[a].enqueued
      BY <2>1, <2>4
    <3>3. n[a].marked <=> m[a].marked
      BY <2>1, <2>4
    <3> QED
      BY <1>9, <1>10, <2>2, <3>1, <3>2, <3>3
  <2> QED
    BY <2>3, <2>4
<1>14. Queue(h, n, nx, tl)
  BY <1>5, <1>6, <1>7, <1>8, <1>9, <1>12, <1>13 DEF Queue
<1> QED
  BY <1>2, <1>6, <1>14 DEF nx

\* A queue that is empty may start again at the first cell.
LEMMA QueueRestarts ==
  ASSUME NEW h \in Chunk, NEW m, Sound(h, m), NEW hd \in Nat, Queue(h, m, hd, hd)
  PROVE  Queue(h, m, 0, 0)
<1>1. \A a \in DOMAIN m : a \in Nat /\ a + Size(m[a]) <= h.current /\ Size(m[a]) \in Nat
                          /\ Size(m[a]) >= 2
  BY ObjectType DEF Sound, Tiles
<1>2. CellsIn(m, hd, hd) = {} /\ CellsIn(m, 0, 0) = {}
  BY <1>1 DEF CellsIn
<1>3. 0 \in DOMAIN m \cup {h.current}
  BY DEF Sound, Tiles
<1>4. Cardinality(CellsIn(m, 0, 0)) <= Cardinality(SeenIn(m))
  <2>1. h.current \in Nat
    BY DEF Chunk
  <2>2. DOMAIN m \in SUBSET Nat /\ \A a \in DOMAIN m : a <= h.current
    BY <1>1, <2>1
  <2>3. IsFiniteSet(DOMAIN m)
    BY <2>1, <2>2, FS_BoundedSetOfNaturals
  <2>4. SeenIn(m) \in SUBSET DOMAIN m
    BY DEF SeenIn
  <2>5. Cardinality(SeenIn(m)) \in Nat
    BY <2>3, <2>4, FS_Subset, FS_CardinalityType
  <2>6. Cardinality(CellsIn(m, 0, 0)) = 0
    BY <1>2, FS_EmptySet
  <2> QED
    BY <2>5, <2>6
<1> QED
  BY <1>2, <1>3, <1>4 DEF Queue

\* What Inv says while mark runs.
LEMMA MarkState ==
  ASSUME Inv, pc = "mark"
  PROVE  /\ heap \in Chunk /\ Sound(heap, mem) /\ Rooted(heap, mem, stack, xroots, req)
         /\ Types /\ Requested
         /\ gc \in Registers({<<>>}) /\ gc.scan = 0 /\ gc.free = 0 /\ gc.root >= 1
         /\ gc.cur = -1 \/ (gc.cur \in MarkedIn(mem) /\ gc.fld >= 1)
         /\ Queue(heap, mem, gc.head, gc.tail)
         /\ Followed(heap, mem, Roots, gc.root, gc.cur, gc.fld)
         /\ OnlyReached(heap, mem, stack, xroots, SeenIn(mem))
         /\ \A a \in DOMAIN mem : ObjectOK(mem[a])
  BY DEF Inv, Types, Quiet, Marking

\* A root, or a field of an object, is followed to an object if it passes the
\* range test.
LEMMA Followable ==
  ASSUME Inv, pc = "mark", NEW w \in Nat, w = EXTERNAL \/ Word(heap, mem, w)
  PROVE  /\ is_valid_heap_pointer(w) => IsObj(heap, w)
         /\ is_valid_heap_pointer(w) =>
              /\ HeaderOf(heap, w) \in DOMAIN mem
              /\ w = Content(heap, HeaderOf(heap, w))
         /\ \A off \in DOMAIN mem : w = Content(heap, off) =>
              is_valid_heap_pointer(w) /\ HeaderOf(heap, w) = off
<1>1. heap \in Chunk /\ Sound(heap, mem)
  BY MarkState
<1>2. is_valid_heap_pointer(w) <=> ~Unboxed(w) /\ Within(heap, w)
  BY DEF is_valid_heap_pointer
<1>3. \A off \in DOMAIN mem : w = Content(heap, off) => HeaderOf(heap, w) = off
  BY <1>1, Address DEF Sound
<1> QED
  BY <1>1, <1>2, <1>3, WordIs DEF IsObj

\* A root is a word, and what it names is among the targets of the roots.
LEMMA RootWord ==
  ASSUME Inv, pc = "mark", NEW k \in DOMAIN Roots
  PROVE  /\ Roots[k] \in Nat
         /\ Roots[k] = EXTERNAL \/ Word(heap, mem, Roots[k])
         /\ \A off \in DOMAIN mem : Roots[k] = Content(heap, off) =>
              off \in Targets(heap, mem, stack) \cup Targets(heap, mem, xroots)
  BY MarkState, RootsAre DEF Rooted, Targets

\* A step of mark that keeps what the invariant says of the marking.
LEMMA MarkStepInv ==
  ASSUME Inv, pc = "mark", UNCHANGED <<heap, stack, xroots, nextid, pc, req>>,
         SameShape(mem, mem'), \A a \in DOMAIN mem : mem'[a].fields = mem[a].fields,
         gc' \in Registers({<<>>}), gc'.scan = 0, gc'.free = 0, gc'.root >= 1,
         gc'.cur = -1 \/ (gc'.cur \in MarkedIn(mem') /\ gc'.fld >= 1),
         Queue(heap, mem', gc'.head, gc'.tail),
         Followed(heap, mem', Roots, gc'.root, gc'.cur, gc'.fld),
         OnlyReached(heap, mem, stack, xroots, SeenIn(mem'))
  PROVE  Inv'
<1>1. Types /\ Requested /\ Sound(heap, mem) /\ Rooted(heap, mem, stack, xroots, req)
  BY MarkState
<1>2. DOMAIN mem' = DOMAIN mem /\ \A a \in DOMAIN mem' : ObjectOK(mem'[a]) /\ mem'[a].id < nextid
  BY <1>1 DEF SameShape, Types
<1>3. Types'
  BY <1>1, <1>2 DEF Types, Depth
<1>4. Requested'
  BY <1>1 DEF Requested, Depth
<1>5. Sound(heap, mem')
  <2>1. \A a \in DOMAIN mem : \A k \in DOMAIN mem'[a].fields : Word(heap, mem, mem'[a].fields[k])
    BY <1>1 DEF Sound
  <2> QED
    BY <1>1, <2>1, SoundKept
<1>6. Rooted(heap, mem', stack, xroots, req)
  BY <1>1, ShapesKept
<1>7. Quiet'
  BY <1>5, <1>6 DEF Quiet
<1>8. OnlyReached(heap, mem', stack, xroots, SeenIn(mem'))
  BY ReachKept
<1>9. Roots' = Roots
  BY DEF Roots
<1>10. Marking'
  BY <1>8, <1>9 DEF Marking
<1> QED
  BY <1>3, <1>4, <1>7, <1>10 DEF Inv, Locating, Moving, Compacted

\* The two writes of queue_enqueue.
LEMMA EnqueueWrites ==
  ASSUME Inv, pc = "mark", NEW t \in DOMAIN mem, NEW off \in DOMAIN mem,
         mem' = [mem EXCEPT ![t].fwd = Content(heap, off), ![off].enqueued = TRUE]
  PROVE  Enqueued(heap, mem, mem', t, off)
<1>1. /\ \A a \in DOMAIN mem : ObjectOK(mem[a]) /\ a \in Nat
      /\ heap \in Chunk
  BY MarkState DEF Types
<1>2. Content(heap, off) \in Nat
  BY <1>1, Address
<1>3. DOMAIN mem' = DOMAIN mem
  OBVIOUS
<1>4. ASSUME NEW a \in DOMAIN mem
      PROVE  /\ ObjectOK(mem'[a])
             /\ mem'[a].kind = mem[a].kind /\ mem'[a].len = mem[a].len /\ mem'[a].id = mem[a].id
             /\ mem'[a].fields = mem[a].fields
             /\ mem'[a].marked = mem[a].marked
             /\ mem'[a].enqueued = (mem[a].enqueued \/ a = off)
             /\ mem'[a].fwd = IF a = t THEN Content(heap, off) ELSE mem[a].fwd
  <2>1. PICK o \in Object : o = mem[a]
    BY <1>1 DEF ObjectOK
  <2>2. mem'[a] = [o EXCEPT !.fwd = IF a = t THEN Content(heap, off) ELSE o.fwd,
                            !.enqueued = o.enqueued \/ a = off]
    BY <2>1 DEF Object
  <2>3. ObjectOK(o)
    BY <1>1, <2>1
  <2>4. mem'[a] \in Object
    BY <1>2, <2>2 DEF Object
  <2> QED
    BY <2>1, <2>2, <2>3, <2>4 DEF Object, ObjectOK
<1> QED
  BY <1>1, <1>3, <1>4 DEF Enqueued, SameShape

\* What a word of the roots, or of an object that they reach, names is reached.
LEMMA ReachGrows ==
  ASSUME NEW h, NEW m, NEW st, NEW xr, NEW S, OnlyReached(h, m, st, xr, S), NEW off,
         \/ off \in Targets(h, m, st) \cup Targets(h, m, xr)
         \/ \E a \in S : off \in Targets(h, m, m[a].fields)
  PROVE  OnlyReached(h, m, st, xr, S \cup {off})
<1> SUFFICES ASSUME NEW T \in SUBSET DOMAIN m, Holds(h, m, st, xr, T)
             PROVE  S \cup {off} \subseteq T
  BY DEF OnlyReached
<1>1. S \subseteq T
  BY DEF OnlyReached
<1>2. /\ Targets(h, m, st) \cup Targets(h, m, xr) \subseteq T
      /\ \A a \in T : Targets(h, m, m[a].fields) \subseteq T
  BY DEF Holds, ClosedAt
<1> QED
  BY <1>1, <1>2

\* Followed, with another set of objects that count as seen
FollowedTo(m, S, root, cur, fld) ==
  /\ \A k \in DOMAIN Roots, off \in DOMAIN m :
       k < root /\ Roots[k] = Content(heap, off) => off \in S
  /\ \A a \in MarkedIn(m), off \in DOMAIN m : \A k \in DOMAIN m[a].fields :
       (a = cur => k < fld) /\ m[a].fields[k] = Content(heap, off) => off \in S

\* Followed counts the marked and the queued objects as seen.
LEMMA FollowedIs ==
  ASSUME NEW m, NEW root, NEW cur, NEW fld
  PROVE  Followed(heap, m, Roots, root, cur, fld) <=> FollowedTo(m, SeenIn(m), root, cur, fld)
  BY DEF Followed, FollowedTo

\* A step of mark that only moves its registers.
LEMMA MarkGoesOn ==
  ASSUME Inv, pc = "mark", NEW g \in Registers({<<>>}), GCStep(g),
         g.scan = 0, g.free = 0, g.root >= 1,
         g.cur = -1 \/ (g.cur \in MarkedIn(mem) /\ g.fld >= 1),
         Queue(heap, mem, g.head, g.tail),
         FollowedTo(mem, SeenIn(mem), g.root, g.cur, g.fld)
  PROVE  Inv'
<1>1. gc' = g /\ mem' = mem /\ UNCHANGED <<heap, stack, xroots, nextid, pc, req>>
  BY DEF GCStep
<1>2. \A a \in DOMAIN mem : ObjectOK(mem[a])
  BY MarkState
<1>3. SameShape(mem, mem') /\ \A a \in DOMAIN mem : mem'[a].fields = mem[a].fields
  BY <1>1, <1>2 DEF SameShape
<1>4. OnlyReached(heap, mem, stack, xroots, SeenIn(mem))
  BY MarkState
<1>5. Followed(heap, mem, Roots, g.root, g.cur, g.fld)
  BY FollowedIs
<1> QED
  BY <1>1, <1>3, <1>4, <1>5, MarkStepInv

\* A step of mark that finds an object it has not seen.
LEMMA MarkFinds ==
  ASSUME Inv, pc = "mark", NEW off \in DOMAIN mem, off \notin SeenIn(mem),
         NEW g \in Registers({<<>>}), NEW t \in Nat,
         Enqueue(t, Content(heap, off), g),
         g.scan = 0, g.free = 0, g.root >= 1,
         g.cur = -1 \/ (g.cur \in MarkedIn(mem) /\ g.fld >= 1),
         Queue(heap, mem, g.head, t),
         FollowedTo(mem, SeenIn(mem) \cup {off}, g.root, g.cur, g.fld),
         \/ off \in Targets(heap, mem, stack) \cup Targets(heap, mem, xroots)
         \/ \E a \in SeenIn(mem) : off \in Targets(heap, mem, mem[a].fields)
  PROVE  Inv'
<1>1. /\ heap \in Chunk /\ Sound(heap, mem)
      /\ OnlyReached(heap, mem, stack, xroots, SeenIn(mem))
      /\ \A a \in DOMAIN mem : ObjectOK(mem[a]) /\ a \in Nat
  BY MarkState DEF Types
<1>2. t \in DOMAIN mem
  BY <1>1, QueueHasRoom
<1>3. HeaderOf(heap, Content(heap, off)) = off
  BY <1>1, Address
<1>4. /\ mem' = [mem EXCEPT ![t].fwd = Content(heap, off), ![off].enqueued = TRUE]
      /\ gc' = [g EXCEPT !.tail = t + ObjSize(t)]
      /\ UNCHANGED <<heap, stack, xroots, nextid, pc, req>>
  BY <1>2, <1>3 DEF Enqueue
<1>5. Enqueued(heap, mem, mem', t, off)
  BY <1>2, <1>4, EnqueueWrites
<1>6. PICK n : n = mem'
  OBVIOUS
<1>7. ObjSize(t) = Size(mem[t]) /\ ObjSize(t) \in Nat
  BY <1>1, <1>2, ObjectType DEF ObjSize, Size
<1>8. /\ gc' \in Registers({<<>>}) /\ gc'.tail = t + Size(mem[t])
      /\ gc'.root = g.root /\ gc'.head = g.head /\ gc'.cur = g.cur /\ gc'.fld = g.fld
      /\ gc'.scan = g.scan /\ gc'.free = g.free
  BY <1>4, <1>7 DEF Registers
<1>9. /\ SeenIn(n) = SeenIn(mem) \cup {off} /\ MarkedIn(n) = MarkedIn(mem)
      /\ Queue(heap, n, g.head, t + Size(mem[t]))
  <2>1. g.head \in Nat
    BY DEF Registers
  <2> QED
    BY <1>1, <1>5, <1>6, <2>1, EnqueueKeeps
<1>10. SameShape(mem, n) /\ \A a \in DOMAIN mem : n[a].fields = mem[a].fields
  BY <1>5, <1>6 DEF Enqueued
<1>11. Followed(heap, n, Roots, g.root, g.cur, g.fld)
  <2>1. DOMAIN n = DOMAIN mem /\ MarkedIn(mem) \subseteq DOMAIN mem
    BY <1>10 DEF SameShape, MarkedIn
  <2>2. FollowedTo(n, SeenIn(mem) \cup {off}, g.root, g.cur, g.fld)
    BY <1>9, <1>10, <2>1 DEF FollowedTo
  <2> QED
    BY <1>9, <2>2, FollowedIs
<1>12. OnlyReached(heap, mem, stack, xroots, SeenIn(n))
  <2>1. PICK S : S = SeenIn(mem)
    OBVIOUS
  <2>2. OnlyReached(heap, mem, stack, xroots, S \cup {off})
    BY <1>1, <2>1, ReachGrows, Zenon
  <2> QED
    BY <1>9, <2>1, <2>2
<1> QED
  BY <1>4, <1>6, <1>8, <1>9, <1>10, <1>11, <1>12, MarkStepInv

\* With an empty queue no object is in it, and it may start again.
LEMMA EmptyQueue ==
  ASSUME Inv, pc = "mark", gc.head = gc.tail
  PROVE  /\ \A off \in DOMAIN mem : ~mem[off].enqueued
         /\ Queue(heap, mem, 0, 0)
<1>1. heap \in Chunk /\ Sound(heap, mem) /\ gc.head \in Nat
      /\ Queue(heap, mem, gc.head, gc.head)
  BY MarkState DEF Registers
<1>2. CellsIn(mem, gc.head, gc.head) = {}
  <2>1. DOMAIN mem \subseteq Nat
    BY <1>1 DEF Sound
  <2> QED
    BY <1>1, <2>1 DEF CellsIn
<1>3. \A off \in DOMAIN mem : ~mem[off].enqueued
  BY <1>1, <1>2 DEF Queue
<1> QED
  BY <1>1, <1>3, QueueRestarts

\* A root is followed once, when no object is in the queue.
LEMMA MarkRootInv ==
  ASSUME Inv, MarkRoot
  PROVE  Inv'
<1>1. /\ pc = "mark" /\ gc.head = gc.tail /\ gc.cur = -1 /\ gc.root <= Len(Roots)
  BY DEF MarkRoot, QueueEmpty
<1>2. /\ gc \in Registers({<<>>}) /\ gc.scan = 0 /\ gc.free = 0 /\ gc.root >= 1
      /\ heap \in Chunk /\ Types
      /\ Followed(heap, mem, Roots, gc.root, gc.cur, gc.fld)
  BY <1>1, MarkState
<1>3. gc.root \in Nat /\ gc.root \in DOMAIN Roots
  BY <1>1, <1>2, RootsAre DEF Registers
<1>4. PICK w \in Nat : w = Roots[gc.root]
  BY <1>1, <1>3, RootWord
<1>5. /\ w = EXTERNAL \/ Word(heap, mem, w)
      /\ \A off \in DOMAIN mem : w = Content(heap, off) =>
           off \in Targets(heap, mem, stack) \cup Targets(heap, mem, xroots)
  BY <1>1, <1>3, <1>4, RootWord
<1>6. PICK g : g = [gc EXCEPT !.root = @ + 1, !.head = 0, !.tail = 0]
  OBVIOUS
<1>7. /\ g \in Registers({<<>>}) /\ g.root = gc.root + 1 /\ g.root >= 1 /\ g.head = 0 /\ g.tail = 0
      /\ g.cur = -1 /\ g.fld = gc.fld /\ g.scan = 0 /\ g.free = 0
  <2>1. gc.root \in Nat /\ gc.fld \in Nat /\ gc.old = <<>>
    BY <1>2 DEF Registers
  <2>2. g = [root |-> gc.root + 1, head |-> 0, tail |-> 0, cur |-> -1, fld |-> gc.fld,
             scan |-> 0, free |-> 0, old |-> <<>>]
    BY <1>1, <1>2, <1>6, <2>1 DEF Registers
  <2>3. gc.root + 1 \in Nat /\ gc.root + 1 >= 1
    BY <2>1
  <2> QED
    BY <2>1, <2>2, <2>3 DEF Registers
<1>8. Queue(heap, mem, 0, 0) /\ \A off \in DOMAIN mem : ~mem[off].enqueued
  BY <1>1, EmptyQueue
<1>9. is_valid_heap_pointer(w) =>
        /\ IsObj(heap, w) /\ HeaderOf(heap, w) \in DOMAIN mem
        /\ w = Content(heap, HeaderOf(heap, w))
  BY <1>1, <1>5, Followable
<1>10. \A off \in DOMAIN mem :
         w = Content(heap, off) => is_valid_heap_pointer(w) /\ HeaderOf(heap, w) = off
  BY <1>1, <1>5, Followable
<1>11. \A S : SeenIn(mem) \subseteq S
              /\ (\A off \in DOMAIN mem : w = Content(heap, off) => off \in S)
              => FollowedTo(mem, S, g.root, g.cur, g.fld)
  <2>1. FollowedTo(mem, SeenIn(mem), gc.root, gc.cur, gc.fld)
    BY <1>2, FollowedIs
  <2>2. \A k \in DOMAIN Roots : k < g.root => k < gc.root \/ k = gc.root
    BY <1>2, <1>3, <1>7, RootsAre
  <2> QED
    BY <1>1, <1>4, <1>7, <2>1, <2>2 DEF FollowedTo
<1>12. CASE ~is_valid_heap_pointer(w)
  <2>1. FollowedTo(mem, SeenIn(mem), g.root, g.cur, g.fld)
    BY <1>10, <1>11, <1>12
  <2>2. GCStep(g)
    BY <1>4, <1>6, <1>12 DEF MarkRoot
  <2> QED
    BY <1>1, <1>7, <1>8, <2>1, <2>2, MarkGoesOn
<1>13. CASE is_valid_heap_pointer(w) /\ mem[HeaderOf(heap, w)].marked
  <2>1. FollowedTo(mem, SeenIn(mem), g.root, g.cur, g.fld)
    BY <1>9, <1>10, <1>11, <1>13 DEF SeenIn
  <2>2. GCStep(g)
    BY <1>4, <1>6, <1>9, <1>13 DEF MarkRoot
  <2> QED
    BY <1>1, <1>7, <1>8, <2>1, <2>2, MarkGoesOn
<1>14. CASE is_valid_heap_pointer(w) /\ ~mem[HeaderOf(heap, w)].marked
  <2>1. PICK off \in DOMAIN mem : off = HeaderOf(heap, w) /\ w = Content(heap, off)
    BY <1>9, <1>14
  <2>2. off \notin SeenIn(mem)
    BY <1>8, <1>14, <2>1 DEF SeenIn
  <2>3. Enqueue(0, Content(heap, off), g)
    BY <1>4, <1>6, <1>9, <1>14, <2>1 DEF MarkRoot
  <2>4. FollowedTo(mem, SeenIn(mem) \cup {off}, g.root, g.cur, g.fld)
    BY <1>10, <1>11, <2>1
  <2>5. off \in Targets(heap, mem, stack) \cup Targets(heap, mem, xroots)
    BY <1>5, <2>1
  <2>6. Queue(heap, mem, g.head, 0)
    BY <1>7, <1>8
  <2> QED
    BY <1>1, <1>7, <2>2, <2>3, <2>4, <2>5, <2>6, MarkFinds
<1> QED
  BY <1>12, <1>13, <1>14

\* The object at the head of the queue is marked, and its fields are next.
LEMMA DequeueInv ==
  ASSUME Inv, Dequeue
  PROVE  Inv'
<1>1. pc = "mark" /\ gc.cur = -1 /\ gc.head # gc.tail
  BY DEF Dequeue
<1>2. /\ gc \in Registers({<<>>}) /\ gc.scan = 0 /\ gc.free = 0 /\ gc.root >= 1
      /\ heap \in Chunk /\ Sound(heap, mem)
      /\ Queue(heap, mem, gc.head, gc.tail)
      /\ Followed(heap, mem, Roots, gc.root, gc.cur, gc.fld)
      /\ OnlyReached(heap, mem, stack, xroots, SeenIn(mem))
      /\ \A a \in DOMAIN mem : ObjectOK(mem[a]) /\ a \in Nat
  BY <1>1, MarkState DEF Types
<1>3. gc.head \in Nat /\ gc.tail \in Nat
  BY <1>2 DEF Registers
<1>4. gc.head \in CellsIn(mem, gc.head, gc.tail) /\ gc.head \in DOMAIN mem
  <2>1. \A a \in DOMAIN mem : a + Size(mem[a]) <= heap.current /\ Size(mem[a]) \in Nat
                              /\ Size(mem[a]) >= 2
    BY <1>2, ObjectType DEF Sound, Tiles
  <2> QED
    BY <1>1, <1>2, <1>3, <2>1 DEF Queue, CellsIn, Chunk
<1>5. PICK off \in DOMAIN mem : mem[gc.head].fwd = Content(heap, off)
  BY <1>2, <1>4 DEF Queue
<1>6. IsObj(heap, mem[gc.head].fwd) /\ HeaderOf(heap, mem[gc.head].fwd) = off
  BY <1>2, <1>5, NamesObject DEF IsObj, Sound
<1>7. /\ mem' = [mem EXCEPT ![off].enqueued = FALSE, ![off].marked = TRUE]
      /\ gc' = [gc EXCEPT !.head = gc.head + ObjSize(gc.head), !.cur = off, !.fld = 1]
      /\ UNCHANGED <<heap, stack, xroots, nextid, pc, req>>
  BY <1>4, <1>6 DEF Dequeue, NextHead
<1>8. PICK n : n = mem'
  OBVIOUS
<1>9. /\ SameShape(mem, n) /\ \A a \in DOMAIN mem : n[a].fields = mem[a].fields
      /\ \A a \in DOMAIN mem :
           /\ n[a].fwd = mem[a].fwd
           /\ n[a].marked = (mem[a].marked \/ a = off)
           /\ n[a].enqueued = (mem[a].enqueued /\ a # off)
  <2>1. DOMAIN n = DOMAIN mem
    BY <1>7, <1>8
  <2>2. ASSUME NEW a \in DOMAIN mem
        PROVE  /\ n[a].kind = mem[a].kind /\ n[a].len = mem[a].len /\ n[a].id = mem[a].id
               /\ ObjectOK(n[a]) /\ n[a].fields = mem[a].fields
               /\ n[a].fwd = mem[a].fwd
               /\ n[a].marked = (mem[a].marked \/ a = off)
               /\ n[a].enqueued = (mem[a].enqueued /\ a # off)
    <3>1. PICK o \in Object : o = mem[a] /\ ObjectOK(o)
      BY <1>2 DEF ObjectOK
    <3>2. n[a] = [o EXCEPT !.enqueued = o.enqueued /\ a # off, !.marked = o.marked \/ a = off]
      BY <1>7, <1>8, <3>1 DEF Object
    <3>3. n[a] \in Object
      BY <3>2 DEF Object
    <3> QED
      BY <3>1, <3>2, <3>3 DEF Object, ObjectOK
  <2> QED
    BY <1>2, <2>1, <2>2 DEF SameShape
<1>10. /\ SeenIn(n) = SeenIn(mem) /\ MarkedIn(n) = MarkedIn(mem) \cup {off}
       /\ Queue(heap, n, gc.head + Size(mem[gc.head]), gc.tail)
  BY <1>1, <1>2, <1>3, <1>5, <1>9, DequeueKeeps
<1>11. ObjSize(gc.head) = Size(mem[gc.head]) /\ ObjSize(gc.head) \in Nat
  BY <1>2, <1>4, ObjectType DEF ObjSize, Size
<1>12. /\ gc' \in Registers({<<>>}) /\ gc'.head = gc.head + Size(mem[gc.head])
       /\ gc'.tail = gc.tail /\ gc'.root = gc.root /\ gc'.cur = off /\ gc'.fld = 1
       /\ gc'.scan = 0 /\ gc'.free = 0
  <2>1. gc.root \in Nat /\ gc.tail \in Nat /\ gc.old = <<>>
    BY <1>2 DEF Registers
  <2>2. PICK nx \in Nat : nx = gc.head + ObjSize(gc.head)
    BY <1>3, <1>11
  <2>3. gc' = [root |-> gc.root, head |-> nx, tail |-> gc.tail, cur |-> off, fld |-> 1,
               scan |-> 0, free |-> 0, old |-> <<>>]
    BY <1>2, <1>7, <2>1, <2>2 DEF Registers
  <2> QED
    BY <1>2, <1>11, <2>1, <2>2, <2>3 DEF Registers
<1>13. Followed(heap, n, Roots, gc.root, off, 1)
  <2>1. FollowedTo(mem, SeenIn(mem), gc.root, gc.cur, gc.fld)
    BY <1>2, FollowedIs
  <2>2. \A a \in DOMAIN mem : a # gc.cur /\ \A k \in DOMAIN mem[a].fields : ~(k < 1)
    BY <1>1, <1>2, ObjectType
  <2>3. MarkedIn(mem) \subseteq DOMAIN mem /\ DOMAIN n = DOMAIN mem
    BY <1>9 DEF MarkedIn, SameShape
  <2>4. FollowedTo(n, SeenIn(mem), gc.root, off, 1)
    BY <1>9, <1>10, <2>1, <2>2, <2>3 DEF FollowedTo
  <2> QED
    BY <1>10, <2>4, FollowedIs
<1>14. off \in MarkedIn(n)
  BY <1>10
<1> QED
  BY <1>1, <1>2, <1>7, <1>8, <1>9, <1>10, <1>12, <1>13, <1>14, MarkStepInv

\* A field of the object that mark_object has marked is followed.
LEMMA ScanFieldInv ==
  ASSUME Inv, ScanField
  PROVE  Inv'
<1>1. pc = "mark" /\ gc.cur # -1
  BY DEF ScanField
<1>2. /\ gc \in Registers({<<>>}) /\ gc.scan = 0 /\ gc.free = 0 /\ gc.root >= 1
      /\ gc.cur \in MarkedIn(mem) /\ gc.fld >= 1
      /\ heap \in Chunk /\ Sound(heap, mem)
      /\ Queue(heap, mem, gc.head, gc.tail)
      /\ \A a \in DOMAIN mem : ObjectOK(mem[a])
  BY <1>1, MarkState
<1>3. FollowedTo(mem, SeenIn(mem), gc.root, gc.cur, gc.fld)
  BY <1>1, MarkState, FollowedIs
<1>4. /\ gc.cur \in DOMAIN mem /\ gc.cur \in SeenIn(mem) /\ gc.fld \in Nat
      /\ gc.head \in Nat /\ gc.tail \in Nat /\ gc.root \in Nat
  BY <1>2 DEF MarkedIn, SeenIn, Registers
<1>5. /\ mem[gc.cur].fields \in Seq(Nat)
      /\ \A k \in DOMAIN mem[gc.cur].fields : Word(heap, mem, mem[gc.cur].fields[k])
  BY <1>2, <1>4, ObjectType DEF Sound
<1>6. CASE gc.fld > Len(mem[gc.cur].fields)
  <2>1. PICK g : g = [gc EXCEPT !.cur = -1]
    OBVIOUS
  <2>2. GCStep(g)
    BY <1>1, <1>6, <2>1 DEF ScanField
  <2>3. /\ g \in Registers({<<>>}) /\ g.cur = -1 /\ g.root = gc.root /\ g.fld = gc.fld
        /\ g.head = gc.head /\ g.tail = gc.tail /\ g.scan = 0 /\ g.free = 0
    BY <1>2, <2>1 DEF Registers
  <2>4. \A k \in DOMAIN mem[gc.cur].fields : k < gc.fld
    BY <1>4, <1>5, <1>6
  <2>5. FollowedTo(mem, SeenIn(mem), gc.root, -1, gc.fld)
    BY <1>3, <2>4 DEF FollowedTo
  <2> QED
    BY <1>1, <1>2, <2>2, <2>3, <2>5, MarkGoesOn
<1>7. CASE ~(gc.fld > Len(mem[gc.cur].fields))
  <2>1. gc.fld \in DOMAIN mem[gc.cur].fields
    BY <1>2, <1>4, <1>5, <1>7
  <2>2. PICK w \in Nat : w = mem[gc.cur].fields[gc.fld] /\ Word(heap, mem, w)
    BY <1>5, <2>1
  <2>3. PICK g : g = [gc EXCEPT !.fld = @ + 1]
    OBVIOUS
  <2>4. /\ g \in Registers({<<>>}) /\ g.cur = gc.cur /\ g.root = gc.root /\ g.fld = gc.fld + 1
        /\ g.head = gc.head /\ g.tail = gc.tail /\ g.scan = 0 /\ g.free = 0
        /\ g.fld >= 1
    BY <1>2, <1>4, <2>3 DEF Registers
  <2>5. is_valid_heap_pointer(w) =>
          /\ IsObj(heap, w) /\ HeaderOf(heap, w) \in DOMAIN mem
          /\ w = Content(heap, HeaderOf(heap, w))
    BY <1>1, <2>2, Followable
  <2>6. \A off \in DOMAIN mem :
          w = Content(heap, off) => is_valid_heap_pointer(w) /\ HeaderOf(heap, w) = off
    BY <1>1, <2>2, Followable
  <2>7. \A S : SeenIn(mem) \subseteq S
               /\ (\A off \in DOMAIN mem : w = Content(heap, off) => off \in S)
               => FollowedTo(mem, S, gc.root, gc.cur, gc.fld + 1)
    <3>1. \A k \in DOMAIN mem[gc.cur].fields : k < gc.fld + 1 => k < gc.fld \/ k = gc.fld
      BY <1>4, <1>5
    <3> QED
      BY <1>3, <2>2, <3>1 DEF FollowedTo
  <2>8. CASE ~is_valid_heap_pointer(w)
    <3>1. FollowedTo(mem, SeenIn(mem), gc.root, gc.cur, gc.fld + 1)
      BY <2>6, <2>7, <2>8
    <3>2. GCStep(g)
      BY <1>1, <1>7, <2>2, <2>3, <2>8 DEF ScanField
    <3> QED
      BY <1>1, <1>2, <2>4, <3>1, <3>2, MarkGoesOn
  <2>9. CASE is_valid_heap_pointer(w) /\ Seen(HeaderOf(heap, w))
    <3>1. FollowedTo(mem, SeenIn(mem), gc.root, gc.cur, gc.fld + 1)
      BY <2>5, <2>6, <2>7, <2>9 DEF SeenIn, Seen
    <3>2. GCStep(g)
      BY <1>1, <1>7, <2>2, <2>3, <2>5, <2>9 DEF ScanField
    <3> QED
      BY <1>1, <1>2, <2>4, <3>1, <3>2, MarkGoesOn
  <2>10. CASE is_valid_heap_pointer(w) /\ ~Seen(HeaderOf(heap, w))
    <3>1. PICK off \in DOMAIN mem : off = HeaderOf(heap, w) /\ w = Content(heap, off)
      BY <2>5, <2>10
    <3>2. off \notin SeenIn(mem)
      BY <2>10, <3>1 DEF SeenIn, Seen
    <3>3. Enqueue(gc.tail, Content(heap, off), g)
      BY <1>1, <1>7, <2>2, <2>3, <2>5, <2>10, <3>1 DEF ScanField
    <3>4. FollowedTo(mem, SeenIn(mem) \cup {off}, g.root, g.cur, g.fld)
      BY <2>4, <2>6, <2>7, <3>1
    <3>5. \E a \in SeenIn(mem) : off \in Targets(heap, mem, mem[a].fields)
      BY <1>4, <2>1, <2>2, <3>1 DEF Targets
    <3>6. Queue(heap, mem, g.head, gc.tail)
      BY <1>2, <2>4
    <3> QED
      BY <1>1, <1>2, <1>4, <2>4, <3>2, <3>3, <3>4, <3>5, <3>6, MarkFinds
  <2> QED
    BY <2>8, <2>9, <2>10
<1> QED
  BY <1>6, <1>7

\* With the queue empty and no root left, the marked objects are those that
\* the roots reach.
LEMMA EndMarkInv ==
  ASSUME Inv, EndMark
  PROVE  Inv'
<1>1. /\ pc = "mark" /\ gc.head = gc.tail /\ gc.cur = -1 /\ gc.root > Len(Roots)
      /\ pc' = "locate" /\ UNCHANGED <<heap, mem, stack, xroots, nextid, req, gc>>
  BY DEF EndMark, QueueEmpty
<1>2. /\ gc \in Registers({<<>>}) /\ gc.scan = 0 /\ gc.free = 0
      /\ heap \in Chunk /\ Sound(heap, mem) /\ Rooted(heap, mem, stack, xroots, req)
      /\ Types /\ Requested
      /\ OnlyReached(heap, mem, stack, xroots, SeenIn(mem))
      /\ \A a \in DOMAIN mem : ObjectOK(mem[a])
  BY <1>1, MarkState
<1>3. FollowedTo(mem, SeenIn(mem), gc.root, gc.cur, gc.fld)
  BY <1>1, MarkState, FollowedIs
<1>4. \A off \in DOMAIN mem : ~mem[off].enqueued
  BY <1>1, EmptyQueue
<1>5. SeenIn(mem) = MarkedIn(mem)
  BY <1>4 DEF SeenIn, MarkedIn
<1>6. Holds(heap, mem, stack, xroots, MarkedIn(mem))
  <2>1. \A k \in DOMAIN Roots : k < gc.root
    BY <1>1, <1>2, RootsAre DEF Registers
  <2>2. \A k \in DOMAIN Roots, off \in DOMAIN mem :
          Roots[k] = Content(heap, off) => off \in MarkedIn(mem)
    BY <1>3, <1>5, <2>1 DEF FollowedTo
  <2>3. Targets(heap, mem, stack) \cup Targets(heap, mem, xroots) \subseteq MarkedIn(mem)
    BY <1>2, <2>2, RootsAre DEF Targets
  <2>4. \A a \in MarkedIn(mem) : a # gc.cur
    BY <1>1, <1>2 DEF MarkedIn, Sound
  <2>5. ClosedAt(heap, mem, MarkedIn(mem))
    BY <1>3, <1>5, <2>4 DEF FollowedTo, ClosedAt, Targets
  <2> QED
    BY <2>3, <2>5 DEF Holds
<1>7. Placed(mem, 0) = {}
  BY <1>2 DEF Placed, MarkedIn, Sound
<1>8. gc.scan \in DOMAIN mem \cup {heap.current}
  BY <1>2 DEF Sound, Tiles
<1>9. Packed(mem, heap.begin, Placed(mem, 0), 0)
  BY <1>7 DEF Packed
<1>10. Locating'
  BY <1>1, <1>2, <1>4, <1>5, <1>6, <1>7, <1>8, <1>9 DEF Locating
<1>11. Types' /\ Requested'
  BY <1>1, <1>2 DEF Types, Requested, Depth
<1>12. Quiet'
  BY <1>1, <1>2 DEF Quiet
<1> QED
  BY <1>1, <1>10, <1>11, <1>12 DEF Inv, Marking, Moving, Compacted

-----------------------------------------------------------------------------
(***************************************************************************)
(* compute_locations.                                                      *)
(***************************************************************************)

\* n is m after the object at `at`, behind the objects A, got the place free:
\* nx is free now
Located(m, n, o, A, free, at, nx) ==
  /\ free <= at
  /\ \A a \in A : /\ a \in Nat /\ a < at
                  /\ n[a].fwd = m[a].fwd /\ Size(n[a]) = Size(m[a])
                  /\ Size(m[a]) \in Nat
  /\ n[at].fwd = o + W * free
  /\ Size(n[at]) \in Nat /\ nx = free + Size(n[at])

\* One more object, behind the others, that gets the next free place.
LEMMA PackedGrows ==
  ASSUME NEW m, NEW n, NEW o \in Nat, NEW A, NEW free \in Nat, NEW at \in Nat,
         Packed(m, o, A, free), NEW nx, Located(m, n, o, A, free, at, nx)
  PROVE  Packed(n, o, A \cup {at}, nx)
<1> USE DEF Located
<1>1. Home(n, o, at) = free
  <2>1. (o + 4 * free - o) \div 4 = free
    OBVIOUS
  <2> QED
    BY <2>1 DEF Home, W
<1>2. \A a \in A : Home(n, o, a) = Home(m, o, a)
  BY DEF Home
<1>3. ASSUME NEW a \in A
      PROVE  /\ Home(n, o, a) \in 0..a
             /\ n[a].fwd = o + W * Home(n, o, a)
             /\ Home(n, o, a) + Size(n[a]) <= free
             /\ \E b \in A \cup {at} : Home(n, o, b) = Home(n, o, a) + Size(n[a])
  <2>1. /\ Home(m, o, a) \in 0..a
        /\ m[a].fwd = o + W * Home(m, o, a)
        /\ Home(m, o, a) + Size(m[a]) <= free
        /\ \/ Home(m, o, a) + Size(m[a]) = free
           \/ \E b \in A : Home(m, o, b) = Home(m, o, a) + Size(m[a])
    BY DEF Packed
  <2> QED
    BY <1>1, <1>2, <2>1
<1>4. \A a \in A : Home(n, o, a) \in Nat /\ Home(n, o, a) + Size(n[a]) <= free + Size(n[at])
  BY <1>3
<1>5. ASSUME NEW a \in A \cup {at}, NEW b \in A \cup {at}, a < b
      PROVE  Home(n, o, a) + Size(n[a]) <= Home(n, o, b)
  <2>1. a \in A
    BY <1>5
  <2>2. CASE b = at
    BY <1>1, <1>3, <2>1, <2>2
  <2>3. CASE b \in A
    <3>1. Home(m, o, a) + Size(m[a]) <= Home(m, o, b)
      BY <1>5, <2>1, <2>3 DEF Packed
    <3> QED
      BY <1>2, <2>1, <2>3, <3>1
  <2> QED
    BY <1>5, <2>2, <2>3
<1>6. ASSUME NEW a \in A \cup {at}
      PROVE  LET next == Home(n, o, a) + Size(n[a]) IN
             /\ Home(n, o, a) \in 0..a
             /\ n[a].fwd = o + W * Home(n, o, a)
             /\ next <= free + Size(n[at])
             /\ next = free + Size(n[at]) \/ \E b \in A \cup {at} : Home(n, o, b) = next
  <2>1. CASE a = at
    BY <1>1, <2>1
  <2>2. CASE a \in A
    BY <1>3, <1>4, <2>2
  <2> QED
    BY <2>1, <2>2
<1>7. Packed(n, o, A \cup {at}, free + Size(n[at]))
  BY <1>5, <1>6 DEF Packed
<1> QED
  BY <1>1, <1>2, <1>7 DEF Located

\* What Inv says while compute_locations runs.
LEMMA LocateState ==
  ASSUME Inv, pc = "locate"
  PROVE  /\ heap \in Chunk /\ Sound(heap, mem) /\ Rooted(heap, mem, stack, xroots, req)
         /\ Types /\ Requested
         /\ gc \in Registers({<<>>})
         /\ gc.scan \in Nat /\ gc.free \in Nat
         /\ gc.scan \in DOMAIN mem \cup {heap.current}
         /\ gc.free <= gc.scan
         /\ \A a \in DOMAIN mem : ~mem[a].enqueued
         /\ Holds(heap, mem, stack, xroots, MarkedIn(mem))
         /\ OnlyReached(heap, mem, stack, xroots, MarkedIn(mem))
         /\ Packed(mem, heap.begin, Placed(mem, gc.scan), gc.free)
         /\ gc.free = 0 \/ \E a \in Placed(mem, gc.scan) : Home(mem, heap.begin, a) = 0
         /\ \A a \in DOMAIN mem : ObjectOK(mem[a]) /\ a \in Nat /\ Size(mem[a]) \in Nat
              /\ Size(mem[a]) >= 2 /\ a + Size(mem[a]) <= heap.current
              /\ (a + Size(mem[a]) = heap.current \/ a + Size(mem[a]) \in DOMAIN mem)
              /\ \A b \in DOMAIN mem : a < b => a + Size(mem[a]) <= b
         /\ heap.begin \in Nat /\ heap.current \in Nat /\ heap.size \in Nat
         /\ heap.current <= heap.size
<1>1. Types /\ Requested /\ Quiet /\ Locating
  BY DEF Inv
<1>2. gc \in Registers({<<>>}) /\ gc.scan \in Nat /\ gc.free \in Nat
  BY <1>1 DEF Locating, Registers
<1>3. /\ heap \in Chunk /\ Sound(heap, mem) /\ Rooted(heap, mem, stack, xroots, req)
      /\ heap.current <= heap.size
  BY <1>1 DEF Types, Quiet
<1>4. \A a \in DOMAIN mem : ObjectOK(mem[a]) /\ a \in Nat /\ Size(mem[a]) \in Nat
              /\ Size(mem[a]) >= 2 /\ a + Size(mem[a]) <= heap.current
              /\ (a + Size(mem[a]) = heap.current \/ a + Size(mem[a]) \in DOMAIN mem)
              /\ \A b \in DOMAIN mem : a < b => a + Size(mem[a]) <= b
  BY <1>3, ObjectType DEF Sound, Tiles
<1>5. heap.begin \in Nat /\ heap.current \in Nat /\ heap.size \in Nat
  BY <1>3, BasesAssumption DEF Chunk
<1>6. /\ gc.scan \in DOMAIN mem \cup {heap.current}
      /\ gc.free <= gc.scan
      /\ \A a \in DOMAIN mem : ~mem[a].enqueued
      /\ Holds(heap, mem, stack, xroots, MarkedIn(mem))
      /\ OnlyReached(heap, mem, stack, xroots, MarkedIn(mem))
      /\ Packed(mem, heap.begin, Placed(mem, gc.scan), gc.free)
      /\ gc.free = 0 \/ \E a \in Placed(mem, gc.scan) : Home(mem, heap.begin, a) = 0
  BY <1>1 DEF Locating
<1> QED
  BY <1>1, <1>2, <1>3, <1>4, <1>5, <1>6

\* The next live object gets the next free place.
LEMMA LocateInv ==
  ASSUME Inv, Locate
  PROVE  Inv'
<1>1. pc = "locate" /\ gc.scan < heap.current
  BY DEF Locate
<1> DEFINE at == gc.scan
           sz == Size(mem[gc.scan])
<1>2. at \in DOMAIN mem /\ at \in Nat /\ gc.free \in Nat /\ gc.free <= at
      /\ heap.begin \in Nat /\ heap.current \in Nat
      /\ sz \in Nat /\ ObjSize(gc.scan) = sz /\ sz >= 2
      /\ at + sz \in DOMAIN mem \cup {heap.current}
  BY <1>1, LocateState DEF ObjSize, Size
<1>3. /\ mem' = IF mem[at].marked THEN [mem EXCEPT ![at].fwd = heap.begin + W * gc.free] ELSE mem
      /\ gc' = [gc EXCEPT !.scan = @ + sz, !.free = IF mem[at].marked THEN @ + sz ELSE @]
      /\ UNCHANGED <<heap, stack, xroots, nextid, pc, req>>
  BY <1>2 DEF Locate, ForwardAddress
<1>4. PICK n : n = mem'
  OBVIOUS
<1>5. PICK f \in Nat : f = IF mem[at].marked THEN gc.free + sz ELSE gc.free
  BY <1>2
<1>6. /\ gc' \in Registers({<<>>}) /\ gc'.scan = at + sz /\ gc'.free = f
      /\ f <= at + sz
  <2>1. gc \in Registers({<<>>})
    BY <1>1, LocateState
  <2>2. PICK nx \in Nat : nx = at + sz
    BY <1>2
  <2>3. /\ gc.root \in Nat /\ gc.head \in Nat /\ gc.tail \in Nat /\ gc.cur \in Nat \cup {-1}
        /\ gc.fld \in Nat /\ gc.old = <<>>
    BY <2>1 DEF Registers
  <2>4. gc' = [root |-> gc.root, head |-> gc.head, tail |-> gc.tail, cur |-> gc.cur,
               fld |-> gc.fld, scan |-> nx, free |-> f, old |-> <<>>]
    BY <1>3, <1>5, <2>1, <2>2, <2>3 DEF Registers
  <2>5. f <= nx
    BY <1>2, <1>5, <2>2
  <2>6. gc' \in Registers({<<>>}) /\ gc'.scan = nx /\ gc'.free = f
    BY <2>3, <2>4 DEF Registers
  <2> QED
    BY <2>2, <2>5, <2>6
<1>7. /\ DOMAIN n = DOMAIN mem
      /\ \A a \in DOMAIN mem :
           /\ n[a].kind = mem[a].kind /\ n[a].len = mem[a].len /\ n[a].id = mem[a].id
           /\ ObjectOK(n[a]) /\ n[a].fields = mem[a].fields
           /\ n[a].marked = mem[a].marked /\ n[a].enqueued = mem[a].enqueued
           /\ n[a].fwd = IF a = at /\ mem[at].marked THEN heap.begin + W * gc.free ELSE mem[a].fwd
  <2>1. PICK v \in Nat : v = heap.begin + W * gc.free
    BY <1>2 DEF W
  <2>2. DOMAIN n = DOMAIN mem
    BY <1>3, <1>4
  <2>3. ASSUME NEW a \in DOMAIN mem
        PROVE  /\ n[a].kind = mem[a].kind /\ n[a].len = mem[a].len /\ n[a].id = mem[a].id
               /\ ObjectOK(n[a]) /\ n[a].fields = mem[a].fields
               /\ n[a].marked = mem[a].marked /\ n[a].enqueued = mem[a].enqueued
               /\ n[a].fwd = IF a = at /\ mem[at].marked THEN v ELSE mem[a].fwd
    <3>1. PICK o \in Object : o = mem[a] /\ ObjectOK(o)
      BY <1>1, LocateState DEF ObjectOK
    <3>2. n[a] = [o EXCEPT !.fwd = IF a = at /\ mem[at].marked THEN v ELSE o.fwd]
      BY <1>3, <1>4, <2>1, <3>1 DEF Object
    <3>3. n[a] \in Object
      BY <3>2 DEF Object
    <3> QED
      BY <3>1, <3>2, <3>3 DEF Object, ObjectOK
  <2> QED
    BY <2>1, <2>2, <2>3
<1> HIDE DEF at, sz
<1>8. SameShape(mem, n)
  BY <1>1, <1>7, LocateState DEF SameShape
<1>9. Types' /\ Requested'
  <2>1. Types /\ Requested
    BY <1>1, LocateState
  <2>2. \A a \in DOMAIN n : ObjectOK(n[a]) /\ n[a].id < nextid
    BY <1>7, <2>1 DEF Types
  <2> QED
    BY <1>3, <1>4, <1>7, <2>1, <2>2 DEF Types, Requested, Depth
<1>10. Sound(heap, n) /\ Rooted(heap, n, stack, xroots, req)
  <2>1. Sound(heap, mem) /\ Rooted(heap, mem, stack, xroots, req)
    BY <1>1, LocateState
  <2>2. \A a \in DOMAIN mem : \A k \in DOMAIN n[a].fields : Word(heap, mem, n[a].fields[k])
    BY <1>7, <2>1 DEF Sound
  <2> QED
    BY <1>8, <2>1, <2>2, SoundKept, ShapesKept
<1>11. Quiet'
  BY <1>1, <1>3, <1>4, <1>10 DEF Quiet
<1>12. MarkedIn(n) = MarkedIn(mem) /\ \A a \in DOMAIN n : ~n[a].enqueued
  BY <1>1, <1>7, LocateState DEF MarkedIn
<1>13. Holds(heap, n, stack, xroots, MarkedIn(n)) /\ OnlyReached(heap, n, stack, xroots, MarkedIn(n))
  <2>1. Holds(heap, mem, stack, xroots, MarkedIn(mem)) /\ OnlyReached(heap, mem, stack, xroots, MarkedIn(mem))
    BY <1>1, LocateState
  <2>2. MarkedIn(mem) \subseteq DOMAIN mem
    BY DEF MarkedIn
  <2>3. \A a \in DOMAIN mem : mem[a].fields = n[a].fields
    BY <1>7
  <2> QED
    BY <1>8, <1>12, <2>1, <2>2, <2>3, ReachKept
<1> DEFINE old == Placed(mem, at)
<1>14. Packed(mem, heap.begin, old, gc.free)
       /\ (gc.free = 0 \/ \E a \in old : Home(mem, heap.begin, a) = 0)
  BY <1>1, LocateState DEF at
<1>15. Placed(n, at + sz) = IF mem[at].marked THEN old \cup {at} ELSE old
  <2>1. \A a \in DOMAIN mem : a \in Nat /\ (at < a => at + sz <= a)
    <3>1. \A a, b \in DOMAIN mem : a < b => a + Size(mem[a]) <= b
      BY <1>1, LocateState
    <3>2. \A a \in DOMAIN mem : a \in Nat
      BY <1>1, LocateState
    <3> QED
      BY <1>2, <3>1, <3>2 DEF at, sz
  <2>2. \A a \in DOMAIN mem : a < at + sz <=> a < at \/ a = at
    BY <1>2, <2>1
  <2> QED
    BY <1>2, <1>7, <1>12, <2>2 DEF Placed, MarkedIn
<1>16. old \in SUBSET Nat
       /\ \A a \in old : a \in DOMAIN mem /\ a < at /\ n[a].fwd = mem[a].fwd /\ Size(n[a]) = Size(mem[a])
                         /\ Size(mem[a]) \in Nat
  <2>1. ASSUME NEW a \in old
        PROVE  a \in DOMAIN mem /\ a < at /\ a \in Nat /\ Size(mem[a]) \in Nat
    BY <1>1, LocateState DEF Placed, MarkedIn
  <2>2. \A a \in old : n[a].fwd = mem[a].fwd /\ Size(n[a]) = Size(mem[a])
    BY <1>2, <1>7, <2>1 DEF Size
  <2> QED
    BY <2>1, <2>2
<1>17. /\ Packed(n, heap.begin, Placed(n, at + sz), f)
       /\ f = 0 \/ \E a \in Placed(n, at + sz) : Home(n, heap.begin, a) = 0
  <2>1. CASE ~mem[at].marked
    <3>1. n = mem /\ f = gc.free /\ Placed(n, at + sz) = old
      BY <1>3, <1>4, <1>5, <1>15, <2>1
    <3> QED
      BY <1>14, <3>1
  <2>2. CASE mem[at].marked
    <3>1. f = gc.free + sz /\ Placed(n, at + sz) = old \cup {at}
      BY <1>5, <1>15, <2>2
    <3>2. n[at].fwd = heap.begin + W * gc.free /\ Size(n[at]) = sz
      BY <1>2, <1>7, <2>2 DEF Size, sz, at
    <3>3. PICK c \in Nat, o \in Nat, A \in SUBSET DOMAIN mem, x \in Nat :
            c = gc.free /\ o = heap.begin /\ A = old /\ x = at
      BY <1>2, <1>16
    <3>4. Packed(mem, o, A, c)
      BY <1>14, <3>3
    <3>5. Located(mem, n, o, A, c, x, f)
      BY <1>2, <1>16, <3>1, <3>2, <3>3 DEF Located
    <3>6. Packed(n, o, A \cup {x}, f)
      BY <3>4, <3>5, PackedGrows
    <3>7. \A a \in A : Home(n, o, a) = Home(mem, o, a)
      BY <3>5 DEF Located, Home
    <3>8. c = 0 => Home(n, o, x) = 0
      <4>1. (o + 4 * c - o) \div 4 = c
        OBVIOUS
      <4> QED
        BY <3>5, <4>1 DEF Located, Home, W
    <3> QED
      BY <1>14, <3>1, <3>3, <3>6, <3>7, <3>8
  <2> QED
    BY <2>1, <2>2
<1>18. Locating'
  <2>1. at + sz \in DOMAIN n \cup {heap.current}
    BY <1>2, <1>7
  <2> QED
    BY <1>1, <1>3, <1>4, <1>6, <1>12, <1>13, <1>17, <2>1 DEF Locating
<1> QED
  BY <1>1, <1>3, <1>9, <1>11, <1>18 DEF Inv, Marking, Moving, Compacted

\* Where mremap fails the program exits.
LEMMA RemapFailsInv ==
  ASSUME Inv, RemapFails
  PROVE  Inv'
<1>1. /\ pc = "locate" /\ pc' = "exited"
      /\ UNCHANGED <<heap, mem, stack, xroots, nextid, req, gc>>
  BY DEF RemapFails
<1>2. Types' /\ Requested'
  BY <1>1, LocateState DEF Types, Requested, Depth
<1> QED
  BY <1>1, <1>2 DEF Inv, Quiet, Marking, Locating, Moving, Compacted

-----------------------------------------------------------------------------
(***************************************************************************)
(* The heap that compact_phase makes.                                      *)
(***************************************************************************)

\* no two of the objects A have the same home
Apart(m, o, A) == \A a, b \in A : Home(m, o, a) = Home(m, o, b) => a = b

\* no home of the objects A is one of the offsets S
Free(m, o, S, A) == \A c \in S, a \in A : c # Home(m, o, a)

\* f has the objects S of m, and the objects A at their homes with the fields F
AssembledAs(m, o, S, A, F, f) ==
  /\ DOMAIN f = S \cup {Home(m, o, a) : a \in A}
  /\ \A c \in S : f[c] = m[c]
  /\ \A a \in A : f[Home(m, o, a)] = Arrived(m[a], F[a])

\* Assembled takes every object to its home.
LEMMA AssembledIs ==
  ASSUME NEW m, NEW o, NEW S, NEW A, NEW F, Apart(m, o, A), Free(m, o, S, A)
  PROVE  AssembledAs(m, o, S, A, F, Assembled(m, o, S, A, F))
<1> DEFINE f == Assembled(m, o, S, A, F)
<1>1. DOMAIN f = S \cup {Home(m, o, a) : a \in A}
  BY DEF Assembled
<1>2. \A c \in S : f[c] = m[c]
  BY DEF Assembled
<1>3. ASSUME NEW a \in A
      PROVE  f[Home(m, o, a)] = Arrived(m[a], F[a])
  <2>1. PICK x : x = Home(m, o, a)
    OBVIOUS
  <2>2. x \in S \cup {Home(m, o, b) : b \in A} /\ x \notin S
    BY <2>1 DEF Free
  <2>3. (CHOOSE b \in A : Home(m, o, b) = x) = a
    <3>1. \E b \in A : Home(m, o, b) = x
      BY <2>1
    <3>2. PICK c : c = CHOOSE b \in A : Home(m, o, b) = x
      OBVIOUS
    <3>3. c \in A /\ Home(m, o, c) = x
      BY <3>1, <3>2
    <3>4. c = a
      BY <2>1, <3>3 DEF Apart
    <3> QED
      BY <3>2, <3>4
  <2>4. f[x] = LET b == CHOOSE b \in A : Home(m, o, b) = x
               IN  Arrived(m[b], F[b])
    BY <2>2 DEF Assembled
  <2> QED
    BY <2>1, <2>3, <2>4
<1> HIDE DEF f
<1> QED
  BY <1>1, <1>2, <1>3 DEF f, AssembledAs

\* Objects that follow each other have different homes, in the same order.
LEMMA PackedApart ==
  ASSUME NEW m, NEW o, NEW A, NEW free, Packed(m, o, A, free),
         \A a \in A : a \in Nat /\ Size(m[a]) \in Nat /\ Size(m[a]) >= 2
  PROVE  /\ Apart(m, o, A)
         /\ \A a, b \in A : Home(m, o, a) < Home(m, o, b) => a < b
<1>1. \A a \in A : Home(m, o, a) \in Nat
  BY DEF Packed
<1>2. \A a, b \in A : a < b => Home(m, o, a) + Size(m[a]) <= Home(m, o, b)
  BY DEF Packed
<1>3. \A a, b \in A : a < b => Home(m, o, a) < Home(m, o, b)
  BY <1>1, <1>2
<1>4. \A a, b \in A : a < b \/ b < a \/ a = b
  OBVIOUS
<1> QED
  BY <1>1, <1>3, <1>4 DEF Apart

-----------------------------------------------------------------------------
\* v is what the word w has to become: the address of the same object
Sent(h, m, g, A, w, v) ==
  /\ v \in Nat
  /\ Unboxed(w) \/ w = 0 \/ w = EXTERNAL => v = w
  /\ \A a \in A : w = Content(h, a) => v = Content(g, Home(m, h.begin, a))

SentSeq(h, m, g, A, ws, vs) ==
  /\ vs \in Seq(Nat) /\ Len(vs) = Len(ws) /\ DOMAIN vs = DOMAIN ws
  /\ \A k \in DOMAIN ws : Sent(h, m, g, A, ws[k], vs[k])

\* A word becomes the address of the object's new place.
LEMMA RedirectIs ==
  ASSUME NEW h \in Chunk, NEW m, Sound(h, m), NEW g \in Chunk,
         NEW A \in SUBSET DOMAIN m, NEW free, Packed(m, h.begin, A, free),
         NEW w \in Nat, w = EXTERNAL \/ Word(h, m, w),
         \A off \in DOMAIN m : w = Content(h, off) => off \in A
  PROVE  Sent(h, m, g, A, w, Redirect(h, m, g, w))
<1> DEFINE v == Redirect(h, m, g, w)
<1>1. DOMAIN m \subseteq Nat /\ h.begin \in Nat /\ g.begin \in Nat
  BY BasesAssumption DEF Sound, Chunk
<1>2. \A off \in DOMAIN m : Names(h, m, Content(h, off)) /\ HeaderOf(h, Content(h, off)) = off
  BY NamesObject DEF Sound
<1>3. ASSUME NEW a \in A, w = Content(h, a)
      PROVE  v \in Nat /\ v = Content(g, Home(m, h.begin, a))
  <2>1. ~Unboxed(w) /\ Within(h, w) /\ HeaderOf(h, w) = a
    BY <1>2, <1>3 DEF Names
  <2>2. v = g.begin + (m[a].fwd - h.begin) + W * HDR
    BY <2>1 DEF Redirect
  <2>3. PICK f \in Nat : f = Home(m, h.begin, a) /\ m[a].fwd = h.begin + W * f
    BY DEF Packed
  <2>4. v = g.begin + 4 * (f + 2)
    BY <1>1, <2>2, <2>3 DEF W, HDR
  <2> QED
    BY <1>1, <2>3, <2>4 DEF Content, W, HDR
<1>4. CASE \E a \in A : w = Content(h, a)
  <2>1. PICK a \in A : w = Content(h, a)
    BY <1>4
  <2>2. a \in Nat
    BY <1>1
  <2>3. ~Unboxed(w) /\ w # 0 /\ w # EXTERNAL
    BY <2>1, <2>2, Address
  <2>4. v \in Nat
    BY <1>3, <2>1
  <2> QED
    BY <1>3, <2>3, <2>4 DEF Sent
<1>5. CASE ~\E a \in A : w = Content(h, a)
  <2>1. ~(~Unboxed(w) /\ Within(h, w))
    BY <1>5, WordIs
  <2>2. v = w
    BY <2>1 DEF Redirect
  <2> QED
    BY <1>5, <2>2 DEF Sent
<1> QED
  BY <1>4, <1>5

\* A sequence of words becomes a sequence of addresses of new places.
LEMMA RedirectsAre ==
  ASSUME NEW h \in Chunk, NEW m, Sound(h, m), NEW g \in Chunk,
         NEW A \in SUBSET DOMAIN m, NEW free, Packed(m, h.begin, A, free),
         NEW ws \in Seq(Nat), Targets(h, m, ws) \subseteq A,
         \A k \in DOMAIN ws : ws[k] = EXTERNAL \/ Word(h, m, ws[k])
  PROVE  SentSeq(h, m, g, A, ws, Redirected(h, m, g, ws))
<1> DEFINE vs == Redirected(h, m, g, ws)
<1>1. \A k \in DOMAIN ws : vs[k] = Redirect(h, m, g, ws[k])
  BY DEF Redirected
<1>2. ASSUME NEW k \in DOMAIN ws
      PROVE  Sent(h, m, g, A, ws[k], vs[k])
  <2>1. PICK w \in Nat : w = ws[k]
    OBVIOUS
  <2>2. w = EXTERNAL \/ Word(h, m, w)
    BY <2>1
  <2>3. \A off \in DOMAIN m : w = Content(h, off) => off \in A
    BY <2>1 DEF Targets
  <2>4. Sent(h, m, g, A, w, Redirect(h, m, g, w))
    BY <2>2, <2>3, RedirectIs
  <2> QED
    BY <1>1, <2>1, <2>4
<1>3. \A k \in DOMAIN ws : vs[k] \in Nat
  BY <1>2 DEF Sent
<1>4. PICK n \in Nat : n = Len(ws) /\ DOMAIN ws = 1..n
  OBVIOUS
<1>5. vs = [k \in 1..n |-> vs[k]] /\ DOMAIN vs = 1..n
  BY <1>4 DEF Redirected
<1> HIDE DEF vs
<1>6. vs \in Seq(Nat) /\ Len(vs) = n
  BY <1>3, <1>4, <1>5
<1>7. SentSeq(h, m, g, A, ws, vs)
  BY <1>2, <1>4, <1>5, <1>6 DEF SentSeq
<1> QED
  BY <1>7 DEF vs

\* f has the objects A of m at their homes, with their words redirected to g.
Rehoused(h, m, g, A, f) ==
  /\ DOMAIN f = {Home(m, h.begin, a) : a \in A}
  /\ \A a \in A : LET p == f[Home(m, h.begin, a)] IN
       /\ p.kind = m[a].kind /\ p.len = m[a].len /\ p.id = m[a].id
       /\ p.fwd = m[a].fwd /\ p.marked = FALSE /\ p.enqueued = FALSE
       /\ p \in Object
       /\ SentSeq(h, m, g, A, m[a].fields, p.fields)

\* A rehoused object is one, and has the size it had.
LEMMA RehousedObject ==
  ASSUME NEW h, NEW m, NEW g, NEW A \in SUBSET DOMAIN m, NEW f, Rehoused(h, m, g, A, f),
         NEW a \in A, ObjectOK(m[a])
  PROVE  /\ Home(m, h.begin, a) \in DOMAIN f
         /\ ObjectOK(f[Home(m, h.begin, a)])
         /\ Size(f[Home(m, h.begin, a)]) = Size(m[a])
         /\ f[Home(m, h.begin, a)].id = m[a].id
<1>1. PICK p : p = f[Home(m, h.begin, a)]
  OBVIOUS
<1>2. /\ p.kind = m[a].kind /\ p.len = m[a].len /\ p.id = m[a].id /\ p \in Object
      /\ Len(p.fields) = Len(m[a].fields)
  BY <1>1 DEF Rehoused, SentSeq
<1>3. ObjectOK(p) /\ Size(p) = Size(m[a])
  BY <1>2 DEF ObjectOK, Size
<1>4. Home(m, h.begin, a) \in DOMAIN f
  BY DEF Rehoused
<1> QED
  BY <1>1, <1>2, <1>3, <1>4

\* What a word that has been redirected is in the new heap.
LEMMA WordSent ==
  ASSUME NEW h, NEW m, NEW g, NEW A, NEW f, Rehoused(h, m, g, A, f),
         NEW w, NEW v, Sent(h, m, g, A, w, v),
         w = EXTERNAL \/ Word(h, m, w),
         \A off \in DOMAIN m : w = Content(h, off) => off \in A
  PROVE  /\ v = EXTERNAL \/ Word(g, f, v)
         /\ Word(h, m, w) => Word(g, f, v)
<1>1. Word(h, m, w) => Word(g, f, v)
  <2>1. CASE Unboxed(w) \/ w = 0
    BY <2>1 DEF Sent, Word
  <2>2. ASSUME NEW off \in DOMAIN m, w = Content(h, off)
        PROVE  Word(g, f, v)
    <3>1. off \in A
      BY <2>2
    <3>2. v = Content(g, Home(m, h.begin, off)) /\ Home(m, h.begin, off) \in DOMAIN f
      BY <2>2, <3>1 DEF Sent, Rehoused
    <3> QED
      BY <3>2 DEF Word
  <2> QED
    BY <2>1, <2>2 DEF Word
<1> QED
  BY <1>1 DEF Sent

\* The homes tile the new chunk.
LEMMA HomesTile ==
  ASSUME NEW h \in Chunk, NEW m, Sound(h, m), NEW A \in SUBSET DOMAIN m, NEW free \in Nat,
         Packed(m, h.begin, A, free),
         free = 0 \/ \E a \in A : Home(m, h.begin, a) = 0,
         NEW g, NEW f, Rehoused(h, m, g, A, f)
  PROVE  DOMAIN f \subseteq Nat /\ Tiles(f, DOMAIN f, 0, free)
<1> DEFINE home(a) == Home(m, h.begin, a)
<1>1. \A a \in A : /\ a \in Nat /\ ObjectOK(m[a]) /\ Size(m[a]) \in Nat /\ Size(m[a]) >= 2
  BY ObjectType DEF Sound
<1>2. ASSUME NEW a \in A
      PROVE  /\ home(a) \in Nat /\ home(a) \in DOMAIN f
             /\ home(a) + Size(m[a]) <= free
             /\ home(a) + Size(m[a]) = free \/ home(a) + Size(m[a]) \in DOMAIN f
             /\ Size(f[home(a)]) = Size(m[a]) /\ f[home(a)].id = m[a].id
  <2>1. home(a) \in DOMAIN f /\ Size(f[home(a)]) = Size(m[a]) /\ f[home(a)].id = m[a].id
    BY <1>1, RehousedObject
  <2>2. /\ home(a) \in Nat
        /\ home(a) + Size(m[a]) <= free
        /\ home(a) + Size(m[a]) = free \/ \E b \in A : home(b) = home(a) + Size(m[a])
    BY DEF Packed
  <2>3. \A b \in A : home(b) \in DOMAIN f
    BY DEF Rehoused
  <2> QED
    BY <2>1, <2>2, <2>3
<1>3. \A x \in DOMAIN f : \E a \in A : x = home(a)
  BY DEF Rehoused
<1>4. \A a, b \in A : home(a) < home(b) => a < b
  BY <1>1, PackedApart
<1>5. \A a, b \in A : a < b => home(a) + Size(m[a]) <= home(b)
  BY DEF Packed
<1>6. \A a, b \in A : a < b => m[a].id < m[b].id
  BY DEF Sound, Tiles
<1>7. 0 = free \/ 0 \in DOMAIN f
  BY <1>2
<1> HIDE DEF home
<1>8. ASSUME NEW x \in DOMAIN f
      PROVE  /\ x \in Nat /\ 0 <= x /\ x + Size(f[x]) <= free
             /\ (x + Size(f[x]) = free \/ x + Size(f[x]) \in DOMAIN f)
  <2>1. PICK a \in A : x = home(a)
    BY <1>3
  <2> QED
    BY <1>2, <2>1
<1>9. ASSUME NEW x \in DOMAIN f, NEW y \in DOMAIN f, x < y
      PROVE  x + Size(f[x]) <= y /\ f[x].id < f[y].id
  <2>1. PICK a \in A : x = home(a)
    BY <1>3
  <2>2. PICK b \in A : y = home(b)
    BY <1>3
  <2>3. a < b
    BY <1>4, <1>9, <2>1, <2>2
  <2> QED
    BY <1>2, <1>5, <1>6, <2>1, <2>2, <2>3
<1> QED
  BY <1>7, <1>8, <1>9 DEF Tiles

\* The new heap is as sound as the old one.
LEMMA RehousedSound ==
  ASSUME NEW h \in Chunk, NEW m, Sound(h, m), NEW A \in SUBSET DOMAIN m, NEW free \in Nat,
         Packed(m, h.begin, A, free), ClosedAt(h, m, A),
         free = 0 \/ \E a \in A : Home(m, h.begin, a) = 0,
         NEW g, g.current = free, NEW f, Rehoused(h, m, g, A, f)
  PROVE  Sound(g, f) /\ Unflagged(f)
<1>1. DOMAIN f \subseteq Nat /\ Tiles(f, DOMAIN f, 0, g.current)
  BY HomesTile
<1>2. ASSUME NEW x \in DOMAIN f
      PROVE  /\ ObjectOK(f[x]) /\ ~f[x].marked /\ ~f[x].enqueued
             /\ \A k \in DOMAIN f[x].fields : Word(g, f, f[x].fields[k])
  <2>1. PICK a \in A : x = Home(m, h.begin, a)
    BY DEF Rehoused
  <2>2. ObjectOK(m[a])
    BY DEF Sound
  <2>3. ObjectOK(f[x])
    BY <2>1, <2>2, RehousedObject
  <2>4. ~f[x].marked /\ ~f[x].enqueued /\ SentSeq(h, m, g, A, m[a].fields, f[x].fields)
    BY <2>1 DEF Rehoused
  <2>5. ASSUME NEW k \in DOMAIN f[x].fields
        PROVE  Word(g, f, f[x].fields[k])
    <3>1. k \in DOMAIN m[a].fields /\ Sent(h, m, g, A, m[a].fields[k], f[x].fields[k])
      BY <2>4 DEF SentSeq
    <3>2. Word(h, m, m[a].fields[k])
      BY <3>1 DEF Sound
    <3>3. \A off \in DOMAIN m : m[a].fields[k] = Content(h, off) => off \in A
      BY <3>1 DEF ClosedAt, Targets
    <3> QED
      BY <3>1, <3>2, <3>3, WordSent
  <2> QED
    BY <2>3, <2>4, <2>5
<1> QED
  BY <1>1, <1>2 DEF Sound, Unflagged

\* The words of the stack and of the roots are words of the new heap.
LEMMA RehousedRooted ==
  ASSUME NEW h, NEW m, NEW A \in SUBSET DOMAIN m, NEW g, NEW f, Rehoused(h, m, g, A, f),
         NEW st, NEW xr, NEW r, Rooted(h, m, st, xr, r),
         Targets(h, m, st) \cup Targets(h, m, xr) \subseteq A,
         NEW sf, NEW xf, SentSeq(h, m, g, A, st, sf), SentSeq(h, m, g, A, xr, xf)
  PROVE  Rooted(g, f, sf, xf, r)
<1>1. ASSUME NEW k \in DOMAIN sf
      PROVE  Word(g, f, sf[k])
  <2>1. k \in DOMAIN st /\ Sent(h, m, g, A, st[k], sf[k])
    BY DEF SentSeq
  <2>2. Word(h, m, st[k])
    BY <2>1 DEF Rooted
  <2>3. \A off \in DOMAIN m : st[k] = Content(h, off) => off \in A
    BY <2>1 DEF Targets
  <2> QED
    BY <2>1, <2>2, <2>3, WordSent
<1>2. ASSUME NEW k \in DOMAIN xf
      PROVE  xf[k] = EXTERNAL \/ Word(g, f, xf[k])
  <2>1. k \in DOMAIN xr /\ Sent(h, m, g, A, xr[k], xf[k])
    BY DEF SentSeq
  <2>2. xr[k] = EXTERNAL \/ Word(h, m, xr[k])
    BY <2>1 DEF Rooted
  <2>3. \A off \in DOMAIN m : xr[k] = Content(h, off) => off \in A
    BY <2>1 DEF Targets
  <2> QED
    BY <2>1, <2>2, <2>3, WordSent
<1>3. ASSUME NEW k \in 1..r.reads
      PROVE  /\ k \in DOMAIN xf
             /\ \E off \in DOMAIN f :
                  /\ xf[k] = Content(g, off)
                  /\ k = 1 => Len(f[off].fields) = FieldCount(r.kind, r.len)
  <2>1. k \in DOMAIN xr /\ k \in DOMAIN xf
    BY DEF Rooted, SentSeq
  <2>2. PICK off \in DOMAIN m :
          /\ xr[k] = Content(h, off)
          /\ k = 1 => Len(m[off].fields) = FieldCount(r.kind, r.len)
    BY DEF Rooted
  <2>3. off \in A
    BY <2>1, <2>2 DEF Targets
  <2>4. xf[k] = Content(g, Home(m, h.begin, off))
    BY <2>1, <2>2, <2>3 DEF SentSeq, Sent
  <2>5. /\ Home(m, h.begin, off) \in DOMAIN f
        /\ Len(f[Home(m, h.begin, off)].fields) = Len(m[off].fields)
    BY <2>3 DEF Rehoused, SentSeq
  <2> QED
    BY <2>1, <2>2, <2>4, <2>5
<1> QED
  BY <1>1, <1>2, <1>3 DEF Rooted

\* Where a redirected sequence has the address of an object, the sequence it
\* was made of had it too.
LEMMA TargetSent ==
  ASSUME NEW h, NEW m, NEW g, NEW A, NEW f, Rehoused(h, m, g, A, f),
         NEW ws, NEW vs, SentSeq(h, m, g, A, ws, vs),
         NEW a \in A, a \in Targets(h, m, ws)
  PROVE  Home(m, h.begin, a) \in Targets(g, f, vs)
<1>1. PICK k \in DOMAIN ws : ws[k] = Content(h, a)
  BY DEF Targets
<1>2. k \in DOMAIN vs /\ vs[k] = Content(g, Home(m, h.begin, a))
  BY <1>1 DEF SentSeq, Sent
<1>3. Home(m, h.begin, a) \in DOMAIN f
  BY DEF Rehoused
<1> QED
  BY <1>2, <1>3 DEF Targets

\* What keeps every needed object of the new heap gives a set that keeps every
\* needed object of the old one.
LEMMA RehousedReached ==
  ASSUME NEW h, NEW m, NEW A \in SUBSET DOMAIN m, NEW g, NEW f, Rehoused(h, m, g, A, f),
         NEW st, NEW xr, Holds(h, m, st, xr, A), OnlyReached(h, m, st, xr, A),
         NEW sf, NEW xf, SentSeq(h, m, g, A, st, sf), SentSeq(h, m, g, A, xr, xf)
  PROVE  OnlyReached(g, f, sf, xf, DOMAIN f)
<1> SUFFICES ASSUME NEW T \in SUBSET DOMAIN f, Holds(g, f, sf, xf, T)
             PROVE  DOMAIN f \subseteq T
  BY DEF OnlyReached
<1> DEFINE S == {a \in A : Home(m, h.begin, a) \in T}
<1>1. Targets(g, f, sf) \subseteq T /\ Targets(g, f, xf) \subseteq T
      /\ \A x \in T : Targets(g, f, f[x].fields) \subseteq T
  BY DEF Holds, ClosedAt
<1>2. Targets(h, m, st) \subseteq A /\ Targets(h, m, xr) \subseteq A
      /\ \A a \in A : Targets(h, m, m[a].fields) \subseteq A
  BY DEF Holds, ClosedAt
<1>3. ASSUME NEW off \in Targets(h, m, st)
      PROVE  off \in S
  <2>1. off \in A
    BY <1>2
  <2>2. Home(m, h.begin, off) \in Targets(g, f, sf)
    BY <2>1, TargetSent
  <2> QED
    BY <1>1, <2>1, <2>2
<1>4. ASSUME NEW off \in Targets(h, m, xr)
      PROVE  off \in S
  <2>1. off \in A
    BY <1>2
  <2>2. Home(m, h.begin, off) \in Targets(g, f, xf)
    BY <2>1, TargetSent
  <2> QED
    BY <1>1, <2>1, <2>2
<1>5. ASSUME NEW a \in S, NEW off \in Targets(h, m, m[a].fields)
      PROVE  off \in S
  <2>1. a \in A /\ off \in A
    BY <1>2
  <2>2. PICK vs : vs = f[Home(m, h.begin, a)].fields
    OBVIOUS
  <2>3. SentSeq(h, m, g, A, m[a].fields, vs)
    BY <2>1, <2>2 DEF Rehoused
  <2>4. Home(m, h.begin, off) \in Targets(g, f, vs)
    BY <2>1, <2>3, TargetSent
  <2> QED
    BY <1>1, <2>1, <2>2, <2>4
<1>6. Holds(h, m, st, xr, S)
  <2> HIDE DEF S
  <2> QED
    BY <1>3, <1>4, <1>5 DEF Holds, ClosedAt
<1>7. S \in SUBSET DOMAIN m
  OBVIOUS
<1>8. A \subseteq S
  BY <1>6, <1>7 DEF OnlyReached
<1> QED
  BY <1>8 DEF Rehoused

\* Assembled gives the objects their homes.
LEMMA RehousedIs ==
  ASSUME NEW h, NEW m, NEW g, NEW A \in SUBSET DOMAIN m, NEW F, Apart(m, h.begin, A),
         \A a \in A : /\ ObjectOK(m[a]) /\ ~m[a].enqueued
                      /\ SentSeq(h, m, g, A, m[a].fields, F[a])
  PROVE  Rehoused(h, m, g, A, Assembled(m, h.begin, {}, A, F))
<1>1. PICK f : f = Assembled(m, h.begin, {}, A, F)
  OBVIOUS
<1>2. Free(m, h.begin, {}, A)
  BY DEF Free
<1>3. /\ DOMAIN f = {} \cup {Home(m, h.begin, a) : a \in A}
      /\ \A a \in A : f[Home(m, h.begin, a)] = Arrived(m[a], F[a])
  <2>1. AssembledAs(m, h.begin, {}, A, F, f)
    BY <1>1, <1>2, AssembledIs
  <2> QED
    BY <2>1 DEF AssembledAs
<1>4. ASSUME NEW a \in A
      PROVE  LET p == f[Home(m, h.begin, a)] IN
             /\ p.kind = m[a].kind /\ p.len = m[a].len /\ p.id = m[a].id
             /\ p.fwd = m[a].fwd /\ p.marked = FALSE /\ p.enqueued = FALSE
             /\ p \in Object
             /\ SentSeq(h, m, g, A, m[a].fields, p.fields)
  <2>1. PICK o : o = m[a] /\ ObjectOK(o) /\ ~o.enqueued
    OBVIOUS
  <2>2. PICK ws \in Seq(Nat) : ws = F[a] /\ SentSeq(h, m, g, A, m[a].fields, ws)
    BY DEF SentSeq
  <2>3. PICK p : p = Arrived(o, ws)
    OBVIOUS
  <2>4. p = f[Home(m, h.begin, a)]
    BY <1>3, <2>1, <2>2, <2>3
  <2>5. /\ p \in Object
        /\ p.kind = o.kind /\ p.len = o.len /\ p.id = o.id /\ p.fwd = o.fwd
        /\ p.marked = FALSE /\ p.enqueued = o.enqueued /\ p.fields = ws
    BY <2>1, <2>3 DEF ObjectOK, Object, Unmark, Arrived
  <2>6. p.enqueued = FALSE
    BY <2>1, <2>5, ObjectType
  <2> QED
    BY <2>1, <2>2, <2>4, <2>5, <2>6
<1>5. DOMAIN f = {Home(m, h.begin, a) : a \in A}
  BY <1>3
<1> QED
  BY <1>1, <1>4, <1>5 DEF Rehoused

\* The new chunk has room for what lives and for the object that is waited for.
LEMMA NextHeapFits ==
  ASSUME Inv, pc = "locate"
  PROVE  /\ NextHeapSize \in Nat
         /\ NextHeapSize >= heap.size
         /\ gc.free + SizeOf(req.kind, req.len) <= NextHeapSize
<1>1. gc.free \in Nat /\ heap.size \in Nat /\ Requested
  BY LocateState
<1>2. SizeOf(req.kind, req.len) \in Nat
  BY <1>1, SizeType DEF Requested
<1>3. PICK x \in Nat, y \in Nat, z \in Nat :
        /\ x = gc.free * 2 + SizeOf(req.kind, req.len) /\ y = 4 /\ z = heap.size
        /\ gc.free + SizeOf(req.kind, req.len) <= x
  <2>1. PICK f \in Nat, s \in Nat : f = gc.free /\ s = SizeOf(req.kind, req.len)
    BY <1>1, <1>2
  <2>2. f * 2 + s \in Nat /\ f + s <= f * 2 + s
    OBVIOUS
  <2> QED
    BY <1>1, <2>1, <2>2
<1>4. PICK n : n = Max({x, y, z})
  OBVIOUS
<1>5. n \in {x, y, z} /\ n >= x /\ n >= z
  <2>1. \E v \in {x, y, z} : \A u \in {x, y, z} : v >= u
    <3>1. CASE x >= y /\ x >= z
      BY <3>1
    <3>2. CASE y >= x /\ y >= z
      BY <3>2
    <3>3. CASE z >= x /\ z >= y
      BY <3>3
    <3> QED
      BY <3>1, <3>2, <3>3
  <2>2. n \in {x, y, z} /\ \A u \in {x, y, z} : n >= u
    BY <1>4, <2>1 DEF Max
  <2> QED
    BY <2>2
<1>6. n = NextHeapSize
  BY <1>3, <1>4 DEF NextHeapSize, EXTRA_ROOM_HEAP_COEFFICIENT, MINIMUM_HEAP_CAPACITY
<1> QED
  BY <1>2, <1>3, <1>5, <1>6, <1>1

\* Where mremap has moved the chunk, every word still tells the old place of an
\* object, and every live object has a new one.
LEMMA RemapInv ==
  ASSUME Inv, Remap
  PROVE  /\ Inv'
         /\ FutureHeap' \in Chunk /\ Sound(FutureHeap', FutureMem')
         /\ Rehoused(heap, mem, FutureHeap', MarkedIn(mem), FutureMem')
         /\ SentSeq(heap, mem, FutureHeap', MarkedIn(mem), stack, FutureStack')
         /\ SentSeq(heap, mem, FutureHeap', MarkedIn(mem), xroots, FutureXroots')
<1>1. /\ pc = "locate" /\ gc.scan >= heap.current
      /\ pc' = "update" /\ gc' = [gc EXCEPT !.old = heap, !.scan = 0]
      /\ UNCHANGED <<mem, stack, xroots, nextid, req>>
  BY DEF Remap
<1> DEFINE o == heap.begin
           A == MarkedIn(mem)
           free == gc.free
<1>2. /\ heap \in Chunk /\ Sound(heap, mem) /\ Rooted(heap, mem, stack, xroots, req)
      /\ Types /\ Requested
      /\ gc \in Registers({<<>>}) /\ free \in Nat
      /\ Holds(heap, mem, stack, xroots, A) /\ OnlyReached(heap, mem, stack, xroots, A)
      /\ heap.begin \in Nat /\ heap.current \in Nat /\ heap.size \in Nat
      /\ heap.current <= heap.size
      /\ \A a \in DOMAIN mem : ObjectOK(mem[a]) /\ ~mem[a].enqueued
  BY <1>1, LocateState
<1>3. /\ \A a \in DOMAIN mem : a \in Nat /\ a < heap.current /\ Size(mem[a]) \in Nat
                               /\ Size(mem[a]) >= 2
      /\ gc.scan \in DOMAIN mem \cup {heap.current} /\ free <= gc.scan
  BY <1>1, LocateState
<1>4. gc.scan = heap.current
  BY <1>1, <1>2, <1>3
<1>5. /\ Packed(mem, o, A, free)
      /\ free = 0 \/ \E a \in A : Home(mem, o, a) = 0
      /\ free <= heap.current
  <2>1. Placed(mem, gc.scan) = A
    BY <1>3, <1>4 DEF Placed, MarkedIn
  <2>2. /\ Packed(mem, o, Placed(mem, gc.scan), free)
        /\ free = 0 \/ \E a \in Placed(mem, gc.scan) : Home(mem, o, a) = 0
    BY <1>1, LocateState
  <2> QED
    BY <1>3, <1>4, <2>1, <2>2
<1>6. PICK b \in Bases, sz \in Nat :
        /\ heap' = [heap EXCEPT !.begin = b, !.size = sz]
        /\ sz >= heap.size /\ free + SizeOf(req.kind, req.len) <= sz
  <2>1. PICK sz \in Nat : sz = NextHeapSize /\ sz >= heap.size
                          /\ free + SizeOf(req.kind, req.len) <= sz
    BY <1>1, NextHeapFits
  <2>2. PICK b \in IF NextHeapSize = heap.size THEN {heap.begin} ELSE Bases :
          heap' = [heap EXCEPT !.begin = b, !.size = NextHeapSize]
    BY DEF Remap
  <2>3. b \in Bases
    BY <1>2, <2>2 DEF Chunk
  <2> QED
    BY <2>1, <2>2, <2>3
<1>7. /\ heap' = [begin |-> b, size |-> sz, current |-> heap.current]
      /\ heap' \in Chunk /\ heap'.current = heap.current /\ heap'.size = sz
      /\ heap'.begin = b
  BY <1>2, <1>6 DEF Chunk
<1>8. /\ gc' \in Registers(Chunk) /\ gc'.old = heap /\ gc'.scan = 0 /\ gc'.free = free
  BY <1>1, <1>2 DEF Registers
<1>9. Types' /\ Requested'
  <2>1. heap'.current <= heap'.size
    BY <1>2, <1>6, <1>7
  <2> QED
    BY <1>1, <1>2, <1>7, <2>1 DEF Types, Requested, Depth
<1>10. PICK g \in Chunk : g = FutureHeap' /\ g.begin = b /\ g.current = free
  <2>1. FutureHeap' = [begin |-> b, size |-> sz, current |-> free]
    BY <1>7, <1>8 DEF FutureHeap
  <2> QED
    BY <1>2, <1>6, <2>1 DEF Chunk
<1>11. \A ws : Redirected(heap, mem, heap', ws) = Redirected(heap, mem, g, ws)
  BY <1>7, <1>10 DEF Redirected, Redirect
<1>12. /\ Movers' = A /\ Settled' = {}
       /\ \A a \in A : FutureFields(a)' = Redirected(heap, mem, g, mem[a].fields)
       /\ FutureStack' = Redirected(heap, mem, g, stack)
       /\ FutureXroots' = Redirected(heap, mem, g, xroots)
  <2>1. Movers' = A
    BY <1>1 DEF Movers
  <2>2. Settled' = {}
    BY <1>1 DEF Settled
  <2>3. \A a \in A : gc'.scan <= a
    BY <1>3, <1>8 DEF MarkedIn
  <2>4. \A a \in A : FutureFields(a)' = Redirected(heap, mem, heap', mem[a].fields)
    BY <1>1, <1>8, <2>3 DEF FutureFields, FutureWords
  <2>5. /\ FutureStack' = Redirected(heap, mem, heap', stack)
        /\ FutureXroots' = Redirected(heap, mem, heap', xroots)
    BY <1>1, <1>8 DEF FutureStack, FutureXroots, FutureWords
  <2> QED
    BY <1>11, <2>1, <2>2, <2>4, <2>5
<1> HIDE DEF A
<1>13. A \in SUBSET DOMAIN mem /\ ClosedAt(heap, mem, A)
       /\ Targets(heap, mem, stack) \subseteq A /\ Targets(heap, mem, xroots) \subseteq A
  BY <1>2 DEF A, MarkedIn, Holds
<1>14. ASSUME NEW a \in A
       PROVE  SentSeq(heap, mem, g, A, mem[a].fields, FutureFields(a)')
  <2>1. PICK ws \in Seq(Nat) : ws = mem[a].fields
    BY <1>2, <1>13, ObjectType
  <2>2. Targets(heap, mem, ws) \subseteq A
    BY <1>13, <2>1 DEF ClosedAt
  <2>3. \A k \in DOMAIN ws : ws[k] = EXTERNAL \/ Word(heap, mem, ws[k])
    BY <1>2, <1>13, <2>1 DEF Sound
  <2>4. Packed(mem, heap.begin, A, free)
    BY <1>5
  <2>5. SentSeq(heap, mem, g, A, ws, Redirected(heap, mem, g, ws))
    BY <1>2, <1>13, <2>2, <2>3, <2>4, RedirectsAre
  <2> QED
    BY <1>12, <2>1, <2>5
<1>15. SentSeq(heap, mem, g, A, stack, FutureStack')
  <2>1. stack \in Seq(Nat) /\ \A k \in DOMAIN stack : stack[k] = EXTERNAL \/ Word(heap, mem, stack[k])
    BY <1>2 DEF Types, Rooted
  <2>2. Packed(mem, heap.begin, A, free)
    BY <1>5
  <2> QED
    BY <1>2, <1>12, <1>13, <2>1, <2>2, RedirectsAre
<1>16. SentSeq(heap, mem, g, A, xroots, FutureXroots')
  <2>1. xroots \in Seq(Nat) /\ \A k \in DOMAIN xroots : xroots[k] = EXTERNAL \/ Word(heap, mem, xroots[k])
    BY <1>2 DEF Types, Rooted
  <2>2. Packed(mem, heap.begin, A, free)
    BY <1>5
  <2> QED
    BY <1>2, <1>12, <1>13, <2>1, <2>2, RedirectsAre
<1>17. PICK f : f = FutureMem' /\ Rehoused(heap, mem, g, A, f)
  <2>1. PICK F : F = [a \in A |-> FutureFields(a)']
    OBVIOUS
  <2>2. FutureMem' = Assembled(mem, heap.begin, {}, A, F)
    BY <1>1, <1>8, <1>12, <2>1 DEF FutureMem
  <2>3. Apart(mem, heap.begin, A)
    BY <1>3, <1>5, <1>13, PackedApart
  <2>4. \A a \in A : /\ ObjectOK(mem[a]) /\ ~mem[a].enqueued
                     /\ SentSeq(heap, mem, g, A, mem[a].fields, F[a])
    BY <1>2, <1>13, <1>14, <2>1
  <2>5. Rehoused(heap, mem, g, A, Assembled(mem, heap.begin, {}, A, F))
    BY <1>13, <2>3, <2>4, RehousedIs
  <2> QED
    BY <2>2, <2>5
<1>18. Sound(g, f) /\ Unflagged(f)
  <2>1. Packed(mem, heap.begin, A, free) /\ (free = 0 \/ \E a \in A : Home(mem, heap.begin, a) = 0)
    BY <1>5
  <2> QED
    BY <1>2, <1>10, <1>13, <1>17, <2>1, RehousedSound
<1>19. Rooted(g, f, FutureStack', FutureXroots', req)
  <2>1. PICK sf, xf : sf = FutureStack' /\ xf = FutureXroots'
    OBVIOUS
  <2>2. Targets(heap, mem, stack) \cup Targets(heap, mem, xroots) \subseteq A
    BY <1>13
  <2>3. SentSeq(heap, mem, g, A, stack, sf) /\ SentSeq(heap, mem, g, A, xroots, xf)
    BY <1>15, <1>16, <2>1
  <2>4. Rooted(g, f, sf, xf, req)
    BY <1>2, <1>13, <1>17, <2>2, <2>3, RehousedRooted
  <2> QED
    BY <2>1, <2>4
<1>20. OnlyReached(g, f, FutureStack', FutureXroots', DOMAIN f)
  <2>1. PICK sf, xf : sf = FutureStack' /\ xf = FutureXroots'
    OBVIOUS
  <2>2. Holds(heap, mem, stack, xroots, A) /\ OnlyReached(heap, mem, stack, xroots, A)
    BY <1>2 DEF A
  <2>3. SentSeq(heap, mem, g, A, stack, sf) /\ SentSeq(heap, mem, g, A, xroots, xf)
    BY <1>15, <1>16, <2>1
  <2>4. OnlyReached(g, f, sf, xf, DOMAIN f)
    BY <1>13, <1>17, <2>2, <2>3, RehousedReached
  <2> QED
    BY <2>1, <2>4
<1>21. ASSUME NEW ws, \A k \in DOMAIN ws : ws[k] \in Nat /\ (ws[k] = EXTERNAL \/ Word(heap, mem, ws[k]))
       PROVE  Fixable(heap, mem, ws)
  BY <1>2, <1>21, WordIs DEF Fixable
<1>22. Fixing'
  <2>1. Tiles(mem, DOMAIN mem, 0, heap.current)
    BY <1>2 DEF Sound
  <2>2. ASSUME NEW a \in A
        PROVE  Fixable(heap, mem, mem[a].fields)
    <3>1. PICK ws \in Seq(Nat) : ws = mem[a].fields
      BY <1>2, <1>13, ObjectType
    <3>2. \A k \in DOMAIN ws : ws[k] \in Nat /\ (ws[k] = EXTERNAL \/ Word(heap, mem, ws[k]))
      BY <1>2, <1>13, <3>1 DEF Sound
    <3> QED
      BY <1>21, <3>1, <3>2
  <2>3. Fixable(heap, mem, stack)
    BY <1>2, <1>21 DEF Types, Rooted
  <2>4. Fixable(heap, mem, xroots)
    <3>1. PICK ws \in Seq(Nat) : ws = xroots
      BY <1>2 DEF Types
    <3>2. \A k \in DOMAIN ws : ws[k] \in Nat /\ (ws[k] = EXTERNAL \/ Word(heap, mem, ws[k]))
      BY <1>2, <3>1 DEF Rooted
    <3> QED
      BY <1>21, <3>1, <3>2
  <2> QED
    BY <1>1, <1>7, <1>8, <1>12, <2>1, <2>2, <2>3, <2>4 DEF Fixing
<1>23. Moving'
  <2>1. gc'.scan \in DOMAIN mem' \cup {heap'.current}
    BY <1>1, <1>2, <1>7, <1>8 DEF Sound, Tiles
  <2>2. Packed(mem', gc'.old.begin, Movers', gc'.free)
    BY <1>1, <1>5, <1>8, <1>12
  <2>3. gc'.free + SizeOf(req'.kind, req'.len) <= heap'.size
    BY <1>1, <1>6, <1>7, <1>8
  <2>4. FutureStack' \in Seq(Nat) /\ FutureXroots' \in Seq(Nat)
    BY <1>15, <1>16 DEF SentSeq
  <2> QED
    BY <1>1, <1>5, <1>7, <1>8, <1>10, <1>17, <1>18, <1>19, <1>20, <1>22, <2>1, <2>2, <2>3, <2>4 DEF Moving
<1>24. Inv'
  BY <1>1, <1>9, <1>23 DEF Inv, Quiet, Marking, Locating, Compacted
<1> QED
  BY <1>10, <1>15, <1>16, <1>17, <1>18, <1>24 DEF A

-----------------------------------------------------------------------------
(***************************************************************************)
(* update_references and physically_relocate keep the heap that will be.   *)
(***************************************************************************)

\* What Inv says while compact_phase moves the heap.
LEMMA MovingState ==
  ASSUME Inv, pc \in {"update", "relocate"}
  PROVE  /\ Types /\ Requested
         /\ heap \in Chunk /\ heap.begin \in Nat /\ heap.current \in Nat /\ heap.size \in Nat
         /\ gc \in Registers(Chunk) /\ gc.scan \in Nat /\ gc.free \in Nat
         /\ gc.old \in Chunk /\ gc.old.begin \in Nat /\ gc.old.current = heap.current
         /\ gc.scan \in DOMAIN mem \cup {heap.current}
         /\ gc.free <= heap.current
         /\ gc.free + SizeOf(req.kind, req.len) <= heap.size
         /\ Packed(mem, gc.old.begin, Movers, gc.free)
         /\ FutureStack \in Seq(Nat) /\ FutureXroots \in Seq(Nat)
         /\ Sound(FutureHeap, FutureMem)
         /\ Rooted(FutureHeap, FutureMem, FutureStack, FutureXroots, req)
         /\ Unflagged(FutureMem)
         /\ OnlyReached(FutureHeap, FutureMem, FutureStack, FutureXroots, DOMAIN FutureMem)
         /\ (pc = "update" => Fixing) /\ (pc = "relocate" => Sliding)
         /\ Movers \in SUBSET DOMAIN mem
         /\ \A a \in DOMAIN mem : ObjectOK(mem[a]) /\ a \in Nat /\ Size(mem[a]) \in Nat
              /\ Size(mem[a]) >= 2
<1>1. Types /\ Requested /\ Moving
  BY DEF Inv
<1>2. heap \in Chunk /\ heap.begin \in Nat /\ heap.current \in Nat /\ heap.size \in Nat
  BY <1>1, BasesAssumption DEF Types, Chunk
<1>3. gc \in Registers(Chunk) /\ gc.scan \in Nat /\ gc.free \in Nat /\ gc.old \in Chunk
  BY <1>1 DEF Moving, Registers
<1>4. gc.old.begin \in Nat
  BY <1>3, BasesAssumption DEF Chunk
<1>5. /\ gc.old.current = heap.current
      /\ gc.scan \in DOMAIN mem \cup {heap.current}
      /\ gc.free <= heap.current
      /\ gc.free + SizeOf(req.kind, req.len) <= heap.size
      /\ Packed(mem, gc.old.begin, Movers, gc.free)
      /\ FutureStack \in Seq(Nat) /\ FutureXroots \in Seq(Nat)
      /\ Sound(FutureHeap, FutureMem)
      /\ Rooted(FutureHeap, FutureMem, FutureStack, FutureXroots, req)
      /\ Unflagged(FutureMem)
      /\ OnlyReached(FutureHeap, FutureMem, FutureStack, FutureXroots, DOMAIN FutureMem)
      /\ (pc = "update" => Fixing) /\ (pc = "relocate" => Sliding)
  BY <1>1 DEF Moving
<1>6. Movers \in SUBSET DOMAIN mem
  BY DEF Movers, MarkedIn
<1>7. \A a \in DOMAIN mem : ObjectOK(mem[a]) /\ a \in Nat /\ Size(mem[a]) \in Nat
              /\ Size(mem[a]) >= 2
  BY <1>1, ObjectType DEF Types
<1> QED
  BY <1>1, <1>2, <1>3, <1>4, <1>5, <1>6, <1>7

\* a step that leaves the heap that will be as it is
FutureKept ==
  /\ FutureHeap' = FutureHeap /\ FutureMem' = FutureMem
  /\ FutureStack' = FutureStack /\ FutureXroots' = FutureXroots

\* Such a step keeps the invariant.
LEMMA MovingKept ==
  ASSUME Inv, pc \in {"update", "relocate"}, pc' \in {"update", "relocate"},
         UNCHANGED <<heap, nextid, req>>,
         gc' \in Registers(Chunk), gc'.old = gc.old, gc'.free = gc.free,
         gc'.scan \in DOMAIN mem' \cup {heap.current},
         DOMAIN mem' \subseteq Nat,
         \A a \in DOMAIN mem' : ObjectOK(mem'[a]) /\ mem'[a].id < nextid,
         stack' \in Seq(Nat), Len(stack') = Len(stack), xroots' \in Seq(Nat),
         Packed(mem', gc.old.begin, Movers', gc.free),
         FutureMem' = FutureMem, FutureStack' = FutureStack, FutureXroots' = FutureXroots,
         pc' = "update" => Fixing', pc' = "relocate" => Sliding'
  PROVE  Inv' /\ FutureKept
<1>1. Types /\ Requested
  BY MovingState
<1>2. Types'
  BY <1>1 DEF Types, Depth
<1>3. Requested'
  BY <1>1 DEF Requested, Depth
<1>4. FutureHeap' = FutureHeap
  BY DEF FutureHeap
<1>5. /\ Sound(FutureHeap', FutureMem')
      /\ Rooted(FutureHeap', FutureMem', FutureStack', FutureXroots', req')
      /\ Unflagged(FutureMem')
      /\ OnlyReached(FutureHeap', FutureMem', FutureStack', FutureXroots', DOMAIN FutureMem')
  BY <1>4, MovingState
<1>6. /\ gc.old.current = heap.current /\ gc.free <= heap.current
      /\ gc.free + SizeOf(req.kind, req.len) <= heap.size
      /\ FutureStack \in Seq(Nat) /\ FutureXroots \in Seq(Nat)
  BY MovingState
<1>7. Moving'
  BY <1>5, <1>6 DEF Moving
<1>8. Inv'
  BY <1>2, <1>3, <1>7 DEF Inv, Quiet, Marking, Locating, Compacted
<1> QED
  BY <1>4, <1>8 DEF FutureKept

\* Assembled needs no more of a heap than where its objects go and what they
\* will be.
LEMMA AssembledSame ==
  ASSUME NEW m, NEW n, NEW o, NEW S, NEW A, NEW F, NEW G,
         Apart(m, o, A), Free(m, o, S, A),
         \A a \in A : Home(n, o, a) = Home(m, o, a) /\ Arrived(n[a], G[a]) = Arrived(m[a], F[a]),
         \A c \in S : n[c] = m[c]
  PROVE  Assembled(n, o, S, A, G) = Assembled(m, o, S, A, F)
<1>1. PICK f, g : f = Assembled(m, o, S, A, F) /\ g = Assembled(n, o, S, A, G)
  OBVIOUS
<1>2. Apart(n, o, A) /\ Free(n, o, S, A)
  BY DEF Apart, Free
<1>3. AssembledAs(m, o, S, A, F, f)
  BY <1>1, AssembledIs
<1>4. AssembledAs(n, o, S, A, G, g)
  BY <1>1, <1>2, AssembledIs
<1>5. DOMAIN g = DOMAIN f
  BY <1>3, <1>4 DEF AssembledAs
<1>6. ASSUME NEW x \in DOMAIN f
      PROVE  g[x] = f[x]
  <2>1. CASE x \in S
    BY <1>3, <1>4, <2>1 DEF AssembledAs
  <2>2. CASE x \notin S
    <3>1. PICK a \in A : x = Home(m, o, a)
      BY <1>3, <2>2 DEF AssembledAs
    <3>2. f[x] = Arrived(m[a], F[a])
      BY <1>3, <3>1 DEF AssembledAs
    <3>3. x = Home(n, o, a)
      BY <3>1
    <3>4. g[x] = Arrived(n[a], G[a])
      BY <1>4, <3>3 DEF AssembledAs
    <3> QED
      BY <3>2, <3>4
  <2> QED
    BY <2>1, <2>2
<1>7. f = [x \in DOMAIN f |-> f[x]] /\ g = [x \in DOMAIN g |-> g[x]]
  BY <1>1 DEF Assembled
<1>8. f = g
  BY <1>5, <1>6, <1>7
<1> QED
  BY <1>1, <1>8

\* Homes do not change while the forward addresses and the shapes stay.
LEMMA PackedKept ==
  ASSUME NEW m, NEW n, NEW o, NEW A, NEW free, Packed(m, o, A, free),
         \A a \in A : n[a].fwd = m[a].fwd /\ Size(n[a]) = Size(m[a])
  PROVE  Packed(n, o, A, free)
<1>1. \A a \in A : Home(n, o, a) = Home(m, o, a)
  BY DEF Home
<1>2. ASSUME NEW a \in A
      PROVE  LET next == Home(n, o, a) + Size(n[a]) IN
             /\ Home(n, o, a) \in 0..a
             /\ n[a].fwd = o + W * Home(n, o, a)
             /\ next <= free
             /\ next = free \/ \E b \in A : Home(n, o, b) = next
  BY <1>1 DEF Packed
<1>3. \A a, b \in A : a < b => Home(n, o, a) + Size(n[a]) <= Home(n, o, b)
  BY <1>1 DEF Packed
<1> QED
  BY <1>2, <1>3 DEF Packed

\* A redirected word only depends on the forward address it goes through.
LEMMA RedirectedKept ==
  ASSUME NEW h, NEW g, NEW m, NEW n, DOMAIN n = DOMAIN m,
         \A a \in DOMAIN m : n[a].fwd = m[a].fwd,
         NEW ws, Fixable(h, m, ws)
  PROVE  /\ Redirected(h, n, g, ws) = Redirected(h, m, g, ws)
         /\ Fixable(h, n, ws)
<1>1. ASSUME NEW k \in DOMAIN ws
      PROVE  Redirect(h, n, g, ws[k]) = Redirect(h, m, g, ws[k])
  BY DEF Redirect, Fixable, Names
<1>2. Redirected(h, n, g, ws) = Redirected(h, m, g, ws)
  BY <1>1 DEF Redirected
<1> QED
  BY <1>2 DEF Fixable, Names

\* Every object that waits has a home of its own in the heap that will be.
LEMMA HomesApart ==
  ASSUME Inv, pc \in {"update", "relocate"}
  PROVE  /\ Apart(mem, gc.old.begin, Movers)
         /\ \A a, b \in Movers : NewHome(a) < NewHome(b) => a < b
         /\ Free(mem, gc.old.begin, Settled, Movers)
         /\ AssembledAs(mem, gc.old.begin, Settled, Movers, [a \in Movers |-> FutureFields(a)], FutureMem)
<1>1. PICK o \in Nat, A \in SUBSET DOMAIN mem : o = gc.old.begin /\ A = Movers
  BY MovingState
<1>2. Packed(mem, o, A, gc.free) /\ \A a \in A : a \in Nat /\ Size(mem[a]) \in Nat /\ Size(mem[a]) >= 2
  BY <1>1, MovingState
<1>3. /\ Apart(mem, o, A)
      /\ \A a, b \in A : Home(mem, o, a) < Home(mem, o, b) => a < b
  BY <1>2, PackedApart
<1>4. Free(mem, o, Settled, A)
  <2>1. \A c \in Settled : c \in Nat /\ \A a \in A : c < Home(mem, o, a)
    BY <1>1, MovingState DEF Settled, NewHome
  <2>2. \A a \in A : Home(mem, o, a) \in Nat
    BY <1>2 DEF Packed
  <2> QED
    BY <2>1, <2>2 DEF Free
<1>5. PICK F : F = [a \in Movers |-> FutureFields(a)]
  OBVIOUS
<1>6. AssembledAs(mem, o, Settled, A, F, FutureMem)
  <2>1. FutureMem = Assembled(mem, o, Settled, A, F)
    BY <1>1, <1>5 DEF FutureMem
  <2>2. AssembledAs(mem, o, Settled, A, F, Assembled(mem, o, Settled, A, F))
    BY <1>3, <1>4, AssembledIs
  <2> QED
    BY <2>1, <2>2
<1> QED
  BY <1>1, <1>3, <1>4, <1>5, <1>6 DEF NewHome

\* The object that a mover will be.
LEMMA MoverType ==
  ASSUME Inv, pc \in {"update", "relocate"}, NEW a \in Movers
  PROVE  /\ NewHome(a) \in DOMAIN FutureMem /\ NewHome(a) \in Nat /\ NewHome(a) <= a
         /\ FutureMem[NewHome(a)] = Arrived(mem[a], FutureFields(a))
         /\ FutureFields(a) \in Seq(Nat)
         /\ Len(FutureFields(a)) = Len(mem[a].fields)
<1>1. a \in DOMAIN mem /\ a \in Nat /\ ObjectOK(mem[a])
  BY MovingState
<1>2. NewHome(a) \in Nat /\ NewHome(a) <= a
  BY <1>1, MovingState DEF Packed, NewHome
<1>3. PICK F : F = [b \in Movers |-> FutureFields(b)]
  OBVIOUS
<1>4. AssembledAs(mem, gc.old.begin, Settled, Movers, F, FutureMem)
  BY <1>3, HomesApart
<1>5. /\ NewHome(a) \in DOMAIN FutureMem
      /\ FutureMem[NewHome(a)] = Arrived(mem[a], F[a])
  BY <1>4 DEF AssembledAs, NewHome
<1>6. F[a] = FutureFields(a)
  BY <1>3
<1>7. ObjectOK(Arrived(mem[a], F[a]))
  BY <1>5, MovingState DEF Sound
<1>8. PICK p : p = Arrived(mem[a], F[a]) /\ ObjectOK(p)
  BY <1>7
<1>9. p.fields \in Seq(Nat) /\ Len(p.fields) = FieldCount(p.kind, p.len)
  BY <1>8, ObjectType
<1>10. p.fields = F[a] /\ p.kind = mem[a].kind /\ p.len = mem[a].len
  BY <1>1, <1>8 DEF Arrived, Unmark, ObjectOK, Object
<1>11. Len(mem[a].fields) = FieldCount(mem[a].kind, mem[a].len)
  BY <1>1, ObjectType
<1> QED
  BY <1>2, <1>5, <1>6, <1>9, <1>10, <1>11

\* CanFix is what Fixable says of a mapped word.
LEMMA FixIs ==
  /\ \A ws : CanFix(ws) <=> Fixable(gc.old, mem, ws)
  /\ \A ws : [k \in DOMAIN ws |-> Fix(ws[k])] = Redirected(gc.old, mem, heap, ws)
<1>1. \A ws : CanFix(ws) <=> Fixable(gc.old, mem, ws)
  BY DEF CanFix, Fixable, Stale, IsObj
<1>2. \A w : Fix(w) = Redirect(gc.old, mem, heap, w)
  BY DEF Fix, Stale, Forward, Redirect
<1> QED
  BY <1>1, <1>2 DEF Redirected

\* The fields of the next live object are redirected.
LEMMA UpdateInv ==
  ASSUME Inv, Update
  PROVE  Inv' /\ FutureKept
<1>1. pc = "update" /\ gc.scan < heap.current
  BY DEF Update
<1> DEFINE at == gc.scan
           sz == Size(mem[gc.scan])
<1>2. /\ Fixing /\ Types
      /\ \A a \in DOMAIN mem : ObjectOK(mem[a]) /\ a \in Nat /\ Size(mem[a]) \in Nat
           /\ Size(mem[a]) >= 2
      /\ heap.current \in Nat /\ gc \in Registers(Chunk)
      /\ Movers \in SUBSET DOMAIN mem
  BY <1>1, MovingState
<1>3. at \in DOMAIN mem /\ at \in Nat
  BY <1>1, MovingState
<1>4. /\ sz \in Nat /\ sz >= 2 /\ ObjSize(gc.scan) = sz
      /\ at + sz \in DOMAIN mem \cup {heap.current}
      /\ \A a \in DOMAIN mem : at < a => at + sz <= a
  BY <1>2, <1>3 DEF Fixing, Tiles, ObjSize, Size
<1>5. Movers = MarkedIn(mem)
  BY <1>1 DEF Movers
<1>6. mem[at].marked => Fixable(gc.old, mem, mem[at].fields) /\ at \in Movers
  BY <1>2, <1>3, <1>5 DEF Fixing, MarkedIn
<1>7. PICK ws : ws = Redirected(gc.old, mem, heap, mem[at].fields)
  OBVIOUS
<1>8. /\ mem' = IF mem[at].marked THEN [mem EXCEPT ![at].fields = ws] ELSE mem
      /\ gc' = [gc EXCEPT !.scan = @ + sz]
      /\ UNCHANGED <<heap, stack, xroots, nextid, pc, req>>
  <2>1. CanFix(mem[at].fields) <=> Fixable(gc.old, mem, mem[at].fields)
    BY FixIs
  <2>2. [k \in DOMAIN mem[at].fields |-> Fix(mem[at].fields[k])] = ws
    BY <1>7, FixIs
  <2>3. ~(at \notin DOMAIN mem \/ (mem[at].marked /\ ~CanFix(mem[at].fields)))
    BY <1>3, <1>6, <2>1
  <2>4. /\ mem' = IF mem[at].marked
                  THEN [mem EXCEPT ![at].fields = [k \in DOMAIN @ |-> Fix(@[k])]] ELSE mem
        /\ gc' = [gc EXCEPT !.scan = @ + ObjSize(gc.scan)]
        /\ UNCHANGED <<heap, stack, xroots, nextid, pc, req>>
    BY <2>3 DEF Update
  <2> QED
    BY <1>4, <2>2, <2>4
<1>9. /\ gc' \in Registers(Chunk) /\ gc'.scan = at + sz /\ gc'.old = gc.old /\ gc'.free = gc.free
  BY <1>2, <1>3, <1>4, <1>8 DEF Registers
<1>10. PICK n : n = mem'
  OBVIOUS
<1>11. mem[at].marked => ws = FutureFields(at) /\ ws \in Seq(Nat) /\ Len(ws) = Len(mem[at].fields)
  <2>1. FutureFields(at) = ws
    BY <1>1, <1>3, <1>7 DEF FutureFields, FutureWords
  <2> QED
    BY <1>1, <1>6, <2>1, MoverType
<1>12. /\ DOMAIN n = DOMAIN mem
       /\ \A a \in DOMAIN mem :
            /\ n[a].kind = mem[a].kind /\ n[a].len = mem[a].len /\ n[a].id = mem[a].id
            /\ ObjectOK(n[a]) /\ n[a].fwd = mem[a].fwd
            /\ n[a].marked = mem[a].marked
            /\ a # at => n[a].fields = mem[a].fields
            /\ \A fs : Arrived(n[a], fs) = Arrived(mem[a], fs)
  <2>1. DOMAIN n = DOMAIN mem
    BY <1>8, <1>10
  <2>2. ASSUME NEW a \in DOMAIN mem, n[a] = mem[a]
        PROVE  /\ n[a].kind = mem[a].kind /\ n[a].len = mem[a].len /\ n[a].id = mem[a].id
               /\ ObjectOK(n[a]) /\ n[a].fwd = mem[a].fwd
               /\ n[a].marked = mem[a].marked
               /\ a # at => n[a].fields = mem[a].fields
               /\ \A fs : Arrived(n[a], fs) = Arrived(mem[a], fs)
    BY <1>2, <2>2
  <2>3. ASSUME mem[at].marked
        PROVE  /\ n[at].kind = mem[at].kind /\ n[at].len = mem[at].len /\ n[at].id = mem[at].id
               /\ ObjectOK(n[at]) /\ n[at].fwd = mem[at].fwd
               /\ n[at].marked = mem[at].marked
               /\ \A fs : Arrived(n[at], fs) = Arrived(mem[at], fs)
    <3>1. PICK o \in Object : o = mem[at] /\ ObjectOK(o)
      BY <1>2, <1>3 DEF ObjectOK
    <3>2. n[at] = [o EXCEPT !.fields = ws]
      BY <1>3, <1>8, <1>10, <2>3, <3>1
    <3>3. n[at] \in Object /\ n[at].kind = o.kind /\ n[at].len = o.len /\ n[at].id = o.id
          /\ n[at].fwd = o.fwd /\ n[at].marked = o.marked /\ n[at].fields = ws
      BY <1>11, <2>3, <3>2 DEF Object
    <3>4. ObjectOK(n[at])
      BY <1>11, <2>3, <3>1, <3>3 DEF ObjectOK
    <3>5. \A fs : Arrived(n[at], fs) = Arrived(o, fs)
      BY <3>2 DEF Arrived, Unmark, Object
    <3> QED
      BY <3>1, <3>3, <3>4, <3>5
  <2>4. \A a \in DOMAIN mem : n[a] = mem[a] \/ (a = at /\ mem[at].marked)
    BY <1>8, <1>10
  <2> QED
    BY <2>1, <2>2, <2>3, <2>4
<1> HIDE DEF at, sz
<1>13. Movers' = Movers /\ Settled = {} /\ Settled' = {}
  <2>1. MarkedIn(n) = MarkedIn(mem)
    BY <1>12 DEF MarkedIn
  <2> QED
    BY <1>1, <1>8, <1>10, <2>1 DEF Movers, Settled
<1>14. ASSUME NEW a \in Movers
       PROVE  /\ FutureFields(a)' = FutureFields(a)
              /\ at + sz <= a => Fixable(gc.old, mem, mem[a].fields) /\ n[a].fields = mem[a].fields
  <2>1. a \in DOMAIN mem /\ a \in Nat
    BY <1>2
  <2>2. CASE at + sz <= a
    <3>1. Fixable(gc.old, mem, mem[a].fields) /\ n[a].fields = mem[a].fields
      BY <1>2, <1>3, <1>4, <1>12, <2>1, <2>2 DEF Fixing, at
    <3>2. \A x \in DOMAIN mem : n[x].fwd = mem[x].fwd
      BY <1>12
    <3>3. PICK fs : fs = mem[a].fields
      OBVIOUS
    <3>4. Redirected(gc.old, n, heap, fs) = Redirected(gc.old, mem, heap, fs)
      BY <1>12, <3>1, <3>2, <3>3, RedirectedKept
    <3>5. FutureFields(a) = Redirected(gc.old, mem, heap, fs)
      BY <1>1, <1>3, <1>4, <2>1, <2>2, <3>3 DEF FutureFields, FutureWords, at
    <3>6. FutureFields(a)' = Redirected(gc.old, n, heap, fs)
      BY <1>1, <1>8, <1>9, <1>10, <2>2, <3>1, <3>3 DEF FutureFields, FutureWords
    <3> QED
      BY <3>1, <3>4, <3>5, <3>6
  <2>3. CASE ~(at + sz <= a)
    <3>1. FutureFields(a)' = n[a].fields
      BY <1>9, <1>10, <2>3 DEF FutureFields
    <3>2. a <= at
      BY <1>3, <1>4, <2>1, <2>3
    <3>3. CASE a = at
      <4>1. mem[at].marked
        BY <1>5, <3>3 DEF MarkedIn
      <4>2. n[at].fields = ws
        <5>1. PICK o \in Object : o = mem[at]
          BY <1>2, <1>3 DEF ObjectOK
        <5>2. n[at] = [o EXCEPT !.fields = ws]
          BY <1>3, <1>8, <1>10, <4>1, <5>1
        <5> QED
          BY <5>2 DEF Object
      <4> QED
        BY <1>11, <2>3, <3>1, <3>3, <4>1, <4>2
    <3>4. CASE a < at
      <4>1. FutureFields(a) = mem[a].fields
        BY <1>3, <2>1, <3>4 DEF FutureFields, at
      <4> QED
        BY <1>3, <1>12, <2>1, <2>3, <3>1, <3>4, <4>1
    <3> QED
      BY <1>3, <2>1, <3>2, <3>3, <3>4
  <2> QED
    BY <2>2, <2>3
<1>15. FutureMem' = FutureMem
  <2>1. PICK o, A, F, G : /\ o = gc.old.begin /\ A = Movers
                          /\ F = [a \in Movers |-> FutureFields(a)]
                          /\ G = [a \in Movers |-> FutureFields(a)']
    OBVIOUS
  <2>2. Apart(mem, o, A) /\ Free(mem, o, {}, A)
    BY <1>1, <1>13, <2>1, HomesApart
  <2>3. F = G
    BY <1>14, <2>1
  <2>4. \A a \in A : Home(n, o, a) = Home(mem, o, a) /\ Arrived(n[a], F[a]) = Arrived(mem[a], F[a])
    BY <1>2, <1>12, <2>1 DEF Home
  <2>5. Assembled(n, o, {}, A, F) = Assembled(mem, o, {}, A, F)
    BY <2>2, <2>4, AssembledSame
  <2>6. FutureMem = Assembled(mem, o, {}, A, F)
    BY <1>13, <2>1 DEF FutureMem
  <2>7. FutureMem' = Assembled(n, o, {}, A, G)
    BY <1>9, <1>10, <1>13, <2>1 DEF FutureMem
  <2> QED
    BY <2>3, <2>5, <2>6, <2>7
<1>16. /\ FutureStack' = FutureStack /\ FutureXroots' = FutureXroots
       /\ Fixable(gc.old, n, stack) /\ Fixable(gc.old, n, xroots)
  <2>1. Fixable(gc.old, mem, stack) /\ Fixable(gc.old, mem, xroots)
    BY <1>2 DEF Fixing
  <2>2. \A x \in DOMAIN mem : n[x].fwd = mem[x].fwd
    BY <1>12
  <2>3. PICK s, x : s = stack /\ x = xroots
    OBVIOUS
  <2>4. Redirected(gc.old, n, heap, s) = Redirected(gc.old, mem, heap, s) /\ Fixable(gc.old, n, s)
    BY <1>12, <2>1, <2>2, <2>3, RedirectedKept
  <2>5. Redirected(gc.old, n, heap, x) = Redirected(gc.old, mem, heap, x) /\ Fixable(gc.old, n, x)
    BY <1>12, <2>1, <2>2, <2>3, RedirectedKept
  <2> QED
    BY <1>1, <1>8, <1>9, <1>10, <2>3, <2>4, <2>5 DEF FutureStack, FutureXroots, FutureWords
<1>17. Fixing'
  <2>1. Tiles(n, DOMAIN n, 0, heap.current)
    <3>1. SameShape(mem, n)
      BY <1>2, <1>12 DEF SameShape
    <3>2. Tiles(mem, DOMAIN mem, 0, heap.current)
      BY <1>2 DEF Fixing
    <3>3. Tiles(n, DOMAIN mem, 0, heap.current)
      BY <3>1, <3>2, ShapesKept
    <3> QED
      BY <1>12, <3>3
  <2>2. ASSUME NEW a \in Movers, at + sz <= a
        PROVE  Fixable(gc.old, n, n[a].fields)
    <3>1. Fixable(gc.old, mem, mem[a].fields) /\ n[a].fields = mem[a].fields
      BY <1>14, <2>2
    <3> QED
      BY <1>12, <3>1 DEF Fixable, Names
  <2> QED
    BY <1>8, <1>9, <1>10, <1>13, <1>16, <2>1, <2>2 DEF Fixing
<1>18. Packed(n, gc.old.begin, Movers, gc.free)
  <2>1. \A a \in Movers : n[a].fwd = mem[a].fwd /\ Size(n[a]) = Size(mem[a])
    BY <1>2, <1>12 DEF Size
  <2>2. Packed(mem, gc.old.begin, Movers, gc.free)
    BY <1>1, MovingState
  <2> QED
    BY <2>1, <2>2, PackedKept
<1>19. \A a \in DOMAIN n : ObjectOK(n[a]) /\ n[a].id < nextid
  BY <1>2, <1>12 DEF Types
<1>20. stack \in Seq(Nat) /\ xroots \in Seq(Nat) /\ DOMAIN n \subseteq Nat
  BY <1>2, <1>12 DEF Types
<1> QED
  BY <1>1, <1>4, <1>8, <1>9, <1>10, <1>12, <1>13, <1>15, <1>16, <1>17, <1>18, <1>19, <1>20, MovingKept

\* The stack and the extra roots are redirected, and no object has moved yet.
LEMMA FixRootsInv ==
  ASSUME Inv, FixRoots
  PROVE  Inv' /\ FutureKept
<1>1. pc = "update" /\ gc.scan >= heap.current
  BY DEF FixRoots
<1>2. /\ Fixing /\ Types
      /\ \A a \in DOMAIN mem : ObjectOK(mem[a]) /\ a \in Nat /\ Size(mem[a]) \in Nat
           /\ Size(mem[a]) >= 2
      /\ heap.current \in Nat /\ gc \in Registers(Chunk) /\ gc.scan \in Nat /\ gc.free \in Nat
      /\ gc.scan \in DOMAIN mem \cup {heap.current}
      /\ Movers \in SUBSET DOMAIN mem
      /\ Tiles(mem, DOMAIN mem, 0, heap.current)
  BY <1>1, MovingState DEF Fixing
<1>3. \A a \in DOMAIN mem : a + Size(mem[a]) <= heap.current /\ a < heap.current
  BY <1>2 DEF Tiles
<1>4. gc.scan = heap.current
  BY <1>1, <1>2, <1>3
<1>5. /\ stack' = Redirected(gc.old, mem, heap, stack)
      /\ xroots' = Redirected(gc.old, mem, heap, xroots)
      /\ pc' = "relocate" /\ gc' = [gc EXCEPT !.scan = 0]
      /\ UNCHANGED <<heap, mem, nextid, req>>
  <2>1. Fixable(gc.old, mem, stack) /\ Fixable(gc.old, mem, xroots)
    BY <1>2 DEF Fixing
  <2>2. CanFix(stack) /\ CanFix(xroots)
    BY <2>1, FixIs
  <2>3. /\ stack' = [k \in DOMAIN stack |-> Fix(stack[k])]
        /\ xroots' = [k \in DOMAIN xroots |-> Fix(xroots[k])]
        /\ pc' = "relocate" /\ gc' = [gc EXCEPT !.scan = 0]
        /\ UNCHANGED <<heap, mem, nextid, req>>
    BY <2>2 DEF FixRoots
  <2> QED
    BY <2>3, FixIs
<1>6. /\ gc' \in Registers(Chunk) /\ gc'.scan = 0 /\ gc'.old = gc.old /\ gc'.free = gc.free
  BY <1>2, <1>5 DEF Registers
<1>7. /\ stack' = FutureStack /\ xroots' = FutureXroots
      /\ FutureStack' = FutureStack /\ FutureXroots' = FutureXroots
  BY <1>1, <1>5 DEF FutureStack, FutureXroots, FutureWords
<1>8. stack' \in Seq(Nat) /\ xroots' \in Seq(Nat) /\ Len(stack') = Len(stack)
  <2>1. stack' \in Seq(Nat) /\ xroots' \in Seq(Nat)
    BY <1>1, <1>7, MovingState
  <2>2. PICK n \in Nat : n = Len(stack) /\ DOMAIN stack = 1..n
    BY <1>2 DEF Types
  <2>3. DOMAIN stack' = 1..n
    BY <1>5, <2>2 DEF Redirected
  <2>4. PICK st \in Seq(Nat) : st = stack'
    BY <2>1
  <2>5. Len(st) = n
    BY <2>3, <2>4
  <2> QED
    BY <2>1, <2>2, <2>4, <2>5
<1>9. Movers' = Movers /\ Settled = {} /\ Settled' = {}
  <2>1. \A a \in DOMAIN mem : 0 <= a /\ ~(a < 0)
    BY <1>2
  <2> QED
    BY <1>1, <1>5, <1>6, <2>1 DEF Movers, Settled, MarkedIn
<1>10. \A a \in Movers : FutureFields(a)' = FutureFields(a)
  <2> TAKE a \in Movers
  <2>1. a \in Nat /\ a < heap.current
    BY <1>2, <1>3
  <2>2. FutureFields(a) = mem[a].fields
    BY <1>2, <1>4, <2>1 DEF FutureFields
  <2>3. FutureFields(a)' = mem[a].fields
    BY <1>5, <1>6 DEF FutureFields, FutureWords
  <2> QED
    BY <2>2, <2>3
<1>11. FutureMem' = FutureMem
  <2>1. PICK o, F, G : /\ o = gc.old.begin
                       /\ F = [a \in Movers |-> FutureFields(a)]
                       /\ G = [a \in Movers |-> FutureFields(a)']
    OBVIOUS
  <2>2. F = G
    BY <1>10, <2>1
  <2>3. FutureMem = Assembled(mem, o, {}, Movers, F)
    BY <1>9, <2>1 DEF FutureMem
  <2>4. FutureMem' = Assembled(mem, o, {}, Movers, G)
    BY <1>5, <1>6, <1>9, <2>1 DEF FutureMem
  <2> QED
    BY <2>2, <2>3, <2>4
<1>12. 0 \in DOMAIN mem \cup {heap.current}
  BY <1>2 DEF Tiles
<1>13. gc.free = 0 \/ \E a \in Movers : NewHome(a) = 0
  <2>1. Tiles(FutureMem, DOMAIN FutureMem, 0, gc.free)
    <3>1. FutureHeap.current = gc.free
      <4>1. PICK g : g = heap /\ g \in Chunk
        BY <1>1, MovingState
      <4>2. FutureHeap = [begin |-> g.begin, size |-> g.size, current |-> gc.free]
        BY <4>1 DEF FutureHeap, Chunk
      <4> QED
        BY <4>2
    <3> QED
      BY <1>1, <3>1, MovingState DEF Sound
  <2>2. PICK F : F = [a \in Movers |-> FutureFields(a)]
    OBVIOUS
  <2>3. AssembledAs(mem, gc.old.begin, {}, Movers, F, FutureMem)
    BY <1>1, <1>9, <2>2, HomesApart
  <2>4. DOMAIN FutureMem = {} \cup {Home(mem, gc.old.begin, a) : a \in Movers}
    BY <2>3 DEF AssembledAs
  <2> QED
    BY <2>1, <2>4 DEF Tiles, NewHome
<1>14. Sliding'
  <2>1. Tiles(mem, {c \in DOMAIN mem : 0 <= c}, 0, heap.current)
    <3>1. {c \in DOMAIN mem : 0 <= c} = DOMAIN mem
      BY <1>2
    <3> QED
      BY <1>2, <3>1
  <2>2. \A c \in DOMAIN mem : ~(c < 0)
    BY <1>2
  <2>3. gc.free <= 0 \/ \E a \in Movers : NewHome(a) <= 0
    BY <1>2, <1>13
  <2>4. \A a : NewHome(a)' = NewHome(a)
    BY <1>5, <1>6 DEF NewHome
  <2> QED
    BY <1>5, <1>6, <1>9, <2>1, <2>2, <2>3, <2>4 DEF Sliding
<1>15. Packed(mem, gc.old.begin, Movers, gc.free)
  BY <1>1, MovingState
<1>16. \A a \in DOMAIN mem : ObjectOK(mem[a]) /\ mem[a].id < nextid
  BY <1>2 DEF Types
<1>17. DOMAIN mem \subseteq Nat
  BY <1>2
<1> QED
  BY <1>1, <1>5, <1>6, <1>7, <1>8, <1>9, <1>11, <1>12, <1>14, <1>15, <1>16, <1>17, MovingKept

-----------------------------------------------------------------------------
\* the offsets in D from lo on, and that the objects there have sizes
From(D, lo) == {c \in D : lo <= c}
Sized(m, D) == \A a \in D : a \in Nat /\ Size(m[a]) \in Nat /\ Size(m[a]) > 0

\* The objects behind the first one follow each other, too.
LEMMA TilesRest ==
  ASSUME NEW m, NEW D, NEW at \in D, NEW hi \in Nat, NEW sz,
         Tiles(m, D, at, hi), sz = Size(m[at]), Sized(m, D)
  PROVE  /\ Tiles(m, From(D, at + sz), at + sz, hi)
         /\ at + sz \in D \cup {hi}
         /\ D = {at} \cup From(D, at + sz)
<1> DEFINE E == From(D, at + sz)
<1>0. /\ \A a \in D : a \in Nat /\ Size(m[a]) \in Nat
      /\ at \in Nat /\ sz \in Nat /\ sz > 0
      /\ \A a : a \in E <=> a \in D /\ at + sz <= a
  BY DEF Sized, From
<1> HIDE DEF E
<1>1. /\ at + sz <= hi /\ (at + sz = hi \/ at + sz \in D)
      /\ \A a \in D : at <= a
      /\ \A a, b \in D : a < b => a + Size(m[a]) <= b /\ m[a].id < m[b].id
      /\ \A a \in D : LET next == a + Size(m[a]) IN next <= hi /\ (next = hi \/ next \in D)
  BY DEF Tiles
<1>2. \A a \in D : a = at \/ at + sz <= a
  BY <1>0, <1>1
<1>3. at + sz = hi \/ at + sz \in E
  BY <1>0, <1>1
<1>4. ASSUME NEW a \in E
      PROVE  LET next == a + Size(m[a]) IN
             at + sz <= a /\ next <= hi /\ (next = hi \/ next \in E)
  <2>1. a \in D /\ a \in Nat /\ at + sz <= a /\ at < a
    <3>1. a \in D /\ a \in Nat /\ at + sz <= a
      BY <1>0
    <3> QED
      BY <1>0, <3>1
  <2>2. PICK next : next = a + Size(m[a])
    OBVIOUS
  <2>3. next <= hi /\ (next = hi \/ next \in D)
    BY <1>1, <2>1, <2>2
  <2>4. CASE next \in D
    <3>1. next > at
      BY <2>1, <2>2, <1>0
    <3>2. at + sz <= next
      BY <1>0, <1>2, <2>4, <3>1
    <3> QED
      BY <1>0, <2>1, <2>2, <2>3, <2>4, <3>2
  <2>5. CASE next = hi
    BY <2>1, <2>2, <2>3, <2>5
  <2> QED
    BY <2>3, <2>4, <2>5
<1>5. \A a, b \in E : a < b => a + Size(m[a]) <= b /\ m[a].id < m[b].id
  BY <1>0, <1>1
<1>6. Tiles(m, E, at + sz, hi)
  BY <1>3, <1>4, <1>5 DEF Tiles
<1>7. D = {at} \cup E
  BY <1>0, <1>2
<1> QED
  BY <1>1, <1>6, <1>7 DEF E

\* Where physically_relocate is.
LEMMA RelocateState ==
  ASSUME Inv, Relocate
  PROVE  /\ pc = "relocate" /\ pc' = "relocate" /\ UNCHANGED <<heap, stack, xroots, nextid, req>>
         /\ gc.scan \in DOMAIN mem /\ gc.scan \in Nat /\ gc.scan < heap.current
         /\ ObjSize(gc.scan) = Size(mem[gc.scan])
         /\ gc.scan + Size(mem[gc.scan]) \in DOMAIN mem \cup {heap.current}
         /\ \A a \in DOMAIN mem : IF a < gc.scan THEN a + Size(mem[a]) <= gc.scan
                                  ELSE a = gc.scan \/ gc.scan + Size(mem[gc.scan]) <= a
         /\ Tiles(mem, From(DOMAIN mem, gc.scan + Size(mem[gc.scan])),
                  gc.scan + Size(mem[gc.scan]), heap.current)
         /\ gc.free <= gc.scan \/ \E a \in Movers : NewHome(a) <= gc.scan
         /\ mem' = IF mem[gc.scan].marked THEN Moved(gc.scan, NewHome(gc.scan)) ELSE mem
         /\ gc' \in Registers(Chunk) /\ gc'.scan = gc.scan + Size(mem[gc.scan])
         /\ gc'.old = gc.old /\ gc'.free = gc.free
<1>1. pc = "relocate" /\ gc.scan < heap.current
  BY DEF Relocate
<1>2. /\ Sliding
      /\ \A a \in DOMAIN mem : a \in Nat /\ Size(mem[a]) \in Nat /\ Size(mem[a]) >= 2
      /\ heap.current \in Nat /\ gc \in Registers(Chunk) /\ gc.scan \in Nat
  BY <1>1, MovingState
<1>3. gc.scan \in DOMAIN mem
  BY <1>1, MovingState
<1>4. /\ mem' = IF mem[gc.scan].marked THEN Moved(gc.scan, NewHome(gc.scan)) ELSE mem
      /\ gc' = [gc EXCEPT !.scan = @ + ObjSize(gc.scan)]
      /\ UNCHANGED <<heap, stack, xroots, nextid, pc, req>>
  BY <1>3 DEF Relocate, NewHome, Home
<1>5. ObjSize(gc.scan) = Size(mem[gc.scan])
  BY DEF ObjSize, Size
<1>6. PICK at \in Nat, sz \in Nat : at = gc.scan /\ sz = Size(mem[at]) /\ sz >= 2
  BY <1>2, <1>3
<1>7. PICK D \in SUBSET DOMAIN mem, hi \in Nat : D = From(DOMAIN mem, at) /\ hi = heap.current
  BY <1>2 DEF From
<1>8. Tiles(mem, D, at, hi) /\ \A c \in DOMAIN mem : c < at => c + Size(mem[c]) <= at
  BY <1>2, <1>6, <1>7 DEF Sliding, ObjSize, Size, From
<1>9. at \in D /\ Sized(mem, D)
  BY <1>2, <1>3, <1>6, <1>7 DEF From, Sized
<1>10. /\ Tiles(mem, From(D, at + sz), at + sz, hi)
       /\ at + sz \in D \cup {hi}
       /\ D = {at} \cup From(D, at + sz)
  BY <1>6, <1>8, <1>9, TilesRest
<1>11. From(D, at + sz) = From(DOMAIN mem, at + sz)
  BY <1>2, <1>6, <1>7 DEF From
<1>12. at + sz \in DOMAIN mem \cup {hi}
  BY <1>7, <1>10 DEF From
<1>13. \A a \in DOMAIN mem : IF a < at THEN a + Size(mem[a]) <= at ELSE a = at \/ at + sz <= a
  BY <1>2, <1>6, <1>7, <1>8, <1>10 DEF From
<1>14. gc' \in Registers(Chunk) /\ gc'.scan = at + sz /\ gc'.old = gc.old /\ gc'.free = gc.free
  BY <1>2, <1>4, <1>5, <1>6 DEF Registers
<1>15. gc.free <= gc.scan \/ \E a \in Movers : NewHome(a) <= gc.scan
  BY <1>2 DEF Sliding
<1> QED
  BY <1>1, <1>3, <1>4, <1>5, <1>6, <1>7, <1>10, <1>11, <1>12, <1>13, <1>14, <1>15

\* A dead object is passed.
LEMMA RelocateDeadInv ==
  ASSUME Inv, Relocate, ~mem[gc.scan].marked
  PROVE  Inv' /\ FutureKept
<1>1. /\ pc = "relocate" /\ pc' = "relocate"
      /\ UNCHANGED <<heap, mem, stack, xroots, nextid, req>>
      /\ gc' \in Registers(Chunk) /\ gc'.old = gc.old /\ gc'.free = gc.free
  BY RelocateState
<1>2. PICK at \in Nat, sz \in Nat :
        /\ at = gc.scan /\ sz = Size(mem[at]) /\ sz >= 2 /\ at \in DOMAIN mem
        /\ gc'.scan = at + sz
        /\ \A a \in DOMAIN mem : a \in Nat /\ Size(mem[a]) \in Nat /\ Size(mem[a]) >= 2
        /\ at + sz \in DOMAIN mem \cup {heap.current}
  BY <1>1, RelocateState, MovingState
<1>3. \A a \in DOMAIN mem : IF a < at THEN a + Size(mem[a]) <= at ELSE a = at \/ at + sz <= a
  BY <1>2, RelocateState
<1>4. PICK A \in SUBSET DOMAIN mem : A = Movers
  BY <1>1, MovingState
<1>5. gc.free \in Nat /\ \A a \in A : NewHome(a) \in Nat
  BY <1>1, <1>4, MovingState, MoverType
<1>6. Movers' = A
  BY <1>1, <1>2, <1>3, <1>4 DEF Movers, MarkedIn
<1>7. \A a : NewHome(a)' = NewHome(a)
  BY <1>1 DEF NewHome
<1>8. gc.free <= at \/ \E a \in A : NewHome(a) <= at
  BY <1>2, <1>4, RelocateState
<1>9. Settled' = Settled
  <2>1. Settled = {c \in DOMAIN mem : c < at /\ c < gc.free /\ \A a \in A : c < NewHome(a)}
    BY <1>1, <1>2, <1>4 DEF Settled
  <2>2. Settled' = {c \in DOMAIN mem : c < at + sz /\ c < gc.free /\ \A a \in A : c < NewHome(a)}
    BY <1>1, <1>2, <1>6, <1>7 DEF Settled
  <2>3. ASSUME NEW c \in DOMAIN mem, c < at + sz, c < gc.free, \A a \in A : c < NewHome(a)
        PROVE  c < at
    <3>1. c \in Nat /\ (c < at \/ c = at)
      BY <1>2, <1>3, <2>3
    <3>2. c # at
      BY <1>2, <1>5, <1>8, <2>3
    <3> QED
      BY <3>1, <3>2
  <2>4. \A c \in DOMAIN mem : c < at => c < at + sz
    BY <1>2
  <2> QED
    BY <2>1, <2>2, <2>3, <2>4
<1>10. \A a \in A : FutureFields(a)' = FutureFields(a)
  BY <1>1 DEF FutureFields, FutureWords
<1>11. FutureMem' = FutureMem
  <2>1. PICK o, F, G : /\ o = gc.old.begin
                       /\ F = [a \in A |-> FutureFields(a)]
                       /\ G = [a \in A |-> FutureFields(a)']
    OBVIOUS
  <2>2. F = G
    BY <1>10, <2>1
  <2>3. FutureMem = Assembled(mem, o, Settled, A, F)
    BY <1>4, <2>1 DEF FutureMem
  <2>4. FutureMem' = Assembled(mem, o, Settled, A, G)
    BY <1>1, <1>6, <1>9, <2>1 DEF FutureMem
  <2> QED
    BY <2>2, <2>3, <2>4
<1>12. FutureStack' = FutureStack /\ FutureXroots' = FutureXroots
  BY <1>1 DEF FutureStack, FutureXroots, FutureWords
<1>13. Sliding'
  <2>1. PICK E : E = From(DOMAIN mem, at + sz) /\ E = {c \in DOMAIN mem : at + sz <= c}
    BY DEF From
  <2>2. Tiles(mem, E, at + sz, heap.current)
    BY <1>2, <2>1, RelocateState
  <2>3. \A c \in DOMAIN mem : c < at + sz => c + ObjSize(c)' <= at + sz
    <3>1. \A c : ObjSize(c)' = Size(mem[c])
      BY <1>1 DEF ObjSize, Size
    <3> QED
      BY <1>2, <1>3, <3>1
  <2>4. gc.free <= at + sz \/ \E a \in A : NewHome(a) <= at + sz
    BY <1>2, <1>5, <1>8
  <2> QED
    BY <1>1, <1>2, <1>6, <1>7, <2>1, <2>2, <2>3, <2>4 DEF Sliding
<1>14. Packed(mem, gc.old.begin, A, gc.free)
  BY <1>1, <1>4, MovingState
<1>15. \A a \in DOMAIN mem : ObjectOK(mem[a]) /\ mem[a].id < nextid
  BY <1>1, MovingState DEF Types
<1>16. stack \in Seq(Nat) /\ xroots \in Seq(Nat) /\ DOMAIN mem \subseteq Nat
  BY <1>1, MovingState DEF Types
<1> QED
  BY <1>1, <1>2, <1>4, <1>6, <1>11, <1>12, <1>13, <1>14, <1>15, <1>16, MovingKept

\* One object goes home, the others wait: the same heap is assembled.
LEMMA AssembledMoves ==
  ASSUME NEW m, NEW n, NEW o, NEW S, NEW A, NEW at \in A, NEW F, NEW G,
         Apart(m, o, A), Free(m, o, S, A),
         \A a \in A \ {at} : n[a] = m[a] /\ G[a] = F[a],
         \A c \in S : n[c] = m[c],
         n[Home(m, o, at)] = Arrived(m[at], F[at])
  PROVE  Assembled(n, o, S \cup {Home(m, o, at)}, A \ {at}, G) = Assembled(m, o, S, A, F)
<1> DEFINE to == Home(m, o, at)
           T == S \cup {to}
           B == A \ {at}
<1>1. PICK f, g : f = Assembled(m, o, S, A, F) /\ g = Assembled(n, o, T, B, G)
  OBVIOUS
<1>2. \A a \in B : Home(n, o, a) = Home(m, o, a) /\ a \in A /\ a # at
  BY DEF Home
<1>3. Apart(n, o, B) /\ Free(n, o, T, B)
  BY <1>2 DEF Apart, Free
<1>4. AssembledAs(m, o, S, A, F, f)
  BY <1>1, AssembledIs
<1>5. AssembledAs(n, o, T, B, G, g)
  <2> HIDE DEF T, B
  <2> QED
    BY <1>1, <1>3, AssembledIs
<1>6. DOMAIN f = S \cup {Home(m, o, a) : a \in A}
  BY <1>4 DEF AssembledAs
<1>7. DOMAIN g = T \cup {Home(n, o, a) : a \in B}
  BY <1>5 DEF AssembledAs
<1>8. DOMAIN g = DOMAIN f
  BY <1>2, <1>6, <1>7
<1>9. ASSUME NEW x \in DOMAIN f
      PROVE  g[x] = f[x]
  <2>1. CASE x \in S
    BY <1>4, <1>5, <2>1 DEF AssembledAs
  <2>2. CASE x = to
    <3>1. f[to] = Arrived(m[at], F[at])
      BY <1>4 DEF AssembledAs
    <3>2. g[to] = n[to]
      BY <1>5 DEF AssembledAs
    <3> QED
      BY <2>2, <3>1, <3>2
  <2>3. CASE x \notin S /\ x # to
    <3>1. PICK a \in A : x = Home(m, o, a)
      BY <1>6, <2>3
    <3>2. a \in B
      BY <2>3, <3>1
    <3>3. f[x] = Arrived(m[a], F[a])
      BY <1>4, <3>1 DEF AssembledAs
    <3>4. x = Home(n, o, a)
      BY <1>2, <3>1, <3>2
    <3>5. g[x] = Arrived(n[a], G[a])
      BY <1>5, <3>2, <3>4 DEF AssembledAs
    <3>6. n[a] = m[a] /\ G[a] = F[a]
      BY <3>2
    <3> QED
      BY <3>3, <3>5, <3>6
  <2> QED
    BY <2>1, <2>2, <2>3
<1>10. f = [x \in DOMAIN f |-> f[x]] /\ g = [x \in DOMAIN g |-> g[x]]
  BY <1>1 DEF Assembled
<1>11. f = g
  BY <1>8, <1>9, <1>10
<1> QED
  BY <1>1, <1>11

\* An object that has gone home is no longer marked, and otherwise the same.
LEMMA UnmarkIs ==
  ASSUME NEW x, ObjectOK(x)
  PROVE  /\ ObjectOK(Unmark(x)) /\ Size(Unmark(x)) = Size(x) /\ Unmark(x).id = x.id
         /\ Unmark(x).marked = FALSE
         /\ Unmark(x) = Arrived(x, x.fields)
<1>1. PICK p : p = Unmark(x)
  OBVIOUS
<1>2. /\ p \in Object /\ p.kind = x.kind /\ p.len = x.len /\ p.id = x.id
      /\ p.fields = x.fields /\ p.marked = FALSE
  BY <1>1 DEF Unmark, ObjectOK, Object
<1>3. Arrived(x, x.fields) = [p EXCEPT !.fields = p.fields]
  BY <1>1, <1>2 DEF Arrived
<1>4. [p EXCEPT !.fields = p.fields] = p
  BY <1>2 DEF Object
<1> QED
  BY <1>1, <1>2, <1>3, <1>4 DEF ObjectOK, Size

\* A live object goes home.  Nothing that has been moved and nothing that waits
\* is in its way.
LEMMA RelocateLiveInv ==
  ASSUME Inv, Relocate, mem[gc.scan].marked
  PROVE  Inv' /\ FutureKept
<1>1. /\ pc = "relocate" /\ pc' = "relocate"
      /\ UNCHANGED <<heap, stack, xroots, nextid, req>>
      /\ gc' \in Registers(Chunk) /\ gc'.old = gc.old /\ gc'.free = gc.free
      /\ mem' = Moved(gc.scan, NewHome(gc.scan))
  BY RelocateState
<1>2. /\ \A a \in DOMAIN mem : ObjectOK(mem[a]) /\ a \in Nat
           /\ Size(mem[a]) \in Nat /\ Size(mem[a]) >= 2
      /\ heap.current \in Nat /\ gc.free \in Nat
  BY <1>1, MovingState
<1>3. PICK at \in Nat, sz \in Nat, hi \in Nat, free \in Nat :
        /\ at = gc.scan /\ sz = Size(mem[at]) /\ sz >= 2 /\ at \in DOMAIN mem
        /\ hi = heap.current /\ free = gc.free
        /\ gc'.scan = at + sz
        /\ at + sz \in DOMAIN mem \cup {hi}
        /\ mem[at].marked
  BY <1>1, <1>2, RelocateState
<1>4. \A a \in DOMAIN mem : IF a < at THEN a + Size(mem[a]) <= at ELSE a = at \/ at + sz <= a
  BY <1>3, RelocateState
<1>5. PICK A \in SUBSET DOMAIN mem : A = Movers
  BY <1>1, MovingState
<1>6. \A a : a \in A <=> a \in DOMAIN mem /\ mem[a].marked /\ at <= a
  BY <1>1, <1>3, <1>5 DEF Movers, MarkedIn
<1>7. at \in A
  BY <1>3, <1>6
<1>8. \A a \in A : /\ NewHome(a) \in Nat /\ NewHome(a) <= a
                   /\ mem[a].fwd = gc.old.begin + W * NewHome(a)
                   /\ NewHome(a) + Size(mem[a]) <= free
                   /\ \/ NewHome(a) + Size(mem[a]) = free
                      \/ \E b \in A : NewHome(b) = NewHome(a) + Size(mem[a])
                   /\ \A b \in A : a < b => NewHome(a) + Size(mem[a]) <= NewHome(b)
  <2>1. Packed(mem, gc.old.begin, A, free)
    BY <1>1, <1>3, <1>5, MovingState
  <2> QED
    BY <1>2, <2>1 DEF Packed, NewHome
<1>9. PICK to \in Nat : to = NewHome(at) /\ to <= at /\ to + sz <= free
  BY <1>3, <1>7, <1>8
<1>10. \A a \in A \ {at} : at + sz <= a /\ to + sz <= NewHome(a)
  BY <1>2, <1>3, <1>4, <1>6, <1>7, <1>8, <1>9
<1>11. free = to + sz \/ \E b \in A \ {at} : NewHome(b) = to + sz
  BY <1>3, <1>7, <1>8, <1>9
<1>12. PICK n : /\ n = mem'
                /\ to \in DOMAIN n /\ n[to] = Unmark(mem[at])
                /\ \A c : c # to => (c \in DOMAIN n <=>
                     c \in DOMAIN mem /\ ~(c < to + sz /\ to < c + Size(mem[c])))
                /\ \A c \in DOMAIN n : c # to => n[c] = mem[c]
  <2>1. PICK hit : hit = {i \in DOMAIN mem : i < to + sz /\ to < i + Size(mem[i])}
    OBVIOUS
  <2>2. mem' = [i \in (DOMAIN mem \ hit) \cup {to} |-> IF i = to THEN Unmark(mem[at]) ELSE mem[i]]
    BY <1>1, <1>3, <1>9, <2>1 DEF Moved, ObjSize, Size
  <2> QED
    BY <2>1, <2>2
<1>13. PICK x : /\ x = mem[at] /\ ObjectOK(x) /\ ObjectOK(n[to]) /\ Size(n[to]) = sz
                /\ n[to].id = x.id /\ n[to].marked = FALSE
                /\ n[to] = Arrived(x, x.fields)
  <2>1. PICK x : x = mem[at] /\ ObjectOK(x)
    BY <1>2, <1>3
  <2>2. /\ ObjectOK(Unmark(x)) /\ Size(Unmark(x)) = Size(x) /\ Unmark(x).id = x.id
        /\ Unmark(x).marked = FALSE
        /\ Unmark(x) = Arrived(x, x.fields)
    BY <2>1, UnmarkIs
  <2>3. n[to] = Unmark(x) /\ Size(x) = sz
    BY <1>3, <1>12, <2>1
  <2> QED
    BY <2>1, <2>2, <2>3
<1>14. \A c \in DOMAIN n : c = to \/ (c \in DOMAIN mem /\ n[c] = mem[c])
  BY <1>12
<1>15. \A c \in DOMAIN n : ObjectOK(n[c]) /\ n[c].id < nextid /\ c \in Nat
  <2>1. \A c \in DOMAIN mem : ObjectOK(mem[c]) /\ mem[c].id < nextid /\ c \in Nat
    <3>1. Types
      BY <1>1, MovingState
    <3> QED
      BY <1>2, <3>1 DEF Types
  <2>2. ObjectOK(n[to]) /\ n[to].id < nextid
    BY <1>3, <1>13, <2>1
  <2> QED
    BY <1>14, <2>1, <2>2
<1>16. \A c \in DOMAIN mem : at + sz <= c => c \in DOMAIN n /\ n[c] = mem[c] /\ c # to
  BY <1>2, <1>3, <1>9, <1>12
<1>17. Movers' = A \ {at}
  <2>1. \A a : a \in Movers' <=> a \in DOMAIN n /\ n[a].marked /\ at + sz <= a
    BY <1>1, <1>3, <1>12 DEF Movers, MarkedIn
  <2>2. \A a \in A \ {at} : a \in Movers'
    BY <1>6, <1>10, <1>16, <2>1
  <2>3. ASSUME NEW a \in Movers'
        PROVE  a \in A /\ a # at
    <3>1. a \in DOMAIN n /\ n[a].marked /\ at + sz <= a /\ a \in Nat
      BY <1>15, <2>1, <2>3
    <3>2. a # to /\ a # at /\ at <= a
      BY <1>3, <1>9, <3>1
    <3> QED
      BY <1>6, <1>14, <3>1, <3>2
  <2> QED
    BY <2>2, <2>3
<1>18. PICK S \in SUBSET DOMAIN mem :
         /\ S = Settled
         /\ \A c : c \in S <=> c \in DOMAIN mem /\ c < at /\ c < free /\ \A a \in A : c < NewHome(a)
  <2>1. Settled = {c \in DOMAIN mem : c < at /\ c < free /\ \A a \in A : c < NewHome(a)}
    BY <1>1, <1>3, <1>5 DEF Settled
  <2> QED
    BY <2>1
<1>19. PICK F : F = [a \in A |-> FutureFields(a)] /\ \A a \in A : F[a] = mem[a].fields
  <2>1. \A a \in A : FutureFields(a) = mem[a].fields
    BY <1>1 DEF FutureFields, FutureWords
  <2>2. PICK F : F = [a \in A |-> FutureFields(a)]
    OBVIOUS
  <2> QED
    BY <2>1, <2>2
<1>20. PICK o, f : /\ o = gc.old.begin /\ f = FutureMem
                   /\ f = Assembled(mem, o, S, A, F) /\ AssembledAs(mem, o, S, A, F, f)
                   /\ Apart(mem, o, A) /\ Free(mem, o, S, A)
  BY <1>1, <1>5, <1>18, <1>19, HomesApart DEF FutureMem
<1>21. \A c \in S : c + Size(mem[c]) <= to
  <2> TAKE c \in S
  <2>1. \A a, b \in DOMAIN f : a < b => a + Size(f[a]) <= b
    BY <1>1, <1>20, MovingState DEF Sound, Tiles
  <2>2. c \in DOMAIN f /\ f[c] = mem[c]
    BY <1>20 DEF AssembledAs
  <2>3. to \in DOMAIN f
    BY <1>7, <1>9, <1>20 DEF AssembledAs, NewHome
  <2>4. c < to
    BY <1>7, <1>9, <1>18
  <2> QED
    BY <2>1, <2>2, <2>3, <2>4
<1>22. \A c \in S : c \in DOMAIN n /\ n[c] = mem[c] /\ c # to
  <2> TAKE c \in S
  <2>1. c \in Nat /\ Size(mem[c]) \in Nat /\ Size(mem[c]) >= 2 /\ c + Size(mem[c]) <= to
    BY <1>2, <1>21
  <2>2. c # to /\ ~(to < c + Size(mem[c]))
    BY <2>1
  <2> QED
    BY <1>12, <2>2
<1>23. \A a \in A : Home(n, o, a) = Home(mem, o, a) \/ a = at
  BY <1>6, <1>10, <1>16 DEF Home
<1>24. \A a \in A \ {at} : NewHome(a)' = NewHome(a)
  BY <1>1, <1>10, <1>12, <1>16 DEF NewHome, Home
<1>25. Settled' = S \cup {to}
  <2>1. \A c : c \in Settled' <=>
               c \in DOMAIN n /\ c < at + sz /\ c < free /\ \A a \in A \ {at} : c < NewHome(a)
    BY <1>1, <1>3, <1>12, <1>17, <1>24 DEF Settled
  <2>2. to \in Settled'
    <3>1. to < at + sz /\ to < free
      BY <1>3, <1>9
    <3>2. \A a \in A \ {at} : to < NewHome(a)
      BY <1>3, <1>8, <1>10
    <3> QED
      BY <1>12, <2>1, <3>1, <3>2
  <2>3. ASSUME NEW c \in S
        PROVE  c \in Settled'
    <3>1. c \in Nat /\ c < at /\ c < free
      BY <1>2, <1>18
    <3>2. c < at + sz
      BY <1>3, <3>1
    <3> QED
      BY <1>18, <1>22, <2>1, <3>1, <3>2
  <2>4. ASSUME NEW c \in Settled', c # to
        PROVE  c \in S
    <3>1. c \in DOMAIN mem /\ c \in Nat /\ Size(mem[c]) \in Nat /\ Size(mem[c]) >= 2
      BY <1>2, <1>12, <2>1, <2>4
    <3>2. c >= to + sz \/ c + Size(mem[c]) <= to
      BY <1>3, <1>9, <1>12, <2>1, <2>4, <3>1
    <3>3. ~(c >= to + sz)
      <4>1. CASE free = to + sz
        BY <2>1, <3>1, <4>1, <1>3, <1>9
      <4>2. CASE \E b \in A \ {at} : NewHome(b) = to + sz
        <5>1. PICK b \in A \ {at} : NewHome(b) = to + sz
          BY <4>2
        <5>2. c < to + sz
          BY <2>1, <2>4, <5>1
        <5> QED
          BY <1>3, <1>9, <3>1, <5>2
      <4> QED
        BY <1>11, <4>1, <4>2
    <3>4. c < to /\ c < at
      BY <1>9, <3>1, <3>2, <3>3
    <3>5. \A a \in A : c < NewHome(a)
      BY <1>9, <2>1, <2>4, <3>4
    <3> QED
      BY <1>18, <2>1, <2>4, <3>1, <3>4, <3>5
  <2> QED
    BY <2>2, <2>3, <2>4
<1>26. PICK G : /\ G = [a \in A \ {at} |-> FutureFields(a)']
                /\ \A a \in A \ {at} : n[a] = mem[a] /\ G[a] = F[a]
  <2>1. PICK G : G = [a \in A \ {at} |-> FutureFields(a)']
    OBVIOUS
  <2>2. \A a \in A \ {at} : n[a] = mem[a]
    BY <1>10, <1>16
  <2>3. \A a \in A \ {at} : FutureFields(a)' = n[a].fields
    BY <1>1, <1>12 DEF FutureFields, FutureWords
  <2> QED
    BY <1>19, <2>1, <2>2, <2>3
<1>27. FutureMem' = FutureMem
  <2>1. FutureMem' = Assembled(n, o, S \cup {to}, A \ {at}, G)
    BY <1>1, <1>12, <1>17, <1>20, <1>25, <1>26 DEF FutureMem
  <2>2. to = Home(mem, o, at) /\ n[Home(mem, o, at)] = Arrived(mem[at], F[at])
    BY <1>7, <1>9, <1>13, <1>19, <1>20 DEF NewHome
  <2>3. Assembled(n, o, S \cup {Home(mem, o, at)}, A \ {at}, G) = Assembled(mem, o, S, A, F)
    BY <1>7, <1>20, <1>22, <1>26, <2>2, AssembledMoves
  <2> QED
    BY <1>20, <2>1, <2>2, <2>3
<1>28. FutureStack' = FutureStack /\ FutureXroots' = FutureXroots
  BY <1>1 DEF FutureStack, FutureXroots, FutureWords
<1>29. Packed(n, o, A \ {at}, free)
  <2>1. ASSUME NEW a \in A \ {at}
        PROVE  LET next == Home(n, o, a) + Size(n[a]) IN
               /\ Home(n, o, a) \in 0..a
               /\ n[a].fwd = o + W * Home(n, o, a)
               /\ next <= free
               /\ next = free \/ \E b \in A \ {at} : Home(n, o, b) = next
    <3>1. n[a] = mem[a] /\ Home(n, o, a) = NewHome(a) /\ a \in Nat
      BY <1>2, <1>20, <1>23, <1>26 DEF NewHome
    <3>2. PICK h \in Nat, s \in Nat : h = NewHome(a) /\ s = Size(mem[a]) /\ h <= a
      BY <1>2, <1>8
    <3>3. to + sz <= h
      BY <1>10, <3>2
    <3>4. h + s = free \/ \E b \in A : NewHome(b) = h + s
      BY <1>8, <3>2
    <3>5. h + s # to
      BY <1>3, <3>2, <3>3
    <3>6. h + s = free \/ \E b \in A \ {at} : NewHome(b) = h + s
      BY <1>9, <3>4, <3>5
    <3>7. h + s = free \/ \E b \in A \ {at} : Home(n, o, b) = h + s
      BY <1>20, <1>23, <3>6 DEF NewHome
    <3>8. h + s <= free /\ mem[a].fwd = o + W * h /\ h \in 0..a
      BY <1>8, <1>20, <3>1, <3>2
    <3> QED
      BY <3>1, <3>2, <3>7, <3>8
  <2>2. \A a, b \in A \ {at} : a < b => Home(n, o, a) + Size(n[a]) <= Home(n, o, b)
    BY <1>8, <1>20, <1>23, <1>26 DEF NewHome
  <2> QED
    BY <2>1, <2>2 DEF Packed
<1>30. Sliding'
  <2>1. PICK E : E = From(DOMAIN mem, at + sz) /\ E = {c \in DOMAIN mem : at + sz <= c}
    BY DEF From
  <2>2. Tiles(mem, E, at + sz, hi)
    BY <1>3, <2>1, RelocateState
  <2>3. {c \in DOMAIN n : at + sz <= c} = E
    BY <1>3, <1>9, <1>14, <1>15, <1>16, <2>1
  <2>4. Tiles(n, E, at + sz, hi)
    BY <1>16, <2>1, <2>2 DEF Tiles
  <2>5. \A c \in DOMAIN n : c < at + sz => c + Size(n[c]) <= at + sz
    <3> TAKE c \in DOMAIN n
    <3> HAVE c < at + sz
    <3>1. CASE c = to
      BY <1>3, <1>9, <1>13, <3>1
    <3>2. CASE c # to
      BY <1>2, <1>3, <1>4, <1>14, <3>2
    <3> QED
      BY <3>1, <3>2
  <2>6. free <= at + sz \/ \E a \in A \ {at} : NewHome(a) <= at + sz
    BY <1>3, <1>9, <1>11
  <2>7. \A c : ObjSize(c)' = Size(n[c])
    BY <1>12 DEF ObjSize, Size
  <2>8. free <= at + sz \/ \E a \in Movers' : NewHome(a)' <= at + sz
    BY <1>17, <1>24, <2>6
  <2> QED
    BY <1>1, <1>3, <1>12, <2>3, <2>4, <2>5, <2>7, <2>8 DEF Sliding
<1>31. at + sz \in DOMAIN n \cup {hi}
  BY <1>3, <1>16
<1>32. stack \in Seq(Nat) /\ xroots \in Seq(Nat)
  BY <1>1, MovingState DEF Types
<1> QED
  BY <1>1, <1>3, <1>12, <1>15, <1>17, <1>20, <1>27, <1>28, <1>29, <1>30, <1>31, <1>32, MovingKept

\* Everything is where it will be: the collection has made the heap it promised.
LEMMA EndCompactInv ==
  ASSUME Inv, EndCompact
  PROVE  /\ Inv'
         /\ heap' = FutureHeap /\ mem' = FutureMem
         /\ stack' = FutureStack /\ xroots' = FutureXroots
<1>1. /\ pc = "relocate" /\ gc.scan >= heap.current /\ pc' = "place"
      /\ heap' = [heap EXCEPT !.current = gc.free]
      /\ mem' = [i \in {j \in DOMAIN mem : j < gc.free} |-> mem[i]]
      /\ UNCHANGED <<stack, xroots, nextid, req, gc>>
  BY DEF EndCompact, NewCurrent
<1>2. /\ Types /\ Requested /\ Sliding
      /\ \A a \in DOMAIN mem : a \in Nat /\ Size(mem[a]) \in Nat /\ Size(mem[a]) >= 2
      /\ heap \in Chunk /\ heap.current \in Nat /\ heap.size \in Nat
      /\ gc.scan \in Nat /\ gc.free \in Nat
      /\ gc.scan \in DOMAIN mem \cup {heap.current}
      /\ gc.free <= heap.current
      /\ gc.free + SizeOf(req.kind, req.len) <= heap.size
      /\ heap.current <= heap.size
  BY <1>1, MovingState DEF Types
<1>3. \A a \in DOMAIN mem : a < heap.current
  <2> TAKE a \in DOMAIN mem
  <2>1. CASE a < gc.scan
    BY <1>2, <2>1 DEF Sliding, Tiles, ObjSize, Size
  <2>2. CASE gc.scan <= a
    <3>1. a + Size(mem[a]) <= heap.current
      BY <1>2, <2>2 DEF Sliding, Tiles
    <3> QED
      BY <1>2, <3>1
  <2>3. gc.scan = heap.current \/ gc.scan < heap.current
    <3>1. CASE gc.scan \in DOMAIN mem
      <4>1. gc.scan + Size(mem[gc.scan]) <= heap.current
        BY <1>2, <3>1 DEF Sliding, Tiles
      <4> QED
        BY <1>2, <3>1, <4>1
    <3> QED
      BY <1>2, <3>1
  <2> QED
    BY <1>2, <2>1, <2>2, <2>3
<1>4. gc.scan = heap.current
  BY <1>1, <1>2, <1>3
<1>5. Movers = {}
  BY <1>1, <1>2, <1>3, <1>4 DEF Movers, MarkedIn
<1>6. Settled = {c \in DOMAIN mem : c < gc.free}
  BY <1>1, <1>2, <1>3, <1>4, <1>5 DEF Settled
<1>7. mem' = FutureMem
  <2>1. PICK f, F, o : /\ F = [a \in Movers |-> FutureFields(a)] /\ o = gc.old.begin
                       /\ f = FutureMem
    OBVIOUS
  <2>2. f = Assembled(mem, o, Settled, Movers, F)
    BY <2>1 DEF FutureMem
  <2>3. DOMAIN f = Settled /\ f = [x \in DOMAIN f |-> f[x]] /\ \A x \in Settled : f[x] = mem[x]
    BY <1>5, <2>2 DEF Assembled
  <2>4. f = [x \in Settled |-> mem[x]]
    BY <2>3
  <2> QED
    BY <1>1, <1>6, <2>1, <2>4
<1>8. heap' = FutureHeap /\ stack' = FutureStack /\ xroots' = FutureXroots
  BY <1>1 DEF FutureHeap, FutureStack, FutureXroots, FutureWords
<1>9. heap' = [begin |-> heap.begin, size |-> heap.size, current |-> gc.free]
  BY <1>1, <1>2 DEF Chunk
<1>10. heap' \in Chunk /\ heap'.current = gc.free /\ heap'.size = heap.size
       /\ gc.free <= heap.size
  BY <1>2, <1>9 DEF Chunk
<1>11. Types'
  <2>1. PICK n : n = mem'
    OBVIOUS
  <2>2. DOMAIN n \subseteq DOMAIN mem /\ \A c \in DOMAIN n : n[c] = mem[c]
    BY <1>1, <2>1
  <2>3. \A c \in DOMAIN n : ObjectOK(n[c]) /\ n[c].id < nextid
    BY <1>2, <2>2 DEF Types
  <2>4. DOMAIN n \subseteq Nat
    BY <1>2, <2>2
  <2> QED
    BY <1>1, <1>2, <1>10, <2>1, <2>3, <2>4 DEF Types, Depth
<1>12. Requested'
  BY <1>1, <1>2 DEF Requested, Depth
<1>13. Quiet'
  <2>1. Sound(heap', mem') /\ Rooted(heap', mem', stack', xroots', req') /\ Unflagged(mem')
    BY <1>1, <1>7, <1>8, MovingState
  <2>2. Fits'
    BY <1>1, <1>2, <1>10 DEF Fits
  <2> QED
    BY <2>1, <2>2 DEF Quiet
<1>14. Compacted'
  <2>1. OnlyReached(heap', mem', stack', xroots', DOMAIN mem')
    BY <1>1, <1>7, <1>8, MovingState
  <2> QED
    BY <2>1 DEF Compacted
<1>15. Inv'
  BY <1>1, <1>11, <1>12, <1>13, <1>14 DEF Inv, Marking, Locating, Moving
<1> QED
  BY <1>7, <1>8, <1>15

-----------------------------------------------------------------------------
(***************************************************************************)
(* The invariant, and what follows from it.                                *)
(***************************************************************************)

\* The collector keeps the invariant.
LEMMA CollectorInv ==
  ASSUME Inv, Collector
  PROVE  Inv'
<1>1. CASE AllocOnExistingHeap \/ AllocAfterGC
  BY <1>1, AllocInv
<1>2. CASE StartGC
  BY <1>2, StartInv
<1>3. CASE MarkRoot
  BY <1>3, MarkRootInv
<1>4. CASE Dequeue
  BY <1>4, DequeueInv
<1>5. CASE ScanField
  BY <1>5, ScanFieldInv
<1>6. CASE EndMark
  BY <1>6, EndMarkInv
<1>7. CASE Locate
  BY <1>7, LocateInv
<1>8. CASE Remap
  BY <1>8, RemapInv
<1>9. CASE RemapFails
  BY <1>9, RemapFailsInv
<1>10. CASE Update
  BY <1>10, UpdateInv
<1>11. CASE FixRoots
  BY <1>11, FixRootsInv
<1>12. CASE Relocate
  BY <1>12, RelocateDeadInv, RelocateLiveInv
<1>13. CASE EndCompact
  BY <1>13, EndCompactInv
<1> QED
  BY <1>1, <1>2, <1>3, <1>4, <1>5, <1>6, <1>7, <1>8, <1>9, <1>10, <1>11, <1>12, <1>13
     DEF Collector

\* No step of the program or of the collector breaks the invariant.
LEMMA NextInv ==
  ASSUME Inv, [Next]_vars
  PROVE  Inv'
<1>1. CASE Mutator
  BY <1>1, MutatorInv
<1>2. CASE Collector
  BY <1>2, CollectorInv
<1>3. CASE UNCHANGED vars
  <2>1. /\ heap' = heap /\ mem' = mem /\ stack' = stack /\ xroots' = xroots
        /\ nextid' = nextid /\ pc' = pc /\ req' = req /\ gc' = gc
    BY <1>3 DEF vars
  <2>2. Types' /\ Requested' /\ Quiet' /\ Marking' /\ Locating' /\ Compacted'
    BY <2>1 DEF Inv, Types, Requested, Quiet, Marking, Locating, Compacted, Depth, Fits,
                Roots
  <2>3. /\ Movers' = Movers /\ Settled' = Settled
        /\ FutureStack' = FutureStack /\ FutureXroots' = FutureXroots
        /\ FutureHeap' = FutureHeap
        /\ \A a : FutureFields(a)' = FutureFields(a)
    BY <2>1 DEF Movers, Settled, NewHome, FutureStack, FutureXroots, FutureWords,
                FutureHeap, FutureFields
  <2>4. FutureMem' = FutureMem
    BY <2>1, <2>3 DEF FutureMem
  <2>5. (Fixing => Fixing') /\ (Sliding => Sliding')
    BY <2>1, <2>3 DEF Fixing, Sliding, NewHome, ObjSize
  <2>6. Moving'
    BY <2>1, <2>3, <2>4, <2>5 DEF Inv, Moving
  <2> QED
    BY <2>2, <2>6 DEF Inv
<1> QED
  BY <1>1, <1>2, <1>3 DEF Next, Stopped

\* The invariant of the collector holds in every state of a run: each phase
\* finds the heap as the phase before it has left it.
THEOREM Invariance == Spec => []Inv
<1>1. Init => Inv
  BY InvInit
<1>2. Inv /\ [Next]_vars => Inv'
  BY NextInv
<1> QED
  BY <1>1, <1>2, PTL DEF Spec

\* Every variable has its type: in particular the virtual stack, which
\* vstack_push checks, never overflows.
THEOREM TypesKept == Spec => []TypeOK
<1>1. Inv => TypeOK
  BY DEF Inv, Types, TypeOK, Chunk, ObjectOK
<1> QED
  BY <1>1, Invariance, PTL

\* No heap iterator of the collector and no operation of the program reads a
\* header that is not there, and gc_alloc's second attempt always succeeds.
THEOREM CollectorSafe == Spec => []NeverCrashes
<1>1. Inv => NeverCrashes
  BY DEF Inv, Types, NeverCrashes
<1> QED
  BY <1>1, Invariance, PTL

\* The queue that mark keeps in the forward addresses has the contents of
\* unmarked objects, each once, and exactly those are flagged.
THEOREM QueueKept == Spec => []QueueInvariant
<1>1. ASSUME Inv, pc = "mark"
      PROVE  /\ \A c \in Cells : IsObj(heap, mem[c].fwd)
             /\ \A c, d \in Cells : mem[c].fwd = mem[d].fwd => c = d
             /\ \A off \in DOMAIN mem :
                  /\ mem[off].enqueued <=> Content(heap, off) \in Queued
                  /\ ~(mem[off].enqueued /\ mem[off].marked)
  <2>1. Queue(heap, mem, gc.head, gc.tail) /\ Sound(heap, mem) /\ heap \in Chunk
    BY <1>1 DEF Inv, Marking, Quiet, Types
  <2>2. Cells = CellsIn(mem, gc.head, gc.tail)
    BY DEF Cells, CellsIn
  <2>3. \A c \in Cells : \E off \in DOMAIN mem : mem[c].fwd = Content(heap, off)
    BY <2>1, <2>2 DEF Queue
  <2>4. \A off \in DOMAIN mem : Names(heap, mem, Content(heap, off))
    BY <2>1, NamesObject DEF Sound
  <2>5. \A c \in Cells : IsObj(heap, mem[c].fwd)
    BY <2>3, <2>4 DEF IsObj
  <2>6. \A off \in DOMAIN mem :
          mem[off].enqueued <=> \E c \in Cells : mem[c].fwd = Content(heap, off)
    BY <2>1, <2>2 DEF Queue
  <2> QED
    BY <2>1, <2>2, <2>5, <2>6 DEF Queue, Queued
<1>2. Inv => QueueInvariant
  BY <1>1 DEF QueueInvariant
<1> QED
  BY <1>2, Invariance, PTL

\* Between collections every heap iterator walks from header to header, in the
\* order of allocation, and stops at heap.current.
THEOREM HeapKept == Spec => []HeapTiled
<1>1. ASSUME Inv, pc \in {"run", "alloc", "place"}
      PROVE  /\ \A off \in DOMAIN mem : ~mem[off].marked /\ ~mem[off].enqueued
             /\ heap.current = 0 \/ 0 \in DOMAIN mem
             /\ heap.current <= heap.size
             /\ \A off \in DOMAIN mem :
                  LET next == off + ObjSize(off) IN
                  /\ next = heap.current \/ next \in DOMAIN mem
                  /\ next \in DOMAIN mem => mem[off].id < mem[next].id
  <2>1. /\ Unflagged(mem) /\ Tiles(mem, DOMAIN mem, 0, heap.current)
        /\ heap.current <= heap.size
        /\ \A off \in DOMAIN mem : off \in Nat /\ Size(mem[off]) \in Nat /\ Size(mem[off]) >= 2
    BY <1>1, ObjectType DEF Inv, Quiet, Types, Sound
  <2>2. ASSUME NEW off \in DOMAIN mem
        PROVE  LET next == off + ObjSize(off) IN
               /\ next = heap.current \/ next \in DOMAIN mem
               /\ next \in DOMAIN mem => mem[off].id < mem[next].id
    <3>1. PICK next : next = off + ObjSize(off) /\ next = off + Size(mem[off])
      BY DEF ObjSize, Size
    <3>2. off < next /\ (next = heap.current \/ next \in DOMAIN mem)
      BY <2>1, <3>1 DEF Tiles
    <3>3. next \in DOMAIN mem => mem[off].id < mem[next].id
      BY <2>1, <3>2 DEF Tiles
    <3> QED
      BY <3>1, <3>2, <3>3
  <2> QED
    BY <2>1, <2>2 DEF Unflagged, Tiles
<1>2. Inv => HeapTiled
  BY <1>1 DEF HeapTiled
<1> QED
  BY <1>2, Invariance, PTL

\* What physically_relocate moves never lands on an object that still waits:
\* homes are at or below the objects, and what is home ends below the next one.
THEOREM SlidesKept == Spec => []SlideSafe
<1>1. ASSUME Inv, pc = "relocate"
      PROVE  /\ gc.scan < heap.current => gc.scan \in DOMAIN mem
             /\ \A off \in Movers : mem[off].fwd - gc.old.begin <= W * off
             /\ \A off \in Movers, c \in DOMAIN mem : c < gc.scan => c + ObjSize(c) <= off
  <2>1. /\ gc.scan \in DOMAIN mem \cup {heap.current} /\ heap.current \in Nat
        /\ Packed(mem, gc.old.begin, Movers, gc.free) /\ Sliding
        /\ gc.old.begin \in Nat /\ gc.scan \in Nat
        /\ \A a \in DOMAIN mem : a \in Nat /\ Size(mem[a]) \in Nat
    BY <1>1, MovingState
  <2>2. \A off \in Movers : off \in DOMAIN mem /\ gc.scan <= off
    BY <1>1 DEF Movers, MarkedIn
  <2>3. ASSUME NEW off \in Movers
        PROVE  mem[off].fwd - gc.old.begin <= W * off
    <3>1. off \in Nat
      BY <2>1, <2>2
    <3>2. PICK h \in Nat : h <= off /\ mem[off].fwd = gc.old.begin + W * h
      BY <2>1, <3>1 DEF Packed
    <3> QED
      BY <2>1, <3>1, <3>2 DEF W
  <2>4. ASSUME NEW off \in Movers, NEW c \in DOMAIN mem, c < gc.scan
        PROVE  c + ObjSize(c) <= off
    <3>1. ObjSize(c) = Size(mem[c])
      BY DEF ObjSize, Size
    <3>2. c + ObjSize(c) <= gc.scan
      BY <2>1, <2>4 DEF Sliding
    <3> QED
      BY <2>1, <2>2, <3>1, <3>2
  <2> QED
    BY <2>1, <2>3, <2>4
<1>2. ASSUME Inv, pc = "relocate"
      PROVE  Movers = {off \in DOMAIN mem : gc.scan <= off /\ mem[off].marked}
  BY <1>2 DEF Movers, MarkedIn
<1>3. Inv => SlideSafe
  BY <1>1, <1>2 DEF SlideSafe
<1> QED
  BY <1>3, Invariance, PTL

-----------------------------------------------------------------------------
(***************************************************************************)
(* The objects of a chunk and the objects of the abstract store: an offset *)
(* stands for the number of the object that is there.                      *)
(***************************************************************************)
IdsOf(m, S) == {m[off].id : off \in S}

\* the words that a sound heap may be reached by
Wording(h, m, ws) ==
  /\ ws \in Seq(Nat)
  /\ \A k \in DOMAIN ws : ws[k] = EXTERNAL \/ Word(h, m, ws[k])

\* No two objects have the same number.
LEMMA IdsApart ==
  ASSUME NEW h, NEW m, Sound(h, m), NEW a \in DOMAIN m, NEW b \in DOMAIN m,
         m[a].id = m[b].id
  PROVE  a = b
<1>1. a \in Nat /\ b \in Nat /\ m[a].id \in Nat /\ m[b].id \in Nat
  BY ObjectType DEF Sound
<1>2. \A c, d \in DOMAIN m : c < d => m[c].id < m[d].id
  BY DEF Sound, Tiles
<1>3. ~(a < b)
  <2>1. a < b => m[a].id < m[b].id
    BY <1>2
  <2> QED
    BY <1>1, <2>1
<1>4. ~(b < a)
  <2>1. b < a => m[b].id < m[a].id
    BY <1>2
  <2> QED
    BY <1>1, <2>1
<1> QED
  BY <1>1, <1>3, <1>4

\* The objects that words name are those they address.
LEMMA NamedAre ==
  ASSUME NEW h \in Chunk, NEW m, Sound(h, m), NEW ws, Wording(h, m, ws)
  PROVE  Named(AbsSeq(h, m, ws)) = IdsOf(m, Targets(h, m, ws))
<1> DEFINE vs == AbsSeq(h, m, ws)
<1>1. DOMAIN vs = DOMAIN ws /\ \A k \in DOMAIN ws : vs[k] = AbsWord(h, m, ws[k])
  BY DEF AbsSeq
<1>2. \A off \in DOMAIN m : HeaderOf(h, Content(h, off)) = off
  BY NamesObject DEF Sound
<1>3. ASSUME NEW k \in DOMAIN ws
      PROVE  Names(h, m, ws[k]) <=> \E off \in DOMAIN m : ws[k] = Content(h, off)
  <2>1. PICK w \in Nat : w = ws[k] /\ (w = EXTERNAL \/ Word(h, m, w))
    BY DEF Wording
  <2>2. Names(h, m, w) <=> \E off \in DOMAIN m : w = Content(h, off)
    BY <2>1, WordIs
  <2> QED
    BY <2>1, <2>2
<1>4. ASSUME NEW k \in DOMAIN ws, NEW off \in DOMAIN m, ws[k] = Content(h, off)
      PROVE  vs[k] = Obj(m[off].id)
  <2>1. Names(h, m, ws[k]) /\ HeaderOf(h, ws[k]) = off
    BY <1>2, <1>3, <1>4
  <2> QED
    BY <1>1, <2>1 DEF AbsWord
<1>5. ASSUME NEW k \in DOMAIN ws, ~\E off \in DOMAIN m : ws[k] = Content(h, off)
      PROVE  vs[k] = Val
  <2>1. ~Names(h, m, ws[k])
    BY <1>3, <1>5
  <2> QED
    BY <1>1, <2>1 DEF AbsWord
<1>6. \A i : Obj(i)[1] = "obj" /\ Obj(i)[2] = i
  BY DEF Obj
<1>7. Val[1] # "obj"
  BY DEF Val
<1> HIDE DEF vs
<1>8. \A i : i \in Named(vs) <=> \E k \in DOMAIN vs : vs[k][1] = "obj" /\ i = vs[k][2]
  BY DEF Named
<1>9. ASSUME NEW i \in Named(vs)
      PROVE  i \in IdsOf(m, Targets(h, m, ws))
  <2>1. PICK k \in DOMAIN ws : vs[k][1] = "obj" /\ i = vs[k][2]
    BY <1>1, <1>8
  <2>2. PICK off \in DOMAIN m : ws[k] = Content(h, off)
    BY <1>5, <1>7, <2>1
  <2>3. i = m[off].id
    BY <1>4, <1>6, <2>1, <2>2
  <2> QED
    BY <2>2, <2>3 DEF IdsOf, Targets
<1>10. ASSUME NEW off \in Targets(h, m, ws)
       PROVE  m[off].id \in Named(vs)
  <2>1. off \in DOMAIN m /\ \E k \in DOMAIN ws : ws[k] = Content(h, off)
    BY DEF Targets
  <2>2. PICK k \in DOMAIN ws : ws[k] = Content(h, off)
    BY <2>1
  <2>3. vs[k] = Obj(m[off].id)
    BY <1>4, <2>1, <2>2
  <2> QED
    BY <1>1, <1>6, <1>8, <2>3
<1>11. Named(vs) = IdsOf(m, Targets(h, m, ws))
  BY <1>9, <1>10 DEF IdsOf
<1> QED
  BY <1>11 DEF vs

\* the object of the store that object o stands for
AbsObject(h, m, o) ==
  [kind |-> o.kind, len |-> o.len, fields |-> AbsSeq(h, m, o.fields)]

\* The graph has every object of the heap under its number.
LEMMA GraphIs ==
  ASSUME NEW h, NEW m, Sound(h, m)
  PROVE  /\ DOMAIN AbsGraph(h, m) = IdsOf(m, DOMAIN m)
         /\ \A off \in DOMAIN m :
              /\ AbsGraph(h, m)[m[off].id] = AbsObject(h, m, m[off])
              /\ AbsGraph(h, m)[m[off].id].fields = AbsSeq(h, m, m[off].fields)
<1> DEFINE g == AbsGraph(h, m)
<1>1. DOMAIN g = IdsOf(m, DOMAIN m)
  BY DEF AbsGraph, IdsOf
<1>2. ASSUME NEW off \in DOMAIN m
      PROVE  /\ g[m[off].id] = AbsObject(h, m, m[off])
             /\ g[m[off].id].fields = AbsSeq(h, m, m[off].fields)
  <2>1. PICK i : i = m[off].id
    OBVIOUS
  <2>2. (CHOOSE x \in DOMAIN m : m[x].id = i) = off
    <3>1. PICK c : c = CHOOSE x \in DOMAIN m : m[x].id = i
      OBVIOUS
    <3>2. c \in DOMAIN m /\ m[c].id = i
      BY <2>1, <3>1
    <3>3. c = off
      BY <2>1, <3>2, IdsApart
    <3> QED
      BY <3>1, <3>3
  <2>3. i \in {m[x].id : x \in DOMAIN m}
    BY <2>1
  <2>4. g[i] = LET o == m[CHOOSE x \in DOMAIN m : m[x].id = i] IN
               [kind |-> o.kind, len |-> o.len, fields |-> AbsSeq(h, m, o.fields)]
    BY <2>3 DEF AbsGraph
  <2>5. PICK c : c = CHOOSE x \in DOMAIN m : m[x].id = i
    OBVIOUS
  <2>6. g[i] = [kind |-> m[c].kind, len |-> m[c].len, fields |-> AbsSeq(h, m, m[c].fields)]
    BY <2>4, <2>5
  <2>7. c = off
    BY <2>2, <2>5
  <2>8. g[i].fields = AbsSeq(h, m, m[c].fields)
    BY <2>6
  <2>9. g[i] = AbsObject(h, m, m[c])
    BY <2>6 DEF AbsObject
  <2> QED
    BY <2>1, <2>7, <2>8, <2>9
<1> QED
  BY <1>1, <1>2

\* The objects that words reach in the graph are those of the least set of
\* offsets that has what the words address and what its objects address.
LEMMA ReachIs ==
  ASSUME NEW h \in Chunk, NEW m, Sound(h, m), NEW st, NEW xr,
         Wording(h, m, st), Wording(h, m, xr),
         NEW A \in SUBSET DOMAIN m, Holds(h, m, st, xr, A), OnlyReached(h, m, st, xr, A)
  PROVE  Reach(AbsGraph(h, m), AbsSeq(h, m, st \o xr)) = IdsOf(m, A)
<1>1. PICK g, ws : g = AbsGraph(h, m) /\ ws = AbsSeq(h, m, st \o xr)
  OBVIOUS
<1>2. /\ DOMAIN g = IdsOf(m, DOMAIN m)
      /\ \A off \in DOMAIN m : g[m[off].id].fields = AbsSeq(h, m, m[off].fields)
  BY <1>1, GraphIs
<1>3. \A off \in DOMAIN m : Named(g[m[off].id].fields) = IdsOf(m, Targets(h, m, m[off].fields))
  <2> TAKE off \in DOMAIN m
  <2>1. PICK fs : fs = m[off].fields
    OBVIOUS
  <2>2. Wording(h, m, fs)
    BY <2>1, ObjectType DEF Wording, Sound
  <2>3. Named(AbsSeq(h, m, fs)) = IdsOf(m, Targets(h, m, fs))
    BY <2>2, NamedAre
  <2> QED
    BY <1>2, <2>1, <2>3
<1>4. Named(ws) = IdsOf(m, Targets(h, m, st) \cup Targets(h, m, xr))
  <2>1. PICK s \in Seq(Nat), x \in Seq(Nat), all \in Seq(Nat) :
          s = st /\ x = xr /\ all = s \o x
    <3>1. PICK s \in Seq(Nat), x \in Seq(Nat) : s = st /\ x = xr
      BY DEF Wording
    <3>2. s \o x \in Seq(Nat)
      BY Joined
    <3> QED
      BY <3>1, <3>2
  <2>2. /\ all \in Seq(Nat)
        /\ DOMAIN all = 1..Len(s) + Len(x)
        /\ \A k \in 1..Len(s) : all[k] = s[k]
        /\ \A k \in 1..Len(x) : all[Len(s) + k] = x[k]
        /\ DOMAIN s = 1..Len(s) /\ DOMAIN x = 1..Len(x)
        /\ Len(s) \in Nat /\ Len(x) \in Nat
    BY <2>1, Joined
  <2>3. ASSUME NEW k \in DOMAIN all
        PROVE  \/ k \in DOMAIN s /\ all[k] = s[k]
               \/ k - Len(s) \in DOMAIN x /\ all[k] = x[k - Len(s)]
    <3>1. CASE k \in 1..Len(s)
      BY <2>2, <3>1
    <3>2. CASE k \notin 1..Len(s)
      <4>1. k - Len(s) \in 1..Len(x) /\ k = Len(s) + (k - Len(s))
        BY <2>2, <3>2
      <4> QED
        BY <2>2, <4>1
    <3> QED
      BY <3>1, <3>2
  <2>4. \A k \in DOMAIN s : k \in DOMAIN all /\ all[k] = s[k]
    BY <2>2
  <2>5. \A k \in DOMAIN x : Len(s) + k \in DOMAIN all /\ all[Len(s) + k] = x[k]
    BY <2>2
  <2>6. Wording(h, m, all)
    BY <2>1, <2>2, <2>3 DEF Wording
  <2>7. Targets(h, m, all) = Targets(h, m, s) \cup Targets(h, m, x)
    BY <2>3, <2>4, <2>5 DEF Targets
  <2>8. Named(AbsSeq(h, m, all)) = IdsOf(m, Targets(h, m, all))
    BY <2>6, NamedAre
  <2> QED
    BY <1>1, <2>1, <2>7, <2>8
<1>5. ASSUME NEW i \in Reach(g, ws)
      PROVE  i \in IdsOf(m, A)
  <2>1. IdsOf(m, A) \in SUBSET DOMAIN g
    BY <1>2 DEF IdsOf
  <2>2. Named(ws) \subseteq IdsOf(m, A)
    BY <1>4 DEF Holds, IdsOf
  <2>3. Closed(g, IdsOf(m, A))
    <3>1. \A off \in A : Targets(h, m, m[off].fields) \subseteq A
      BY DEF Holds, ClosedAt
    <3>2. \A off \in A : Named(g[m[off].id].fields) \subseteq IdsOf(m, A)
      BY <1>3, <3>1 DEF IdsOf
    <3>3. \A j \in IdsOf(m, A) : \E off \in A : j = m[off].id
      BY DEF IdsOf
    <3> QED
      BY <3>2, <3>3 DEF Closed
  <2> QED
    BY <1>5, <2>1, <2>2, <2>3 DEF Reach
<1>6. ASSUME NEW off \in A
      PROVE  m[off].id \in Reach(g, ws)
  <2>1. m[off].id \in DOMAIN g
    BY <1>2 DEF IdsOf
  <2>2. ASSUME NEW S \in SUBSET DOMAIN g, Named(ws) \subseteq S, Closed(g, S)
        PROVE  m[off].id \in S
    <3>1. PICK T \in SUBSET DOMAIN m : T = {x \in DOMAIN m : m[x].id \in S}
      OBVIOUS
    <3>2. Targets(h, m, st) \cup Targets(h, m, xr) \subseteq T
      BY <1>4, <2>2, <3>1 DEF IdsOf, Targets
    <3>3. ASSUME NEW x \in T, NEW y \in Targets(h, m, m[x].fields)
          PROVE  y \in T
      <4>1. m[x].id \in S /\ x \in DOMAIN m
        BY <3>1
      <4>2. Named(g[m[x].id].fields) \subseteq S
        BY <2>2, <4>1 DEF Closed
      <4>3. m[y].id \in S
        BY <1>3, <4>1, <4>2 DEF IdsOf
      <4>4. y \in DOMAIN m
        BY DEF Targets
      <4> QED
        BY <3>1, <4>3, <4>4
    <3>4. Holds(h, m, st, xr, T)
      BY <3>2, <3>3 DEF Holds, ClosedAt
    <3>5. A \subseteq T
      BY <3>4 DEF OnlyReached
    <3> QED
      BY <3>1, <3>5
  <2> QED
    BY <2>1, <2>2 DEF Reach
<1>7. Reach(g, ws) = IdsOf(m, A)
  BY <1>5, <1>6 DEF IdsOf
<1> QED
  BY <1>1, <1>7

\* When marking is over, the marked objects are those that the virtual stack
\* and the extra roots reach: no live object is lost, no garbage is kept.
THEOREM MarksExactly == Spec => []MarkExact
<1>1. ASSUME Inv, pc = "locate"
      PROVE  IdsOf(mem, MarkedIn(mem)) = Live
  <2>1. /\ heap \in Chunk /\ Sound(heap, mem) /\ Rooted(heap, mem, stack, xroots, req)
        /\ Types
        /\ Holds(heap, mem, stack, xroots, MarkedIn(mem))
        /\ OnlyReached(heap, mem, stack, xroots, MarkedIn(mem))
    BY <1>1, LocateState
  <2>2. Wording(heap, mem, stack) /\ Wording(heap, mem, xroots)
    BY <2>1 DEF Wording, Types, Rooted
  <2>3. PICK A \in SUBSET DOMAIN mem : A = MarkedIn(mem)
    BY DEF MarkedIn
  <2>4. Reach(AbsGraph(heap, mem), AbsSeq(heap, mem, stack \o xroots)) = IdsOf(mem, A)
    BY <2>1, <2>2, <2>3, ReachIs
  <2> QED
    BY <2>3, <2>4 DEF Live
<1>2. Inv => MarkExact
  BY <1>1 DEF MarkExact, IdsOf, MarkedIn
<1> QED
  BY <1>2, Invariance, PTL

\* A collection frees what is not reachable: after it the heap has exactly the
\* objects that the virtual stack and the extra roots reach.
THEOREM CollectsExactly == Spec => []OnlyLiveRemains
<1>1. ASSUME Inv, pc = "place"
      PROVE  IdsOf(mem, DOMAIN mem) = Live
  <2>1. /\ heap \in Chunk /\ Sound(heap, mem) /\ Rooted(heap, mem, stack, xroots, req)
        /\ Types
        /\ OnlyReached(heap, mem, stack, xroots, DOMAIN mem)
    BY <1>1 DEF Inv, Quiet, Compacted, Types
  <2>2. Wording(heap, mem, stack) /\ Wording(heap, mem, xroots)
    BY <2>1 DEF Wording, Types, Rooted
  <2>3. PICK A \in SUBSET DOMAIN mem : A = DOMAIN mem
    OBVIOUS
  <2>4. Holds(heap, mem, stack, xroots, A)
    BY <2>3 DEF Holds, ClosedAt, Targets
  <2>5. Reach(AbsGraph(heap, mem), AbsSeq(heap, mem, stack \o xroots)) = IdsOf(mem, A)
    BY <2>1, <2>2, <2>3, <2>4, ReachIs
  <2> QED
    BY <2>3, <2>5 DEF Live
<1>2. Inv => OnlyLiveRemains
  BY <1>1 DEF OnlyLiveRemains, IdsOf
<1> QED
  BY <1>2, Invariance, PTL

=============================================================================
