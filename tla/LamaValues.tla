----------------------------- MODULE LamaValues -----------------------------
(***************************************************************************)
(* What the runtime says about values: comparison, hashing, tags, patterns *)
(* and arithmetic (runtime.c).  A store is built, and changed, object by   *)
(* object; the properties are about every pair or triple of its words.     *)
(*                                                                         *)
(* A word is an integer with the lowest bit set, the address of an object, *)
(* or an address outside the heap.  The width of a word, of a character in *)
(* a tag and of a hash are constants here, in the proportions of the code: *)
(* five characters fit into an integer, and an integer has one bit less    *)
(* than a word.                                                            *)
(***************************************************************************)
EXTENDS Integers, Sequences, FiniteSets

CONSTANTS
  WordBits,     \* 32 in the code; even
  CharBits,     \* 6: characters that may occur in a tag have numbers
  HashBits,     \* 22: what Lhash keeps
  Ints,         \* integers that programs use
  Outside,      \* addresses outside the heap
  Names,        \* tags: sequences of characters; 0 is '_'
  Makes,        \* [kind, len] of the objects that are built
  MaxObjects    \* bound: objects that are built

ASSUME WidthAssumption ==
  /\ WordBits % 2 = 0
  /\ 5 * CharBits < WordBits
  /\ HashBits <= WordBits

VARIABLES
  heap,         \* the objects, in the order of their addresses
  failed        \* failure() was called, and the process has ended

vars == <<heap, failed>>

Char == 0..2^CharBits - 1

\* BOX, and what UNBOX makes of it: the highest bit of the argument is lost
Signed(n, bits) == LET m == n % 2^bits IN IF m < 2^(bits - 1) THEN m ELSE m - 2^bits

BOX(n) == Signed(n, WordBits - 1)

MaxInt == 2^(WordBits - 2) - 1

Int_(n) == [sort |-> "int", v |-> n]
Ref(a) == [sort |-> "ref", v |-> a]
Out(a) == [sort |-> "out", v |-> a]

UNBOXED(w) == w.sort = "int"
is_valid_heap_pointer(w) == w.sort = "ref"

Words == {Int_(n) : n \in Ints} \cup {Out(a) : a \in Outside} \cup {Ref(a) : a \in DOMAIN heap}

\* the bits of a word
Raw(w) ==
  CASE w.sort = "int" -> (2 * w.v + 1) % 2^WordBits
    [] w.sort = "ref" -> 16 * w.v
    [] w.sort = "out" -> 4 * w.v

TagOf(kind) ==
  CASE kind = "STRING" -> 1
    [] kind = "ARRAY" -> 3
    [] kind = "SEXP" -> 5
    [] kind = "CLOSURE" -> 7

-----------------------------------------------------------------------------
(***************************************************************************)
(* Tags.  LtagHash reads at most five characters and then asks de_hash     *)
(* whether they can be read back, which stops at the first zero from the   *)
(* left: a leading '_' is lost, and the tag is refused.                    *)
(***************************************************************************)
\* mutant: limit++ < 4
Mutant_FourChars(s) == SubSeq(s, 1, IF Len(s) < 4 THEN Len(s) ELSE 4)

Hashed(s) == SubSeq(s, 1, IF Len(s) < 5 THEN Len(s) ELSE 5)

RECURSIVE Pack(_)
Pack(s) == IF s = <<>> THEN 0 ELSE Pack(SubSeq(s, 1, Len(s) - 1)) * 2^CharBits + s[Len(s)]

LtagHash(s) == BOX(Pack(Hashed(s)))

RECURSIVE de_hash(_)
de_hash(h) == IF h = 0 THEN <<>> ELSE Append(de_hash(h \div 2^CharBits), h % 2^CharBits)

\* strncmp(s, de_hash(h), 5)
First5(s) == SubSeq(s, 1, IF Len(s) < 5 THEN Len(s) ELSE 5)

ReadBack(s) == First5(de_hash(Pack(Hashed(s)))) = First5(s)

-----------------------------------------------------------------------------
(***************************************************************************)
(* Objects.  The fields of a string are its characters; the tag of a       *)
(* closure is its entry.                                                   *)
(***************************************************************************)
Make(kind, tag, fields) ==
  heap' = Append(heap, [kind |-> kind, tag |-> tag, fields |-> fields])

Init == heap = <<>> /\ failed = FALSE

Room == ~failed /\ Len(heap) < MaxObjects

\* the characters of strings
Chars == {Int_(c) : c \in 0..2}

\* Bstring: no character of a new string is 0
Bstring(len) ==
  /\ Room
  /\ [kind |-> "STRING", len |-> len] \in Makes
  /\ \E text \in [1..len -> Chars \ {Int_(0)}] : Make("STRING", 0, text)
  /\ UNCHANGED failed

Barray(len) ==
  /\ Room
  /\ [kind |-> "ARRAY", len |-> len] \in Makes
  /\ \E fields \in [1..len -> Words] : Make("ARRAY", 0, fields)
  /\ UNCHANGED failed

Bclosure(len) ==
  /\ Room
  /\ [kind |-> "CLOSURE", len |-> len] \in Makes
  /\ \E entry \in {1, 2}, fields \in [1..len -> Words] : Make("CLOSURE", entry, fields)
  /\ UNCHANGED failed

BSexp(len, name) ==
  /\ Room
  /\ [kind |-> "SEXP", len |-> len] \in Makes
  /\ IF ReadBack(name)
     THEN /\ \E fields \in [1..len -> Words] : Make("SEXP", LtagHash(name), fields)
          /\ UNCHANGED failed
     ELSE failed' = TRUE /\ UNCHANGED heap

\* Bsta: an element of an object is replaced, a character by any other one
Bsta(a, i, w) ==
  /\ ~failed
  /\ w \in IF heap[a].kind = "STRING" THEN Chars ELSE Words
  /\ heap' = [heap EXCEPT ![a].fields[i] = w]
  /\ UNCHANGED failed

Next ==
  \/ \E len \in {m.len : m \in Makes} :
       \/ Bstring(len) \/ Barray(len) \/ Bclosure(len)
       \/ \E name \in Names : BSexp(len, name)
  \/ \E a \in DOMAIN heap, w \in Words \cup Chars : \E i \in DOMAIN heap[a].fields : Bsta(a, i, w)

Spec == Init /\ [][Next]_vars

-----------------------------------------------------------------------------
(***************************************************************************)
(* Lcompare.  A result says whether the comparison ends; depth is the room *)
(* left on the stack of C: a path longer than the number of pairs of       *)
(* objects comes back to a pair that is being compared, and never ends.    *)
(***************************************************************************)
Is(c) == [ends |-> TRUE, c |-> BOX(c)]
Never == [ends |-> FALSE, c |-> 0]

\* the characters that strcmp sees
Text(o) ==
  LET nul == {i \in DOMAIN o.fields : o.fields[i].v = 0}
      end == IF nul = {} THEN Len(o.fields) ELSE (CHOOSE i \in nul : \A j \in nul : i <= j) - 1
  IN  [i \in 1..end |-> o.fields[i].v]

strcmp(s, t) ==
  LET n == IF Len(s) < Len(t) THEN Len(s) ELSE Len(t)
      differ == {i \in 1..n : s[i] # t[i]}
  IN  IF differ = {} THEN Len(s) - Len(t)
      ELSE LET i == CHOOSE j \in differ : \A k \in differ : j <= k IN s[i] - t[i]

\* mutant: the tags of S-expressions are not compared
Mutant_NoTag(a, b) ==
  IF TagOf(a.kind) # TagOf(b.kind) THEN TagOf(a.kind) - TagOf(b.kind)
  ELSE Len(a.fields) - Len(b.fields)

\* COMPARE_AND_RETURN, in turn
Header(a, b) ==
  CASE TagOf(a.kind) # TagOf(b.kind) -> TagOf(a.kind) - TagOf(b.kind)
    [] a.tag # b.tag -> a.tag - b.tag
    [] OTHER -> Len(a.fields) - Len(b.fields)

\* mutant: only integers are looked at before what they point to
Mutant_NotPointers(p, q) == UNBOXED(p) /\ p = q

Identical(p, q) == p = q

\* mutant: an integer is less than an object only from one side
Mutant_OneSided(p) == 1

\* an integer and an address
Mixed(p) == IF UNBOXED(p) THEN -1 ELSE 1

\* two addresses of which not both are in the heap
Foreign(p, q) ==
  CASE is_valid_heap_pointer(p) -> -1
    [] is_valid_heap_pointer(q) -> 1
    [] OTHER -> Raw(p) - Raw(q)

RECURSIVE Compare(_, _, _), CompareFields(_, _, _, _)
CompareFields(a, b, i, depth) ==
  IF i > Len(a.fields) THEN Is(0)
  ELSE LET r == Compare(a.fields[i], b.fields[i], depth)
       IN  IF r = Is(0) THEN CompareFields(a, b, i + 1, depth) ELSE r

CompareObjects(a, b, depth) ==
  IF a.kind = "STRING" /\ b.kind = "STRING" THEN Is(strcmp(Text(a), Text(b)))
  ELSE IF Header(a, b) # 0 THEN Is(Header(a, b))
  ELSE IF depth = 0 THEN Never
  ELSE CompareFields(a, b, 1, depth - 1)

Compare(p, q, depth) ==
  IF Identical(p, q) THEN Is(0)
  ELSE IF UNBOXED(p) /\ UNBOXED(q) THEN Is(p.v - q.v)
  ELSE IF UNBOXED(p) \/ UNBOXED(q) THEN Is(Mixed(p))
  ELSE IF ~is_valid_heap_pointer(p) \/ ~is_valid_heap_pointer(q) THEN Is(Foreign(p, q))
  ELSE CompareObjects(heap[p.v], heap[q.v], depth)

Lcompare(p, q) == Compare(p, q, Len(heap) * Len(heap) + 1)

\* ~UNBOXED(q) is never 0: the last branch, which has no return, is not taken
LflatCompare(p, q) ==
  IF UNBOXED(p) THEN IF UNBOXED(q) THEN BOX(p.v - q.v) ELSE BOX(-1)
  ELSE BOX(Raw(p) - Raw(q))

LcompareTags(p, q) == BOX(heap[p.v].tag - heap[q.v].tag)

-----------------------------------------------------------------------------
(***************************************************************************)
(* inner_hash, which goes four levels down.                                *)
(***************************************************************************)
HASH_DEPTH == 3

HASH_APPEND(acc, x) ==
  LET n == (acc + x) % 2^WordBits
      half == 2^(WordBits \div 2)
  IN  (n % half) * half + n \div half

\* mutant: what lies deeper goes in by its address
Mutant_Deep(acc, p) == HASH_APPEND(acc, Raw(p))

TooDeep(acc, p) == acc

\* the length in the header, which counts the entry of a closure
LEN(o) == Len(o.fields) + IF o.kind = "CLOSURE" THEN 1 ELSE 0

RECURSIVE inner_hash(_, _, _), HashFields(_, _, _, _)
HashFields(depth, acc, o, i) ==
  IF i > Len(o.fields) THEN acc
  ELSE HashFields(depth, inner_hash(depth + 1, acc, o.fields[i]), o, i + 1)

RECURSIVE HashText(_, _)
HashText(acc, s) == IF s = <<>> THEN acc ELSE HashText(HASH_APPEND(acc, Head(s)), Tail(s))

inner_hash(depth, acc, p) ==
  CASE depth > HASH_DEPTH -> TooDeep(acc, p)
    [] depth <= HASH_DEPTH /\ p.sort = "int" -> HASH_APPEND(acc, p.v)
    [] depth <= HASH_DEPTH /\ p.sort = "out" -> HASH_APPEND(acc, Raw(p))
    [] depth <= HASH_DEPTH /\ p.sort = "ref" ->
         LET o == heap[p.v]
             start == HASH_APPEND(HASH_APPEND(acc, TagOf(o.kind)), LEN(o))
         IN  CASE o.kind = "STRING" -> HashText(start, Text(o))
               [] o.kind = "ARRAY" -> HashFields(depth, start, o, 1)
               [] OTHER -> HashFields(depth, HASH_APPEND(start, o.tag), o, 1)

Lhash(p) == inner_hash(0, 0, p) % 2^HashBits

-----------------------------------------------------------------------------
(***************************************************************************)
(* Patterns, and the operators on integers.                                *)
(***************************************************************************)
LkindOf(p) == IF UNBOXED(p) THEN 9 ELSE TagOf(heap[p.v].kind)

Btag(d, t, n) ==
  /\ ~UNBOXED(d)
  /\ heap[d.v].kind = "SEXP"
  /\ heap[d.v].tag = t
  /\ Len(heap[d.v].fields) = n

Barray_patt(d, n) ==
  ~UNBOXED(d) /\ heap[d.v].kind = "ARRAY" /\ Len(heap[d.v].fields) = n

\* mutant: the strings are the same object
Mutant_SameObject(x, y) == ~UNBOXED(x) /\ heap[x.v].kind = "STRING" /\ x = y

Bstring_patt(x, y) ==
  ~UNBOXED(x) /\ heap[x.v].kind = "STRING" /\ strcmp(Text(heap[x.v]), Text(heap[y.v])) = 0

\* division of C, towards 0
Quotient(x, y) ==
  LET abs(n) == IF n < 0 THEN -n ELSE n
      d == abs(x) \div abs(y)
  IN  IF (x < 0) = (y < 0) THEN d ELSE -d

Bool(b) == IF b THEN 1 ELSE 0

\* Ls__Infix_*: a division by 0 traps
Infix(op, x, y) ==
  CASE op = "!!" -> BOX(Bool(x # 0 \/ y # 0))
    [] op = "&&" -> BOX(Bool(x # 0 /\ y # 0))
    [] op = "==" -> BOX(Bool(x = y))
    [] op = "!=" -> BOX(Bool(x # y))
    [] op = "<=" -> BOX(Bool(x <= y))
    [] op = "<" -> BOX(Bool(x < y))
    [] op = ">=" -> BOX(Bool(x >= y))
    [] op = ">" -> BOX(Bool(x > y))
    [] op = "+" -> BOX(x + y)
    [] op = "-" -> BOX(x - y)
    [] op = "*" -> BOX(x * y)
    [] op = "/" -> BOX(Quotient(x, y))
    [] op = "%" -> BOX(x - y * Quotient(x, y))
-----------------------------------------------------------------------------
(***************************************************************************)
(* Structural equality, also of values that contain themselves: the        *)
(* largest relation in which related words look alike and have related     *)
(* parts.  Strings end at their first 0.                                   *)
(***************************************************************************)
Alike(R, p, q) ==
  IF p.sort # "ref" \/ q.sort # "ref" THEN p = q
  ELSE LET a == heap[p.v]
           b == heap[q.v]
       IN  /\ a.kind = b.kind
           /\ IF a.kind = "STRING" THEN Text(a) = Text(b)
              ELSE /\ a.tag = b.tag
                   /\ Len(a.fields) = Len(b.fields)
                   /\ \A i \in DOMAIN a.fields : <<a.fields[i], b.fields[i]>> \in R

Pairs == {<<p, q>> : p \in Words, q \in Words}

Equal ==
  LET steps == Len(heap) * Len(heap) + 1
      E[n \in 0..steps] ==
        IF n = 0 THEN Pairs ELSE LET R == E[n - 1] IN {pq \in R : Alike(R, pq[1], pq[2])}
  IN  E[steps]

\* the words in a value, the value itself included
Parts(w) ==
  LET fields(u) == IF u.sort = "ref" THEN {heap[u.v].fields[i] : i \in DOMAIN heap[u.v].fields} ELSE {}
      P[n \in 0..Len(heap)] ==
        IF n = 0 THEN {w} ELSE LET S == P[n - 1] IN S \cup UNION {fields(u) : u \in S}
  IN  P[Len(heap)]

Cyclic(w) ==
  \E u \in Parts(w) : /\ u.sort = "ref"
                      /\ \E i \in DOMAIN heap[u.v].fields : u \in Parts(heap[u.v].fields[i])

Near(W) ==
  LET ints == UNION {{u.v : u \in {x \in Parts(w) : x.sort = "int"}} : w \in W}
  IN  \A m, n \in ints : m - n <= MaxInt

\* two addresses whose difference is lost in BOX
Antipodes ==
  \E v, w \in Words :
    /\ ~UNBOXED(v) /\ ~UNBOXED(w) /\ v # w
    /\ BOX(Raw(v) - Raw(w)) = 0

NulFree(w) ==
  \A u \in Parts(w) :
    u.sort = "ref" /\ heap[u.v].kind = "STRING" => Len(Text(heap[u.v])) = Len(heap[u.v].fields)

-----------------------------------------------------------------------------
\* Lcompare gives 0 for structurally equal values and for no others, although
\* its result has one bit less than the difference; LflatCompare does so for
\* identical words.  The exception are addresses exactly half of all apart.
CompareIsEquality ==
  LET E == Equal IN
  ~Antipodes =>
    \A p, q \in Words :
      LET r == Lcompare(p, q) IN
      /\ r.ends => (r.c = 0 <=> <<p, q>> \in E)
      /\ LflatCompare(p, q) = 0 <=> p = q

\* Lcompare recurs without end only on two different objects that both contain
\* themselves.
CompareEnds ==
  \A p, q \in Words : ~Lcompare(p, q).ends => p # q /\ Cyclic(p) /\ Cyclic(q)

\* As long as no two integers in the values lie half the range or more apart,
\* Lcompare is an order: the result changes its sign with the sides, and what
\* is less than something less is less.
CompareOrders ==
  \A p, q \in Words :
    LET pq == Lcompare(p, q)
        qp == Lcompare(q, p)
    IN  pq.ends =>
          \/ /\ qp.ends
             /\ pq.c < 0 <=> qp.c > 0
             /\ pq.c <= 0 =>
                  \A r \in Words :
                    LET qr == Lcompare(q, r)
                        pr == Lcompare(p, r)
                    IN  qr.ends /\ qr.c <= 0 /\ pr.ends =>
                          \/ pr.c <= 0 /\ (pr.c = 0 => pq.c = 0)
                          \/ ~Near({p, q, r})
          \/ ~Near({p, q})

\* Equal values have equal hashes, also where the hash stops in the middle of a
\* value or a value contains itself.  A string with a 0 inside is out: Lcompare
\* stops there, but its length goes into the hash.
HashAgrees ==
  LET E == Equal IN
  \A p, q \in Words :
    <<p, q>> \in E => Lhash(p) = Lhash(q) \/ ~NulFree(p) \/ ~NulFree(q)

\* Values that Lcompare calls equal match the same patterns.
EqualMatch ==
  LET W == {w \in Words : w.sort # "out"}
      objects == {w \in W : w.sort = "ref"}
  IN  \A p, q \in W :
        Lcompare(p, q) = Is(0) =>
          /\ LkindOf(p) = LkindOf(q)
          /\ \A o \in objects :
               LET t == heap[o.v].tag
                   n == Len(heap[o.v].fields)
               IN  /\ Btag(p, t, n) = Btag(q, t, n)
                   /\ LkindOf(p) # 1 => Barray_patt(p, n) = Barray_patt(q, n)
                   /\ heap[o.v].kind = "STRING" => Bstring_patt(p, o) = Bstring_patt(q, o)

\* A tag is refused exactly if it begins with '_'; all others can be read back
\* from the boxed hash up to five characters, so that two tags are the same
\* for the runtime exactly if their first five characters are.
TagRoundTrip ==
  heap = <<>> /\ ~failed =>
    \A n \in 0..6 : \A s \in [1..n -> Char] :
      /\ ReadBack(s) <=> n = 0 \/ s[1] # 0
      /\ ReadBack(s) => de_hash(LtagHash(s)) = First5(s)

\* Arithmetic at the ends of the range.  Quotient and remainder belong to each
\* other; the difference of two integers has the wrong sign exactly if they
\* lie more than half the range apart, and then < and Lcompare disagree.
Arithmetic ==
  heap = <<>> => \A x, y \in {-MaxInt - 1, -MaxInt, -2, -1, 0, 1, 2, MaxInt - 1, MaxInt} :
    /\ Infix("-", x, y) = Lcompare(Int_(x), Int_(y)).c
    /\ Infix("<", x, y) = 1 /\ y - x <= MaxInt => Infix("-", x, y) < 0
    /\ y - x > MaxInt + 1 => Infix("-", x, y) > 0
    /\ y # 0 => LET rem == Infix("%", x, y) IN
                /\ Infix("+", Infix("*", y, Infix("/", x, y)), rem) = x
                /\ rem < 0 => x < 0
                /\ rem > 0 => x > 0

\* The difference of two addresses is 0 for Lcompare and LflatCompare also if
\* they are exactly half of all addresses apart.
Addresses ==
  heap = <<>> =>
    LET half == 2^(WordBits - 3) IN
    \A x, y \in {0, 1, half - 1, half, half + 1, 2 * half - 1} :
      LET p == Out(x)
          q == Out(y)
      IN  /\ Lcompare(p, q).c = 0 <=> x - y \in {-half, 0, half}
          /\ LflatCompare(p, q) = Lcompare(p, q).c

\* What the runtime packs into one word it can take out again.
WordsSuffice == TagRoundTrip /\ Arithmetic /\ Addresses
=============================================================================
