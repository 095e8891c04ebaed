------------------------- MODULE LamaProgramProofs -------------------------
(***************************************************************************)
(* What an interpreted program sees of the heap of LamaGC and of the call  *)
(* stack of LamaFrames.                                                    *)
(*                                                                         *)
(* The heap behaves as LamaStore: every operation of the program is one of *)
(* the store, and no step of the collector changes what the program can    *)
(* reach.  The latter is shown of View, the store that the words of the    *)
(* program stand for in every phase of an allocation.                      *)
(*                                                                         *)
(* The call stack stays well nested, and the closure of every active call  *)
(* stays a closure in its slot.  Both rest on the invariant of the         *)
(* collector, which every step of the interpreter keeps.                   *)
(***************************************************************************)
EXTENDS LamaGCStore, LamaFrames, LamaGCProofs

-----------------------------------------------------------------------------
(***************************************************************************)
(* Graphs.                                                                 *)
(***************************************************************************)

\* What words reach does not depend on objects they do not reach.
LEMMA PruneRestricted ==
  ASSUME NEW g, NEW R \in SUBSET DOMAIN g, Closed(g, R),
         NEW ws, Named(ws) \subseteq R, NEW f, f = [i \in R |-> g[i]]
  PROVE  Prune(f, ws) = Prune(g, ws)
<1>1. DOMAIN f = R /\ \A i \in R : f[i] = g[i]
  OBVIOUS
<1>2. ASSUME NEW i \in Reach(f, ws)
      PROVE  i \in Reach(g, ws)
  <2>1. i \in R
    BY <1>1 DEF Reach
  <2>2. ASSUME NEW S \in SUBSET DOMAIN g, Named(ws) \subseteq S, Closed(g, S)
        PROVE  i \in S
    <3>1. S \cap R \in SUBSET DOMAIN f
      BY <1>1
    <3>2. Named(ws) \subseteq S \cap R
      BY <2>2
    <3>3. Closed(f, S \cap R)
      BY <1>1, <2>2 DEF Closed
    <3> QED
      BY <3>1, <3>2, <3>3 DEF Reach
  <2> QED
    BY <2>1, <2>2 DEF Reach
<1>3. ASSUME NEW i \in Reach(g, ws)
      PROVE  i \in Reach(f, ws)
  <2>1. i \in R
    BY DEF Reach
  <2>2. ASSUME NEW S \in SUBSET DOMAIN f, Named(ws) \subseteq S, Closed(f, S)
        PROVE  i \in S
    <3>1. S \in SUBSET DOMAIN g
      BY <1>1
    <3>2. Closed(g, S)
      BY <1>1, <2>2 DEF Closed
    <3> QED
      BY <2>2, <3>1, <3>2 DEF Reach
  <2> QED
    BY <1>1, <2>1, <2>2 DEF Reach
<1>4. Reach(f, ws) = Reach(g, ws) /\ Reach(g, ws) \subseteq R
  BY <1>2, <1>3 DEF Reach
<1> QED
  BY <1>1, <1>4 DEF Prune

\* What words reach has what they name, and what its own objects name.
LEMMA ReachClosed ==
  ASSUME NEW g, Closed(g, DOMAIN g), NEW ws, Named(ws) \subseteq DOMAIN g
  PROVE  /\ Reach(g, ws) \in SUBSET DOMAIN g
         /\ Named(ws) \subseteq Reach(g, ws)
         /\ Closed(g, Reach(g, ws))
<1>1. Reach(g, ws) \in SUBSET DOMAIN g /\ Named(ws) \subseteq Reach(g, ws)
  BY DEF Reach
<1>2. ASSUME NEW i \in Reach(g, ws), NEW j \in Named(g[i].fields)
      PROVE  j \in Reach(g, ws)
  <2>1. j \in DOMAIN g
    BY <1>1 DEF Closed
  <2>2. ASSUME NEW S \in SUBSET DOMAIN g, Named(ws) \subseteq S, Closed(g, S)
        PROVE  j \in S
    <3>1. i \in S
      BY <2>2 DEF Reach
    <3> QED
      BY <2>2, <3>1 DEF Closed
  <2> QED
    BY <2>1, <2>2 DEF Reach
<1> QED
  BY <1>1, <1>2 DEF Closed

-----------------------------------------------------------------------------
(***************************************************************************)
(* The store that a sound heap stands for.                                 *)
(***************************************************************************)

\* The fields of an object are words.
LEMMA FieldsWording ==
  ASSUME NEW h, NEW m, Sound(h, m), NEW a \in DOMAIN m
  PROVE  Wording(h, m, m[a].fields)
  BY ObjectType DEF Wording, Sound

\* Every word is an integer or names an object of the graph.
LEMMA GraphClosed ==
  ASSUME NEW h \in Chunk, NEW m, Sound(h, m)
  PROVE  /\ Closed(AbsGraph(h, m), DOMAIN AbsGraph(h, m))
         /\ \A ws : Wording(h, m, ws) =>
              Named(AbsSeq(h, m, ws)) \subseteq DOMAIN AbsGraph(h, m)
<1>1. PICK g : g = AbsGraph(h, m)
  OBVIOUS
<1>2. /\ DOMAIN g = IdsOf(m, DOMAIN m)
      /\ \A off \in DOMAIN m : g[m[off].id].fields = AbsSeq(h, m, m[off].fields)
  BY <1>1, GraphIs
<1>3. ASSUME NEW ws, Wording(h, m, ws)
      PROVE  Named(AbsSeq(h, m, ws)) \subseteq DOMAIN g
  <2>1. Named(AbsSeq(h, m, ws)) = IdsOf(m, Targets(h, m, ws))
    BY <1>3, NamedAre
  <2>2. Targets(h, m, ws) \subseteq DOMAIN m
    BY DEF Targets
  <2> QED
    BY <1>2, <2>1, <2>2 DEF IdsOf
<1>4. ASSUME NEW i \in DOMAIN g
      PROVE  Named(g[i].fields) \subseteq DOMAIN g
  <2>1. PICK off \in DOMAIN m : i = m[off].id
    BY <1>2 DEF IdsOf
  <2>2. PICK fs : fs = m[off].fields /\ Wording(h, m, fs)
    BY FieldsWording
  <2>3. g[i].fields = AbsSeq(h, m, fs)
    BY <1>2, <2>1, <2>2
  <2> QED
    BY <1>3, <2>2, <2>3
<1>5. Closed(g, DOMAIN g)
  BY <1>4 DEF Closed
<1> QED
  BY <1>1, <1>3, <1>5

\* What a word stands for: an integer, or the object that it addresses.
LEMMA AbsWordIs ==
  ASSUME NEW h \in Chunk, NEW m, Sound(h, m), NEW w \in Nat, w = EXTERNAL \/ Word(h, m, w)
  PROVE  /\ \A off \in DOMAIN m : w = Content(h, off) => AbsWord(h, m, w) = Obj(m[off].id)
         /\ (~\E off \in DOMAIN m : w = Content(h, off)) => AbsWord(h, m, w) = Val
<1>1. Names(h, m, w) <=> \E off \in DOMAIN m : w = Content(h, off)
  BY WordIs
<1>2. \A off \in DOMAIN m : HeaderOf(h, Content(h, off)) = off
  BY NamesObject DEF Sound
<1> QED
  BY <1>1, <1>2 DEF AbsWord

\* A word that has become the new address of its object stands for the same.
LEMMA AbsWordSent ==
  ASSUME NEW h \in Chunk, NEW m, Sound(h, m), NEW g \in Chunk, NEW f, Sound(g, f),
         NEW A \in SUBSET DOMAIN m, Rehoused(h, m, g, A, f),
         NEW w \in Nat, NEW v, Sent(h, m, g, A, w, v),
         w = EXTERNAL \/ Word(h, m, w),
         \A off \in DOMAIN m : w = Content(h, off) => off \in A
  PROVE  AbsWord(g, f, v) = AbsWord(h, m, w)
<1>1. v \in Nat /\ (v = EXTERNAL \/ Word(g, f, v))
  BY WordSent DEF Sent
<1>2. ASSUME NEW off \in DOMAIN m, w = Content(h, off)
      PROVE  AbsWord(g, f, v) = AbsWord(h, m, w)
  <2>1. off \in A
    BY <1>2
  <2>2. PICK x : x = Home(m, h.begin, off) /\ v = Content(g, x)
    BY <1>2, <2>1 DEF Sent
  <2>3. x \in DOMAIN f /\ f[x].id = m[off].id
    BY <2>1, <2>2 DEF Rehoused
  <2>4. AbsWord(h, m, w) = Obj(m[off].id)
    BY <1>2, AbsWordIs
  <2>5. AbsWord(g, f, v) = Obj(f[x].id)
    BY <1>1, <2>2, <2>3, AbsWordIs
  <2> QED
    BY <2>3, <2>4, <2>5
<1>3. ASSUME ~\E off \in DOMAIN m : w = Content(h, off)
      PROVE  AbsWord(g, f, v) = AbsWord(h, m, w)
  <2>1. Unboxed(w) \/ w = 0 \/ w = EXTERNAL
    BY <1>3 DEF Word
  <2>2. v = w
    BY <2>1 DEF Sent
  <2>3. \A x \in DOMAIN f : ~Unboxed(Content(g, x)) /\ Content(g, x) # 0 /\ Content(g, x) # EXTERNAL
    BY Address DEF Sound
  <2>4. AbsWord(h, m, w) = Val
    BY <1>3, AbsWordIs
  <2>5. AbsWord(g, f, v) = Val
    BY <1>1, <2>1, <2>2, <2>3, AbsWordIs
  <2> QED
    BY <2>4, <2>5
<1> QED
  BY <1>2, <1>3

\* Sequences of such words stand for the same.
LEMMA AbsSeqSent ==
  ASSUME NEW h \in Chunk, NEW m, Sound(h, m), NEW g \in Chunk, NEW f, Sound(g, f),
         NEW A \in SUBSET DOMAIN m, Rehoused(h, m, g, A, f),
         NEW ws, Wording(h, m, ws), Targets(h, m, ws) \subseteq A,
         NEW vs, SentSeq(h, m, g, A, ws, vs)
  PROVE  AbsSeq(g, f, vs) = AbsSeq(h, m, ws)
<1>1. DOMAIN vs = DOMAIN ws
  BY DEF SentSeq
<1>2. ASSUME NEW k \in DOMAIN ws
      PROVE  AbsWord(g, f, vs[k]) = AbsWord(h, m, ws[k])
  <2>1. PICK w \in Nat : w = ws[k] /\ (w = EXTERNAL \/ Word(h, m, w))
    BY DEF Wording
  <2>2. PICK v : v = vs[k] /\ Sent(h, m, g, A, w, v)
    BY <2>1 DEF SentSeq
  <2>3. \A off \in DOMAIN m : w = Content(h, off) => off \in A
    BY <2>1 DEF Targets
  <2>4. AbsWord(g, f, v) = AbsWord(h, m, w)
    BY <2>1, <2>2, <2>3, AbsWordSent
  <2> QED
    BY <2>1, <2>2, <2>4
<1> QED
  BY <1>1, <1>2 DEF AbsSeq

\* An object that has moved is the same object.
LEMMA AbsObjectSent ==
  ASSUME NEW h \in Chunk, NEW m, Sound(h, m), NEW g \in Chunk, NEW f, Sound(g, f),
         NEW A \in SUBSET DOMAIN m, Rehoused(h, m, g, A, f), ClosedAt(h, m, A),
         NEW a \in A
  PROVE  AbsObject(g, f, f[Home(m, h.begin, a)]) = AbsObject(h, m, m[a])
<1>1. PICK p, q : p = f[Home(m, h.begin, a)] /\ q = m[a]
  OBVIOUS
<1>2. /\ p.kind = q.kind /\ p.len = q.len
      /\ SentSeq(h, m, g, A, q.fields, p.fields)
  BY <1>1 DEF Rehoused
<1>3. Wording(h, m, q.fields)
  BY <1>1, FieldsWording
<1>4. Targets(h, m, q.fields) \subseteq A
  BY <1>1 DEF ClosedAt
<1>5. AbsSeq(g, f, p.fields) = AbsSeq(h, m, q.fields)
  BY <1>2, <1>3, <1>4, AbsSeqSent
<1> QED
  BY <1>1, <1>2, <1>5 DEF AbsObject

\* A heap that has been moved stands for the same store as before.
LEMMA StoreSent ==
  ASSUME NEW h \in Chunk, NEW m, Sound(h, m), NEW g \in Chunk, NEW f, Sound(g, f),
         NEW A \in SUBSET DOMAIN m, Rehoused(h, m, g, A, f), ClosedAt(h, m, A),
         NEW ws, Wording(h, m, ws), Targets(h, m, ws) \subseteq A,
         NEW vs, SentSeq(h, m, g, A, ws, vs)
  PROVE  AbsStore(g, f, vs) = AbsStore(h, m, ws)
<1>1. AbsSeq(g, f, vs) = AbsSeq(h, m, ws)
  BY AbsSeqSent
<1>2. PICK G, N, R, aw :
        G = AbsGraph(h, m) /\ N = AbsGraph(g, f) /\ R = IdsOf(m, A) /\ aw = AbsSeq(h, m, ws)
  OBVIOUS
<1>3. /\ DOMAIN G = IdsOf(m, DOMAIN m)
      /\ \A off \in DOMAIN m : /\ G[m[off].id] = AbsObject(h, m, m[off])
                               /\ G[m[off].id].fields = AbsSeq(h, m, m[off].fields)
  BY <1>2, GraphIs
<1>4. /\ DOMAIN N = IdsOf(f, DOMAIN f)
      /\ \A off \in DOMAIN f : N[f[off].id] = AbsObject(g, f, f[off])
  BY <1>2, GraphIs
<1>5. /\ DOMAIN f = {Home(m, h.begin, a) : a \in A}
      /\ \A a \in A : f[Home(m, h.begin, a)].id = m[a].id
  BY DEF Rehoused
<1>6. DOMAIN N = R
  BY <1>2, <1>4, <1>5 DEF IdsOf
<1>7. ASSUME NEW a \in A
      PROVE  N[m[a].id] = G[m[a].id]
  <2>1. PICK x \in DOMAIN f : x = Home(m, h.begin, a) /\ f[x].id = m[a].id
    BY <1>5
  <2>2. N[f[x].id] = AbsObject(g, f, f[x])
    BY <1>4, <2>1
  <2>3. AbsObject(g, f, f[x]) = AbsObject(h, m, m[a])
    BY <2>1, AbsObjectSent
  <2>4. G[m[a].id] = AbsObject(h, m, m[a])
    BY <1>3
  <2> QED
    BY <2>1, <2>2, <2>3, <2>4
<1>8. N = [i \in R |-> G[i]]
  <2>1. N = [i \in DOMAIN N |-> N[i]]
    BY <1>2 DEF AbsGraph
  <2>2. \A i \in R : N[i] = G[i]
    BY <1>2, <1>7 DEF IdsOf
  <2> QED
    BY <1>6, <2>1, <2>2
<1>9. R \in SUBSET DOMAIN G
  BY <1>2, <1>3 DEF IdsOf
<1>10. Named(aw) \subseteq R
  <2>1. Named(aw) = IdsOf(m, Targets(h, m, ws))
    BY <1>2, NamedAre
  <2> QED
    BY <1>2, <2>1 DEF IdsOf
<1>11. Closed(G, R)
  <2>1. ASSUME NEW a \in A
        PROVE  Named(G[m[a].id].fields) \subseteq R
    <3>1. PICK fs : fs = m[a].fields /\ Wording(h, m, fs)
      BY FieldsWording
    <3>2. G[m[a].id].fields = AbsSeq(h, m, fs)
      BY <1>3, <3>1
    <3>3. Named(AbsSeq(h, m, fs)) = IdsOf(m, Targets(h, m, fs))
      BY <3>1, NamedAre
    <3>4. Targets(h, m, fs) \subseteq A
      BY <3>1 DEF ClosedAt
    <3> QED
      BY <1>2, <3>2, <3>3, <3>4 DEF IdsOf
  <2> QED
    BY <1>2, <2>1 DEF Closed, IdsOf
<1>12. Prune(N, aw) = Prune(G, aw)
  BY <1>8, <1>9, <1>10, <1>11, PruneRestricted
<1> QED
  BY <1>1, <1>2, <1>12 DEF AbsStore

-----------------------------------------------------------------------------
(***************************************************************************)
(* The view of the program.  An operation that waits for its object has    *)
(* popped operands; those that are objects are the first extra roots.      *)
(***************************************************************************)
Popped ==
  IF req.reads > 0 THEN req.reads ELSE IF Len(xroots) = 2 THEN 1 ELSE 0

\* the stack as it was before the operands were popped
Waiting(st, xr) == st \o SubSeq(xr, 1, Popped)

View ==
  IF pc \in {"update", "relocate"}
  THEN AbsStore(FutureHeap, FutureMem, Waiting(FutureStack, FutureXroots))
  ELSE AbsStore(heap, mem, Waiting(stack, xroots))

\* The words of a sequence and of the beginning of another.
LEMMA WaitingWords ==
  ASSUME NEW st \in Seq(Nat), NEW xr \in Seq(Nat), NEW p \in Nat, p <= Len(xr)
  PROVE  LET ws == st \o SubSeq(xr, 1, p) IN
         /\ ws \in Seq(Nat) /\ Len(ws) = Len(st) + p /\ DOMAIN ws = 1..Len(st) + p
         /\ \A k \in 1..Len(st) : ws[k] = st[k]
         /\ \A k \in 1..p : ws[Len(st) + k] = xr[k]
<1>1. PICK t : t = SubSeq(xr, 1, p)
  OBVIOUS
<1>2. t \in Seq(Nat) /\ Len(t) = p /\ \A k \in 1..p : t[k] = xr[k]
  BY <1>1
<1>3. /\ st \o t \in Seq(Nat) /\ Len(st \o t) = Len(st) + Len(t)
      /\ DOMAIN (st \o t) = 1..Len(st) + Len(t)
      /\ \A k \in 1..Len(st) : (st \o t)[k] = st[k]
      /\ \A k \in 1..Len(t) : (st \o t)[Len(st) + k] = t[k]
  BY <1>2, Joined
<1>4. /\ st \o t \in Seq(Nat) /\ Len(st \o t) = Len(st) + p
      /\ DOMAIN (st \o t) = 1..Len(st) + p
      /\ \A k \in 1..Len(st) : (st \o t)[k] = st[k]
      /\ \A k \in 1..p : (st \o t)[Len(st) + k] = xr[k]
  BY <1>2, <1>3
<1> QED
  BY <1>1, <1>4

\* Each of them is a word of one or the other.
LEMMA WaitingFrom ==
  ASSUME NEW st \in Seq(Nat), NEW xr \in Seq(Nat), NEW p \in Nat, p <= Len(xr),
         NEW ws, ws = st \o SubSeq(xr, 1, p), NEW k \in DOMAIN ws
  PROVE  \/ k \in DOMAIN st /\ ws[k] = st[k]
         \/ k - Len(st) \in DOMAIN xr /\ ws[k] = xr[k - Len(st)]
<1>1. /\ DOMAIN ws = 1..Len(st) + p
      /\ \A j \in 1..Len(st) : ws[j] = st[j]
      /\ \A j \in 1..p : ws[Len(st) + j] = xr[j]
  BY WaitingWords
<1>2. DOMAIN st = 1..Len(st) /\ DOMAIN xr = 1..Len(xr) /\ Len(st) \in Nat /\ Len(xr) \in Nat
  OBVIOUS
<1>3. CASE k \in 1..Len(st)
  BY <1>1, <1>2, <1>3
<1>4. CASE k \notin 1..Len(st)
  <2>1. PICK n \in Nat, m \in Nat : n = Len(st) /\ m = Len(xr)
    OBVIOUS
  <2>2. k \in 1..n + p /\ k \notin 1..n /\ p <= m
    BY <1>1, <1>4, <2>1
  <2>3. PICK j : j = k - n
    OBVIOUS
  <2>4. j \in 1..p /\ k = n + j /\ j \in 1..m
    BY <2>1, <2>2, <2>3
  <2>5. ws[k] = xr[j]
    BY <1>1, <2>1, <2>4
  <2>6. j \in DOMAIN xr /\ j = k - Len(st)
    BY <1>2, <2>1, <2>3, <2>4
  <2> QED
    BY <2>5, <2>6
<1> QED
  BY <1>3, <1>4

\* What the popped operands may be, and what they and the stack address.
LEMMA WaitingWording ==
  ASSUME NEW h, NEW m, NEW st, NEW xr, Wording(h, m, st), Wording(h, m, xr),
         NEW p \in Nat, p <= Len(xr)
  PROVE  /\ Wording(h, m, st \o SubSeq(xr, 1, p))
         /\ Targets(h, m, st \o SubSeq(xr, 1, p)) \subseteq Targets(h, m, st) \cup Targets(h, m, xr)
<1>1. PICK ws : ws = st \o SubSeq(xr, 1, p)
  OBVIOUS
<1>2. ws \in Seq(Nat)
  BY <1>1, WaitingWords DEF Wording
<1>3. \A k \in DOMAIN ws : \/ k \in DOMAIN st /\ ws[k] = st[k]
                           \/ k - Len(st) \in DOMAIN xr /\ ws[k] = xr[k - Len(st)]
  BY <1>1, WaitingFrom DEF Wording
<1> QED
  BY <1>1, <1>2, <1>3 DEF Wording, Targets

\* How many operands have been popped: they are extra roots.
LEMMA PoppedType ==
  ASSUME xroots \in Seq(Nat), req.reads \in Nat,
         \A k \in 1..req.reads : k \in DOMAIN xroots
  PROVE  Popped \in Nat /\ Popped <= Len(xroots)
<1>1. req.reads > 0 => req.reads <= Len(xroots)
  <2>1. req.reads > 0 => req.reads \in DOMAIN xroots
    OBVIOUS
  <2> QED
    BY <2>1
<1>2. Len(xroots) \in Nat
  OBVIOUS
<1>3. CASE req.reads > 0
  BY <1>1, <1>3 DEF Popped
<1>4. CASE ~(req.reads > 0)
  BY <1>2, <1>4 DEF Popped
<1> QED
  BY <1>3, <1>4

\* What an operation has popped, while its object is not there.
LEMMA WaitingState ==
  ASSUME Inv, pc \in {"run", "alloc", "mark", "locate", "place"}
  PROVE  /\ heap \in Chunk /\ Sound(heap, mem)
         /\ Wording(heap, mem, stack) /\ Wording(heap, mem, xroots)
         /\ Popped \in Nat /\ Popped <= Len(xroots)
         /\ Wording(heap, mem, Waiting(stack, xroots))
<1>1. /\ Types /\ Requested /\ Sound(heap, mem)
      /\ Rooted(heap, mem, stack, xroots, req)
  BY DEF Inv, Quiet
<1>2. Wording(heap, mem, stack) /\ Wording(heap, mem, xroots)
  BY <1>1 DEF Types, Rooted, Wording
<1>3. Popped \in Nat /\ Popped <= Len(xroots)
  <2>1. req.reads \in Nat
    BY <1>1 DEF Requested, Idle
  <2> QED
    BY <1>1, <2>1, PoppedType DEF Types, Rooted
<1>4. Wording(heap, mem, Waiting(stack, xroots))
  BY <1>2, <1>3, WaitingWording DEF Waiting
<1> QED
  BY <1>1, <1>2, <1>3, <1>4 DEF Types

-----------------------------------------------------------------------------
(***************************************************************************)
(* No step of the collector changes the view.                              *)
(***************************************************************************)
\* n has the objects of m, but for their forward addresses and their bits
SameObjects(m, n) ==
  /\ DOMAIN n = DOMAIN m
  /\ \A a \in DOMAIN m :
       /\ n[a].kind = m[a].kind /\ n[a].len = m[a].len /\ n[a].id = m[a].id
       /\ n[a].fields = m[a].fields

\* Forward addresses and bits are not part of the store.
LEMMA StoreSame ==
  ASSUME NEW h, NEW m, Sound(h, m), NEW n, Sound(h, n), SameObjects(m, n), NEW ws
  PROVE  AbsStore(h, n, ws) = AbsStore(h, m, ws)
<1>1. ASSUME NEW w
      PROVE  AbsWord(h, n, w) = AbsWord(h, m, w)
  BY DEF AbsWord, Names, SameObjects
<1>2. ASSUME NEW vs
      PROVE  AbsSeq(h, n, vs) = AbsSeq(h, m, vs)
  BY <1>1 DEF AbsSeq
<1>3. \A a \in DOMAIN m : AbsObject(h, n, n[a]) = AbsObject(h, m, m[a])
  BY <1>2 DEF AbsObject, SameObjects
<1>4. PICK G, N : G = AbsGraph(h, m) /\ N = AbsGraph(h, n)
  OBVIOUS
<1>5. /\ DOMAIN G = IdsOf(m, DOMAIN m)
      /\ \A a \in DOMAIN m : G[m[a].id] = AbsObject(h, m, m[a])
  BY <1>4, GraphIs
<1>6. /\ DOMAIN N = IdsOf(n, DOMAIN n)
      /\ \A a \in DOMAIN n : N[n[a].id] = AbsObject(h, n, n[a])
  BY <1>4, GraphIs
<1>7. DOMAIN N = DOMAIN G
  BY <1>5, <1>6 DEF IdsOf, SameObjects
<1>8. \A i \in DOMAIN G : N[i] = G[i]
  <2> TAKE i \in DOMAIN G
  <2>1. PICK a \in DOMAIN m : i = m[a].id
    BY <1>5 DEF IdsOf
  <2>2. a \in DOMAIN n /\ i = n[a].id
    BY <2>1 DEF SameObjects
  <2> QED
    BY <1>3, <1>5, <1>6, <2>1, <2>2
<1>9. G = [i \in DOMAIN G |-> G[i]] /\ N = [i \in DOMAIN N |-> N[i]]
  BY <1>4 DEF AbsGraph
<1>10. N = G
  BY <1>7, <1>8, <1>9
<1> QED
  BY <1>2, <1>4, <1>10 DEF AbsStore

\* A write to a forward address or to a bit.
LEMMA FlagWritten ==
  ASSUME NEW m, \A a \in DOMAIN m : m[a] \in Object, NEW n, NEW t, NEW x,
         \/ n = [m EXCEPT ![t].fwd = x]
         \/ n = [m EXCEPT ![t].enqueued = x]
         \/ n = [m EXCEPT ![t].marked = x]
  PROVE  SameObjects(m, n)
<1>1. CASE n = [m EXCEPT ![t].fwd = x]
  BY <1>1 DEF SameObjects, Object
<1>2. CASE n = [m EXCEPT ![t].enqueued = x]
  BY <1>2 DEF SameObjects, Object
<1>3. CASE n = [m EXCEPT ![t].marked = x]
  BY <1>3 DEF SameObjects, Object
<1> QED
  BY <1>1, <1>2, <1>3

\* what queue_enqueue and mark_object write
Linked(m, t, w, u) == [m EXCEPT ![t].fwd = w, ![u].enqueued = TRUE]
Dequeued(m, u) == [m EXCEPT ![u].enqueued = FALSE, ![u].marked = TRUE]

\* Two such writes.
LEMMA FlagsWritten ==
  ASSUME NEW m, \A a \in DOMAIN m : m[a] \in Object, NEW t, NEW w, NEW u
  PROVE  SameObjects(m, Linked(m, t, w, u)) /\ SameObjects(m, Dequeued(m, u))
<1>1. DOMAIN Linked(m, t, w, u) = DOMAIN m /\ DOMAIN Dequeued(m, u) = DOMAIN m
  BY DEF Linked, Dequeued
<1>2. ASSUME NEW a \in DOMAIN m
      PROVE  LET p == Linked(m, t, w, u)[a]
                 q == Dequeued(m, u)[a]
             IN  /\ p.kind = m[a].kind /\ p.len = m[a].len /\ p.id = m[a].id
                 /\ p.fields = m[a].fields
                 /\ q.kind = m[a].kind /\ q.len = m[a].len /\ q.id = m[a].id
                 /\ q.fields = m[a].fields
  <2>1. PICK o \in Object : o = m[a]
    OBVIOUS
  <2>2. Linked(m, t, w, u)[a] =
          [o EXCEPT !.fwd = IF a = t THEN w ELSE o.fwd,
                    !.enqueued = IF a = u THEN TRUE ELSE o.enqueued]
    BY <2>1 DEF Linked, Object
  <2>3. Dequeued(m, u)[a] =
          [o EXCEPT !.enqueued = IF a = u THEN FALSE ELSE o.enqueued,
                    !.marked = IF a = u THEN TRUE ELSE o.marked]
    BY <2>1 DEF Dequeued, Object
  <2> QED
    BY <2>1, <2>2, <2>3 DEF Object
<1> QED
  BY <1>1, <1>2 DEF SameObjects

Whole == {"run", "alloc", "mark", "locate", "place"}

\* A step that leaves the words and the objects where they are.
LEMMA ViewSame ==
  ASSUME Inv, Inv', pc \in Whole, pc' \in Whole,
         UNCHANGED <<heap, stack, xroots, req>>, SameObjects(mem, mem')
  PROVE  View' = View
<1>1. Sound(heap, mem)
  BY WaitingState DEF Whole
<1>2. Sound(heap, mem')
  BY DEF Inv, Quiet, Whole
<1>3. PICK ws : ws = Waiting(stack, xroots)
  OBVIOUS
<1>4. ws = Waiting(stack, xroots)'
  BY <1>3 DEF Waiting, Popped
<1>5. View = AbsStore(heap, mem, ws) /\ View' = AbsStore(heap, mem', ws)
  BY <1>3, <1>4 DEF View, Whole
<1> QED
  BY <1>1, <1>2, <1>5, StoreSame

\* mark and compute_locations write forward addresses and bits.
LEMMA MarkLeaves ==
  ASSUME Inv, StartGC \/ MarkRoot \/ Dequeue \/ ScanField \/ EndMark \/ Locate
  PROVE  /\ pc \in Whole /\ pc' \in Whole
         /\ UNCHANGED <<heap, stack, xroots, req>> /\ SameObjects(mem, mem')
<1> DEFINE Left == /\ pc \in Whole /\ pc' \in Whole
                   /\ UNCHANGED <<heap, stack, xroots, req>> /\ SameObjects(mem, mem')
<1>1. Inv'
  BY NextInv DEF Next, Collector
<1>2. pc' # "crashed" /\ \A a \in DOMAIN mem : mem[a] \in Object
  BY <1>1 DEF Inv, Types, ObjectOK
<1>3. SameObjects(mem, mem)
  BY DEF SameObjects
<1>4. ASSUME NEW g, pc = "mark", GCStep(g)
      PROVE  Left
  BY <1>3, <1>4 DEF GCStep, Whole
<1>5. ASSUME NEW t, NEW w, NEW g, pc = "mark", Enqueue(t, w, g)
      PROVE  Left
  <2>1. PICK u : u = HeaderOf(heap, w)
    OBVIOUS
  <2>2. /\ pc' = "mark" /\ UNCHANGED <<heap, stack, xroots, req>>
        /\ mem' = Linked(mem, t, w, u)
    BY <1>2, <1>5, <2>1 DEF Enqueue, Crash, Linked
  <2>3. SameObjects(mem, mem')
    BY <1>2, <2>2, FlagsWritten
  <2> QED
    BY <1>5, <2>2, <2>3 DEF Whole
<1>6. CASE StartGC \/ EndMark
  BY <1>3, <1>6 DEF StartGC, EndMark, Whole
<1>7. CASE MarkRoot
  <2>1. pc = "mark"
    BY <1>7 DEF MarkRoot
  <2>2. (\E g : GCStep(g)) \/ (\E t, w, g : Enqueue(t, w, g))
    BY <1>2, <1>7 DEF MarkRoot, Crash
  <2> QED
    BY <1>4, <1>5, <2>1, <2>2
<1>8. CASE ScanField
  <2>1. pc = "mark"
    BY <1>8 DEF ScanField
  <2>2. (\E g : GCStep(g)) \/ (\E t, w, g : Enqueue(t, w, g))
    BY <1>2, <1>8 DEF ScanField, Crash
  <2> QED
    BY <1>4, <1>5, <2>1, <2>2
<1>9. CASE Dequeue
  <2>1. PICK off : off = HeaderOf(heap, mem[gc.head].fwd)
    OBVIOUS
  <2>2. /\ pc = "mark" /\ pc' = "mark" /\ UNCHANGED <<heap, stack, xroots, req>>
        /\ mem' = Dequeued(mem, off)
    BY <1>2, <1>9, <2>1 DEF Dequeue, Crash, Dequeued
  <2>3. SameObjects(mem, mem')
    BY <1>2, <2>2, FlagsWritten
  <2> QED
    BY <2>2, <2>3 DEF Whole
<1>10. CASE Locate
  <2>1. PICK s, x : s = gc.scan /\ x = ForwardAddress
    OBVIOUS
  <2>2. pc = "locate" /\ s \in DOMAIN mem
    BY <1>2, <1>10, <2>1 DEF Locate, Crash
  <2>3. /\ pc' = "locate" /\ UNCHANGED <<heap, stack, xroots, req>>
        /\ mem' = IF mem[s].marked THEN [mem EXCEPT ![s].fwd = x] ELSE mem
    BY <1>10, <2>1, <2>2 DEF Locate
  <2>4. SameObjects(mem, mem')
    BY <1>2, <1>3, <2>3, FlagWritten
  <2> QED
    BY <2>2, <2>3, <2>4 DEF Whole
<1> QED
  BY <1>6, <1>7, <1>8, <1>9, <1>10

\* Marking and locating leave the program its view.
LEMMA MarkKeeps ==
  ASSUME Inv, StartGC \/ MarkRoot \/ Dequeue \/ ScanField \/ EndMark \/ Locate
  PROVE  View' = View
<1>1. Inv'
  BY NextInv DEF Next, Collector
<1> QED
  BY <1>1, MarkLeaves, ViewSame

\* The words an operation waits with move as the stack and the roots do.
LEMMA WaitingSent ==
  ASSUME NEW h, NEW m, NEW g, NEW A,
         NEW st \in Seq(Nat), NEW sf, SentSeq(h, m, g, A, st, sf),
         NEW xr \in Seq(Nat), NEW xf, SentSeq(h, m, g, A, xr, xf),
         NEW p \in Nat, p <= Len(xr)
  PROVE  SentSeq(h, m, g, A, st \o SubSeq(xr, 1, p), sf \o SubSeq(xf, 1, p))
<1>1. PICK ws, vs : ws = st \o SubSeq(xr, 1, p) /\ vs = sf \o SubSeq(xf, 1, p)
  OBVIOUS
<1>2. /\ sf \in Seq(Nat) /\ xf \in Seq(Nat) /\ Len(sf) = Len(st) /\ Len(xf) = Len(xr)
      /\ \A k \in DOMAIN st : Sent(h, m, g, A, st[k], sf[k])
      /\ \A k \in DOMAIN xr : Sent(h, m, g, A, xr[k], xf[k])
  BY DEF SentSeq
<1>3. /\ ws \in Seq(Nat) /\ Len(ws) = Len(st) + p /\ DOMAIN ws = 1..Len(st) + p
      /\ \A k \in 1..Len(st) : ws[k] = st[k]
      /\ \A k \in 1..p : ws[Len(st) + k] = xr[k]
  BY <1>1, WaitingWords
<1>4. /\ vs \in Seq(Nat) /\ Len(vs) = Len(sf) + p /\ DOMAIN vs = 1..Len(sf) + p
      /\ \A k \in 1..Len(sf) : vs[k] = sf[k]
      /\ \A k \in 1..p : vs[Len(sf) + k] = xf[k]
  <2>1. sf \in Seq(Nat) /\ xf \in Seq(Nat) /\ p <= Len(xf)
    BY <1>2
  <2> QED
    BY <1>1, <2>1, WaitingWords
<1>5. PICK n \in Nat, l \in Nat : n = Len(st) /\ l = Len(xr) /\ n = Len(sf) /\ p <= l
  BY <1>2
<1>6. DOMAIN st = 1..n /\ DOMAIN xr = 1..l
  <2>1. DOMAIN st = 1..Len(st) /\ DOMAIN xr = 1..Len(xr)
    OBVIOUS
  <2> QED
    BY <1>5, <2>1
<1>7. ASSUME NEW k \in DOMAIN ws
      PROVE  Sent(h, m, g, A, ws[k], vs[k])
  <2>1. CASE k \in 1..n
    BY <1>2, <1>3, <1>4, <1>5, <1>6, <2>1
  <2>2. CASE k \notin 1..n
    <3>1. PICK j : j = k - n
      OBVIOUS
    <3>2. k \in 1..n + p
      BY <1>3, <1>5
    <3>3. j \in 1..p /\ k = n + j /\ j \in 1..l
      BY <1>5, <2>2, <3>1, <3>2
    <3>4. ws[k] = xr[j] /\ vs[k] = xf[j]
      BY <1>3, <1>4, <1>5, <3>3
    <3> QED
      BY <1>2, <1>6, <3>3, <3>4
  <2> QED
    BY <2>1, <2>2
<1>8. SentSeq(h, m, g, A, ws, vs)
  BY <1>2, <1>3, <1>4, <1>7 DEF SentSeq
<1> QED
  BY <1>1, <1>8

\* mremap: from here the view is the one of the heap to come.
LEMMA RemapKeeps ==
  ASSUME Inv, Remap
  PROVE  View' = View
<1>1. pc = "locate" /\ pc' = "update" /\ UNCHANGED <<mem, stack, xroots, req>>
  BY DEF Remap
<1>2. /\ heap \in Chunk /\ Sound(heap, mem)
      /\ Wording(heap, mem, stack) /\ Wording(heap, mem, xroots)
      /\ Popped \in Nat /\ Popped <= Len(xroots)
      /\ Wording(heap, mem, Waiting(stack, xroots))
  BY <1>1, WaitingState
<1>3. PICK g, f, sf, xf, A, p, ws :
        /\ g = FutureHeap' /\ f = FutureMem' /\ sf = FutureStack' /\ xf = FutureXroots'
        /\ A = MarkedIn(mem) /\ p = Popped /\ ws = Waiting(stack, xroots)
  OBVIOUS
<1>4. /\ g \in Chunk /\ Sound(g, f) /\ Rehoused(heap, mem, g, A, f)
      /\ SentSeq(heap, mem, g, A, stack, sf) /\ SentSeq(heap, mem, g, A, xroots, xf)
  BY <1>3, RemapInv
<1>5. /\ A \in SUBSET DOMAIN mem /\ ClosedAt(heap, mem, A)
      /\ Targets(heap, mem, stack) \cup Targets(heap, mem, xroots) \subseteq A
  BY <1>1, <1>3, LocateState DEF Holds, MarkedIn
<1>6. PICK vs : vs = sf \o SubSeq(xf, 1, p)
  OBVIOUS
<1>7. ws = stack \o SubSeq(xroots, 1, p)
  BY <1>3 DEF Waiting
<1>8. Popped' = p
  BY <1>1, <1>3 DEF Popped
<1>9. View = AbsStore(heap, mem, ws) /\ View' = AbsStore(g, f, vs)
  BY <1>1, <1>3, <1>6, <1>8 DEF View, Waiting
<1>10. SentSeq(heap, mem, g, A, ws, vs)
  BY <1>2, <1>3, <1>4, <1>6, <1>7, WaitingSent DEF Wording
<1>11. Wording(heap, mem, ws) /\ Targets(heap, mem, ws) \subseteq A
  BY <1>2, <1>3, <1>5, <1>7, WaitingWording
<1>12. AbsStore(g, f, vs) = AbsStore(heap, mem, ws)
  BY <1>2, <1>4, <1>5, <1>10, <1>11, StoreSent
<1> QED
  BY <1>9, <1>12

\* update_references, the two fixing loops and physically_relocate only bring
\* that heap about.
LEMMA MovingKeeps ==
  ASSUME Inv, Update \/ FixRoots \/ Relocate
  PROVE  View' = View
<1>1. Inv' /\ FutureKept
  BY UpdateInv, FixRootsInv, RelocateDeadInv, RelocateLiveInv
<1>2. pc' # "crashed" /\ xroots' \in Seq(Nat) /\ xroots \in Seq(Nat)
  BY <1>1 DEF Inv, Types
<1>3. pc \in {"update", "relocate"} /\ pc' \in {"update", "relocate"} /\ req' = req
  BY <1>2 DEF Update, FixRoots, Relocate, Crash
<1>4. DOMAIN xroots' = DOMAIN xroots
  BY <1>2 DEF Update, FixRoots, Relocate, Crash
<1>5. Len(xroots') = Len(xroots)
  BY <1>2, <1>4
<1>6. Popped' = Popped
  BY <1>3, <1>5 DEF Popped
<1>7. Waiting(FutureStack, FutureXroots)' = Waiting(FutureStack, FutureXroots)
  BY <1>1, <1>6 DEF Waiting, FutureKept
<1> QED
  BY <1>1, <1>3, <1>7 DEF View, FutureKept

\* At the end of compact_phase the heap is the one to come.
LEMMA CompactKeeps ==
  ASSUME Inv, EndCompact
  PROVE  View' = View
<1>1. pc = "relocate" /\ pc' = "place" /\ UNCHANGED <<stack, xroots, req>>
  BY DEF EndCompact
<1>2. /\ heap' = FutureHeap /\ mem' = FutureMem
      /\ stack' = FutureStack /\ xroots' = FutureXroots
  BY EndCompactInv
<1>3. Popped' = Popped
  BY <1>1 DEF Popped
<1>4. Waiting(stack, xroots)' = Waiting(FutureStack, FutureXroots)
  BY <1>2, <1>3 DEF Waiting
<1> QED
  BY <1>1, <1>2, <1>4 DEF View

\* The collector leaves the program its store.
LEMMA CollectorKeeps ==
  ASSUME Inv, Collector, pc' \notin {"run", "exited", "crashed"}
  PROVE  View' = View
<1>1. CASE AllocOnExistingHeap \/ AllocAfterGC
  BY <1>1 DEF AllocOnExistingHeap, AllocAfterGC, Place, Crash
<1>2. CASE RemapFails
  BY <1>2 DEF RemapFails
<1>3. CASE StartGC \/ MarkRoot \/ Dequeue \/ ScanField \/ EndMark \/ Locate
  BY <1>3, MarkKeeps
<1>4. CASE Remap
  BY <1>4, RemapKeeps
<1>5. CASE Update \/ FixRoots \/ Relocate
  BY <1>5, MovingKeeps
<1>6. CASE EndCompact
  BY <1>6, CompactKeeps
<1> QED
  BY <1>1, <1>2, <1>3, <1>4, <1>5, <1>6 DEF Collector

-----------------------------------------------------------------------------
(***************************************************************************)
(* What sequences of words stand for.                                      *)
(***************************************************************************)
Meanings(h, m) == {AbsWord(h, m, w) : w \in Nat}

LEMMA SeqFromTo ==
  ASSUME NEW S, NEW s \in Seq(S), NEW a \in Nat, NEW b \in Nat, 1 <= a, b <= Len(s), a <= b + 1
  PROVE  /\ SubSeq(s, a, b) \in Seq(S) /\ Len(SubSeq(s, a, b)) = b - a + 1
         /\ \A k \in 1..b - a + 1 : SubSeq(s, a, b)[k] = s[a + k - 1]
  OBVIOUS

LEMMA SeqEqual ==
  ASSUME NEW S, NEW s \in Seq(S), NEW t \in Seq(S), Len(s) = Len(t),
         \A k \in 1..Len(s) : s[k] = t[k]
  PROVE  s = t
  OBVIOUS

LEMMA AbsSeqType ==
  ASSUME NEW h, NEW m, NEW ws \in Seq(Nat)
  PROVE  /\ AbsSeq(h, m, ws) \in Seq(Meanings(h, m))
         /\ Len(AbsSeq(h, m, ws)) = Len(ws) /\ DOMAIN AbsSeq(h, m, ws) = 1..Len(ws)
         /\ \A k \in 1..Len(ws) : AbsSeq(h, m, ws)[k] = AbsWord(h, m, ws[k])
<1>1. DOMAIN ws = 1..Len(ws) /\ Len(ws) \in Nat /\ \A k \in 1..Len(ws) : ws[k] \in Nat
  OBVIOUS
<1>2. PICK aw : aw = AbsSeq(h, m, ws)
  OBVIOUS
<1>3. aw = [k \in 1..Len(ws) |-> AbsWord(h, m, ws[k])]
  BY <1>1, <1>2 DEF AbsSeq
<1>4. \A k \in 1..Len(ws) : aw[k] \in Meanings(h, m)
  BY <1>1, <1>3 DEF Meanings
<1>5. aw \in Seq(Meanings(h, m)) /\ Len(aw) = Len(ws)
  BY <1>1, <1>3, <1>4
<1> QED
  BY <1>2, <1>3, <1>5

\* One more word, and a part of a sequence.
LEMMA AbsAppend ==
  ASSUME NEW h, NEW m, NEW ws \in Seq(Nat), NEW w \in Nat
  PROVE  AbsSeq(h, m, Append(ws, w)) = Append(AbsSeq(h, m, ws), AbsWord(h, m, w))
<1>1. PICK S, s, t, x, vs :
        /\ S = Meanings(h, m) /\ s = AbsSeq(h, m, ws) /\ x = AbsWord(h, m, w)
        /\ vs = Append(ws, w) /\ t = AbsSeq(h, m, vs)
  OBVIOUS
<1>2. PICK n \in Nat : n = Len(ws)
  OBVIOUS
<1>3. s \in Seq(S) /\ Len(s) = n /\ \A k \in 1..n : s[k] = AbsWord(h, m, ws[k])
  BY <1>1, <1>2, AbsSeqType
<1>4. /\ vs \in Seq(Nat) /\ Len(vs) = n + 1 /\ vs[n + 1] = w
      /\ \A k \in 1..n : vs[k] = ws[k]
  BY <1>1, <1>2, Appended
<1>5. t \in Seq(S) /\ Len(t) = n + 1 /\ \A k \in 1..n + 1 : t[k] = AbsWord(h, m, vs[k])
  <2>1. vs \in Seq(Nat)
    BY <1>4
  <2>2. t \in Seq(S) /\ Len(t) = Len(vs) /\ \A k \in 1..Len(vs) : t[k] = AbsWord(h, m, vs[k])
    BY <1>1, <2>1, AbsSeqType
  <2> QED
    BY <1>4, <2>2
<1>6. x \in S
  BY <1>1 DEF Meanings
<1>7. PICK u : u = Append(s, x)
  OBVIOUS
<1>8. u \in Seq(S) /\ Len(u) = n + 1 /\ u[n + 1] = x /\ \A k \in 1..n : u[k] = s[k]
  BY <1>2, <1>3, <1>6, <1>7
<1>9. \A k \in 1..n + 1 : t[k] = u[k]
  <2> TAKE k \in 1..n + 1
  <2>1. k \in 1..n \/ k = n + 1
    BY <1>2
  <2>2. CASE k \in 1..n
    BY <1>3, <1>4, <1>5, <1>8, <2>2
  <2>3. CASE k = n + 1
    BY <1>1, <1>4, <1>5, <1>8, <2>3
  <2> QED
    BY <2>1, <2>2, <2>3
<1>10. t = u
  BY <1>2, <1>5, <1>8, <1>9, SeqEqual
<1> QED
  BY <1>1, <1>7, <1>10

LEMMA AbsSubSeq ==
  ASSUME NEW h, NEW m, NEW ws \in Seq(Nat), NEW a \in Nat, NEW b \in Nat,
         1 <= a, b <= Len(ws), a <= b + 1
  PROVE  AbsSeq(h, m, SubSeq(ws, a, b)) = SubSeq(AbsSeq(h, m, ws), a, b)
<1>1. PICK S, s, t, u, vs :
        /\ S = Meanings(h, m) /\ s = AbsSeq(h, m, ws) /\ vs = SubSeq(ws, a, b)
        /\ t = AbsSeq(h, m, vs) /\ u = SubSeq(s, a, b)
  OBVIOUS
<1>2. PICK n \in Nat, l \in Nat : n = Len(ws) /\ l = b - a + 1
  OBVIOUS
<1>3. s \in Seq(S) /\ Len(s) = n /\ \A k \in 1..n : s[k] = AbsWord(h, m, ws[k])
  BY <1>1, <1>2, AbsSeqType
<1>4. vs \in Seq(Nat) /\ Len(vs) = l /\ \A k \in 1..l : vs[k] = ws[a + k - 1]
  BY <1>1, <1>2, SeqFromTo
<1>5. t \in Seq(S) /\ Len(t) = l /\ \A k \in 1..l : t[k] = AbsWord(h, m, vs[k])
  <2>1. vs \in Seq(Nat)
    BY <1>4
  <2>2. t \in Seq(S) /\ Len(t) = Len(vs) /\ \A k \in 1..Len(vs) : t[k] = AbsWord(h, m, vs[k])
    BY <1>1, <2>1, AbsSeqType
  <2> QED
    BY <1>4, <2>2
<1>6. u \in Seq(S) /\ Len(u) = l /\ \A k \in 1..l : u[k] = s[a + k - 1]
  BY <1>1, <1>2, <1>3, SeqFromTo
<1>7. \A k \in 1..l : a + k - 1 \in 1..n
  BY <1>2
<1>8. \A k \in 1..l : t[k] = u[k]
  BY <1>3, <1>4, <1>5, <1>6, <1>7
<1>9. t = u
  BY <1>2, <1>5, <1>6, <1>8, SeqEqual
<1> QED
  BY <1>1, <1>9

-----------------------------------------------------------------------------
(***************************************************************************)
(* The ghost store of LamaGCStore, in every phase.                         *)
(***************************************************************************)
\* what the program has seen last is what the heap still stands for
Kept ==
  /\ pc = "run" => xroots = <<>>
  /\ pc \notin {"exited", "crashed"} => store = View

\* the object that the n-th word of the store's stack refers to
IsRef(n) == n > 0 /\ store.stack[n][1] = "obj"
Operand(n) == store.graph[store.stack[n][2]]

\* Barray, BSexp, Bclosure and Bstring of a literal, Lstring, Lclone and
\* Lsubstring, ++: what each has asked alloc for, and about which operands, of
\* which the n-th word of the store's stack is the last
OfShape(kind, len) == \E s \in Shapes : s[1] = kind /\ s[2] = len

AsksNew == req.reads = 0 /\ Popped = 0 /\ OfShape(req.kind, req.len)
AsksString ==
  req.reads = 0 /\ Popped = 1 /\ req.kind = "STRING" /\ OfShape("STRING", req.len)
AsksCopy(n) ==
  /\ req.reads = 1 /\ IsRef(n) /\ Operand(n).kind = req.kind
  /\ \/ Operand(n).len = req.len
     \/ req.kind = "STRING" /\ req.len <= Operand(n).len /\ OfShape("STRING", req.len)
AsksBoth(n) ==
  /\ req.reads = 2 /\ IsRef(n) /\ IsRef(n - 1) /\ req.kind = "STRING"
  /\ Operand(n).kind = "STRING" /\ Operand(n - 1).kind = "STRING"
  /\ req.len = Operand(n - 1).len + Operand(n).len

Asked ==
  pc \notin {"run", "exited", "crashed"} =>
    /\ req.reads > 0 => req.used = 0
    /\ LET n == Len(store.stack) IN AsksNew \/ AsksString \/ AsksCopy(n) \/ AsksBoth(n)

\* While an operation runs, the stack has its operands.
LEMMA NothingWaits ==
  ASSUME Inv, pc = "run", xroots = <<>>
  PROVE  Popped = 0 /\ Waiting(stack, xroots) = stack
<1>1. req.reads = 0 /\ stack \in Seq(Nat)
  BY Running DEF Idle
<1>2. Popped = 0
  BY <1>1 DEF Popped
<1>3. PICK e : e = SubSeq(xroots, 1, 0)
  OBVIOUS
<1>4. xroots \in Seq(Nat)
  BY DEF Inv, Types
<1>5. e \in Seq(Nat) /\ Len(e) = 0
  BY <1>3, <1>4
<1>6. stack \o e = stack
  BY <1>1, <1>5
<1> QED
  BY <1>2, <1>3, <1>6 DEF Waiting

\* The store is what the words the program waits with reach.
LEMMA StoreWaits ==
  ASSUME Inv, Kept, pc \in Whole, NEW ws, ws = Waiting(stack, xroots)
  PROVE  /\ heap \in Chunk /\ Sound(heap, mem) /\ Wording(heap, mem, ws)
         /\ store.stack = AbsSeq(heap, mem, ws)
         /\ store.graph = Prune(AbsGraph(heap, mem), store.stack)
         /\ DOMAIN store.graph = Reach(AbsGraph(heap, mem), store.stack)
         /\ store.graph = [i \in DOMAIN store.graph |-> AbsGraph(heap, mem)[i]]
         /\ DOMAIN store.graph \in SUBSET DOMAIN AbsGraph(heap, mem)
         /\ Named(store.stack) \subseteq DOMAIN store.graph
         /\ Closed(AbsGraph(heap, mem), DOMAIN store.graph)
<1>1. heap \in Chunk /\ Sound(heap, mem) /\ Wording(heap, mem, ws)
  BY WaitingState DEF Whole
<1>2. store = AbsStore(heap, mem, ws)
  BY DEF Kept, View, Whole
<1>3. PICK g : g = AbsGraph(heap, mem)
  OBVIOUS
<1>4. store.stack = AbsSeq(heap, mem, ws) /\ store.graph = Prune(g, store.stack)
  BY <1>2, <1>3 DEF AbsStore
<1>5. Closed(g, DOMAIN g) /\ Named(store.stack) \subseteq DOMAIN g
  BY <1>1, <1>3, <1>4, GraphClosed
<1>6. DOMAIN store.graph = Reach(g, store.stack)
      /\ store.graph = [i \in DOMAIN store.graph |-> g[i]]
  BY <1>4 DEF Prune
<1>7. /\ Reach(g, store.stack) \in SUBSET DOMAIN g
      /\ Named(store.stack) \subseteq Reach(g, store.stack)
      /\ Closed(g, Reach(g, store.stack))
  BY <1>5, ReachClosed
<1> QED
  BY <1>1, <1>3, <1>4, <1>6, <1>7

\* The store of a running program, word by word.
LEMMA StoreIs ==
  ASSUME Inv, Kept, pc = "run"
  PROVE  /\ heap \in Chunk /\ Sound(heap, mem) /\ Wording(heap, mem, stack)
         /\ store.stack = AbsSeq(heap, mem, stack)
         /\ store.graph = Prune(AbsGraph(heap, mem), store.stack)
         /\ DOMAIN store.graph = Reach(AbsGraph(heap, mem), store.stack)
         /\ store.graph = [i \in DOMAIN store.graph |-> AbsGraph(heap, mem)[i]]
         /\ DOMAIN store.graph \in SUBSET DOMAIN AbsGraph(heap, mem)
         /\ Named(store.stack) \subseteq DOMAIN store.graph
         /\ Closed(AbsGraph(heap, mem), DOMAIN store.graph)
<1>1. stack = Waiting(stack, xroots)
  BY NothingWaits DEF Kept
<1>2. pc \in Whole
  BY DEF Whole
<1> QED
  BY <1>1, <1>2, StoreWaits

LEMMA StackedIs ==
  ASSUME Inv, Kept, pc = "run"
  PROVE  /\ Depth \in Nat /\ Len(store.stack) = Depth /\ DOMAIN store.stack = 1..Depth
         /\ store.stack \in Seq(Meanings(heap, mem))
         /\ \A k \in 1..Depth : store.stack[k] = AbsWord(heap, mem, stack[k])
         /\ \A k \in 1..Depth : Unboxed(stack[k]) => store.stack[k] = Val
         /\ \A k \in 1..Depth : Boxed(stack[k]) =>
              LET off == HeaderOf(heap, stack[k]) IN
              /\ off \in DOMAIN mem
              /\ store.stack[k] = Obj(mem[off].id)
              /\ mem[off].id \in DOMAIN store.graph
              /\ store.graph[mem[off].id] = AbsObject(heap, mem, mem[off])
<1>1. /\ heap \in Chunk /\ Sound(heap, mem) /\ stack \in Seq(Nat) /\ Depth \in Nat
      /\ store.stack = AbsSeq(heap, mem, stack)
      /\ store.graph = [i \in DOMAIN store.graph |-> AbsGraph(heap, mem)[i]]
      /\ Named(store.stack) \subseteq DOMAIN store.graph
  BY StoreIs DEF Wording, Depth
<1>2. /\ Len(store.stack) = Depth /\ DOMAIN store.stack = 1..Depth
      /\ store.stack \in Seq(Meanings(heap, mem))
      /\ \A k \in 1..Depth : store.stack[k] = AbsWord(heap, mem, stack[k])
  BY <1>1, AbsSeqType DEF Depth
<1>3. ASSUME NEW k \in 1..Depth, Unboxed(stack[k])
      PROVE  store.stack[k] = Val
  BY <1>2, <1>3 DEF AbsWord, Names
<1>4. ASSUME NEW k \in 1..Depth, Boxed(stack[k])
      PROVE  LET off == HeaderOf(heap, stack[k]) IN
             /\ off \in DOMAIN mem
             /\ store.stack[k] = Obj(mem[off].id)
             /\ mem[off].id \in DOMAIN store.graph
             /\ store.graph[mem[off].id] = AbsObject(heap, mem, mem[off])
  <2>1. k \in DOMAIN stack
    BY <1>1 DEF Depth
  <2>2. PICK off : off = HeaderOf(heap, stack[k])
    OBVIOUS
  <2>3. IsObj(heap, stack[k]) /\ off \in DOMAIN mem
    BY <1>4, <2>1, <2>2, StackWord
  <2>4. store.stack[k] = Obj(mem[off].id)
    BY <1>2, <2>2, <2>3 DEF AbsWord, IsObj
  <2>5. mem[off].id \in Named(store.stack)
    BY <1>2, <2>4 DEF Named, Obj
  <2>6. AbsGraph(heap, mem)[mem[off].id] = AbsObject(heap, mem, mem[off])
    BY <1>1, <2>3, GraphIs
  <2>7. mem[off].id \in DOMAIN store.graph
    BY <1>1, <2>5
  <2>8. store.graph[mem[off].id] = AbsGraph(heap, mem)[mem[off].id]
    BY <1>1, <2>7
  <2> QED
    BY <2>2, <2>3, <2>4, <2>6, <2>7, <2>8
<1> QED
  BY <1>1, <1>2, <1>3, <1>4

-----------------------------------------------------------------------------
(***************************************************************************)
(* An operation that does not allocate is one of the store.                *)
(***************************************************************************)
LEMMA SamePrune == \A g, ws : Store!Prune(g, ws) = Prune(g, ws)
BY DEF Store!Prune, Store!Reach, Store!Closed, Store!Named, Prune, Reach, Closed, Named

\* A word that is no reference, or one to an object of the store.
KnownWord(w) ==
  AbsWord(heap, mem, w)[1] = "obj" => AbsWord(heap, mem, w)[2] \in DOMAIN store.graph

LEMMA WordsKnown ==
  ASSUME Inv, Kept, pc = "run"
  PROVE  KnownWord(BOXED) /\ \A k \in 1..Depth : KnownWord(stack[k])
<1>1. KnownWord(BOXED)
  BY DEF KnownWord, AbsWord, Names, Unboxed, BOXED, Val
<1>2. ASSUME NEW k \in 1..Depth, AbsWord(heap, mem, stack[k])[1] = "obj"
      PROVE  AbsWord(heap, mem, stack[k])[2] \in DOMAIN store.graph
  <2>1. store.stack[k] = AbsWord(heap, mem, stack[k]) /\ k \in DOMAIN store.stack
    BY StackedIs
  <2>2. store.stack[k][2] \in Named(store.stack)
    BY <1>2, <2>1 DEF Named
  <2> QED
    BY <2>1, <2>2, StoreIs
<1> QED
  BY <1>1, <1>2 DEF KnownWord

LEMMA LowerIs ==
  ASSUME Inv, Kept, pc = "run", NEW n \in Nat, n <= Depth
  PROVE  /\ Lower(n) \in Seq(Nat) /\ Len(Lower(n)) = Depth - n
         /\ \A k \in 1..Depth - n : k \in 1..Depth /\ Lower(n)[k] = stack[k]
         /\ AbsSeq(heap, mem, Lower(n)) = Store!Lower(n)
<1>1. stack \in Seq(Nat) /\ store.stack = AbsSeq(heap, mem, stack)
  BY StoreIs DEF Wording
<1>2. Depth \in Nat /\ Len(store.stack) = Depth /\ Depth = Len(stack)
  BY StackedIs DEF Depth
<1>3. PICK b : b = Depth - n
  OBVIOUS
<1>4. b \in Nat /\ 1 <= b + 1 /\ b <= Len(stack) /\ b <= Depth
  BY <1>2, <1>3
<1>5. AbsSeq(heap, mem, SubSeq(stack, 1, b)) = SubSeq(store.stack, 1, b)
  BY <1>1, <1>4, AbsSubSeq
<1>6. Store!Lower(n) = SubSeq(store.stack, 1, b) /\ Lower(n) = SubSeq(stack, 1, b)
  BY <1>2, <1>3 DEF Store!Lower, Store!Depth, Lower
<1>7. /\ Lower(n) \in Seq(Nat) /\ Len(Lower(n)) = Depth - n
      /\ \A k \in 1..Depth - n : Lower(n)[k] = stack[k]
  BY <1>1, LowerType
<1>8. \A k \in 1..Depth - n : k \in 1..Depth
  BY <1>2
<1> QED
  BY <1>5, <1>6, <1>7, <1>8

\* The heap stays; the stack has words that the program had.
LEMMA OpBecomes ==
  ASSUME Inv, Kept, Observe, pc = "run", NEW st \in Seq(Nat), StackOp(st),
         \A k \in 1..Len(st) : KnownWord(st[k])
  PROVE  Store!Becomes(AbsSeq(heap, mem, st), store.graph) /\ UNCHANGED nextid
<1>1. pc' = "run" /\ stack' = st /\ UNCHANGED <<heap, mem, nextid>>
  BY DEF StackOp
<1>2. PICK g, R, aw : g = AbsGraph(heap, mem) /\ R = DOMAIN store.graph
                      /\ aw = AbsSeq(heap, mem, st)
  OBVIOUS
<1>3. store' = AbsStore(heap, mem, st)
  BY <1>1 DEF Observe
<1>4. store.stack' = aw /\ store.graph' = Prune(g, aw)
  BY <1>2, <1>3 DEF AbsStore
<1>5. Named(aw) \subseteq R
  <2>1. DOMAIN aw = 1..Len(st) /\ \A k \in 1..Len(st) : aw[k] = AbsWord(heap, mem, st[k])
    BY <1>2, AbsSeqType
  <2> QED
    BY <1>2, <2>1 DEF KnownWord, Named
<1>6. R \in SUBSET DOMAIN g /\ Closed(g, R)
  BY <1>2, StoreIs
<1>7. PICK f : f = store.graph
  OBVIOUS
<1>8. f = [i \in R |-> g[i]]
  BY <1>2, <1>7, StoreIs
<1>9. Prune(f, aw) = Prune(g, aw)
  BY <1>5, <1>6, <1>8, PruneRestricted
<1> QED
  BY <1>1, <1>2, <1>4, <1>7, <1>9, SamePrune DEF Store!Becomes

\* Words are popped, and one is pushed.
LEMMA PushBecomes ==
  ASSUME Inv, Kept, Observe, pc = "run", NEW n \in Nat, n <= Depth,
         NEW w \in Nat, KnownWord(w), StackOp(Append(Lower(n), w))
  PROVE  /\ Store!Becomes(Append(Store!Lower(n), AbsWord(heap, mem, w)), store.graph)
         /\ UNCHANGED nextid
<1>1. PICK low \in Seq(Nat) :
        /\ low = Lower(n) /\ Len(low) = Depth - n
        /\ \A k \in 1..Depth - n : k \in 1..Depth /\ low[k] = stack[k]
        /\ AbsSeq(heap, mem, low) = Store!Lower(n)
  BY LowerIs
<1>2. PICK st \in Seq(Nat) :
        /\ st = Append(low, w) /\ Len(st) = Len(low) + 1
        /\ \A k \in 1..Len(low) : st[k] = low[k]
        /\ st[Len(low) + 1] = w
  BY Appended
<1>3. Depth \in Nat
  BY StackedIs
<1>4. ASSUME NEW k \in 1..Len(st)
      PROVE  KnownWord(st[k])
  <2>1. k \in 1..Len(low) \/ k = Len(low) + 1
    BY <1>2
  <2>2. CASE k \in 1..Len(low)
    <3>1. k \in 1..Depth /\ st[k] = stack[k]
      BY <1>1, <1>2, <2>2
    <3> QED
      BY <3>1, WordsKnown
  <2>3. CASE k = Len(low) + 1
    BY <1>2, <2>3
  <2> QED
    BY <2>1, <2>2, <2>3
<1>5. Store!Becomes(AbsSeq(heap, mem, st), store.graph) /\ UNCHANGED nextid
  BY <1>1, <1>2, <1>4, OpBecomes
<1>6. AbsSeq(heap, mem, st) = Append(Store!Lower(n), AbsWord(heap, mem, w))
  BY <1>1, <1>2, AbsAppend
<1> QED
  BY <1>5, <1>6

\* A constant, and the top once more.
LEMMA PushesStep ==
  ASSUME Inv, Kept, Observe, Const \/ Dup
  PROVE  Store!Next
<1>1. pc = "run" /\ Depth < VSTACK_SIZE - 1
  BY DEF Const, Dup, Push
<1>2. /\ Depth \in Nat /\ Len(store.stack) = Depth /\ stack \in Seq(Nat)
      /\ store.stack \in Seq(Meanings(heap, mem))
      /\ \A k \in 1..Depth : store.stack[k] = AbsWord(heap, mem, stack[k])
  BY <1>1, StackedIs, StoreIs DEF Wording
<1>3. Lower(0) = stack /\ Store!Lower(0) = store.stack
  BY <1>2, NothingDropped DEF Store!Lower, Store!Depth
<1>4. ASSUME NEW w \in Nat, KnownWord(w), StackOp(Append(stack, w))
      PROVE  Store!Push(AbsWord(heap, mem, w))
  <2>1. 0 \in Nat /\ 0 <= Depth
    BY <1>2
  <2>2. /\ Store!Becomes(Append(store.stack, AbsWord(heap, mem, w)), store.graph)
        /\ UNCHANGED nextid
    BY <1>1, <1>3, <1>4, <2>1, PushBecomes
  <2> QED
    BY <1>1, <1>2, <2>2 DEF Store!Push, Store!Depth
<1>5. CASE Const
  <2>1. Store!Push(AbsWord(heap, mem, BOXED))
    BY <1>1, <1>4, <1>5, WordsKnown, BoxedIsWord DEF Const, Push
  <2>2. AbsWord(heap, mem, BOXED) = Store!Val
    BY DEF AbsWord, Names, Unboxed, BOXED, Val, Store!Val
  <2> QED
    BY <2>1, <2>2 DEF Store!Next
<1>6. CASE Dup
  <2>1. Depth > 0 /\ StackOp(Append(stack, Top))
    BY <1>6 DEF Dup, Push
  <2>2. Depth \in 1..Depth /\ Top = stack[Depth] /\ Top \in Nat
    BY <1>2, <2>1 DEF Top, Depth
  <2>3. Store!Push(AbsWord(heap, mem, Top))
    BY <1>1, <1>4, <2>1, <2>2, WordsKnown
  <2>4. AbsWord(heap, mem, Top) = Store!Top /\ Store!Depth > 0
    BY <1>2, <2>1, <2>2 DEF Store!Top, Store!Depth
  <2> QED
    BY <2>3, <2>4 DEF Store!Next
<1> QED
  BY <1>5, <1>6

\* Words are popped.
LEMMA DropStep ==
  ASSUME Inv, Kept, Observe, Drop
  PROVE  Store!Next
<1>1. pc = "run" /\ Depth > 0 /\ StackOp(Lower(1))
  BY DEF Drop
<1>2. Depth \in Nat /\ Len(store.stack) = Depth /\ 1 <= Depth
  BY <1>1, StackedIs
<1>3. PICK low \in Seq(Nat) :
        /\ low = Lower(1) /\ Len(low) = Depth - 1
        /\ \A k \in 1..Depth - 1 : k \in 1..Depth /\ low[k] = stack[k]
        /\ AbsSeq(heap, mem, low) = Store!Lower(1)
  BY <1>1, <1>2, LowerIs
<1>4. \A k \in 1..Len(low) : KnownWord(low[k])
  BY <1>1, <1>3, WordsKnown
<1>5. Store!Becomes(Store!Lower(1), store.graph) /\ UNCHANGED nextid
  BY <1>1, <1>3, <1>4, OpBecomes
<1>6. Store!Drop
  BY <1>1, <1>2, <1>5 DEF Store!Drop, Store!Depth
<1> QED
  BY <1>6 DEF Store!Next

LEMMA TwoAppended ==
  ASSUME NEW S, NEW s \in Seq(S), NEW x \in S, NEW y \in S
  PROVE  s \o <<x, y>> = Append(Append(s, x), y)
<1>1. PICK n \in Nat : n = Len(s)
  OBVIOUS
<1>2. PICK t, u, p : p = <<x, y>> /\ t = s \o p /\ u = Append(Append(s, x), y)
  OBVIOUS
<1>3. p \in Seq(S) /\ Len(p) = 2 /\ p[1] = x /\ p[2] = y
  BY <1>2
<1>4. /\ t \in Seq(S) /\ Len(t) = n + 2
      /\ \A k \in 1..n : t[k] = s[k]
      /\ \A k \in 1..2 : t[n + k] = p[k]
  BY <1>1, <1>2, <1>3
<1>5. t[n + 1] = x /\ t[n + 2] = y
  BY <1>3, <1>4
<1>6. /\ u \in Seq(S) /\ Len(u) = n + 2
      /\ \A k \in 1..n : u[k] = s[k]
      /\ u[n + 1] = x /\ u[n + 2] = y
  BY <1>1, <1>2
<1>7. \A k \in 1..n + 2 : t[k] = u[k]
  <2> TAKE k \in 1..n + 2
  <2>1. k \in 1..n \/ k = n + 1 \/ k = n + 2
    BY <1>1
  <2> QED
    BY <1>4, <1>5, <1>6, <2>1
<1>8. t = u
  BY <1>1, <1>4, <1>6, <1>7, SeqEqual
<1> QED
  BY <1>2, <1>8

LEMMA SwapStep ==
  ASSUME Inv, Kept, Observe, Swap
  PROVE  Store!Next
<1>1. pc = "run" /\ Depth > 1 /\ StackOp(Lower(2) \o <<Top, stack[Depth-1]>>)
  BY DEF Swap
<1>2. /\ Depth \in Nat /\ Len(store.stack) = Depth /\ 2 <= Depth /\ stack \in Seq(Nat)
      /\ store.stack \in Seq(Meanings(heap, mem))
      /\ \A k \in 1..Depth : store.stack[k] = AbsWord(heap, mem, stack[k])
  BY <1>1, StackedIs, StoreIs DEF Wording
<1>3. PICK b : b = Depth - 1
  OBVIOUS
<1>4. Depth \in 1..Depth /\ b \in 1..Depth
  BY <1>1, <1>2, <1>3
<1>5. PICK x \in Nat, y \in Nat : x = stack[Depth] /\ y = stack[b]
  <2>1. stack[Depth] \in Nat /\ stack[b] \in Nat
    BY <1>2, <1>4 DEF Depth
  <2> QED
    BY <2>1
<1>6. PICK low \in Seq(Nat) :
        /\ low = Lower(2) /\ Len(low) = Depth - 2
        /\ \A k \in 1..Depth - 2 : k \in 1..Depth /\ low[k] = stack[k]
        /\ AbsSeq(heap, mem, low) = Store!Lower(2)
  BY <1>1, <1>2, LowerIs
<1>7. PICK mid \in Seq(Nat) :
        /\ mid = Append(low, x) /\ Len(mid) = Len(low) + 1
        /\ \A k \in 1..Len(low) : mid[k] = low[k]
        /\ mid[Len(low) + 1] = x
  BY <1>5, <1>6, Appended
<1>8. PICK st \in Seq(Nat) :
        /\ st = Append(mid, y) /\ Len(st) = Len(mid) + 1
        /\ \A k \in 1..Len(mid) : st[k] = mid[k]
        /\ st[Len(mid) + 1] = y
  BY <1>5, <1>7, Appended
<1>9. StackOp(st)
  <2>1. low \o <<x, y>> = st
    BY <1>5, <1>6, <1>7, <1>8, TwoAppended
  <2> QED
    BY <1>1, <1>3, <1>5, <1>6, <2>1 DEF Top
<1>10. KnownWord(x) /\ KnownWord(y) /\ \A k \in 1..Len(low) : KnownWord(low[k])
  BY <1>1, <1>4, <1>5, <1>6, WordsKnown
<1>11. \A k \in 1..Len(mid) : KnownWord(mid[k])
  <2> TAKE k \in 1..Len(mid)
  <2>1. k \in 1..Len(low) \/ k = Len(low) + 1
    BY <1>6, <1>7
  <2> QED
    BY <1>7, <1>10, <2>1
<1>12. \A k \in 1..Len(st) : KnownWord(st[k])
  <2> TAKE k \in 1..Len(st)
  <2>1. k \in 1..Len(mid) \/ k = Len(mid) + 1
    BY <1>7, <1>8
  <2> QED
    BY <1>8, <1>10, <1>11, <2>1
<1>13. Store!Becomes(AbsSeq(heap, mem, st), store.graph) /\ UNCHANGED nextid
  BY <1>1, <1>9, <1>12, OpBecomes
<1>14. PICK S, v, w : /\ S = Meanings(heap, mem)
                      /\ v = AbsWord(heap, mem, x) /\ w = AbsWord(heap, mem, y)
  OBVIOUS
<1>15. v \in S /\ w \in S
  BY <1>5, <1>14 DEF Meanings
<1>16. PICK al : al = AbsSeq(heap, mem, low) /\ al \in Seq(S)
  BY <1>6, <1>14, AbsSeqType
<1>17. AbsSeq(heap, mem, st) = Append(Append(al, v), w)
  <2>1. AbsSeq(heap, mem, mid) = Append(al, v)
    BY <1>5, <1>6, <1>7, <1>14, <1>16, AbsAppend
  <2>2. AbsSeq(heap, mem, st) = Append(AbsSeq(heap, mem, mid), w)
    <3>1. st = Append(mid, y) /\ w = AbsWord(heap, mem, y) /\ mid \in Seq(Nat) /\ y \in Nat
      BY <1>5, <1>7, <1>8, <1>14
    <3> QED
      BY <3>1, AbsAppend
  <2> QED
    BY <2>1, <2>2
<1>18. Append(Append(al, v), w) = al \o <<v, w>>
  BY <1>15, <1>16, TwoAppended
<1>19. v = store.stack[Depth] /\ w = store.stack[b]
  BY <1>2, <1>4, <1>5, <1>14
<1>20. Store!Becomes(Store!Lower(2) \o <<v, w>>, store.graph)
  BY <1>6, <1>13, <1>16, <1>17, <1>18
<1>21. Store!Swap
  BY <1>1, <1>2, <1>3, <1>13, <1>19, <1>20 DEF Store!Swap, Store!Top, Store!Depth
<1> QED
  BY <1>21 DEF Store!Next

\* An unboxed word is pushed.
LEMMA ComputesStep ==
  ASSUME Inv, Kept, Observe, (\E n \in 1..2 : Compute(n)) \/ Inspect \/ StringPatt
  PROVE  Store!Next
<1>1. pc = "run"
  BY DEF Compute, Inspect, StringPatt
<1>2. stack \in Seq(Nat) /\ Depth \in Nat /\ Len(store.stack) = Depth
  BY <1>1, StackedIs, StoreIs DEF Wording
<1>3. \A k \in 1..Depth : ~Dangling(stack[k])
  BY <1>1, <1>2, StackWord DEF Depth
<1>4. ASSUME NEW n \in 1..2, n <= Depth, StackOp(Append(Lower(n), BOXED))
      PROVE  Store!Next
  <2>1. n \in Nat /\ BOXED \in Nat /\ KnownWord(BOXED)
    BY <1>1, WordsKnown, BoxedIsWord
  <2>2. /\ Store!Becomes(Append(Store!Lower(n), AbsWord(heap, mem, BOXED)), store.graph)
        /\ UNCHANGED nextid
    BY <1>1, <1>4, <2>1, PushBecomes
  <2>3. AbsWord(heap, mem, BOXED) = Store!Val
    BY DEF AbsWord, Names, Unboxed, BOXED, Val, Store!Val
  <2>4. Store!Depth >= n
    BY <1>2, <1>4 DEF Store!Depth
  <2>5. Store!Compute(n)
    BY <2>2, <2>3, <2>4 DEF Store!Compute
  <2> QED
    BY <2>5 DEF Store!Next
<1>5. CASE \E n \in 1..2 : Compute(n)
  BY <1>2, <1>4, <1>5 DEF Compute
<1>6. CASE Inspect
  <2>1. Depth >= 1 /\ ~Dangling(Top)
    BY <1>2, <1>3, <1>6 DEF Inspect, Top
  <2>2. StackOp(Append(Lower(1), BOXED))
    BY <1>6, <2>1 DEF Inspect
  <2> QED
    BY <1>2, <1>4, <2>1, <2>2
<1>7. CASE StringPatt
  <2>1. Depth >= 2 /\ ~Dangling(Top) /\ ~Dangling(stack[Depth-1])
    BY <1>2, <1>3, <1>7 DEF StringPatt, Top
  <2>2. StackOp(Append(Lower(2), BOXED))
    BY <1>7, <2>1 DEF StringPatt
  <2> QED
    BY <1>2, <1>4, <2>1, <2>2
<1> QED
  BY <1>5, <1>6, <1>7

\* A field of an object of the store.
LEMMA FieldKnown ==
  ASSUME Inv, Kept, pc = "run", NEW off \in DOMAIN mem, mem[off].id \in DOMAIN store.graph,
         NEW k \in DOMAIN mem[off].fields
  PROVE  /\ KnownWord(mem[off].fields[k])
         /\ AbsObject(heap, mem, mem[off]).fields[k] = AbsWord(heap, mem, mem[off].fields[k])
<1>1. PICK g, R, aw : /\ g = AbsGraph(heap, mem) /\ R = DOMAIN store.graph
                      /\ aw = AbsSeq(heap, mem, mem[off].fields)
  OBVIOUS
<1>2. Sound(heap, mem) /\ Closed(g, R)
  BY <1>1, StoreIs
<1>3. g[mem[off].id].fields = aw
  BY <1>1, <1>2, GraphIs
<1>4. Named(aw) \subseteq R
  BY <1>1, <1>2, <1>3 DEF Closed
<1>5. k \in DOMAIN aw /\ aw[k] = AbsWord(heap, mem, mem[off].fields[k])
  BY <1>1 DEF AbsSeq
<1>6. KnownWord(mem[off].fields[k])
  BY <1>1, <1>4, <1>5 DEF KnownWord, Named
<1> QED
  BY <1>1, <1>5, <1>6 DEF AbsObject

\* Belem.
LEMMA ElemStep ==
  ASSUME Inv, Kept, Observe, NEW k \in 1..MaxLen, Elem(k)
  PROVE  Store!Next
<1>1. pc = "run" /\ Depth > 1 /\ Boxed(stack[Depth-1]) /\ Unboxed(Top)
  BY DEF Elem
<1>2. Depth \in Nat /\ Len(store.stack) = Depth /\ stack \in Seq(Nat) /\ Sound(heap, mem)
  BY <1>1, StackedIs, StoreIs DEF Wording
<1>3. PICK b : b = Depth - 1
  OBVIOUS
<1>4. b \in 1..Depth /\ Depth \in 1..Depth /\ 2 <= Depth /\ b \in DOMAIN stack
  BY <1>1, <1>2, <1>3 DEF Depth
<1>5. PICK off : off = HeaderOf(heap, stack[b])
  OBVIOUS
<1>6. /\ IsObj(heap, stack[b]) /\ off \in DOMAIN mem
      /\ store.stack[b] = Obj(mem[off].id)
      /\ mem[off].id \in DOMAIN store.graph
      /\ store.graph[mem[off].id] = AbsObject(heap, mem, mem[off])
  BY <1>1, <1>3, <1>4, <1>5, StackedIs, StackWord
<1>7. PICK o, w : o = mem[off] /\ w = IF o.kind = "STRING" THEN BOXED ELSE o.fields[k]
  OBVIOUS
<1>8. InBounds(o, k) /\ StackOp(Append(Lower(2), w))
  BY <1>3, <1>5, <1>6, <1>7 DEF Elem
<1>9. PICK a : a = AbsObject(heap, mem, o)
  OBVIOUS
<1>10. a.kind = o.kind /\ a.len = o.len
  BY <1>9 DEF AbsObject
<1>11. w \in Nat /\ KnownWord(w) /\ AbsWord(heap, mem, w) = Store!Read(a, k)
  <2>1. CASE o.kind = "STRING"
    <3>1. AbsWord(heap, mem, BOXED) = Val /\ Store!Read(a, k) = Val
      BY <1>10, <2>1 DEF AbsWord, Names, Unboxed, BOXED, Val, Store!Val, Store!Read
    <3> QED
      BY <1>1, <1>7, <2>1, <3>1, WordsKnown, BoxedIsWord
  <2>2. CASE o.kind # "STRING"
    <3>1. k \in DOMAIN o.fields /\ o.fields[k] \in Nat
      BY <1>2, <1>6, <1>7, <1>8, <2>2, FieldWord
    <3>2. KnownWord(o.fields[k]) /\ a.fields[k] = AbsWord(heap, mem, o.fields[k])
      BY <1>1, <1>6, <1>7, <1>9, <3>1, FieldKnown
    <3> QED
      BY <1>7, <1>10, <2>2, <3>1, <3>2 DEF Store!Read
  <2> QED
    BY <2>1, <2>2
<1>12. /\ Store!Becomes(Append(Store!Lower(2), Store!Read(a, k)), store.graph)
       /\ UNCHANGED nextid
  BY <1>1, <1>4, <1>8, <1>11, PushBecomes
<1>13. Store!InBounds(a, k)
  BY <1>8, <1>10 DEF InBounds, Store!InBounds
<1>14. Store!Top = Store!Val /\ Store!Depth > 1
  BY <1>1, <1>2, <1>4, StackedIs DEF Store!Top, Store!Depth, Top, Val, Store!Val
<1>15. /\ store.stack[Store!Depth - 1] = Obj(mem[off].id)
       /\ Obj(mem[off].id)[1] = "obj" /\ Obj(mem[off].id)[2] = mem[off].id
  BY <1>2, <1>3, <1>6 DEF Store!Depth, Obj
<1>16. store.graph[mem[off].id] = a
  BY <1>6, <1>7, <1>9
<1>17. Store!Elem(k)
  BY <1>12, <1>13, <1>14, <1>15, <1>16 DEF Store!Elem
<1>18. k \in 1..Store!MaxLen
  BY DEF MaxLen, Store!MaxLen
<1> QED
  BY <1>17, <1>18 DEF Store!Next

\* n has the objects of m, but for that at off, which keeps its number
Changed(m, n, off) ==
  /\ DOMAIN n = DOMAIN m
  /\ off \in DOMAIN m /\ n[off].id = m[off].id
  /\ \A a \in DOMAIN m : a # off => n[a] = m[a]

\* The graph changes there and nowhere else.
LEMMA ObjectChanged ==
  ASSUME NEW h, NEW m, Sound(h, m), NEW n, Sound(h, n), NEW off, Changed(m, n, off)
  PROVE  /\ \A ws : AbsSeq(h, n, ws) = AbsSeq(h, m, ws)
         /\ DOMAIN AbsGraph(h, n) = DOMAIN AbsGraph(h, m)
         /\ \A i \in DOMAIN AbsGraph(h, m) :
              i # m[off].id => AbsGraph(h, n)[i] = AbsGraph(h, m)[i]
         /\ AbsGraph(h, m)[m[off].id] = AbsObject(h, m, m[off])
         /\ AbsGraph(h, n)[m[off].id] = AbsObject(h, m, n[off])
<1>1. /\ DOMAIN n = DOMAIN m /\ off \in DOMAIN m
      /\ \A a \in DOMAIN m : n[a].id = m[a].id
      /\ \A a \in DOMAIN m : a # off => n[a] = m[a]
  BY DEF Changed
<1>2. \A x : AbsWord(h, n, x) = AbsWord(h, m, x)
  BY <1>1 DEF AbsWord, Names
<1>3. \A ws : AbsSeq(h, n, ws) = AbsSeq(h, m, ws)
  BY <1>2 DEF AbsSeq
<1>4. \A o : AbsObject(h, n, o) = AbsObject(h, m, o)
  BY <1>3 DEF AbsObject
<1>5. PICK g, G : g = AbsGraph(h, m) /\ G = AbsGraph(h, n)
  OBVIOUS
<1>6. /\ DOMAIN g = IdsOf(m, DOMAIN m)
      /\ \A a \in DOMAIN m : g[m[a].id] = AbsObject(h, m, m[a])
  BY <1>5, GraphIs
<1>7. /\ DOMAIN G = IdsOf(n, DOMAIN n)
      /\ \A a \in DOMAIN n : G[n[a].id] = AbsObject(h, n, n[a])
  BY <1>5, GraphIs
<1>8. \A a \in DOMAIN m : G[m[a].id] = AbsObject(h, m, n[a])
  BY <1>1, <1>4, <1>7
<1>9. DOMAIN G = DOMAIN g
  BY <1>1, <1>6, <1>7 DEF IdsOf
<1>10. ASSUME NEW i \in DOMAIN g, i # m[off].id
       PROVE  G[i] = g[i]
  <2>1. PICK a \in DOMAIN m : i = m[a].id
    BY <1>6 DEF IdsOf
  <2>2. a # off /\ n[a] = m[a]
    BY <1>1, <1>10, <2>1
  <2> QED
    BY <1>6, <1>8, <2>1, <2>2
<1> QED
  BY <1>1, <1>3, <1>5, <1>6, <1>8, <1>9, <1>10

Put(o, k, w) == [o EXCEPT !.fields[k] = w]

\* A word w of the store is written to field k of an object of the store: what
\* that leaves of the heap, and of the graph.
Writes(n, off, k, w) ==
  /\ off \in DOMAIN mem /\ mem[off].id \in DOMAIN store.graph
  /\ k \in DOMAIN mem[off].fields /\ w \in Nat /\ KnownWord(w)
  /\ Sound(heap, n) /\ Changed(mem, n, off) /\ n[off] = Put(mem[off], k, w)

Replaces(n, off, k, w) ==
  LET G == AbsGraph(heap, n)
      R == DOMAIN store.graph
      v == AbsWord(heap, mem, w)
  IN  /\ R \in SUBSET DOMAIN G /\ Closed(G, R)
      /\ [store.graph EXCEPT ![mem[off].id] = Put(@, k, v)] = [i \in R |-> G[i]]
      /\ \A ws : AbsSeq(heap, n, ws) = AbsSeq(heap, mem, ws)

\* The graph changes there, and what was reachable stays closed.
LEMMA FieldWritten ==
  ASSUME Inv, Kept, pc = "run", NEW off, NEW k, NEW w, NEW n, Writes(n, off, k, w)
  PROVE  Replaces(n, off, k, w)
<1> USE DEF Writes
<1>1. PICK g, G, R, v, o, p :
        /\ g = AbsGraph(heap, mem) /\ G = AbsGraph(heap, n) /\ R = DOMAIN store.graph
        /\ v = AbsWord(heap, mem, w) /\ o = mem[off] /\ p = Put(o, k, w)
  OBVIOUS
<1>2. Sound(heap, mem) /\ R \in SUBSET DOMAIN g /\ Closed(g, R)
  BY <1>1, StoreIs
<1>3. store.graph = [i \in R |-> g[i]]
  BY <1>1, StoreIs
<1>4. ObjectOK(o)
  BY <1>1, <1>2 DEF Sound
<1>5. /\ p.kind = o.kind /\ p.len = o.len /\ p.id = o.id
      /\ DOMAIN p.fields = DOMAIN o.fields
      /\ \A j \in DOMAIN o.fields : p.fields[j] = IF j = k THEN w ELSE o.fields[j]
  BY <1>1, <1>4, FieldStored DEF Put
<1>6. n[off] = p
  BY <1>1
<1>7. PICK id, x, y : id = o.id /\ x = g[id] /\ y = G[id]
  OBVIOUS
<1>8. \A ws : AbsSeq(heap, n, ws) = AbsSeq(heap, mem, ws)
  BY <1>2, ObjectChanged
<1>9. /\ DOMAIN G = DOMAIN g
      /\ \A i \in DOMAIN g : i # mem[off].id => G[i] = g[i]
      /\ g[mem[off].id] = AbsObject(heap, mem, mem[off])
      /\ G[mem[off].id] = AbsObject(heap, mem, n[off])
  BY <1>1, <1>2, ObjectChanged
<1>10. DOMAIN G = DOMAIN g
  BY <1>9
<1>11. \A i \in R : i # id => G[i] = g[i]
  BY <1>1, <1>2, <1>7, <1>9
<1>12. x = AbsObject(heap, mem, o) /\ y = AbsObject(heap, mem, p)
  BY <1>1, <1>6, <1>7, <1>9
<1>13. /\ x.fields = AbsSeq(heap, mem, o.fields) /\ y.fields = AbsSeq(heap, mem, p.fields)
       /\ x = [kind |-> o.kind, len |-> o.len, fields |-> x.fields]
       /\ y = [kind |-> o.kind, len |-> o.len, fields |-> y.fields]
  BY <1>5, <1>12 DEF AbsObject
<1>14. /\ DOMAIN x.fields = DOMAIN o.fields /\ DOMAIN y.fields = DOMAIN o.fields
       /\ \A j \in DOMAIN o.fields : y.fields[j] = IF j = k THEN v ELSE x.fields[j]
  BY <1>1, <1>5, <1>13 DEF AbsSeq
<1>15. y.fields = [x.fields EXCEPT ![k] = v]
  <2>1. /\ x.fields = [j \in DOMAIN o.fields |-> AbsWord(heap, mem, o.fields[j])]
        /\ y.fields = [j \in DOMAIN o.fields |-> AbsWord(heap, mem, p.fields[j])]
    BY <1>5, <1>13 DEF AbsSeq
  <2> QED
    BY <1>14, <2>1
<1>16. y = Put(x, k, v)
  BY <1>13, <1>15 DEF Put
<1>17. id \in R
  BY <1>1, <1>7
<1>18. Named(y.fields) \subseteq R
  <2>1. Named(x.fields) \subseteq R
    BY <1>2, <1>7, <1>17 DEF Closed
  <2>2. v[1] = "obj" => v[2] \in R
    BY <1>1 DEF KnownWord
  <2> QED
    BY <1>14, <2>1, <2>2 DEF Named
<1>19. Closed(G, R)
  BY <1>2, <1>7, <1>11, <1>18 DEF Closed
<1>20. [store.graph EXCEPT ![id] = Put(@, k, v)] = [i \in R |-> G[i]]
  <2>1. store.graph[id] = x
    BY <1>3, <1>7, <1>17
  <2>2. [store.graph EXCEPT ![id] = y] = [i \in R |-> G[i]]
    BY <1>3, <1>7, <1>11, <1>17
  <2> QED
    BY <1>16, <2>1, <2>2
<1> QED
  BY <1>1, <1>2, <1>7, <1>8, <1>10, <1>19, <1>20 DEF Replaces

\* Bsta: the value is stored in the object and pushed.
LEMMA StAStep ==
  ASSUME Inv, Kept, Observe, NEW k \in 1..MaxLen, StA(k)
  PROVE  Store!Next
<1>1. pc = "run" /\ Depth > 2 /\ Boxed(stack[Depth-2]) /\ Unboxed(stack[Depth-1])
  BY DEF StA
<1>2. /\ Depth \in Nat /\ Len(store.stack) = Depth /\ stack \in Seq(Nat) /\ Sound(heap, mem)
      /\ heap \in Chunk
  BY <1>1, StackedIs, StoreIs DEF Wording
<1>3. PICK b, c : b = Depth - 1 /\ c = Depth - 2
  OBVIOUS
<1>4. /\ b \in 1..Depth /\ c \in 1..Depth /\ Depth \in 1..Depth /\ 3 <= Depth
      /\ c \in DOMAIN stack /\ Depth \in DOMAIN stack
  BY <1>1, <1>2, <1>3 DEF Depth
<1>5. PICK off, o, a : off = HeaderOf(heap, stack[c]) /\ o = mem[off]
                       /\ a = AbsObject(heap, mem, o)
  OBVIOUS
<1>6. /\ IsObj(heap, stack[c]) /\ off \in DOMAIN mem
      /\ store.stack[c] = Obj(o.id)
      /\ o.id \in DOMAIN store.graph
      /\ store.graph[o.id] = a
  BY <1>1, <1>3, <1>4, <1>5, StackedIs, StackWord
<1>7. a.kind = o.kind /\ a.len = o.len
  BY <1>5 DEF AbsObject
<1>8. PICK w \in Nat : w = Top /\ KnownWord(w) /\ Word(heap, mem, w)
  <2>1. stack[Depth] \in Nat /\ KnownWord(stack[Depth]) /\ Word(heap, mem, stack[Depth])
    BY <1>1, <1>4, WordsKnown, StackWord
  <2> QED
    BY <2>1 DEF Top
<1>9. PICK v : v = AbsWord(heap, mem, w) /\ v = Store!Top
  <2>1. store.stack[Depth] = AbsWord(heap, mem, stack[Depth])
    BY <1>1, <1>4, StackedIs
  <2>2. Store!Top = AbsWord(heap, mem, w)
    BY <1>2, <1>8, <2>1 DEF Store!Top, Store!Depth, Top
  <2> QED
    BY <2>2
<1>10. /\ InBounds(o, k)
       /\ mem' = IF o.kind = "STRING" THEN mem ELSE [mem EXCEPT ![off].fields[k] = w]
       /\ stack' = Append(Lower(3), w)
       /\ UNCHANGED <<heap, xroots, nextid, pc, req, gc>>
  <2>1. IsObj(heap, stack[Depth-2])
    BY <1>3, <1>6
  <2>2. LET x == HeaderOf(heap, stack[Depth-2]) IN
        /\ InBounds(mem[x], k)
        /\ mem' = IF mem[x].kind = "STRING" THEN mem ELSE [mem EXCEPT ![x].fields[k] = Top]
        /\ stack' = Append(Lower(3), Top)
        /\ UNCHANGED <<heap, xroots, nextid, pc, req, gc>>
    BY <2>1 DEF StA
  <2> QED
    BY <1>3, <1>5, <1>8, <2>2
<1>11. PICK n, st : n = mem' /\ st = Append(Store!Lower(3), v)
  OBVIOUS
<1>12. PICK low \in Seq(Nat) :
         /\ low = Lower(3) /\ Len(low) = Depth - 3
         /\ \A j \in 1..Depth - 3 : j \in 1..Depth /\ low[j] = stack[j]
         /\ AbsSeq(heap, mem, low) = Store!Lower(3)
  BY <1>1, <1>4, LowerIs
<1>13. stack' \in Seq(Nat) /\ AbsSeq(heap, mem, stack') = st
  <2>1. stack' = Append(low, w) /\ st = Append(AbsSeq(heap, mem, low), AbsWord(heap, mem, w))
    BY <1>9, <1>10, <1>11, <1>12
  <2> QED
    BY <2>1, AbsAppend, Appended
<1>14. Named(st) \subseteq DOMAIN store.graph
  <2>1. /\ Len(stack') = Len(low) + 1 /\ stack'[Len(low) + 1] = w
        /\ \A j \in 1..Len(low) : stack'[j] = low[j]
    BY <1>8, <1>10, <1>12, Appended
  <2>2. \A j \in 1..Len(stack') : KnownWord(stack'[j])
    <3> TAKE j \in 1..Len(stack')
    <3>1. j \in 1..Len(low) \/ j = Len(low) + 1
      BY <1>12, <2>1
    <3> QED
      BY <1>1, <1>8, <1>12, <2>1, <3>1, WordsKnown
  <2>3. /\ DOMAIN st = 1..Len(stack')
        /\ \A j \in 1..Len(stack') : st[j] = AbsWord(heap, mem, stack'[j])
    BY <1>13, AbsSeqType
  <2> QED
    BY <2>2, <2>3 DEF KnownWord, Named
<1>15. PICK R, f : /\ R = DOMAIN store.graph
                   /\ f = [store.graph EXCEPT ![o.id] = Store!Written(@, k, v)]
  OBVIOUS
<1>16. /\ R \in SUBSET DOMAIN AbsGraph(heap, n) /\ Closed(AbsGraph(heap, n), R)
       /\ f = [i \in R |-> AbsGraph(heap, n)[i]]
       /\ AbsSeq(heap, n, stack') = st
  <2>1. CASE o.kind = "STRING"
    <3>1. n = mem
      BY <1>10, <1>11, <2>1
    <3>2. store.graph = [i \in R |-> AbsGraph(heap, mem)[i]]
      BY <1>1, <1>15, StoreIs
    <3>3. Store!Written(a, k, v) = a
      BY <1>7, <2>1 DEF Store!Written
    <3>4. f = store.graph
      BY <1>6, <1>15, <3>2, <3>3
    <3> QED
      BY <1>1, <1>13, <1>15, <3>1, <3>2, <3>4, StoreIs
  <2>2. CASE o.kind # "STRING"
    <3>1. k \in DOMAIN o.fields
      BY <1>2, <1>5, <1>6, <1>10, <2>2, FieldWord
    <3>2. n = [mem EXCEPT ![off].fields[k] = w]
      BY <1>10, <1>11, <2>2
    <3>3. Sound(heap, n)
      <4>1. Inv' /\ pc' = "run" /\ heap' = heap
        BY <1>1, <1>10, StAInv
      <4> QED
        BY <1>11, <4>1 DEF Inv, Quiet
    <3>4. ObjectOK(o)
      BY <1>2, <1>5, <1>6 DEF Sound
    <3>5. n[off] = Put(o, k, w)
      BY <1>5, <1>6, <3>2 DEF Put
    <3>6. n[off].id = o.id
      BY <1>8, <3>1, <3>4, <3>5, FieldStored DEF Put
    <3>7. Changed(mem, n, off)
      BY <1>5, <1>6, <3>2, <3>6 DEF Changed
    <3>8. /\ R \in SUBSET DOMAIN AbsGraph(heap, n) /\ Closed(AbsGraph(heap, n), R)
          /\ [store.graph EXCEPT ![o.id] = Put(@, k, v)] = [i \in R |-> AbsGraph(heap, n)[i]]
          /\ \A ws : AbsSeq(heap, n, ws) = AbsSeq(heap, mem, ws)
      <4>1. Writes(n, off, k, w)
        BY <1>5, <1>6, <1>8, <3>1, <3>3, <3>5, <3>7 DEF Writes
      <4>2. Replaces(n, off, k, w)
        BY <1>1, <4>1, FieldWritten
      <4> QED
        BY <1>5, <1>9, <1>15, <4>2 DEF Replaces
    <3>9. Store!Written(a, k, v) = Put(a, k, v)
      BY <1>7, <2>2 DEF Store!Written, Put
    <3>10. f = [store.graph EXCEPT ![o.id] = Put(@, k, v)]
      BY <1>6, <1>15, <3>9
    <3> QED
      BY <1>13, <3>8, <3>10
  <2> QED
    BY <2>1, <2>2
<1>17. Prune(f, st) = Prune(AbsGraph(heap, n), st)
  <2>1. PICK G : G = AbsGraph(heap, n)
    OBVIOUS
  <2>2. R \in SUBSET DOMAIN G /\ Closed(G, R)
    BY <1>16, <2>1
  <2>3. f = [i \in R |-> G[i]]
    BY <1>16, <2>1
  <2>4. Named(st) \subseteq R
    BY <1>14, <1>15
  <2>5. Prune(f, st) = Prune(G, st)
    BY <2>2, <2>3, <2>4, PruneRestricted
  <2> QED
    BY <2>1, <2>5
<1>18. store' = AbsStore(heap, n, stack')
  BY <1>1, <1>10, <1>11 DEF Observe
<1>19. store.stack' = st /\ store.graph' = Prune(AbsGraph(heap, n), st)
  BY <1>16, <1>18 DEF AbsStore
<1>20. Store!Becomes(st, f) /\ UNCHANGED nextid
  BY <1>10, <1>17, <1>19, SamePrune DEF Store!Becomes
<1>21. Store!InBounds(a, k)
  BY <1>7, <1>10 DEF InBounds, Store!InBounds
<1>22. store.stack[b] = Store!Val
  BY <1>1, <1>3, <1>4, StackedIs DEF Val, Store!Val
<1>23. Store!Depth = Depth /\ Obj(o.id)[1] = "obj" /\ Obj(o.id)[2] = o.id
  BY <1>2 DEF Store!Depth, Obj
<1>24. Store!StA(k)
  BY <1>1, <1>3, <1>6, <1>9, <1>11, <1>15, <1>20, <1>21, <1>22, <1>23 DEF Store!StA
<1>25. k \in 1..Store!MaxLen
  BY DEF MaxLen, Store!MaxLen
<1> QED
  BY <1>24, <1>25 DEF Store!Next

\* Every one of them.
LEMMA RunStep ==
  ASSUME Inv, Kept, Observe, Mutator, pc' = "run"
  PROVE  Store!Next
<1>1. CASE Const \/ Dup
  BY <1>1, PushesStep
<1>2. CASE Drop
  BY <1>2, DropStep
<1>3. CASE Swap
  BY <1>3, SwapStep
<1>4. CASE (\E n \in 1..2 : Compute(n)) \/ Inspect \/ StringPatt
  BY <1>4, ComputesStep
<1>5. CASE \E k \in 1..MaxLen : Elem(k) \/ StA(k)
  BY <1>5, ElemStep, StAStep
<1>6. ~\E r, st, roots : Request(r, st, roots)
  BY DEF Request
<1>7. pc' # "crashed"
  OBVIOUS
<1>8. CASE \E s \in Shapes : Make(s[1], s[2])
  BY <1>6, <1>8 DEF Make
<1>9. CASE \E s \in Shapes :
             s[1] = "STRING" /\ (Bstring(s[2]) \/ Lstring(s[2]) \/ Lsubstring(s[2]))
  BY <1>6, <1>7, <1>9 DEF Bstring, Lstring, Lsubstring, Crash
<1>10. CASE Lclone \/ Lstrcat
  BY <1>6, <1>7, <1>10 DEF Lclone, Lstrcat, Crash
<1> QED
  BY <1>1, <1>2, <1>3, <1>4, <1>5, <1>8, <1>9, <1>10 DEF Mutator

\* A program that runs again has its store before it.
LEMMA SeenAgain ==
  ASSUME Observe, pc' = "run", xroots' = <<>>, req' = Idle, stack' \in Seq(Nat)
  PROVE  Kept' /\ Asked'
<1>1. Popped' = 0
  BY DEF Popped, Idle
<1>2. PICK x \in Seq(Nat), st \in Seq(Nat) : x = xroots' /\ st = stack' /\ Len(x) = 0
  <2>1. <<>> \in Seq(Nat) /\ Len(<<>>) = 0
    OBVIOUS
  <2> QED
    BY <2>1
<1>3. PICK e : e \in Seq(Nat) /\ e = SubSeq(x, 1, 0) /\ Len(e) = 0
  <2>1. SubSeq(x, 1, 0) \in Seq(Nat) /\ Len(SubSeq(x, 1, 0)) = 0
    BY <1>2
  <2> QED
    BY <2>1
<1>4. st \o e = st
  BY <1>3
<1>5. Waiting(stack, xroots)' = stack'
  BY <1>1, <1>2, <1>3, <1>4 DEF Waiting
<1>6. store' = AbsStore(heap', mem', stack')
  BY DEF Observe
<1>7. View' = AbsStore(heap', mem', stack')
  BY <1>5 DEF View
<1> QED
  BY <1>6, <1>7 DEF Kept, Asked

\* An operation that does not allocate leaves the program its view, which is
\* then the store.
LEMMA RunKept ==
  ASSUME Inv, Kept, Observe, Mutator, pc' = "run"
  PROVE  Kept' /\ Asked'
<1>1. pc = "run" /\ xroots' = xroots /\ req' = req
  <2>1. ~\E r, st, roots : Request(r, st, roots)
    BY DEF Request
  <2>2. CASE \E s \in Shapes : Make(s[1], s[2])
    BY <2>1, <2>2 DEF Make
  <2>3. CASE \E s \in Shapes :
               s[1] = "STRING" /\ (Bstring(s[2]) \/ Lstring(s[2]) \/ Lsubstring(s[2]))
    BY <2>1, <2>3 DEF Bstring, Lstring, Lsubstring, Crash
  <2>4. CASE Lclone \/ Lstrcat
    BY <2>1, <2>4 DEF Lclone, Lstrcat, Crash
  <2>5. CASE Const \/ Dup \/ Drop \/ Swap
    BY <2>5 DEF Const, Dup, Push, Drop, Swap, StackOp
  <2>6. CASE (\E n \in 1..2 : Compute(n)) \/ Inspect \/ StringPatt
    BY <2>6 DEF Compute, Inspect, StringPatt, StackOp, Crash
  <2>7. CASE \E k \in 1..MaxLen : Elem(k) \/ StA(k)
    BY <2>7 DEF Elem, StA, StackOp, Crash
  <2> QED
    BY <2>2, <2>3, <2>4, <2>5, <2>6, <2>7 DEF Mutator
<1>2. xroots' = <<>> /\ req' = Idle
  BY <1>1, Running DEF Kept
<1>3. stack' \in Seq(Nat)
  <2>1. Inv'
    BY NextInv DEF Next
  <2> QED
    BY <2>1 DEF Inv, Types
<1> QED
  BY <1>2, <1>3, SeenAgain

-----------------------------------------------------------------------------
(***************************************************************************)
(* A request does not change the store.                                    *)
(***************************************************************************)
\* The operands that a request has popped are on the stack that it waits with.
LEMMA OperandsBack ==
  ASSUME stack \in Seq(Nat), NEW n \in Nat, n <= Depth,
         NEW roots \in Seq(Nat), n <= Len(roots),
         \A k \in 1..n : roots[k] = stack[Depth - n + k]
  PROVE  Lower(n) \o SubSeq(roots, 1, n) = stack
<1>0. PICK ws : ws = Lower(n) \o SubSeq(roots, 1, n)
  OBVIOUS
<1>1. PICK d \in Nat, b \in Nat : d = Depth /\ d = b + n
  <2>1. Depth \in Nat /\ Depth - n \in Nat /\ Depth = (Depth - n) + n
    BY DEF Depth
  <2> QED
    BY <2>1
<1>2. PICK low \in Seq(Nat) : low = Lower(n) /\ Len(low) = b /\ \A k \in 1..b : low[k] = stack[k]
  <2>1. b = Depth - n
    BY <1>1
  <2> QED
    BY <2>1, LowerType
<1>3. /\ ws \in Seq(Nat) /\ Len(ws) = b + n
      /\ \A k \in 1..b : ws[k] = low[k]
      /\ \A k \in 1..n : ws[b + k] = roots[k]
  <2>1. ws = low \o SubSeq(roots, 1, n)
    BY <1>0, <1>2
  <2>2. /\ ws \in Seq(Nat) /\ Len(ws) = Len(low) + n
        /\ \A k \in 1..Len(low) : ws[k] = low[k]
        /\ \A k \in 1..n : ws[Len(low) + k] = roots[k]
    BY <2>1, WaitingWords
  <2> QED
    BY <1>2, <2>2
<1>4. \A k \in 1..d : ws[k] = stack[k]
  <2> TAKE k \in 1..d
  <2>1. CASE k \in 1..b
    BY <1>2, <1>3, <2>1
  <2>2. CASE k \notin 1..b
    <3>1. PICK j : j = k - b
      OBVIOUS
    <3>2. j \in 1..n /\ k = b + j /\ k = Depth - n + j
      BY <1>1, <2>2, <3>1
    <3>3. ws[b + j] = roots[j] /\ roots[j] = stack[Depth - n + j]
      BY <1>3, <3>2
    <3> QED
      BY <3>2, <3>3
  <2> QED
    BY <2>1, <2>2
<1>5. Len(stack) = d
  BY <1>1 DEF Depth
<1> QED
  BY <1>0, <1>1, <1>3, <1>4, <1>5, SeqEqual

\* A request pops the p operands that it registers first, and nothing else.
LEMMA RequestKept ==
  ASSUME Inv, Kept, Observe, NEW r, NEW st, NEW roots, Request(r, st, roots), NEW p,
         p = IF r.reads > 0 THEN r.reads ELSE IF Len(roots) = 2 THEN 1 ELSE 0,
         st \o SubSeq(roots, 1, p) = stack
  PROVE  Kept' /\ Popped' = p /\ UNCHANGED <<store, nextid>>
<1>1. /\ pc = "run" /\ pc' = "alloc" /\ req' = r /\ stack' = st /\ xroots' = roots
      /\ UNCHANGED <<heap, mem, nextid>>
  BY DEF Request
<1>2. Popped' = p
  BY <1>1 DEF Popped
<1>3. View' = AbsStore(heap, mem, stack)
  BY <1>1, <1>2 DEF View, Waiting
<1>4. store = AbsStore(heap, mem, stack)
  BY <1>1, NothingWaits DEF Kept, View
<1>5. store' = store
  BY <1>1 DEF Observe
<1> QED
  BY <1>1, <1>2, <1>3, <1>4, <1>5 DEF Kept

\* No operand is popped.
LEMMA NoneBack ==
  ASSUME stack \in Seq(Nat), NEW roots \in Seq(Nat)
  PROVE  stack \o SubSeq(roots, 1, 0) = stack
<1>1. Lower(0) = stack /\ 0 <= Depth /\ 0 <= Len(roots)
  BY NothingDropped DEF Depth
<1>2. Lower(0) \o SubSeq(roots, 1, 0) = stack
  BY <1>1, OperandsBack
<1> QED
  BY <1>1, <1>2

\* The top word is popped.
LEMMA OneBack ==
  ASSUME stack \in Seq(Nat), Depth > 0, NEW roots \in Seq(Nat), Len(roots) > 0, roots[1] = Top
  PROVE  Lower(1) \o SubSeq(roots, 1, 1) = stack
<1>1. Depth \in Nat /\ 1 <= Depth /\ 1 <= Len(roots) /\ Depth - 1 + 1 = Depth
  BY DEF Depth
<1>2. \A k \in 1..1 : roots[k] = stack[Depth - 1 + k]
  BY <1>1 DEF Top
<1> QED
  BY <1>1, <1>2, OperandsBack

\* Barray, BSexp, Bclosure and Bstring of a literal.
LEMMA NewAsks ==
  ASSUME Inv, Kept, Observe, NEW s \in Shapes,
         Make(s[1], s[2]) \/ (s[1] = "STRING" /\ Bstring(s[2]))
  PROVE  Kept' /\ Asked' /\ UNCHANGED <<store, nextid>>
<1>1. PICK r, roots :
        /\ Request(r, stack, roots) /\ roots \in Seq(Nat) /\ Len(roots) # 2
        /\ r.kind = s[1] /\ r.len = s[2] /\ r.reads = 0
  <2>1. <<>> \in Seq(Nat) /\ Len(<<>>) # 2
    OBVIOUS
  <2>2. <<EXTERNAL>> \in Seq(Nat) /\ Len(<<EXTERNAL>>) # 2
    BY DEF EXTERNAL
  <2>3. CASE Make(s[1], s[2])
    <3>1. PICK r : /\ r = [kind |-> s[1], len |-> s[2],
                           used |-> FieldCount(s[1], s[2]), reads |-> 0]
                   /\ Request(r, stack, <<>>)
      BY <2>3 DEF Make
    <3>2. r.kind = s[1] /\ r.len = s[2] /\ r.reads = 0
      BY <3>1
    <3>3. Request(r, stack, <<>>)
      BY <3>1
    <3> QED
      BY <2>1, <3>2, <3>3
  <2>4. CASE s[1] = "STRING" /\ Bstring(s[2])
    <3>1. PICK r : /\ r = [kind |-> "STRING", len |-> s[2], used |-> 0, reads |-> 0]
                   /\ Request(r, stack, <<EXTERNAL>>)
      BY <2>4 DEF Bstring
    <3>2. r.kind = s[1] /\ r.len = s[2] /\ r.reads = 0
      BY <2>4, <3>1
    <3>3. Request(r, stack, <<EXTERNAL>>)
      BY <3>1
    <3> QED
      BY <2>2, <3>2, <3>3
  <2> QED
    BY <2>3, <2>4
<1>2. stack \in Seq(Nat)
  BY <1>1, Running DEF Request
<1>3. stack \o SubSeq(roots, 1, 0) = stack
  BY <1>1, <1>2, NoneBack
<1>4. Kept' /\ Popped' = 0 /\ UNCHANGED <<store, nextid>>
  <2>1. r.reads = 0 /\ ~(Len(roots) = 2)
    BY <1>1
  <2>2. 0 = IF r.reads > 0 THEN r.reads ELSE IF Len(roots) = 2 THEN 1 ELSE 0
    BY <2>1
  <2> QED
    BY <1>1, <1>3, <2>2, RequestKept
<1>5. pc' = "alloc" /\ req' = r
  BY <1>1 DEF Request
<1>6. AsksNew'
  BY <1>1, <1>4, <1>5 DEF AsksNew, OfShape
<1>7. Asked'
  BY <1>1, <1>5, <1>6 DEF Asked
<1> QED
  BY <1>4, <1>7

\* Lstring.
LEMMA StringAsks ==
  ASSUME Inv, Kept, Observe, NEW s \in Shapes, s[1] = "STRING", Lstring(s[2])
  PROVE  Kept' /\ Asked' /\ UNCHANGED <<store, nextid>>
<1>1. PICK r, roots :
        /\ r = [kind |-> "STRING", len |-> s[2], used |-> 0, reads |-> 0]
        /\ roots = <<Top, EXTERNAL>> /\ Request(r, Lower(1), roots) /\ Depth > 0
  BY DEF Lstring
<1>2. stack \in Seq(Nat) /\ Top \in Nat
  BY <1>1, Running DEF Request, Top, Depth
<1>3. roots \in Seq(Nat) /\ Len(roots) = 2 /\ Len(roots) > 0 /\ roots[1] = Top
  BY <1>1, <1>2 DEF EXTERNAL
<1>4. Lower(1) \o SubSeq(roots, 1, 1) = stack
  <2>1. Depth > 0
    BY <1>1
  <2> QED
    BY <1>2, <1>3, <2>1, OneBack
<1>5. 1 = IF r.reads > 0 THEN r.reads ELSE IF Len(roots) = 2 THEN 1 ELSE 0
  BY <1>1, <1>3
<1>6. Kept' /\ Popped' = 1 /\ UNCHANGED <<store, nextid>>
  BY <1>1, <1>4, <1>5, RequestKept
<1>7. pc' = "alloc" /\ req' = r
  BY <1>1 DEF Request
<1>8. AsksString'
  BY <1>1, <1>6, <1>7 DEF AsksString, OfShape
<1>9. Asked'
  BY <1>1, <1>7, <1>8 DEF Asked
<1> QED
  BY <1>6, <1>9

\* A word that refers to an object: what the store has of it.
LEMMA OperandIs ==
  ASSUME Inv, Kept, pc = "run", NEW k \in 1..Depth, Boxed(stack[k])
  PROVE  /\ IsObj(heap, stack[k]) /\ IsRef(k)
         /\ Operand(k) = AbsObject(heap, mem, mem[HeaderOf(heap, stack[k])])
         /\ Operand(k).kind = mem[HeaderOf(heap, stack[k])].kind
         /\ Operand(k).len = mem[HeaderOf(heap, stack[k])].len
<1>1. PICK off : off = HeaderOf(heap, stack[k])
  OBVIOUS
<1>2. /\ store.stack[k] = Obj(mem[off].id)
      /\ store.graph[mem[off].id] = AbsObject(heap, mem, mem[off])
  BY <1>1, StackedIs
<1>3. Operand(k) = AbsObject(heap, mem, mem[off])
  BY <1>2 DEF Operand, Obj
<1>4. IsRef(k)
  BY <1>2 DEF IsRef, Obj
<1>5. k \in DOMAIN stack
  BY StackedIs, Running DEF Depth
<1>6. IsObj(heap, stack[k])
  BY <1>5, StackWord
<1> QED
  BY <1>1, <1>3, <1>4, <1>6 DEF AbsObject

\* Lclone and Lsubstring: what they register is the operand and an object.
LEMMA CopyAsks ==
  ASSUME Inv, Kept, Observe,
         Lclone \/ \E s \in Shapes : s[1] = "STRING" /\ Lsubstring(s[2])
  PROVE  Kept' /\ Asked' /\ UNCHANGED <<store, nextid>>
<1>1. pc = "run" /\ Depth > 0
  BY DEF Lclone, Lsubstring
<1>2. /\ stack \in Seq(Nat) /\ Depth \in Nat /\ Depth \in 1..Depth /\ Depth \in DOMAIN stack
      /\ Top \in Nat /\ Top = stack[Depth] /\ Len(store.stack) = Depth
  BY <1>1, Running, StackedIs DEF Top, Depth
<1>3. ~Dangling(Top)
  BY <1>1, <1>2, StackWord
<1>4. Boxed(Top) /\ IsObj(heap, Top)
  <2>1. CASE Lclone
    BY <1>3, <2>1 DEF Lclone, Dangling
  <2>2. CASE \E s \in Shapes : s[1] = "STRING" /\ Lsubstring(s[2])
    <3>1. IsString(Top)
      BY <1>3, <2>2 DEF Lsubstring
    <3>2. Word(heap, mem, Top) /\ heap \in Chunk /\ Sound(heap, mem)
      BY <1>1, <1>2, StackWord, Running
    <3>3. \E off \in DOMAIN mem : Top = Content(heap, off)
      BY <1>2, <3>1, <3>2, WordIs DEF IsString, IsObj
    <3>4. Top # 0
      BY <3>2, <3>3, Address DEF Sound
    <3> QED
      BY <3>1, <3>4 DEF IsString, IsObj, Names, Boxed
  <2> QED
    BY <2>1, <2>2
<1>5. PICK o : o = mem[HeaderOf(heap, Top)]
  OBVIOUS
<1>6. IsRef(Depth) /\ Operand(Depth).kind = o.kind /\ Operand(Depth).len = o.len
  BY <1>1, <1>2, <1>4, <1>5, OperandIs
<1>7. PICK r, roots :
        /\ Request(r, Lower(1), roots)
        /\ roots \in Seq(Nat) /\ Len(roots) > 0 /\ roots[1] = Top
        /\ r.reads = 1 /\ r.used = 0 /\ r.kind = o.kind
        /\ \/ r.len = o.len
           \/ r.kind = "STRING" /\ r.len <= o.len /\ OfShape("STRING", r.len)
  <2>1. <<Top>> \in Seq(Nat) /\ Len(<<Top>>) > 0 /\ <<Top>>[1] = Top
    BY <1>2
  <2>2. <<Top, Top>> \in Seq(Nat) /\ Len(<<Top, Top>>) > 0 /\ <<Top, Top>>[1] = Top
    BY <1>2
  <2>3. CASE Lclone
    <3>1. PICK r : r = [kind |-> o.kind, len |-> o.len, used |-> 0, reads |-> 1]
      OBVIOUS
    <3>2. r.reads = 1 /\ r.used = 0 /\ r.kind = o.kind /\ r.len = o.len
      BY <3>1
    <3>3. Request(r, Lower(1), <<Top, Top>>) \/ Request(r, Lower(1), <<Top>>)
      BY <1>4, <1>5, <2>3, <3>1 DEF Lclone
    <3> QED
      BY <2>1, <2>2, <3>2, <3>3
  <2>4. CASE \E s \in Shapes : s[1] = "STRING" /\ Lsubstring(s[2])
    <3>1. PICK s \in Shapes : s[1] = "STRING" /\ Lsubstring(s[2])
      BY <2>4
    <3>2. PICK r : r = [kind |-> "STRING", len |-> s[2], used |-> 0, reads |-> 1]
      OBVIOUS
    <3>3. r.reads = 1 /\ r.used = 0 /\ r.kind = "STRING" /\ r.len = s[2]
      BY <3>2
    <3>4. o.kind = "STRING" /\ r.len <= o.len /\ Request(r, Lower(1), <<Top>>)
      BY <1>3, <1>5, <3>1, <3>2, <3>3 DEF Lsubstring, IsString, LenOf
    <3>5. OfShape("STRING", r.len)
      BY <3>1, <3>3 DEF OfShape
    <3> QED
      BY <2>1, <3>3, <3>4, <3>5
  <2> QED
    BY <2>3, <2>4
<1>8. Lower(1) \o SubSeq(roots, 1, 1) = stack
  BY <1>1, <1>2, <1>7, OneBack
<1>9. 1 = IF r.reads > 0 THEN r.reads ELSE IF Len(roots) = 2 THEN 1 ELSE 0
  BY <1>7
<1>10. Kept' /\ UNCHANGED <<store, nextid>>
  BY <1>7, <1>8, <1>9, RequestKept
<1>11. pc' = "alloc" /\ req' = r
  BY <1>7 DEF Request
<1>12. AsksCopy(Len(store.stack))'
  BY <1>2, <1>6, <1>7, <1>10, <1>11 DEF AsksCopy, IsRef, Operand
<1>13. Asked'
  BY <1>7, <1>11, <1>12 DEF Asked
<1> QED
  BY <1>10, <1>13

\* ++.
LEMMA BothAsks ==
  ASSUME Inv, Kept, Observe, Lstrcat
  PROVE  Kept' /\ Asked' /\ UNCHANGED <<store, nextid>>
<1>1. pc = "run" /\ Depth > 1
  BY DEF Lstrcat
<1>2. PICK b \in Nat, d \in Nat : d = Depth /\ b = Depth - 1 /\ d = b + 1
  BY <1>1, Running
<1>3. /\ stack \in Seq(Nat) /\ b \in 1..Depth /\ d \in 1..Depth
      /\ b \in DOMAIN stack /\ d \in DOMAIN stack /\ Len(store.stack) = d
  BY <1>1, <1>2, Running, StackedIs DEF Depth
<1>4. PICK x \in Nat, y \in Nat : x = stack[b] /\ y = stack[d] /\ y = Top
  <2>1. stack[b] \in Nat /\ stack[d] \in Nat
    BY <1>3
  <2> QED
    BY <1>2, <2>1 DEF Top
<1>5. ~Dangling(x) /\ ~Dangling(y)
  BY <1>1, <1>3, <1>4, StackWord
<1>6. PICK r :
        /\ r = [kind |-> "STRING", len |-> LenOf(x) + LenOf(y), used |-> 0, reads |-> 2]
        /\ IsString(x) /\ IsString(y) /\ Request(r, Lower(2), <<x, y>>)
  BY <1>2, <1>4, <1>5 DEF Lstrcat
<1>7. /\ r.reads = 2 /\ r.used = 0 /\ r.kind = "STRING" /\ r.len = LenOf(x) + LenOf(y)
      /\ Request(r, Lower(2), <<x, y>>)
  BY <1>6
<1>8. ASSUME NEW w \in Nat, NEW k \in 1..Depth, w = stack[k], k \in DOMAIN stack, IsString(w)
      PROVE  IsRef(k) /\ Operand(k).kind = "STRING" /\ Operand(k).len = LenOf(w)
  <2>1. Word(heap, mem, w) /\ heap \in Chunk /\ Sound(heap, mem)
    BY <1>1, <1>8, StackWord, Running
  <2>2. \E off \in DOMAIN mem : w = Content(heap, off)
    BY <1>8, <2>1, WordIs DEF IsString, IsObj
  <2>3. w # 0
    BY <2>1, <2>2, Address DEF Sound
  <2>4. Boxed(w) /\ mem[HeaderOf(heap, w)].kind = "STRING"
    BY <1>8, <2>3 DEF IsString, IsObj, Names, Boxed
  <2>5. /\ IsRef(k) /\ Operand(k).kind = mem[HeaderOf(heap, w)].kind
        /\ Operand(k).len = mem[HeaderOf(heap, w)].len
    BY <1>1, <1>8, <2>4, OperandIs
  <2> QED
    BY <2>4, <2>5 DEF LenOf
<1>9. /\ IsRef(b) /\ Operand(b).kind = "STRING" /\ Operand(b).len = LenOf(x)
      /\ IsRef(d) /\ Operand(d).kind = "STRING" /\ Operand(d).len = LenOf(y)
  BY <1>3, <1>4, <1>6, <1>8
<1>10. PICK roots \in Seq(Nat) :
         roots = <<x, y>> /\ Len(roots) = 2 /\ roots[1] = x /\ roots[2] = y
  <2>1. <<x, y>> \in Seq(Nat) /\ Len(<<x, y>>) = 2 /\ <<x, y>>[1] = x /\ <<x, y>>[2] = y
    OBVIOUS
  <2> QED
    BY <2>1
<1>11. PICK n \in Nat :
         /\ n = 2 /\ n <= Depth /\ n <= Len(roots)
         /\ \A k \in 1..n : roots[k] = stack[Depth - n + k]
  <2>1. Depth - 2 + 1 = b /\ Depth - 2 + 2 = d
    BY <1>2
  <2>2. ASSUME NEW k \in 1..2
        PROVE  roots[k] = stack[Depth - 2 + k]
    <3>1. k = 1 \/ k = 2
      OBVIOUS
    <3> QED
      BY <1>4, <1>10, <2>1, <3>1
  <2>3. 2 <= Depth /\ 2 <= Len(roots)
    <3>1. 2 <= Depth
      BY <1>1, <1>2
    <3>2. 2 <= Len(roots)
      BY <1>10
    <3> QED
      BY <3>1, <3>2
  <2> QED
    BY <2>2, <2>3
<1>12. Lower(2) \o SubSeq(roots, 1, 2) = stack
  <2>1. stack \in Seq(Nat)
    BY <1>3
  <2>2. Lower(n) \o SubSeq(roots, 1, n) = stack
    BY <1>11, <2>1, OperandsBack
  <2> QED
    BY <1>11, <2>2
<1>13. 2 = IF r.reads > 0 THEN r.reads ELSE IF Len(roots) = 2 THEN 1 ELSE 0
  BY <1>7
<1>14. Kept' /\ UNCHANGED <<store, nextid>>
  BY <1>7, <1>10, <1>12, <1>13, RequestKept
<1>15. pc' = "alloc" /\ req' = r
  BY <1>6 DEF Request
<1>16. AsksBoth(Len(store.stack))'
  <2>1. d - 1 = b
    BY <1>2
  <2>2. AsksBoth(d)'
    BY <1>7, <1>9, <1>14, <1>15, <2>1 DEF AsksBoth, IsRef, Operand
  <2> QED
    BY <1>3, <1>14, <2>2
<1>17. Asked'
  BY <1>7, <1>15, <1>16 DEF Asked
<1> QED
  BY <1>14, <1>17

-----------------------------------------------------------------------------
(***************************************************************************)
(* The object that alloc places is one more object of the store.           *)
(***************************************************************************)
\* chunk g with the objects n is chunk h with m and object o behind the others
Grown(h, m, g, n, at, o) ==
  /\ g.begin = h.begin /\ Sound(h, m) /\ Sound(g, n)
  /\ at \notin DOMAIN m /\ DOMAIN n = DOMAIN m \cup {at} /\ n[at] = o
  /\ \A a \in DOMAIN m : n[a] = m[a]

\* The words of the heap stand for what they stood for.
LEMMA AbsGrown ==
  ASSUME NEW h \in Chunk, NEW g \in Chunk, NEW m, NEW n, NEW at, NEW o, Grown(h, m, g, n, at, o)
  PROVE  /\ \A ws : Wording(h, m, ws) => AbsSeq(g, n, ws) = AbsSeq(h, m, ws)
         /\ AbsWord(g, n, Content(h, at)) = Obj(o.id)
<1>1. /\ Sound(h, m) /\ Sound(g, n) /\ DOMAIN n = DOMAIN m \cup {at} /\ n[at] = o
      /\ \A a \in DOMAIN m : n[a] = m[a]
  BY DEF Grown
<1>2. \A a : Content(g, a) = Content(h, a)
  BY DEF Content, Grown
<1>3. ASSUME NEW w \in Nat, w = EXTERNAL \/ Word(h, m, w)
      PROVE  AbsWord(g, n, w) = AbsWord(h, m, w)
  <2>1. w = EXTERNAL \/ Word(g, n, w)
    BY <1>1, <1>2, <1>3 DEF Word
  <2>2. CASE \E a \in DOMAIN m : w = Content(h, a)
    <3>1. PICK a \in DOMAIN m : w = Content(h, a)
      BY <2>2
    <3>2. a \in DOMAIN n /\ w = Content(g, a) /\ n[a] = m[a]
      BY <1>1, <1>2, <3>1
    <3>3. AbsWord(h, m, w) = Obj(m[a].id)
      BY <1>1, <1>3, <3>1, AbsWordIs
    <3>4. AbsWord(g, n, w) = Obj(n[a].id)
      BY <1>1, <2>1, <3>2, AbsWordIs
    <3> QED
      BY <3>2, <3>3, <3>4
  <2>3. CASE ~\E a \in DOMAIN m : w = Content(h, a)
    <3>1. Unboxed(w) \/ w = 0 \/ w = EXTERNAL
      BY <1>3, <2>3 DEF Word
    <3>2. ~\E a \in DOMAIN n : w = Content(g, a)
      BY <1>1, <3>1, Address DEF Sound
    <3>3. AbsWord(h, m, w) = Val
      BY <1>1, <1>3, <2>3, AbsWordIs
    <3>4. AbsWord(g, n, w) = Val
      BY <1>1, <2>1, <3>2, AbsWordIs
    <3> QED
      BY <3>3, <3>4
  <2> QED
    BY <2>2, <2>3
<1>4. ASSUME NEW ws, Wording(h, m, ws)
      PROVE  AbsSeq(g, n, ws) = AbsSeq(h, m, ws)
  <2>1. \A k \in DOMAIN ws : AbsWord(g, n, ws[k]) = AbsWord(h, m, ws[k])
    BY <1>3, <1>4 DEF Wording
  <2> QED
    BY <2>1 DEF AbsSeq
<1>5. AbsWord(g, n, Content(h, at)) = Obj(o.id)
  <2>1. at \in DOMAIN n /\ at \in Nat
    BY <1>1 DEF Sound
  <2>2. PICK w \in Nat : w = Content(g, at) /\ Word(g, n, w)
    <3>1. Content(g, at) \in Nat
      BY <2>1, Address
    <3> QED
      BY <2>1, <3>1 DEF Word
  <2>3. AbsWord(g, n, w) = Obj(n[at].id)
    BY <1>1, <2>1, <2>2, AbsWordIs
  <2> QED
    BY <1>1, <1>2, <2>2, <2>3
<1> QED
  BY <1>4, <1>5

\* G is graph F and object a, whose number is i
OneMore(F, G, i, a) ==
  /\ DOMAIN G = DOMAIN F \cup {i} /\ i \notin DOMAIN F
  /\ G[i] = a /\ \A j \in DOMAIN F : G[j] = F[j]

\* The graph has one more object.
LEMMA GraphGrown ==
  ASSUME NEW h \in Chunk, NEW g \in Chunk, NEW m, NEW n, NEW at, NEW o, Grown(h, m, g, n, at, o)
  PROVE  OneMore(AbsGraph(h, m), AbsGraph(g, n), o.id, AbsObject(g, n, o))
<1>1. /\ Sound(h, m) /\ Sound(g, n) /\ at \notin DOMAIN m
      /\ DOMAIN n = DOMAIN m \cup {at} /\ n[at] = o
      /\ \A a \in DOMAIN m : n[a] = m[a]
  BY DEF Grown
<1>2. PICK F, G : F = AbsGraph(h, m) /\ G = AbsGraph(g, n)
  OBVIOUS
<1>3. /\ DOMAIN F = IdsOf(m, DOMAIN m)
      /\ \A a \in DOMAIN m : F[m[a].id] = AbsObject(h, m, m[a])
  BY <1>1, <1>2, GraphIs
<1>4. /\ DOMAIN G = IdsOf(n, DOMAIN n)
      /\ \A a \in DOMAIN n : G[n[a].id] = AbsObject(g, n, n[a])
  BY <1>1, <1>2, GraphIs
<1>5. DOMAIN G = DOMAIN F \cup {o.id}
  BY <1>1, <1>3, <1>4 DEF IdsOf
<1>6. o.id \notin DOMAIN F
  <2>1. ASSUME NEW a \in DOMAIN m, m[a].id = o.id
        PROVE  FALSE
    <3>1. a \in DOMAIN n /\ at \in DOMAIN n /\ n[a].id = n[at].id
      BY <1>1, <2>1
    <3>2. a = at
      BY <1>1, <3>1, IdsApart
    <3> QED
      BY <1>1, <3>2
  <2> QED
    BY <1>3, <2>1 DEF IdsOf
<1>7. ASSUME NEW a \in DOMAIN m
      PROVE  AbsObject(g, n, m[a]) = AbsObject(h, m, m[a])
  <2>1. Wording(h, m, m[a].fields)
    BY <1>1, FieldsWording
  <2>2. AbsSeq(g, n, m[a].fields) = AbsSeq(h, m, m[a].fields)
    BY <2>1, AbsGrown
  <2> QED
    BY <2>2 DEF AbsObject
<1>8. \A i \in DOMAIN F : G[i] = F[i]
  <2> TAKE i \in DOMAIN F
  <2>1. PICK a \in DOMAIN m : i = m[a].id
    BY <1>3 DEF IdsOf
  <2>2. a \in DOMAIN n /\ n[a] = m[a]
    BY <1>1
  <2>3. G[n[a].id] = AbsObject(g, n, n[a])
    BY <1>4, <2>2
  <2> QED
    BY <1>3, <1>7, <2>1, <2>2, <2>3
<1>9. G[o.id] = AbsObject(g, n, o)
  BY <1>1, <1>4
<1> QED
  BY <1>2, <1>5, <1>6, <1>8, <1>9 DEF OneMore

\* A store that is closed stays so with an object whose fields it has.
LEMMA StoreGrown ==
  ASSUME NEW h \in Chunk, NEW g \in Chunk, NEW m, NEW n, NEW at, NEW o, Grown(h, m, g, n, at, o),
         NEW R \in SUBSET DOMAIN AbsGraph(h, m), Closed(AbsGraph(h, m), R),
         NEW f, f = [i \in R |-> AbsGraph(h, m)[i]],
         NEW a, a = AbsObject(g, n, o), Named(a.fields) \subseteq R,
         NEW st, Named(st) \subseteq R \cup {o.id}
  PROVE  Prune(AbsGraph(g, n), st) = Prune(Store!Extend(f, o.id, a), st)
<1>1. PICK F, G, e, S : /\ F = AbsGraph(h, m) /\ G = AbsGraph(g, n)
                        /\ e = Store!Extend(f, o.id, a) /\ S = R \cup {o.id}
  OBVIOUS
<1>2. /\ DOMAIN G = DOMAIN F \cup {o.id} /\ o.id \notin DOMAIN F
      /\ G[o.id] = a /\ \A i \in DOMAIN F : G[i] = F[i]
  <2>1. OneMore(AbsGraph(h, m), AbsGraph(g, n), o.id, AbsObject(g, n, o))
    BY GraphGrown
  <2> QED
    BY <1>1, <2>1 DEF OneMore
<1>3. R \in SUBSET DOMAIN F /\ Closed(F, R) /\ f = [i \in R |-> F[i]]
  BY <1>1
<1>4. S \in SUBSET DOMAIN G
  BY <1>1, <1>2, <1>3
<1>5. Closed(G, S)
  BY <1>1, <1>2, <1>3 DEF Closed
<1>6. e = [i \in S |-> G[i]]
  <2>1. e = [j \in R \cup {o.id} |-> IF j = o.id THEN a ELSE f[j]]
    BY <1>1, <1>3 DEF Store!Extend
  <2> QED
    BY <1>1, <1>2, <1>3, <2>1
<1>7. Prune(e, st) = Prune(G, st)
  BY <1>1, <1>4, <1>5, <1>6, PruneRestricted
<1> QED
  BY <1>1, <1>7

\* The object that Lclone, Lsubstring and ++ read again, the first of two, is
\* one that the store has.
LEMMA OperandWaits ==
  ASSUME Inv, Kept, pc \in {"alloc", "place"}, req.reads > 0,
         NEW n, n = Len(store.stack) - req.reads + 1
  PROVE  \E off \in DOMAIN mem :
           /\ Contents = mem[off].fields /\ mem[off].id \in DOMAIN store.graph
           /\ Operand(n) = AbsObject(heap, mem, mem[off])
<1>1. pc \in Whole
  BY DEF Whole
<1> DEFINE ws == Waiting(stack, xroots)
<1>2. PICK p \in Nat, d \in Nat :
        p = Popped /\ p = req.reads /\ p <= Len(xroots) /\ d = Depth
  <2>1. Popped \in Nat /\ Popped <= Len(xroots)
    BY <1>1, WaitingState DEF Whole
  <2>2. Popped = req.reads
    BY DEF Popped
  <2>3. Depth \in Nat
    BY DEF Inv, Types, Depth
  <2> QED
    BY <2>1, <2>2, <2>3
<1>3. /\ heap \in Chunk /\ Sound(heap, mem) /\ Wording(heap, mem, ws)
      /\ store.stack = AbsSeq(heap, mem, ws)
      /\ store.graph = [i \in DOMAIN store.graph |-> AbsGraph(heap, mem)[i]]
      /\ Named(store.stack) \subseteq DOMAIN store.graph
  BY <1>1, StoreWaits
<1>4. stack \in Seq(Nat) /\ xroots \in Seq(Nat) /\ Rooted(heap, mem, stack, xroots, req)
  BY DEF Inv, Types, Quiet
<1>5. /\ ws \in Seq(Nat) /\ Len(ws) = d + p
      /\ \A k \in 1..p : ws[d + k] = xroots[k]
  <2>1. ws = stack \o SubSeq(xroots, 1, p)
    BY <1>2 DEF Waiting
  <2>2. /\ ws \in Seq(Nat) /\ Len(ws) = Len(stack) + p
        /\ \A k \in 1..p : ws[Len(stack) + k] = xroots[k]
    BY <1>2, <1>4, <2>1, WaitingWords
  <2> QED
    BY <1>2, <2>2 DEF Depth
<1> HIDE DEF ws
<1>6. 1 \in 1..p /\ d + 1 \in 1..d + p /\ d + p - p + 1 = d + 1
  BY <1>2
<1>7. PICK off \in DOMAIN mem : xroots[1] = Content(heap, off)
  <2>1. 1 \in 1..req.reads
    BY <1>2, <1>6
  <2> QED
    BY <1>4, <2>1 DEF Rooted
<1>8. HeaderOf(heap, xroots[1]) = off /\ Contents = mem[off].fields
  BY <1>3, <1>7, NamesObject DEF Contents, Sound
<1>9. n = d + 1 /\ n \in DOMAIN store.stack /\ store.stack[n] = Obj(mem[off].id)
  <2>1. /\ DOMAIN store.stack = 1..Len(ws) /\ Len(store.stack) = Len(ws)
        /\ \A k \in 1..Len(ws) : store.stack[k] = AbsWord(heap, mem, ws[k])
    BY <1>3, <1>5, AbsSeqType
  <2>2. n = d + 1
    BY <1>2, <1>5, <1>6, <2>1
  <2>3. n \in 1..Len(ws)
    BY <1>5, <1>6, <2>2
  <2>4. ws[d + 1] = xroots[1]
    BY <1>5, <1>6
  <2>5. PICK w \in Nat : w = xroots[1]
    BY <1>3, <1>7, Address DEF Sound
  <2>6. Word(heap, mem, w)
    BY <1>7, <2>5 DEF Word
  <2>7. AbsWord(heap, mem, w) = Obj(mem[off].id)
    BY <1>3, <1>7, <2>5, <2>6, AbsWordIs
  <2> QED
    BY <2>1, <2>2, <2>3, <2>4, <2>5, <2>7
<1>10. mem[off].id \in DOMAIN store.graph
  BY <1>3, <1>9 DEF Named, Obj
<1>11. store.graph[mem[off].id] = AbsObject(heap, mem, mem[off])
  <2>1. AbsGraph(heap, mem)[mem[off].id] = AbsObject(heap, mem, mem[off])
    BY <1>3, GraphIs
  <2> QED
    BY <1>3, <1>10, <2>1
<1> QED
  BY <1>8, <1>9, <1>10, <1>11 DEF Operand, Obj

\* The words below the operands are on the stack, and in the store's.
LEMMA StackWaits ==
  ASSUME Inv, Kept, pc \in Whole
  PROVE  /\ Depth \in Nat /\ Popped \in Nat /\ Len(store.stack) = Depth + Popped
         /\ \A k \in 1..Depth : /\ k \in 1..Depth + Popped
                                /\ k \in DOMAIN store.stack
                                /\ store.stack[k] = AbsWord(heap, mem, stack[k])
<1> DEFINE ws == Waiting(stack, xroots)
<1>1. /\ Wording(heap, mem, ws) /\ store.stack = AbsSeq(heap, mem, ws)
  BY StoreWaits
<1>2. stack \in Seq(Nat) /\ xroots \in Seq(Nat) /\ Popped \in Nat /\ Popped <= Len(xroots)
  BY WaitingState DEF Whole, Wording
<1>3. PICK p \in Nat, d \in Nat : p = Popped /\ d = Depth /\ d = Len(stack)
  <2>1. Depth \in Nat /\ Depth = Len(stack)
    BY <1>2 DEF Depth
  <2> QED
    BY <1>2, <2>1
<1>4. /\ ws \in Seq(Nat) /\ Len(ws) = d + p
      /\ \A k \in 1..d : ws[k] = stack[k]
  <2>1. ws = stack \o SubSeq(xroots, 1, p)
    BY <1>3 DEF Waiting
  <2>2. /\ ws \in Seq(Nat) /\ Len(ws) = Len(stack) + p
        /\ \A k \in 1..Len(stack) : ws[k] = stack[k]
    BY <1>2, <1>3, <2>1, WaitingWords
  <2> QED
    BY <1>3, <2>2
<1> HIDE DEF ws
<1>5. /\ DOMAIN store.stack = 1..d + p /\ Len(store.stack) = d + p
      /\ \A k \in 1..d + p : store.stack[k] = AbsWord(heap, mem, ws[k])
  <2>1. /\ DOMAIN store.stack = 1..Len(ws) /\ Len(store.stack) = Len(ws)
        /\ \A k \in 1..Len(ws) : store.stack[k] = AbsWord(heap, mem, ws[k])
    BY <1>1, <1>4, AbsSeqType
  <2> QED
    BY <1>4, <2>1
<1>6. \A k \in 1..d : k \in 1..d + p
  OBVIOUS
<1> QED
  BY <1>3, <1>4, <1>5, <1>6

\* The fields of the new object are words of the store.
LEMMA ContentsKnown ==
  ASSUME Inv, Kept, pc \in {"alloc", "place"}
  PROVE  /\ Wording(heap, mem, Contents)
         /\ Named(AbsSeq(heap, mem, Contents)) \subseteq DOMAIN store.graph
<1>1. Contents \in Seq(Nat) /\ \A k \in DOMAIN Contents : Word(heap, mem, Contents[k])
  BY ContentsType
<1>2. Wording(heap, mem, Contents)
  BY <1>1 DEF Wording
<1>3. PICK g, R : g = AbsGraph(heap, mem) /\ R = DOMAIN store.graph
  OBVIOUS
<1>4. pc \in Whole
  BY DEF Whole
<1>5. heap \in Chunk /\ Sound(heap, mem) /\ Closed(g, R) /\ Named(store.stack) \subseteq R
  BY <1>3, <1>4, StoreWaits
<1>6. CASE req.reads > 0
  <2>1. PICK off \in DOMAIN mem : Contents = mem[off].fields /\ mem[off].id \in R
    BY <1>3, <1>6, OperandWaits
  <2>2. g[mem[off].id].fields = AbsSeq(heap, mem, Contents)
    BY <1>3, <1>5, <2>1, GraphIs
  <2> QED
    BY <1>2, <1>3, <1>5, <2>1, <2>2 DEF Closed
<1>7. CASE ~(req.reads > 0)
  <2>1. stack \in Seq(Nat) /\ req.used \in Nat /\ req.used <= Len(stack)
    BY DEF Inv, Types, Requested, Depth
  <2>2. Contents = SubSeq(stack, Len(stack) - req.used + 1, Len(stack))
    BY <1>7 DEF Contents, Depth
  <2>3. \A k \in DOMAIN Contents : \E j \in DOMAIN stack : Contents[k] = stack[j]
    BY <2>1, <2>2, Upper
  <2>4. \A j \in DOMAIN stack : j \in DOMAIN store.stack
                                /\ store.stack[j] = AbsWord(heap, mem, stack[j])
    <3>1. \A j \in 1..Depth : j \in DOMAIN store.stack
                              /\ store.stack[j] = AbsWord(heap, mem, stack[j])
      BY <1>4, StackWaits
    <3>2. DOMAIN stack = 1..Depth
      BY <2>1 DEF Depth
    <3> QED
      BY <3>1, <3>2
  <2>5. PICK aw : aw = AbsSeq(heap, mem, Contents)
    OBVIOUS
  <2>6. \A k \in DOMAIN aw : \E j \in DOMAIN store.stack : aw[k] = store.stack[j]
    BY <2>3, <2>4, <2>5 DEF AbsSeq
  <2>7. ASSUME NEW i \in Named(aw)
        PROVE  i \in Named(store.stack)
    <3>1. PICK k \in DOMAIN aw : aw[k][1] = "obj" /\ i = aw[k][2]
      BY DEF Named
    <3>2. PICK j \in DOMAIN store.stack : aw[k] = store.stack[j]
      BY <2>6
    <3> QED
      BY <3>1, <3>2 DEF Named
  <2> QED
    BY <1>2, <1>3, <1>5, <2>5, <2>7
<1> QED
  BY <1>6, <1>7

\* What is left when the operands are popped.
LEMMA LowerWaits ==
  ASSUME Inv, Kept, pc \in Whole, NEW u \in Nat, u <= Depth
  PROVE  /\ Lower(u) \in Seq(Nat) /\ Wording(heap, mem, Lower(u))
         /\ AbsSeq(heap, mem, Lower(u)) = Store!Lower(u + Popped)
         /\ Named(AbsSeq(heap, mem, Lower(u))) \subseteq DOMAIN store.graph
<1> DEFINE ws == Waiting(stack, xroots)
<1>1. /\ Wording(heap, mem, ws) /\ ws \in Seq(Nat) /\ store.stack = AbsSeq(heap, mem, ws)
      /\ Named(store.stack) \subseteq DOMAIN store.graph
  BY StoreWaits DEF Wording
<1>2. /\ stack \in Seq(Nat) /\ Wording(heap, mem, stack) /\ xroots \in Seq(Nat)
      /\ Popped \in Nat /\ Popped <= Len(xroots)
  BY WaitingState DEF Whole, Wording
<1>3. PICK p \in Nat, d \in Nat, b \in Nat, v \in Nat :
        p = Popped /\ d = Depth /\ b = d - u /\ v = u + p /\ b = d + p - v /\ b <= d + p
  <2>1. Depth \in Nat /\ Depth - u \in Nat /\ u + Popped \in Nat
        /\ Depth - u = Depth + Popped - (u + Popped) /\ Depth - u <= Depth + Popped
    BY <1>2 DEF Depth
  <2> QED
    BY <1>2, <2>1
<1>4. /\ Lower(u) \in Seq(Nat) /\ Len(Lower(u)) = b
      /\ \A k \in 1..b : k \in DOMAIN stack /\ Lower(u)[k] = stack[k]
  BY <1>2, <1>3, LowerType
<1>5. Wording(heap, mem, Lower(u))
  BY <1>2, <1>4 DEF Wording
<1>6. Len(ws) = d + p /\ \A k \in 1..d : ws[k] = stack[k]
  <2>1. ws = stack \o SubSeq(xroots, 1, p)
    BY <1>3 DEF Waiting
  <2>2. Len(ws) = Len(stack) + p /\ \A k \in 1..Len(stack) : ws[k] = stack[k]
    BY <1>2, <1>3, <2>1, WaitingWords
  <2> QED
    BY <1>3, <2>2 DEF Depth
<1> HIDE DEF ws
<1>7. SubSeq(ws, 1, b) = Lower(u)
  <2>1. b <= Len(ws) /\ 1 <= b + 1
    BY <1>3, <1>6
  <2>2. /\ SubSeq(ws, 1, b) \in Seq(Nat) /\ Len(SubSeq(ws, 1, b)) = b - 1 + 1
        /\ \A k \in 1..b - 1 + 1 : SubSeq(ws, 1, b)[k] = ws[1 + k - 1]
    BY <1>1, <2>1, SeqFromTo
  <2>3. b - 1 + 1 = b /\ \A k \in 1..b : 1 + k - 1 = k /\ k \in 1..d
    BY <1>3
  <2>4. Len(SubSeq(ws, 1, b)) = b /\ \A k \in 1..b : SubSeq(ws, 1, b)[k] = ws[k]
    BY <2>2, <2>3
  <2>5. \A k \in 1..b : SubSeq(ws, 1, b)[k] = Lower(u)[k]
    BY <1>4, <1>6, <2>3, <2>4
  <2> QED
    BY <1>4, <2>2, <2>4, <2>5, SeqEqual
<1>8. AbsSeq(heap, mem, Lower(u)) = SubSeq(store.stack, 1, b)
  <2>1. b <= Len(ws) /\ 1 <= b + 1
    BY <1>3, <1>6
  <2>2. AbsSeq(heap, mem, SubSeq(ws, 1, b)) = SubSeq(AbsSeq(heap, mem, ws), 1, b)
    BY <1>1, <2>1, AbsSubSeq
  <2> QED
    BY <1>1, <1>7, <2>2
<1>9. Store!Lower(u + Popped) = SubSeq(store.stack, 1, b)
  <2>1. Len(store.stack) = d + p
    BY <1>3, StackWaits
  <2> QED
    BY <1>3, <2>1 DEF Store!Lower, Store!Depth
<1>10. Named(AbsSeq(heap, mem, Lower(u))) \subseteq DOMAIN store.graph
  <2>1. PICK aw : aw = AbsSeq(heap, mem, Lower(u))
    OBVIOUS
  <2>2. DOMAIN aw = 1..b /\ \A k \in 1..b : aw[k] = AbsWord(heap, mem, Lower(u)[k])
    BY <1>4, <2>1, AbsSeqType
  <2>3. \A k \in 1..d : k \in DOMAIN store.stack
                        /\ store.stack[k] = AbsWord(heap, mem, stack[k])
    BY <1>3, StackWaits
  <2>4. \A k \in 1..b : k \in 1..d
    BY <1>3
  <2>5. \A k \in DOMAIN aw : k \in DOMAIN store.stack /\ aw[k] = store.stack[k]
    BY <1>4, <2>2, <2>3, <2>4
  <2>6. Named(aw) \subseteq Named(store.stack)
    BY <2>5 DEF Named
  <2> QED
    BY <1>1, <2>1, <2>6
<1> QED
  BY <1>4, <1>5, <1>8, <1>9, <1>10

\* What alloc and its caller do with a free place: the heap and the stack then.
LEMMA PlaceGrows ==
  ASSUME Inv, pc \in {"alloc", "place"}, Fits, Place,
         NEW o, o = [kind |-> req.kind, len |-> req.len, id |-> nextid, fields |-> Contents,
                     fwd |-> 0, marked |-> FALSE, enqueued |-> FALSE]
  PROVE  /\ heap \in Chunk /\ heap' \in Chunk
         /\ Grown(heap, mem, heap', mem', heap.current, o)
         /\ stack' = Append(Lower(req.used), Content(heap, heap.current))
         /\ Content(heap, heap.current) \in Nat
         /\ req.used \in Nat /\ req.used <= Depth /\ Depth - req.used < VSTACK_SIZE - 1
         /\ xroots' = <<>> /\ nextid' = nextid + 1 /\ nextid <= MaxId
         /\ pc' = "run" /\ req' = Idle
<1>1. Inv'
  BY PlaceInv
<1>2. \A k \in 1..req.reads : IsObj(heap, xroots[k])
  BY ContentsType
<1>3. /\ mem' = Extended(mem, heap.current, o)
      /\ heap' = [heap EXCEPT !.current = @ + SizeOf(req.kind, req.len)]
      /\ stack' = Append(Lower(req.used), Content(heap, heap.current))
      /\ xroots' = <<>> /\ nextid' = nextid + 1 /\ pc' = "run" /\ req' = Idle
  BY <1>2 DEF Place, Extended
<1>4. heap \in Chunk /\ Sound(heap, mem) /\ heap' \in Chunk /\ Sound(heap', mem')
  BY <1>1, <1>3 DEF Inv, Types, Quiet
<1>5. heap'.begin = heap.begin
  BY <1>3, <1>4 DEF Chunk
<1>6. heap.current \notin DOMAIN mem
  <2>1. heap.current \in Nat
    BY <1>4 DEF Chunk
  <2>2. \A a \in DOMAIN mem : a + Size(mem[a]) <= heap.current
                              /\ a \in Nat /\ Size(mem[a]) \in Nat /\ Size(mem[a]) >= 2
    BY <1>4, ObjectType DEF Sound, Tiles
  <2> QED
    BY <2>1, <2>2
<1>7. Grown(heap, mem, heap', mem', heap.current, o)
  BY <1>3, <1>4, <1>5, <1>6 DEF Grown, Extended
<1>8. Content(heap, heap.current) \in Nat
  <2>1. heap.current \in Nat
    BY <1>4 DEF Chunk
  <2> QED
    BY <1>4, <2>1, Address
<1>9. /\ req.used \in Nat /\ req.used <= Depth /\ Depth - req.used < VSTACK_SIZE - 1
      /\ nextid <= MaxId
  BY DEF Inv, Requested
<1> QED
  BY <1>3, <1>4, <1>7, <1>8, <1>9

\* One more word names at most one more object.
LEMMA NamedAppend ==
  ASSUME NEW S, NEW aw \in Seq(S), NEW w \in S, NEW i, w[2] = i
  PROVE  Named(Append(aw, w)) \subseteq Named(aw) \cup {i}
<1>2. PICK n \in Nat : n = Len(aw) /\ DOMAIN aw = 1..n
  OBVIOUS
<1>3. PICK st : /\ st = Append(aw, w)
                /\ DOMAIN st = 1..n + 1 /\ st[n + 1] = w
                /\ \A k \in 1..n : st[k] = aw[k]
  <2>1. /\ DOMAIN Append(aw, w) = 1..Len(aw) + 1 /\ Append(aw, w)[Len(aw) + 1] = w
        /\ \A k \in 1..Len(aw) : Append(aw, w)[k] = aw[k]
    OBVIOUS
  <2> QED
    BY <1>2, <2>1
<1>4. ASSUME NEW j \in Named(st)
      PROVE  j \in Named(aw) \cup {i}
  <2>1. PICK k \in DOMAIN st : st[k][1] = "obj" /\ j = st[k][2]
    BY DEF Named
  <2>2. CASE k \in 1..n
    <3>1. k \in DOMAIN aw /\ aw[k] = st[k]
      BY <1>2, <1>3, <2>2
    <3> QED
      BY <2>1, <3>1 DEF Named
  <2>3. CASE k = n + 1
    BY <1>3, <2>1, <2>3
  <2>4. k \in 1..n + 1
    BY <1>3
  <2>5. k \in 1..n \/ k = n + 1
    BY <1>2, <2>4
  <2> QED
    BY <2>2, <2>3, <2>5
<1> QED
  BY <1>3, <1>4

\* The store's allocation.
LEMMA PlaceBecomes ==
  ASSUME Inv, Kept, Observe, pc \in {"alloc", "place"}, Fits, Place
  PROVE  Store!Alloc(req.used + Popped,
                     [kind |-> req.kind, len |-> req.len, fields |-> AbsSeq(heap, mem, Contents)])
<1>1. PICK o : o = [kind |-> req.kind, len |-> req.len, id |-> nextid, fields |-> Contents,
                    fwd |-> 0, marked |-> FALSE, enqueued |-> FALSE]
  OBVIOUS
<1>2. /\ heap \in Chunk /\ heap' \in Chunk
      /\ Grown(heap, mem, heap', mem', heap.current, o)
      /\ stack' = Append(Lower(req.used), Content(heap, heap.current))
      /\ Content(heap, heap.current) \in Nat
      /\ req.used \in Nat /\ req.used <= Depth /\ Depth - req.used < VSTACK_SIZE - 1
      /\ nextid' = nextid + 1 /\ nextid <= MaxId /\ pc' = "run"
  BY <1>1, PlaceGrows
<1>3. pc \in Whole
  BY DEF Whole
<1>4. PICK g, n, at, x, u, low, v :
        /\ g = heap' /\ n = mem' /\ at = heap.current /\ x = Content(heap, at)
        /\ u = req.used /\ low = Lower(u) /\ v = u + Popped
  OBVIOUS
<1>5. g \in Chunk /\ Grown(heap, mem, g, n, at, o)
  BY <1>2, <1>4
<1>6. PICK a : a = [kind |-> req.kind, len |-> req.len, fields |-> AbsSeq(heap, mem, Contents)]
  OBVIOUS
<1>7. o.id = nextid /\ o.kind = req.kind /\ o.len = req.len /\ o.fields = Contents
  BY <1>1
<1>8. /\ Wording(heap, mem, Contents)
      /\ Named(AbsSeq(heap, mem, Contents)) \subseteq DOMAIN store.graph
  BY ContentsKnown
<1>9. /\ \A ws : Wording(heap, mem, ws) => AbsSeq(g, n, ws) = AbsSeq(heap, mem, ws)
      /\ AbsWord(g, n, x) = Obj(nextid)
  BY <1>2, <1>4, <1>5, <1>7, AbsGrown
<1>10. a = AbsObject(g, n, o) /\ Named(a.fields) \subseteq DOMAIN store.graph
  BY <1>6, <1>7, <1>8, <1>9 DEF AbsObject
<1>11. /\ low \in Seq(Nat) /\ Wording(heap, mem, low)
       /\ AbsSeq(heap, mem, low) = Store!Lower(v)
       /\ Named(AbsSeq(heap, mem, low)) \subseteq DOMAIN store.graph
  BY <1>2, <1>3, <1>4, LowerWaits
<1>12. PICK st : st = Append(Store!Lower(v), Obj(nextid))
  OBVIOUS
<1>13. AbsSeq(g, n, stack') = st
  <2>1. AbsSeq(g, n, Append(low, x)) = Append(AbsSeq(g, n, low), AbsWord(g, n, x))
    BY <1>2, <1>4, <1>11, AbsAppend
  <2> QED
    BY <1>2, <1>4, <1>9, <1>11, <1>12, <2>1
<1>14. Named(st) \subseteq DOMAIN store.graph \cup {nextid}
  <2>1. PICK aw : aw = AbsSeq(heap, mem, low)
    OBVIOUS
  <2>2. aw \in Seq(Meanings(g, n)) /\ st = Append(aw, Obj(nextid)) /\ Obj(nextid) \in Meanings(g, n)
    <3>1. aw = AbsSeq(g, n, low)
      BY <1>9, <1>11, <2>1
    <3>2. aw \in Seq(Meanings(g, n))
      BY <1>11, <3>1, AbsSeqType
    <3>3. Obj(nextid) \in Meanings(g, n)
      BY <1>2, <1>4, <1>9 DEF Meanings
    <3> QED
      BY <1>11, <1>12, <2>1, <3>2, <3>3
  <2>3. Named(st) \subseteq Named(aw) \cup {nextid}
    <3>1. Obj(nextid)[2] = nextid
      BY DEF Obj
    <3> QED
      BY <2>2, <3>1, NamedAppend
  <2> QED
    BY <1>11, <2>1, <2>3
<1>15. PICK R, f : R = DOMAIN store.graph /\ f = store.graph
  OBVIOUS
<1>16. /\ R \in SUBSET DOMAIN AbsGraph(heap, mem) /\ Closed(AbsGraph(heap, mem), R)
       /\ f = [i \in R |-> AbsGraph(heap, mem)[i]]
  BY <1>3, <1>15, StoreWaits
<1>17. Prune(AbsGraph(g, n), st) = Prune(Store!Extend(f, o.id, a), st)
  <2>1. Named(a.fields) \subseteq R /\ Named(st) \subseteq R \cup {o.id}
    BY <1>7, <1>10, <1>14, <1>15
  <2>2. a = AbsObject(g, n, o)
    BY <1>10
  <2> QED
    BY <1>2, <1>5, <1>16, <2>1, <2>2, StoreGrown
<1>18. store' = AbsStore(g, n, stack')
  BY <1>2, <1>4 DEF Observe
<1>19. store.stack' = st /\ store.graph' = Prune(AbsGraph(g, n), st)
  BY <1>13, <1>18 DEF AbsStore
<1>20. Store!Becomes(st, Store!Extend(store.graph, nextid, a))
  BY <1>7, <1>15, <1>17, <1>19, SamePrune DEF Store!Becomes
<1>21. v <= Store!Depth /\ Store!Depth - v < VSTACK_SIZE - 1
  <2>1. Depth \in Nat /\ Popped \in Nat /\ Store!Depth = Depth + Popped
    BY <1>3, StackWaits DEF Store!Depth
  <2>2. VSTACK_SIZE \in Nat
    BY BoundsAssumption
  <2> QED
    BY <1>2, <1>4, <2>1, <2>2
<1>22. Store!Alloc(v, a)
  BY <1>2, <1>12, <1>20, <1>21 DEF Store!Alloc, Store!Obj, Obj
<1> QED
  BY <1>4, <1>6, <1>22

\* A string has no fields.
LEMMA StringContents ==
  ASSUME Inv, pc \in {"alloc", "place"}, req.kind = "STRING"
  PROVE  AbsSeq(heap, mem, Contents) = <<>> /\ (req.reads = 0 => req.used = 0)
<1>1. FieldCount("STRING", req.len) = 0
  BY DEF FieldCount
<1>2. Contents \in Seq(Nat) /\ Len(Contents) = 0
  BY <1>1, ContentsType
<1>3. PICK aw \in Seq(Meanings(heap, mem)) : aw = AbsSeq(heap, mem, Contents) /\ Len(aw) = 0
  BY <1>2, AbsSeqType
<1>4. aw = <<>>
  BY <1>3
<1>5. req.reads = 0 => req.used = 0
  BY <1>1 DEF Inv, Requested
<1> QED
  BY <1>3, <1>4, <1>5

\* Barray, BSexp, Bclosure and Bstring: the popped words are the fields.
LEMMA MakePlaced ==
  ASSUME Inv, Kept, Observe, pc \in {"alloc", "place"}, Fits, Place, AsksNew
  PROVE  Store!Next
<1>1. req.reads = 0 /\ Popped = 0 /\ pc \in Whole
  BY DEF AsksNew, Whole
<1>2. PICK s \in Shapes : s[1] = req.kind /\ s[2] = req.len
  BY DEF AsksNew, OfShape
<1>3. /\ req.used = FieldCount(req.kind, req.len) /\ req.used \in Nat /\ req.used <= Depth
      /\ stack \in Seq(Nat) /\ xroots \in Seq(Nat)
  BY <1>1 DEF Inv, Requested, Types
<1>4. PICK u \in Nat, d \in Nat, a \in Nat :
        u = req.used /\ d = Depth /\ u <= d /\ a = d - u + 1 /\ d = Len(stack)
  <2>1. Depth \in Nat /\ Depth - req.used + 1 \in Nat /\ Depth = Len(stack)
    BY <1>3 DEF Depth
  <2> QED
    BY <1>3, <2>1
<1>5. Waiting(stack, xroots) = stack
  <2>1. Waiting(stack, xroots) = stack \o SubSeq(xroots, 1, 0)
    BY <1>1 DEF Waiting
  <2> QED
    BY <1>3, <2>1, NoneBack
<1>6. store.stack = AbsSeq(heap, mem, stack)
  BY <1>1, <1>5, StoreWaits
<1>7. Store!Depth = d
  BY <1>1, <1>4, StackWaits DEF Store!Depth
<1>8. Contents = SubSeq(stack, a, d)
  BY <1>1, <1>4 DEF Contents
<1>9. AbsSeq(heap, mem, Contents) = SubSeq(store.stack, a, d)
  <2>1. 1 <= a /\ d <= Len(stack) /\ a <= d + 1
    BY <1>4
  <2> QED
    BY <1>3, <1>6, <1>8, <2>1, AbsSubSeq
<1>10. Store!Alloc(u, [kind |-> req.kind, len |-> req.len, fields |-> SubSeq(store.stack, a, d)])
  <2>1. req.used + Popped = u
    BY <1>1, <1>4
  <2> QED
    BY <1>9, <2>1, PlaceBecomes
<1>11. Store!FieldCount(s[1], s[2]) = u
  <2>1. Store!FieldCount(s[1], s[2]) = FieldCount(s[1], s[2])
    BY DEF FieldCount, Store!FieldCount
  <2> QED
    BY <1>2, <1>3, <1>4, <2>1
<1>12. Store!Make(s[1], s[2])
  BY <1>2, <1>4, <1>7, <1>10, <1>11 DEF Store!Make
<1> QED
  BY <1>12 DEF Store!Next

\* Lstring.
LEMMA StringPlaced ==
  ASSUME Inv, Kept, Observe, pc \in {"alloc", "place"}, Fits, Place, AsksString
  PROVE  Store!Next
<1>1. req.reads = 0 /\ Popped = 1 /\ req.kind = "STRING" /\ pc \in Whole
  BY DEF AsksString, Whole
<1>2. PICK s \in Shapes : s[1] = "STRING" /\ s[2] = req.len
  BY DEF AsksString, OfShape
<1>3. AbsSeq(heap, mem, Contents) = <<>> /\ req.used + Popped = 1
  BY <1>1, StringContents
<1>4. Store!Alloc(1, [kind |-> "STRING", len |-> s[2], fields |-> <<>>])
  BY <1>1, <1>2, <1>3, PlaceBecomes
<1>5. Store!Depth > 0
  <2>1. Depth \in Nat /\ Len(store.stack) = Depth + 1
    BY <1>1, StackWaits
  <2> QED
    BY <2>1 DEF Store!Depth
<1>6. Store!Stringify(s[2])
  BY <1>4, <1>5 DEF Store!Stringify
<1> QED
  BY <1>2, <1>6 DEF Store!Next

\* Lclone and Lsubstring.
LEMMA CopyPlaced ==
  ASSUME Inv, Kept, Observe, pc \in {"alloc", "place"}, Fits, Place, req.used = 0,
         AsksCopy(Len(store.stack))
  PROVE  Store!Next
<1>1. PICK n : n = Len(store.stack)
  OBVIOUS
<1>2. req.reads = 1 /\ IsRef(n) /\ Operand(n).kind = req.kind /\ req.used + Popped = 1
  BY <1>1 DEF AsksCopy, Popped
<1>3. n > 0 /\ Store!Depth = n /\ Store!Top = store.stack[n] /\ store.stack[n][1] = "obj"
      /\ store.graph[store.stack[n][2]] = Operand(n)
  BY <1>1, <1>2 DEF IsRef, Operand, Store!Top, Store!Depth
<1>4. PICK a : a = [kind |-> req.kind, len |-> req.len, fields |-> AbsSeq(heap, mem, Contents)]
               /\ Store!Alloc(1, a)
  BY <1>2, PlaceBecomes
<1>5. CASE Operand(n).len = req.len
  <2>1. n = Len(store.stack) - req.reads + 1 /\ req.reads > 0
    <3>1. Len(store.stack) \in Nat
      <4>1. pc \in Whole
        BY DEF Whole
      <4>2. Depth \in Nat /\ Popped \in Nat /\ Len(store.stack) = Depth + Popped
        BY <4>1, StackWaits
      <4> QED
        BY <4>2
    <3> QED
      BY <1>1, <1>2, <3>1
  <2>2. PICK off \in DOMAIN mem : /\ Contents = mem[off].fields
                                  /\ Operand(n) = AbsObject(heap, mem, mem[off])
    BY <2>1, OperandWaits
  <2>3. Operand(n) = a
    BY <1>2, <1>4, <1>5, <2>2 DEF AbsObject
  <2>4. Store!Clone
    BY <1>3, <1>4, <2>3 DEF Store!Clone
  <2> QED
    BY <2>4 DEF Store!Next
<1>6. CASE req.kind = "STRING" /\ req.len <= Operand(n).len /\ OfShape("STRING", req.len)
  <2>1. PICK s \in Shapes : s[1] = "STRING" /\ s[2] = req.len
    BY <1>6 DEF OfShape
  <2>2. AbsSeq(heap, mem, Contents) = <<>>
    BY <1>6, StringContents
  <2>3. a = [kind |-> "STRING", len |-> s[2], fields |-> <<>>]
    BY <1>4, <1>6, <2>1, <2>2
  <2>4. Store!Substring(s[2])
    BY <1>2, <1>3, <1>4, <1>6, <2>1, <2>3 DEF Store!Substring
  <2> QED
    BY <2>1, <2>4 DEF Store!Next
<1> QED
  BY <1>1, <1>5, <1>6 DEF AsksCopy

\* ++.
LEMMA BothPlaced ==
  ASSUME Inv, Kept, Observe, pc \in {"alloc", "place"}, Fits, Place, req.used = 0,
         AsksBoth(Len(store.stack))
  PROVE  Store!Next
<1>1. PICK n : n = Len(store.stack)
  OBVIOUS
<1>2. /\ req.reads = 2 /\ req.kind = "STRING" /\ req.used + Popped = 2
      /\ IsRef(n) /\ Operand(n).kind = "STRING"
      /\ IsRef(n - 1) /\ Operand(n - 1).kind = "STRING"
      /\ req.len = Operand(n - 1).len + Operand(n).len
  BY <1>1 DEF AsksBoth, Popped
<1>3. pc \in Whole
  BY DEF Whole
<1>4. n > 1
  <2>1. Depth \in Nat /\ Popped \in Nat /\ n = Depth + Popped
    BY <1>1, <1>3, StackWaits
  <2>2. n - 1 > 0
    BY <1>2 DEF IsRef
  <2> QED
    BY <2>1, <2>2
<1>5. AbsSeq(heap, mem, Contents) = <<>>
  BY <1>2, StringContents
<1>6. Store!Alloc(2, [kind |-> "STRING", len |-> Operand(n - 1).len + Operand(n).len,
                      fields |-> <<>>])
  BY <1>2, <1>5, PlaceBecomes
<1>7. Store!Depth = n /\ Store!Top = store.stack[n]
  BY <1>1 DEF Store!Depth, Store!Top
<1>8. /\ store.stack[n][1] = "obj" /\ store.graph[store.stack[n][2]] = Operand(n)
      /\ store.stack[n - 1][1] = "obj" /\ store.graph[store.stack[n - 1][2]] = Operand(n - 1)
  BY <1>2 DEF IsRef, Operand
<1>9. Store!Strcat
  BY <1>2, <1>4, <1>6, <1>7, <1>8 DEF Store!Strcat
<1> QED
  BY <1>9 DEF Store!Next

\* A place that is found is what the program has asked for.
LEMMA PlaceStep ==
  ASSUME Inv, Kept, Asked, Observe, pc \in {"alloc", "place"}, Fits, Place
  PROVE  Store!Next /\ Kept' /\ Asked'
<1>1. PICK n : n = Len(store.stack)
  OBVIOUS
<1>2. /\ req.reads > 0 => req.used = 0
      /\ AsksNew \/ AsksString \/ AsksCopy(n) \/ AsksBoth(n)
  BY <1>1 DEF Asked
<1>3. AsksCopy(n) \/ AsksBoth(n) => req.used = 0
  BY <1>2 DEF AsksCopy, AsksBoth
<1>4. Store!Next
  BY <1>1, <1>2, <1>3, MakePlaced, StringPlaced, CopyPlaced, BothPlaced
<1>5. pc' = "run" /\ xroots' = <<>> /\ req' = Idle
  <2>1. \A k \in 1..req.reads : IsObj(heap, xroots[k])
    BY ContentsType
  <2> QED
    BY <2>1 DEF Place
<1>6. stack' \in Seq(Nat)
  BY PlaceInv DEF Inv, Types
<1> QED
  BY <1>4, <1>5, <1>6, SeenAgain

-----------------------------------------------------------------------------
(***************************************************************************)
(* Every step of the heap is a step of the store or invisible to it.       *)
(***************************************************************************)
\* The collector changes neither the store nor what the program waits for.
LEMMA CollectorStep ==
  ASSUME Inv, Kept, Asked, Observe, Collector, pc' # "run"
  PROVE  Kept' /\ Asked' /\ UNCHANGED <<store, nextid>>
<1>1. Inv'
  BY NextInv DEF Next
<1>2. pc' # "crashed" /\ xroots \in Seq(Nat) /\ xroots' \in Seq(Nat)
  BY <1>1 DEF Inv, Types
<1>3. /\ pc \notin {"run", "exited", "crashed"}
      /\ req' = req /\ nextid' = nextid /\ Len(xroots') = Len(xroots)
  <2>1. CASE AllocOnExistingHeap \/ AllocAfterGC
    BY <1>2, <2>1 DEF AllocOnExistingHeap, AllocAfterGC, Place, Crash
  <2>2. CASE StartGC \/ EndMark \/ Remap \/ RemapFails \/ EndCompact
    BY <2>2 DEF StartGC, EndMark, Remap, RemapFails, EndCompact
  <2>3. CASE MarkRoot \/ Dequeue \/ ScanField
    BY <1>2, <2>3 DEF MarkRoot, Dequeue, ScanField, GCStep, Enqueue, Crash
  <2>4. CASE Locate \/ Update \/ Relocate
    BY <1>2, <2>4 DEF Locate, Update, Relocate, Crash
  <2>5. CASE FixRoots
    <3>1. /\ pc = "update" /\ req' = req /\ nextid' = nextid
          /\ xroots' = [k \in DOMAIN xroots |-> Fix(xroots[k])]
      BY <1>2, <2>5 DEF FixRoots, Crash
    <3>2. DOMAIN xroots' = DOMAIN xroots
      BY <3>1
    <3>3. Len(xroots') = Len(xroots)
      BY <1>2, <3>2
    <3> QED
      BY <3>1, <3>3
  <2> QED
    BY <2>1, <2>2, <2>3, <2>4, <2>5 DEF Collector
<1>4. store' = store
  BY DEF Observe
<1>5. Popped' = Popped
  BY <1>3 DEF Popped
<1>6. CASE pc' = "exited"
  BY <1>3, <1>4, <1>6 DEF Kept, Asked
<1>7. CASE pc' # "exited"
  <2>1. View' = View
    BY <1>2, <1>7, CollectorKeeps
  <2>2. Kept'
    BY <1>3, <1>4, <1>7, <2>1 DEF Kept
  <2>3. req.reads > 0 => req.used = 0
    BY <1>3 DEF Asked
  <2>4. LET n == Len(store.stack) IN AsksNew \/ AsksString \/ AsksCopy(n) \/ AsksBoth(n)
    BY <1>3 DEF Asked
  <2>5. LET n == Len(store.stack) IN
        (AsksNew \/ AsksString \/ AsksCopy(n) \/ AsksBoth(n))'
    BY <1>3, <1>4, <1>5, <2>4
       DEF AsksNew, AsksString, AsksCopy, AsksBoth, OfShape, IsRef, Operand
  <2>6. Asked'
    BY <1>3, <1>4, <2>3, <2>5 DEF Asked
  <2> QED
    BY <1>3, <1>4, <2>2, <2>6
<1> QED
  BY <1>6, <1>7

\* A request for an object leaves the store as it is: the program's view
\* includes the operands, on the stack or in extra roots.
LEMMA RequestStep ==
  ASSUME Inv, Kept, Observe, Mutator, pc' # "run"
  PROVE  Kept' /\ Asked' /\ UNCHANGED <<store, nextid>>
<1>1. Inv'
  BY NextInv DEF Next
<1>2. pc' # "crashed"
  BY <1>1 DEF Inv, Types
<1>3. CASE Const \/ Dup \/ Drop \/ Swap
  BY <1>3 DEF Const, Dup, Push, Drop, Swap, StackOp
<1>4. CASE (\E n \in 1..2 : Compute(n)) \/ Inspect \/ StringPatt
  BY <1>2, <1>4 DEF Compute, Inspect, StringPatt, StackOp, Crash
<1>5. CASE \E k \in 1..MaxLen : Elem(k) \/ StA(k)
  BY <1>2, <1>5 DEF Elem, StA, StackOp, Crash
<1>6. CASE \E s \in Shapes : Make(s[1], s[2])
  BY <1>6, NewAsks
<1>7. CASE \E s \in Shapes : s[1] = "STRING" /\ Bstring(s[2])
  BY <1>7, NewAsks
<1>8. CASE \E s \in Shapes : s[1] = "STRING" /\ Lstring(s[2])
  BY <1>8, StringAsks
<1>9. CASE Lclone \/ \E s \in Shapes : s[1] = "STRING" /\ Lsubstring(s[2])
  BY <1>2, <1>9, CopyAsks
<1>10. CASE Lstrcat
  BY <1>2, <1>10, BothAsks
<1> QED
  BY <1>3, <1>4, <1>5, <1>6, <1>7, <1>8, <1>9, <1>10 DEF Mutator

\* Nor does anything change the heap to come while nothing changes.
LEMMA NothingMoves ==
  ASSUME UNCHANGED vars
  PROVE  FutureKept
<1>1. UNCHANGED <<heap, mem, stack, xroots, pc, gc>>
  BY DEF vars
<1>2. UNCHANGED <<FutureHeap, FutureStack, FutureXroots>>
  BY <1>1 DEF FutureHeap, FutureStack, FutureXroots, FutureWords
<1>3. Movers' = Movers
  BY <1>1 DEF Movers
<1>4. Settled' = Settled
  BY <1>1, <1>3 DEF Settled, NewHome
<1>5. \A a : FutureFields(a)' = FutureFields(a)
  BY <1>1 DEF FutureFields, FutureWords
<1>6. [a \in Movers |-> FutureFields(a)]' = [a \in Movers |-> FutureFields(a)]
  BY <1>3, <1>5
<1>7. FutureMem' = FutureMem
  BY <1>1, <1>3, <1>4, <1>6 DEF FutureMem
<1> QED
  BY <1>2, <1>7 DEF FutureKept

\* The program goes on when the object that it waits for is placed.
LEMMA Placing ==
  ASSUME Collector, pc' = "run"
  PROVE  pc \in {"alloc", "place"} /\ Fits /\ Place
<1>1. pc # "run" /\ (AllocOnExistingHeap \/ AllocAfterGC)
  BY DEF Collector, AllocOnExistingHeap, AllocAfterGC, StartGC, MarkRoot, Dequeue,
         ScanField, EndMark, Locate, Remap, RemapFails, Update, FixRoots,
         Relocate, EndCompact, GCStep, Enqueue, Crash
<1> QED
  BY <1>1 DEF AllocOnExistingHeap, AllocAfterGC, Crash

\* A step of the heap is one of the store, or the store does not see it.
LEMMA StoreStep ==
  ASSUME Inv, Kept, Asked, [StoreNext]_storeVars
  PROVE  Kept' /\ Asked' /\ (Store!Next \/ UNCHANGED <<store, nextid>>)
<1>1. CASE UNCHANGED storeVars
  <2>1. UNCHANGED <<heap, mem, stack, xroots, nextid, pc, req, gc, store>>
    BY <1>1 DEF storeVars, vars
  <2>2. Popped' = Popped
    BY <2>1 DEF Popped
  <2>3. Waiting(stack, xroots)' = Waiting(stack, xroots)
    BY <2>1, <2>2 DEF Waiting
  <2>4. Asked'
    BY <2>1, <2>2 DEF Asked, AsksNew, AsksString, AsksCopy, AsksBoth, OfShape, IsRef, Operand
  <2>5. FutureKept
    BY <1>1, NothingMoves DEF storeVars
  <2>6. Waiting(FutureStack, FutureXroots)' = Waiting(FutureStack, FutureXroots)
    BY <2>2, <2>5 DEF Waiting, FutureKept
  <2>7. View' = View
    BY <2>1, <2>3, <2>5, <2>6 DEF View, FutureKept
  <2>8. Kept'
    BY <2>1, <2>7 DEF Kept
  <2> QED
    BY <2>1, <2>4, <2>8
<1>2. CASE Next /\ Observe
  <2>1. CASE Mutator /\ pc' = "run"
    BY <1>2, <2>1, RunStep, RunKept
  <2>2. CASE Mutator /\ pc' # "run"
    BY <1>2, <2>2, RequestStep
  <2>3. CASE Collector /\ pc' # "run"
    BY <1>2, <2>3, CollectorStep
  <2>4. CASE Collector /\ pc' = "run"
    <3>1. pc \in {"alloc", "place"} /\ Fits /\ Place
      BY <2>4, Placing
    <3> QED
      BY <1>2, <3>1, PlaceStep
  <2>5. CASE Stopped
    <3>1. pc \in {"exited", "crashed"} /\ pc' = pc /\ UNCHANGED nextid
      BY <2>5 DEF Stopped, vars
    <3>2. store' = store
      BY <1>2, <3>1 DEF Observe
    <3> QED
      BY <3>1, <3>2 DEF Kept, Asked
  <2> QED
    BY <1>2, <2>1, <2>2, <2>3, <2>4, <2>5 DEF Next
<1> QED
  BY <1>1, <1>2 DEF StoreNext

\* At first the store is empty.
LEMMA StoreInitially ==
  ASSUME StoreInit
  PROVE  Inv /\ Kept /\ Asked /\ Store!Init
<1>1. /\ DOMAIN mem = {} /\ stack = <<>> /\ xroots = <<>> /\ nextid = 1
      /\ pc = "run" /\ req = Idle /\ store = AbsStore(heap, mem, stack)
  BY DEF StoreInit, Init, InitWith
<1>2. Popped = 0
  BY <1>1 DEF Popped, Idle
<1>3. stack \in Seq(Nat) /\ xroots \in Seq(Nat) /\ Len(stack) = 0
  BY <1>1
<1>4. Waiting(stack, xroots) = stack
  BY <1>2, <1>3, NoneBack DEF Waiting
<1>5. Kept /\ Asked
  BY <1>1, <1>4 DEF Kept, Asked, View
<1>6. store.stack = <<>>
  <2>1. PICK aw \in Seq(Meanings(heap, mem)) : aw = AbsSeq(heap, mem, stack) /\ Len(aw) = 0
    BY <1>3, AbsSeqType
  <2>2. aw = <<>>
    BY <2>1
  <2> QED
    BY <1>1, <2>1, <2>2 DEF AbsStore
<1>7. store.graph = <<>>
  <2>1. DOMAIN AbsGraph(heap, mem) = {}
    BY <1>1 DEF AbsGraph
  <2>2. Reach(AbsGraph(heap, mem), AbsSeq(heap, mem, stack)) = {}
    BY <2>1 DEF Reach
  <2>3. Prune(AbsGraph(heap, mem), AbsSeq(heap, mem, stack))
          = [i \in {} |-> AbsGraph(heap, mem)[i]]
    BY <2>2 DEF Prune
  <2>4. [i \in {} |-> AbsGraph(heap, mem)[i]] = <<>>
    OBVIOUS
  <2> QED
    BY <1>1, <2>3, <2>4 DEF AbsStore
<1>8. Store!Init
  BY <1>1, <1>6, <1>7 DEF Store!Init
<1> QED
  BY <1>5, <1>8, InvInit DEF StoreInit

\* The program cannot tell its heap from a store in which objects never move,
\* are never lost and do not share their place: no allocation, collection or
\* move changes what it can reach, and each operation does what it should.
THEOREM ImplementsStore == StoreSpec => RefinesStore
<1>1. StoreInit => (Inv /\ Kept /\ Asked) /\ Store!Init
  BY StoreInitially
<1>2. Inv /\ Kept /\ Asked /\ [StoreNext]_storeVars => (Inv /\ Kept /\ Asked)'
  <2> SUFFICES ASSUME Inv, Kept, Asked, [StoreNext]_storeVars
               PROVE  Inv' /\ Kept' /\ Asked'
    OBVIOUS
  <2>1. Inv'
    BY NextInv DEF StoreNext, storeVars
  <2> QED
    BY <2>1, StoreStep
<1>3. Inv /\ Kept /\ Asked /\ [StoreNext]_storeVars => [Store!Next]_(Store!storeVars)
  <2> SUFFICES ASSUME Inv, Kept, Asked, [StoreNext]_storeVars
               PROVE  [Store!Next]_(Store!storeVars)
    OBVIOUS
  <2>1. CASE UNCHANGED <<store, nextid>>
    BY <2>1 DEF Store!storeVars
  <2> QED
    BY <2>1, StoreStep
<1> QED
  BY <1>1, <1>2, <1>3, PTL DEF StoreSpec, RefinesStore, Store!Spec

-----------------------------------------------------------------------------
(***************************************************************************)
(* The call stack on top of the heap, for functions without locals.        *)
(***************************************************************************)
\* the main function has returned
Ended == pc = "exited" /\ frames = <<>>

\* the words that a frame and the operation under way need lie above those
\* that the frames below it need, and the globals below all of them
Nested ==
  /\ frames \in Seq(Frame) /\ Len(frames) > 0
  /\ \A i \in DOMAIN frames :
       /\ Globals <= frames[i].base - frames[i].args - frames[i].closure
       /\ frames[i].base + frames[i].locals <= Depth - req.used
       /\ \A j \in DOMAIN frames : j < i =>
            frames[j].base + frames[j].locals
              <= frames[i].base - frames[i].args - frames[i].closure

\* the word w of chunk h with the objects m refers to a closure
ClosureWord(h, m, w) == \E off \in DOMAIN m : w = Content(h, off) /\ m[off].kind = "CLOSURE"

\* the k-th word of the stack refers to one, or will when compact_phase is done
IsClosureAt(k) ==
  IF pc \in {"update", "relocate"} THEN ClosureWord(FutureHeap, FutureMem, FutureStack[k])
  ELSE ClosureWord(heap, mem, stack[k])

\* where the closure of the i-th frame lies
ClosureOf(i) == frames[i].base - frames[i].args

Called ==
  pc # "exited" =>
    \A i \in DOMAIN frames : frames[i].closure = 1 => IsClosureAt(ClosureOf(i))

FramesInv == Ended \/ (Inv /\ Nested /\ Called)

\* An object that stays where it is stays the closure that it is.
LEMMA ClosureStays ==
  ASSUME NEW h, NEW g, g.begin = h.begin, NEW m, NEW n,
         \A a \in DOMAIN m : a \in DOMAIN n /\ n[a].kind = m[a].kind,
         NEW w, ClosureWord(h, m, w)
  PROVE  ClosureWord(g, n, w)
BY DEF ClosureWord, Content

\* The collector neither frees nor loses a closure that is on the stack.
LEMMA CollectorLeavesClosure ==
  ASSUME Inv, Collector, pc' \notin {"run", "exited", "crashed"},
         NEW k \in DOMAIN stack, IsClosureAt(k)
  PROVE  IsClosureAt(k)'
<1>1. CASE AllocOnExistingHeap \/ AllocAfterGC
  BY <1>1 DEF AllocOnExistingHeap, AllocAfterGC, Place, Crash
<1>2. CASE RemapFails
  BY <1>2 DEF RemapFails
<1>3. CASE StartGC \/ MarkRoot \/ Dequeue \/ ScanField \/ EndMark \/ Locate
  <2>1. /\ pc \in Whole /\ pc' \in Whole
        /\ UNCHANGED <<heap, stack>> /\ SameObjects(mem, mem')
    BY <1>3, MarkLeaves
  <2>2. \A a \in DOMAIN mem : a \in DOMAIN mem' /\ mem'[a].kind = mem[a].kind
    BY <2>1 DEF SameObjects
  <2>3. ClosureWord(heap, mem, stack[k])
    BY <2>1 DEF IsClosureAt, Whole
  <2>4. ClosureWord(heap, mem', stack[k])
    BY <2>2, <2>3, ClosureStays
  <2> QED
    BY <2>1, <2>4 DEF IsClosureAt, Whole
<1>4. CASE Remap
  <2>1. pc = "locate" /\ pc' = "update"
    BY <1>4 DEF Remap
  <2>2. PICK g, f, sf, A :
          g = FutureHeap' /\ f = FutureMem' /\ sf = FutureStack' /\ A = MarkedIn(mem)
    OBVIOUS
  <2>3. Rehoused(heap, mem, g, A, f) /\ SentSeq(heap, mem, g, A, stack, sf)
    BY <1>4, <2>2, RemapInv
  <2>4. PICK off \in DOMAIN mem : stack[k] = Content(heap, off) /\ mem[off].kind = "CLOSURE"
    BY <2>1 DEF IsClosureAt, ClosureWord
  <2>5. off \in A
    <3>1. Targets(heap, mem, stack) \subseteq A
      BY <2>1, <2>2, LocateState DEF Holds
    <3> QED
      BY <2>4, <3>1 DEF Targets
  <2>6. PICK at : at = Home(mem, heap.begin, off)
    OBVIOUS
  <2>7. sf[k] = Content(g, at)
    BY <2>3, <2>4, <2>5, <2>6 DEF SentSeq, Sent
  <2>8. at \in DOMAIN f /\ f[at].kind = "CLOSURE"
    BY <2>3, <2>4, <2>5, <2>6 DEF Rehoused
  <2>9. ClosureWord(g, f, sf[k])
    BY <2>7, <2>8 DEF ClosureWord
  <2> QED
    BY <2>1, <2>2, <2>9 DEF IsClosureAt
<1>5. CASE Update \/ FixRoots \/ Relocate
  <2>1. Inv' /\ FutureKept
    BY <1>5, UpdateInv, FixRootsInv, RelocateDeadInv, RelocateLiveInv
  <2>2. pc \in {"update", "relocate"} /\ pc' \in {"update", "relocate"}
    BY <1>5 DEF Update, FixRoots, Relocate, Crash
  <2> QED
    BY <2>1, <2>2 DEF IsClosureAt, FutureKept
<1>6. CASE EndCompact
  <2>1. pc = "relocate" /\ pc' = "place"
    BY <1>6 DEF EndCompact
  <2>2. heap' = FutureHeap /\ mem' = FutureMem /\ stack' = FutureStack
    BY <1>6, EndCompactInv
  <2> QED
    BY <2>1, <2>2 DEF IsClosureAt
<1> QED
  BY <1>1, <1>2, <1>3, <1>4, <1>5, <1>6 DEF Collector

\* It leaves the stack its height and the request what it is.
LEMMA CollectorLeaves ==
  ASSUME Inv, Collector, pc' # "run"
  PROVE  Depth' = Depth /\ req' = req /\ pc \notin {"run", "exited"}
<1>1. Inv'
  BY NextInv DEF Next
<1>2. pc' # "crashed" /\ stack \in Seq(Nat) /\ stack' \in Seq(Nat)
  BY <1>1 DEF Inv, Types
<1>3. CASE AllocOnExistingHeap \/ AllocAfterGC
  BY <1>2, <1>3 DEF AllocOnExistingHeap, AllocAfterGC, Place, Crash
<1>4. CASE StartGC \/ EndMark \/ Remap \/ RemapFails \/ EndCompact
  BY <1>4 DEF StartGC, EndMark, Remap, RemapFails, EndCompact, Depth
<1>5. CASE MarkRoot \/ Dequeue \/ ScanField
  BY <1>2, <1>5 DEF MarkRoot, Dequeue, ScanField, GCStep, Enqueue, Crash, Depth
<1>6. CASE Locate \/ Update \/ Relocate
  BY <1>2, <1>6 DEF Locate, Update, Relocate, Crash, Depth
<1>7. CASE FixRoots
  <2>1. pc = "update" /\ req' = req /\ stack' = [k \in DOMAIN stack |-> Fix(stack[k])]
    BY <1>2, <1>7 DEF FixRoots, Crash
  <2>2. DOMAIN stack' = DOMAIN stack
    BY <2>1
  <2>3. Len(stack') = Len(stack)
    BY <1>2, <2>2
  <2> QED
    BY <2>1, <2>3 DEF Depth
<1> QED
  BY <1>3, <1>4, <1>5, <1>6, <1>7 DEF Collector

\* The words of a frame lie within the stack, and its closure does above the
\* globals and below its arguments.
LEMMA FrameIs ==
  ASSUME Inv, Nested, NEW i \in DOMAIN frames
  PROVE  LET f == frames[i]
             n == Len(frames)
         IN  /\ n \in DOMAIN frames /\ Floor \in Nat
             /\ req.used \in Nat /\ Depth \in Nat /\ Floor <= Depth - req.used
             /\ f.base \in Nat /\ f.args \in Nat /\ f.locals \in Nat /\ f.closure \in {0, 1}
             /\ f.base + f.locals <= Floor
             /\ f.closure = 1 =>
                  /\ ClosureOf(i) \in 1..Floor /\ ClosureOf(i) \in DOMAIN stack
                  /\ ClosureOf(i) > Globals
<1>1. PICK n \in Nat : n = Len(frames) /\ n > 0 /\ n \in DOMAIN frames /\ DOMAIN frames = 1..n
  BY DEF Nested
<1>2. PICK f, t : f = frames[i] /\ t = frames[n]
  OBVIOUS
<1>3. f \in Frame /\ t \in Frame /\ Floor = t.base + t.locals
  BY <1>1, <1>2 DEF Nested, Floor, Top_frame
<1>4. PICK d \in Nat, u \in Nat : d = Depth /\ u = req.used /\ d = Len(stack)
  <2>1. Depth \in Nat /\ Depth = Len(stack)
    BY DEF Inv, Types, Depth
  <2>2. req.used \in Nat
    BY DEF Inv, Requested, Idle
  <2> QED
    BY <2>1, <2>2
<1>5. t.base + t.locals <= d - u /\ Globals <= f.base - f.args - f.closure
  BY <1>1, <1>2, <1>4 DEF Nested
<1>6. i # n => f.base + f.locals <= t.base - t.args - t.closure
  <2>1. i # n => i < n
    BY <1>1
  <2> QED
    BY <1>1, <1>2, <2>1 DEF Nested
<1>7. PICK b \in Nat, a \in Nat, l \in Nat, c \in {0, 1} :
        b = f.base /\ a = f.args /\ l = f.locals /\ c = f.closure
  BY <1>3 DEF Frame
<1>8. PICK e \in Nat, x \in Nat, m \in Nat, s \in {0, 1} :
        e = t.base /\ x = t.args /\ m = t.locals /\ s = t.closure
  BY <1>3 DEF Frame
<1>9. b + l <= e + m
  <2>1. CASE i = n
    BY <1>2, <1>7, <1>8, <2>1
  <2>2. CASE i # n
    <3>1. b + l <= e - x - s
      BY <1>6, <1>7, <1>8, <2>2
    <3> QED
      BY <3>1
  <2> QED
    BY <2>1, <2>2
<1>10. Globals \in Nat /\ Globals <= b - a - c /\ e + m <= d - u
  BY <1>5, <1>7, <1>8, FramesAssumption
<1>11. c = 1 => b - a \in 1..(e + m) /\ b - a > Globals /\ b - a \in 1..d
  BY <1>9, <1>10
<1>12. DOMAIN stack = 1..d
  BY <1>4 DEF Inv, Types
<1>13. Floor = e + m /\ e + m \in Nat
  BY <1>3, <1>8
<1>14. /\ f.base \in Nat /\ f.args \in Nat /\ f.locals \in Nat /\ f.closure \in {0, 1}
       /\ f.base + f.locals <= Floor
  BY <1>7, <1>9, <1>13
<1>15. ClosureOf(i) = b - a
  BY <1>2, <1>7 DEF ClosureOf
<1>16. f.closure = 1 =>
         /\ ClosureOf(i) \in 1..Floor /\ ClosureOf(i) \in DOMAIN stack
         /\ ClosureOf(i) > Globals
  BY <1>7, <1>11, <1>12, <1>13, <1>15
<1>17. req.used \in Nat /\ Depth \in Nat /\ Floor <= Depth - req.used
  BY <1>4, <1>10, <1>13
<1> QED
  BY <1>1, <1>2, <1>13, <1>14, <1>16, <1>17

\* A step that leaves the call stack needs no more than this.
LEMMA FramesLeft ==
  ASSUME Nested, Called, UNCHANGED frames, pc # "exited",
         \A i \in DOMAIN frames : frames[i].base + frames[i].locals <= Depth' - req'.used,
         pc' # "exited" =>
           \A i \in DOMAIN frames :
             frames[i].closure = 1 /\ IsClosureAt(ClosureOf(i)) => IsClosureAt(ClosureOf(i))'
  PROVE  Nested' /\ Called'
<1>1. Nested'
  BY DEF Nested
<1>2. ASSUME NEW i \in DOMAIN frames, pc' # "exited", frames[i].closure = 1
      PROVE  IsClosureAt(ClosureOf(i))'
  BY <1>2 DEF Called
<1>3. Called'
  BY <1>2 DEF Called
<1> QED
  BY <1>1, <1>3

\* An operation that changes no word below the floor of its frame.
LEMMA FrameKept ==
  ASSUME Inv, Inv', Nested, Called, UNCHANGED frames,
         pc \in {"run", "alloc", "place"}, pc' \in {"run", "alloc"},
         heap'.begin = heap.begin,
         \A a \in DOMAIN mem : a \in DOMAIN mem' /\ mem'[a].kind = mem[a].kind,
         Floor <= Depth' - req'.used,
         \A k \in 1..Floor : stack'[k] = stack[k]
  PROVE  Nested' /\ Called'
<1>1. PICK d \in Int : d = Depth' - req'.used
  <2>1. Depth' \in Nat
    BY DEF Inv, Types, Depth
  <2>2. req'.used \in Nat
    BY DEF Inv, Requested, Idle
  <2> QED
    BY <2>1, <2>2
<1>2. ASSUME NEW i \in DOMAIN frames
      PROVE  frames[i].base + frames[i].locals <= Depth' - req'.used
  <2>1. PICK e \in Nat, b \in Int : e = Floor /\ b = frames[i].base + frames[i].locals /\ b <= e
    BY FrameIs
  <2> QED
    BY <1>1, <2>1
<1>3. ASSUME NEW i \in DOMAIN frames, frames[i].closure = 1, IsClosureAt(ClosureOf(i))
      PROVE  IsClosureAt(ClosureOf(i))'
  <2>1. PICK k \in 1..Floor : k = ClosureOf(i)
    BY <1>3, FrameIs
  <2>2. ClosureWord(heap, mem, stack[k])
    BY <1>3, <2>1 DEF IsClosureAt
  <2>3. ClosureWord(heap', mem', stack'[k])
    BY <2>2, ClosureStays
  <2>4. ClosureOf(i)' = k
    BY <2>1 DEF ClosureOf
  <2> QED
    BY <2>3, <2>4 DEF IsClosureAt
<1> QED
  BY <1>2, <1>3, FramesLeft

\* the objects m after word w is stored to field k of the object at off
Stored(m, off, k, w) == [m EXCEPT ![off].fields[k] = w]

\* That leaves every object its kind.
LEMMA StoredShapes ==
  ASSUME NEW m, \A a \in DOMAIN m : m[a] \in Object, NEW off, NEW k, NEW w
  PROVE  \A a \in DOMAIN m : /\ a \in DOMAIN Stored(m, off, k, w)
                            /\ Stored(m, off, k, w)[a].kind = m[a].kind
<1>1. PICK ws : ws = [m[off].fields EXCEPT ![k] = w]
  OBVIOUS
<1>2. Stored(m, off, k, w) = [m EXCEPT ![off] = [m[off] EXCEPT !.fields = ws]]
  BY <1>1 DEF Stored
<1> QED
  BY <1>2 DEF Object

\* No operation of the program moves an object or makes another one of it.
LEMMA MutatorShapes ==
  ASSUME Inv, Mutator
  PROVE  /\ pc = "run" /\ pc' \in {"run", "alloc"} /\ heap' = heap
         /\ \A a \in DOMAIN mem : a \in DOMAIN mem' /\ mem'[a].kind = mem[a].kind
<1>1. pc' # "crashed"
  <2>1. Inv'
    BY NextInv DEF Next
  <2> QED
    BY <2>1 DEF Inv, Types
<1>2. ASSUME NEW r, NEW st, NEW roots, Request(r, st, roots)
      PROVE  pc = "run" /\ pc' = "alloc" /\ heap' = heap /\ mem' = mem
  BY <1>2 DEF Request
<1>3. CASE \E s \in Shapes : Make(s[1], s[2])
  BY <1>2, <1>3 DEF Make
<1>4. CASE \E s \in Shapes :
             s[1] = "STRING" /\ (Bstring(s[2]) \/ Lstring(s[2]) \/ Lsubstring(s[2]))
  BY <1>1, <1>2, <1>4 DEF Bstring, Lstring, Lsubstring, Crash
<1>5. CASE Lclone \/ Lstrcat
  BY <1>1, <1>2, <1>5 DEF Lclone, Lstrcat, Crash
<1>6. CASE Const \/ Dup \/ Drop \/ Swap
  BY <1>6 DEF Const, Dup, Push, Drop, Swap, StackOp
<1>7. CASE (\E n \in 1..2 : Compute(n)) \/ Inspect \/ StringPatt
  BY <1>1, <1>7 DEF Compute, Inspect, StringPatt, StackOp, Crash
<1>8. CASE \E k \in 1..MaxLen : Elem(k)
  BY <1>1, <1>8 DEF Elem, StackOp, Crash
<1>9. CASE \E k \in 1..MaxLen : StA(k)
  <2>1. PICK k : StA(k)
    BY <1>9
  <2>2. PICK off : off = HeaderOf(heap, stack[Depth-2])
    OBVIOUS
  <2>3. /\ pc = "run" /\ pc' = "run" /\ heap' = heap
        /\ mem' = mem \/ mem' = Stored(mem, off, k, Top)
    BY <1>1, <2>1, <2>2 DEF StA, Crash, Stored
  <2>4. \A a \in DOMAIN mem : mem[a] \in Object
    BY DEF Inv, Types, ObjectOK
  <2> QED
    BY <2>3, <2>4, StoredShapes
<1> QED
  BY <1>3, <1>4, <1>5, <1>6, <1>7, <1>8, <1>9 DEF Mutator

\* An operation of the program, in its frame.
LEMMA OperationInFrame ==
  ASSUME Inv, Inv', Nested, Called, UNCHANGED frames, pc = "run", pc' \in {"run", "alloc"},
         heap' = heap, \A a \in DOMAIN mem : a \in DOMAIN mem' /\ mem'[a].kind = mem[a].kind,
         Len(stack') >= Floor, Below(stack') = Below(stack), req'.used <= Len(stack') - Floor
  PROVE  Nested' /\ Called'
<1>1. PICK n \in Nat, e \in Nat, u \in Nat :
        n = Len(stack') /\ e = Floor /\ u = req'.used /\ e <= n /\ u <= n - e
  <2>1. Len(stack') \in Nat
    BY DEF Inv, Types
  <2>2. req'.used \in Nat
    BY DEF Inv, Requested, Idle
  <2>3. Floor \in Nat
    BY FrameIs DEF Nested
  <2> QED
    BY <2>1, <2>2, <2>3
<1>2. Depth' = n
  BY <1>1 DEF Depth
<1>3. Floor <= Depth' - req'.used
  BY <1>1, <1>2
<1>4. stack \in Seq(Nat) /\ stack' \in Seq(Nat)
  BY DEF Inv, Types
<1>5. e <= Len(stack)
  <2>1. 1 \in DOMAIN frames
    BY DEF Nested
  <2>2. PICK d \in Nat, v \in Nat : d = Depth /\ v = req.used /\ Floor <= d - v
    BY <2>1, FrameIs
  <2> QED
    BY <1>1, <2>2 DEF Depth
<1>6. ASSUME NEW k \in 1..e
      PROVE  stack'[k] = stack[k]
  <2>1. SubSeq(stack', 1, e)[k] = stack'[k] /\ SubSeq(stack, 1, e)[k] = stack[k]
    BY <1>1, <1>4, <1>5
  <2>2. SubSeq(stack', 1, e) = SubSeq(stack, 1, e)
    <3>1. Below(stack') = SubSeq(stack', 1, e) /\ Below(stack) = SubSeq(stack, 1, e)
      BY <1>1 DEF Below
    <3> QED
      BY <3>1
  <2> QED
    BY <2>1, <2>2
<1>7. \A k \in 1..Floor : stack'[k] = stack[k]
  BY <1>1, <1>6
<1> QED
  BY <1>3, <1>7, FrameKept

\* The end of an allocation pushes above the frame's floor.
LEMMA PlaceInFrame ==
  ASSUME Inv, Nested, Called, UNCHANGED frames, pc \in {"alloc", "place"}, Fits, Place
  PROVE  Inv' /\ Nested' /\ Called'
<1>1. Inv'
  BY PlaceInv
<1>2. PICK o : o = [kind |-> req.kind, len |-> req.len, id |-> nextid, fields |-> Contents,
                    fwd |-> 0, marked |-> FALSE, enqueued |-> FALSE]
  OBVIOUS
<1>3. /\ Grown(heap, mem, heap', mem', heap.current, o)
      /\ stack' = Append(Lower(req.used), Content(heap, heap.current))
      /\ Content(heap, heap.current) \in Nat
      /\ req.used \in Nat /\ req.used <= Depth /\ pc' = "run" /\ req' = Idle
  BY <1>2, PlaceGrows
<1>4. PICK w \in Nat, u \in Nat : w = Content(heap, heap.current) /\ u = req.used
  BY <1>3
<1>5. stack \in Seq(Nat)
  BY DEF Inv, Types
<1>6. PICK d \in Nat, e \in Nat : d = Depth /\ e = Floor /\ e <= d - u
  <2>1. 1 \in DOMAIN frames
    BY DEF Nested
  <2> QED
    BY <1>4, <2>1, FrameIs
<1>7. PICK low \in Seq(Nat) :
        low = Lower(u) /\ Len(low) = d - u /\ \A k \in 1..d - u : low[k] = stack[k]
  <2>1. u <= Depth
    BY <1>3, <1>4
  <2> QED
    BY <1>4, <1>5, <1>6, <2>1, LowerType
<1>8. /\ stack' = Append(low, w) /\ Len(stack') = d - u + 1
      /\ \A k \in 1..d - u : stack'[k] = stack[k]
  <2>1. stack' = Append(low, w)
    BY <1>3, <1>4, <1>7
  <2>2. Len(Append(low, w)) = Len(low) + 1 /\ \A k \in 1..Len(low) : Append(low, w)[k] = low[k]
    BY <1>4, <1>7, Appended
  <2> QED
    BY <1>7, <2>1, <2>2
<1>9. \A k \in 1..e : k \in 1..d - u
  BY <1>4, <1>6
<1>10. \A k \in 1..Floor : stack'[k] = stack[k]
  BY <1>6, <1>8, <1>9
<1>11. Floor <= Depth' - req'.used
  <2>1. Depth' = d - u + 1 /\ req'.used = 0
    BY <1>3, <1>8 DEF Depth, Idle
  <2> QED
    BY <1>4, <1>6, <2>1
<1>12. /\ heap'.begin = heap.begin
       /\ \A a \in DOMAIN mem : a \in DOMAIN mem' /\ mem'[a].kind = mem[a].kind
  BY <1>3 DEF Grown
<1> QED
  BY <1>1, <1>3, <1>10, <1>11, <1>12, FrameKept

\* The steps of the collector in the middle of an allocation leave the frames
\* nested and the closures in their slots.
LEMMA CollectorInFrame ==
  ASSUME Inv, Nested, Called, UNCHANGED frames, Collector, pc' # "run"
  PROVE  Inv' /\ Nested' /\ Called'
<1>1. Inv'
  BY NextInv DEF Next
<1>2. Depth' = Depth /\ req' = req /\ pc \notin {"run", "exited"}
  BY CollectorLeaves
<1>3. pc' # "crashed"
  BY <1>1 DEF Inv, Types
<1>4. \A i \in DOMAIN frames : frames[i].base + frames[i].locals <= Depth' - req'.used
  BY <1>2 DEF Nested
<1>5. ASSUME pc' # "exited", NEW i \in DOMAIN frames,
             frames[i].closure = 1, IsClosureAt(ClosureOf(i))
      PROVE  IsClosureAt(ClosureOf(i))'
  <2>1. PICK k \in DOMAIN stack : k = ClosureOf(i)
    BY <1>5, FrameIs
  <2>2. IsClosureAt(k)'
    BY <1>3, <1>5, <2>1, CollectorLeavesClosure
  <2>3. ClosureOf(i)' = k
    BY <2>1 DEF ClosureOf
  <2> QED
    BY <2>2, <2>3 DEF IsClosureAt
<1> QED
  BY <1>1, <1>2, <1>4, <1>5, FramesLeft

\* Nothing is lost while nothing happens.
LEMMA HeapRests ==
  ASSUME Inv, Nested, Called, UNCHANGED frames, UNCHANGED vars
  PROVE  Inv' /\ Nested' /\ Called'
<1>1. Inv' /\ FutureKept
  BY NextInv, NothingMoves
<1>2. UNCHANGED <<heap, mem, stack, pc, req>>
  BY DEF vars
<1>3. Depth' = Depth
  BY <1>2 DEF Depth
<1>4. ASSUME NEW i \in DOMAIN frames, IsClosureAt(ClosureOf(i))
      PROVE  IsClosureAt(ClosureOf(i))'
  <2>1. ClosureOf(i)' = ClosureOf(i)
    BY DEF ClosureOf
  <2> QED
    BY <1>1, <1>2, <1>4, <2>1 DEF IsClosureAt, FutureKept
<1>5. Nested'
  BY <1>2, <1>3 DEF Nested
<1>6. Called'
  BY <1>2, <1>4 DEF Called
<1> QED
  BY <1>1, <1>5, <1>6

\* A step of the heap, in the frame of the function that runs.
LEMMA HeapInFrame ==
  ASSUME Inv, Nested, Called, InFrame(Next)
  PROVE  Inv' /\ Nested' /\ Called'
<1>1. /\ Next /\ UNCHANGED frames
      /\ pc = "run" => /\ Len(stack') >= Floor /\ Below(stack') = Below(stack)
                       /\ req'.used <= Len(stack') - Floor
  BY DEF InFrame
<1>2. CASE Mutator
  <2>1. Inv'
    BY <1>1, NextInv
  <2>2. /\ pc = "run" /\ pc' \in {"run", "alloc"} /\ heap' = heap
        /\ \A a \in DOMAIN mem : a \in DOMAIN mem' /\ mem'[a].kind = mem[a].kind
    BY <1>2, MutatorShapes
  <2> QED
    BY <1>1, <2>1, <2>2, OperationInFrame
<1>3. CASE Collector /\ pc' # "run"
  BY <1>1, <1>3, CollectorInFrame
<1>4. CASE Collector /\ pc' = "run"
  BY <1>1, <1>4, Placing, PlaceInFrame
<1>5. CASE Stopped
  BY <1>1, <1>5, HeapRests DEF Stopped
<1> QED
  BY <1>1, <1>2, <1>3, <1>4, <1>5 DEF Next

\* Lwrite leaves a 0 for the value that it prints.
LEMMA LwriteInFrame ==
  ASSUME Inv, Nested, Called, InFrame(Lwrite)
  PROVE  Inv' /\ Nested' /\ Called'
<1>1. /\ pc = "run" /\ Depth > 0 /\ StackOp(Append(Lower(1), 0)) /\ UNCHANGED frames
      /\ Len(stack') >= Floor /\ Below(stack') = Below(stack)
      /\ req'.used <= Len(stack') - Floor
  BY DEF InFrame, Lwrite
<1>2. 0 \in Nat /\ Word(heap, mem, 0)
  BY DEF Word
<1>3. 1 <= Depth
  BY <1>1, Running
<1>4. Inv'
  BY <1>1, <1>2, <1>3, PopsInv
<1>5. pc' = "run" /\ heap' = heap /\ mem' = mem
  BY <1>1 DEF StackOp
<1> QED
  BY <1>1, <1>4, <1>5, OperationInFrame

-----------------------------------------------------------------------------
(***************************************************************************)
(* The variables of a frame.                                               *)
(***************************************************************************)
\* The closure of a frame is one.
LEMMA ClosureIs ==
  ASSUME Inv, Nested, Called, pc = "run", NEW i \in DOMAIN frames, frames[i].closure = 1
  PROVE  LET c == stack[ClosureOf(i)] IN
         /\ IsObj(heap, c) /\ HeaderOf(heap, c) \in DOMAIN mem
         /\ mem[HeaderOf(heap, c)].kind = "CLOSURE"
<1>1. PICK c : c = stack[ClosureOf(i)] /\ ClosureWord(heap, mem, c)
  BY DEF Called, IsClosureAt
<1>2. PICK off \in DOMAIN mem : c = Content(heap, off) /\ mem[off].kind = "CLOSURE"
  BY <1>1 DEF ClosureWord
<1>3. heap \in Chunk /\ Sound(heap, mem)
  BY Running
<1>4. Names(heap, mem, c) /\ HeaderOf(heap, c) = off
  BY <1>2, <1>3, NamesObject DEF Sound
<1> QED
  BY <1>1, <1>2, <1>4 DEF IsObj

\* A word is pushed.
LEMMA PushInFrame ==
  ASSUME Inv, Nested, Called, UNCHANGED frames, pc = "run",
         NEW w \in Nat, Word(heap, mem, w), Push(w)
  PROVE  Inv' /\ Nested' /\ Called'
<1>1. stack \in Seq(Nat) /\ req = Idle
  BY Running
<1>2. Lower(0) = stack /\ Depth \in Nat
  BY <1>1, NothingDropped DEF Depth
<1>3. Depth < VSTACK_SIZE - 1 /\ StackOp(Append(stack, w))
  BY DEF Push
<1>4. 0 <= Depth /\ Depth - 0 < VSTACK_SIZE - 1
  BY <1>2, <1>3
<1>5. Inv'
  BY <1>2, <1>3, <1>4, PushInv
<1>6. pc' = "run" /\ heap' = heap /\ mem' = mem /\ req' = Idle /\ stack' = Append(stack, w)
  BY <1>1, <1>3 DEF StackOp
<1>7. PICK d \in Nat, e \in Nat : d = Depth /\ e = Floor /\ e <= d
  <2>1. 1 \in DOMAIN frames
    BY DEF Nested
  <2>2. PICK d \in Nat, e \in Nat, u \in Nat : d = Depth /\ e = Floor /\ u = req.used /\ e <= d - u
    BY <2>1, FrameIs
  <2> QED
    BY <2>2
<1>8. Depth' = d + 1 /\ \A k \in 1..e : stack'[k] = stack[k]
  <2>1. Len(stack') = d + 1
    BY <1>1, <1>6, <1>7, Appended DEF Depth
  <2>2. \A k \in 1..Len(stack) : stack'[k] = stack[k]
    BY <1>1, <1>6, Appended
  <2>3. \A k \in 1..e : k \in 1..Len(stack)
    BY <1>7 DEF Depth
  <2> QED
    BY <2>1, <2>2, <2>3 DEF Depth
<1>9. Floor <= Depth' - req'.used
  <2>1. req'.used = 0
    BY <1>6 DEF Idle
  <2> QED
    BY <1>7, <1>8, <2>1
<1>10. \A k \in 1..Floor : stack'[k] = stack[k]
  BY <1>7, <1>8
<1> QED
  BY <1>5, <1>6, <1>9, <1>10, FrameKept

\* A variable of the stack has a word of its own, which is no active closure.
LEMMA VariableAt ==
  ASSUME Inv, Nested, NEW p \in Locations
  PROVE  /\ p \in DOMAIN stack
         /\ \A i \in DOMAIN frames : frames[i].closure = 1 => ClosureOf(i) # p
<1>1. PICK n \in Nat : n = Len(frames) /\ n \in DOMAIN frames /\ DOMAIN frames = 1..n
  BY DEF Nested
<1>2. PICK t : t = frames[n] /\ t = Top_frame
  BY <1>1 DEF Top_frame
<1>3. PICK b \in Nat, a \in Nat, l \in Nat, c \in {0, 1} :
        b = t.base /\ a = t.args /\ l = t.locals /\ c = t.closure
  BY <1>1, <1>2, FrameIs
<1>4. PICK d \in Nat : d = Len(stack) /\ DOMAIN stack = 1..d /\ b + l <= d
  <2>1. PICK e \in Nat, u \in Nat, x \in Nat :
          e = Depth /\ u = req.used /\ x = Floor /\ x <= e - u
    BY <1>1, FrameIs
  <2>2. stack \in Seq(Nat)
    BY DEF Inv, Types
  <2>3. x = b + l
    BY <1>2, <1>3, <2>1 DEF Floor
  <2> QED
    BY <2>1, <2>2, <2>3 DEF Depth
<1>5. Globals \in Nat /\ Globals <= b - a - c
  BY <1>1, <1>2, <1>3, FramesAssumption DEF Nested
<1>6. ASSUME NEW i \in DOMAIN frames, frames[i].closure = 1
      PROVE  ClosureOf(i) \in Int /\ ClosureOf(i) > Globals /\ ClosureOf(i) <= b - a
  <2>1. ClosureOf(i) > Globals /\ ClosureOf(i) \in 1..Floor
    BY <1>6, FrameIs
  <2>2. PICK y \in Nat, z \in Nat, m \in Nat :
          y = frames[i].base /\ z = frames[i].args /\ m = frames[i].locals
    BY FrameIs
  <2>3. CASE i = n
    <3>1. ClosureOf(i) = y - z /\ y = b /\ z = a
      BY <1>2, <1>3, <2>2, <2>3 DEF ClosureOf
    <3> QED
      BY <2>1, <3>1
  <2>4. CASE i # n
    <3>1. i < n
      BY <1>1, <2>4
    <3>2. y + m <= b - a - c
      BY <1>1, <1>2, <1>3, <2>2, <3>1 DEF Nested
    <3>3. y - z <= b - a
      BY <2>2, <3>2
    <3> QED
      BY <2>1, <2>2, <3>3 DEF ClosureOf
  <2> QED
    BY <2>3, <2>4
<1>7. CASE p \in {GlobalAt(j) : j \in 0..Globals-1}
  <2>1. PICK j \in 0..Globals-1 : p = 1 + j
    BY <1>7 DEF GlobalAt
  <2>2. p \in 1..d /\ p <= Globals
    BY <1>4, <1>5, <2>1
  <2> QED
    BY <1>4, <1>5, <1>6, <2>2
<1>8. CASE p \in {LocalAt(j) : j \in 0..Top_frame.locals-1}
  <2>1. PICK j \in 0..l-1 : p = b + 1 + j
    BY <1>2, <1>3, <1>8 DEF LocalAt
  <2>2. p \in 1..d /\ p > b - a
    BY <1>4, <2>1
  <2> QED
    BY <1>3, <1>4, <1>6, <2>2
<1>9. CASE p \in {ArgAt(j) : j \in 0..Top_frame.args-1}
  <2>1. PICK j \in 0..a-1 : p = b - a + 1 + j
    BY <1>2, <1>3, <1>9 DEF ArgAt
  <2>2. p \in 1..d /\ p > b - a
    BY <1>4, <1>5, <2>1
  <2> QED
    BY <1>3, <1>4, <1>6, <2>2
<1> QED
  BY <1>7, <1>8, <1>9 DEF Locations

\* Ld and St of a global, a local or an argument.
LEMMA VariableStep ==
  ASSUME Inv, Nested, Called, UNCHANGED frames, pc = "run", NEW p \in Locations,
         Ld(p) \/ St(p)
  PROVE  Inv' /\ Nested' /\ Called'
<1>1. p \in DOMAIN stack
  BY VariableAt
<1>2. stack \in Seq(Nat) /\ Depth \in Nat /\ Depth < VSTACK_SIZE /\ req = Idle
      /\ \A k \in DOMAIN stack : stack[k] \in Nat /\ Word(heap, mem, stack[k])
  BY Running DEF Inv, Types
<1>3. CASE Ld(p)
  <2>1. PICK w \in Nat : w = stack[p] /\ Word(heap, mem, w)
    BY <1>1, <1>2
  <2> QED
    BY <1>3, <2>1, PushInFrame DEF Ld
<1>4. CASE St(p)
  <2>1. PICK w \in Nat : w = Top /\ Word(heap, mem, w)
    <3>1. Depth > 0
      <4>1. 1 \in DOMAIN frames
        BY DEF Nested
      <4>2. Floor \in Nat
        BY <4>1, FrameIs
      <4> QED
        BY <1>2, <1>4, <4>2 DEF St
    <3>2. Depth \in DOMAIN stack
      BY <1>2, <3>1 DEF Depth
    <3> QED
      BY <1>2, <3>2 DEF Top
  <2>2. PICK st : st = [stack EXCEPT ![p] = w]
    OBVIOUS
  <2>3. /\ st \in Seq(Nat) /\ Len(st) = Depth /\ DOMAIN st = DOMAIN stack
        /\ \A k \in DOMAIN stack : st[k] = IF k = p THEN w ELSE stack[k]
    BY <1>1, <1>2, <2>1, <2>2 DEF Depth
  <2>4. StackOp(st)
    BY <1>4, <2>1, <2>2 DEF St
  <2>5. \A k \in DOMAIN st : Word(heap, mem, st[k])
    BY <1>2, <2>1, <2>3
  <2>6. Inv'
    BY <1>2, <2>3, <2>4, <2>5, StackOpInv
  <2>7. pc' = "run" /\ heap' = heap /\ mem' = mem /\ req' = req /\ stack' = st
    BY <2>4 DEF StackOp
  <2>8. Depth' = Depth
    BY <2>3, <2>7 DEF Depth
  <2>9. \A i \in DOMAIN frames : frames[i].base + frames[i].locals <= Depth' - req'.used
    BY <2>7, <2>8 DEF Nested
  <2>10. ASSUME NEW i \in DOMAIN frames, frames[i].closure = 1, IsClosureAt(ClosureOf(i))
         PROVE  IsClosureAt(ClosureOf(i))'
    <3>1. PICK k \in DOMAIN stack : k = ClosureOf(i) /\ k # p
      BY <2>10, FrameIs, VariableAt
    <3>2. st[k] = stack[k] /\ ClosureOf(i)' = k
      BY <2>3, <3>1 DEF ClosureOf
    <3> QED
      BY <2>7, <2>10, <3>1, <3>2 DEF IsClosureAt
  <2> QED
    BY <2>6, <2>9, <2>10, FramesLeft
<1> QED
  BY <1>3, <1>4

\* A word that is stored to a captured variable leaves a sound heap.
LEMMA CapturedInv ==
  ASSUME Inv, pc = "run", NEW off \in DOMAIN mem, NEW k \in DOMAIN mem[off].fields,
         NEW w \in Nat, Word(heap, mem, w), mem' = Stored(mem, off, k, w),
         UNCHANGED <<heap, stack, xroots, nextid, pc, req, gc>>
  PROVE  Inv'
<1>1. Types /\ Requested /\ Quiet /\ req = Idle /\ Sound(heap, mem) /\ Unflagged(mem)
  BY Running DEF Inv
<1>2. \A a \in DOMAIN mem : ObjectOK(mem[a])
  BY <1>1 DEF Sound
<1>3. mem' = [mem EXCEPT ![off] = [mem[off] EXCEPT !.fields[k] = w]]
  BY DEF Stored
<1>4. /\ DOMAIN mem' = DOMAIN mem
      /\ mem'[off] = [mem[off] EXCEPT !.fields[k] = w]
      /\ \A a \in DOMAIN mem \ {off} : mem'[a] = mem[a]
  BY <1>3
<1>5. /\ ObjectOK(mem'[off])
      /\ mem'[off].kind = mem[off].kind /\ mem'[off].len = mem[off].len
      /\ mem'[off].id = mem[off].id
      /\ mem'[off].marked = mem[off].marked /\ mem'[off].enqueued = mem[off].enqueued
      /\ DOMAIN mem'[off].fields = DOMAIN mem[off].fields
      /\ \A j \in DOMAIN mem[off].fields :
           mem'[off].fields[j] = IF j = k THEN w ELSE mem[off].fields[j]
  BY <1>2, <1>4, FieldStored
<1>6. SameShape(mem, mem')
  BY <1>2, <1>4, <1>5 DEF SameShape
<1>7. Unflagged(mem')
  BY <1>1, <1>4, <1>5 DEF Unflagged
<1>8. \A a \in DOMAIN mem : \A j \in DOMAIN mem[a].fields : Word(heap, mem, mem[a].fields[j])
  BY <1>1 DEF Sound
<1>9. ASSUME NEW a \in DOMAIN mem, NEW j \in DOMAIN mem'[a].fields
      PROVE  Word(heap, mem, mem'[a].fields[j])
  BY <1>4, <1>5, <1>8, <1>9
<1>10. Sound(heap, mem')
  BY <1>1, <1>6, <1>9, SoundKept
<1>11. Rooted(heap, mem', stack, xroots, req)
  BY <1>1, <1>6, ShapesKept DEF Quiet
<1>12. Types'
  <2>1. \A a \in DOMAIN mem' : ObjectOK(mem'[a]) /\ mem'[a].id < nextid
    BY <1>1, <1>6 DEF SameShape, Types
  <2>2. DOMAIN mem' \subseteq Nat
    BY <1>1, <1>6 DEF Types, SameShape
  <2> QED
    BY <1>1, <2>1, <2>2 DEF Types, Depth
<1>13. Requested' /\ Quiet'
  BY <1>1, <1>7, <1>10, <1>11 DEF Requested, Quiet, Sound, Rooted, Unflagged
<1> QED
  BY <1>12, <1>13 DEF Inv, Marking, Locating, Moving, Compacted

\* The variables that a closure has captured.
LEMMA CapturedStep ==
  ASSUME Inv, Nested, Called, UNCHANGED frames, pc = "run", NEW k,
         LdCaptured(k) \/ StCaptured(k)
  PROVE  Inv' /\ Nested' /\ Called'
<1>1. PICK n \in DOMAIN frames : frames[n] = Top_frame /\ frames[n].closure = 1
  <2>1. Top_frame.closure = 1
    BY DEF LdCaptured, StCaptured
  <2>2. Len(frames) \in DOMAIN frames
    BY DEF Nested
  <2> QED
    BY <2>1, <2>2 DEF Top_frame
<1>2. stack[ClosureOf(n)] = Closure
  BY <1>1 DEF ClosureOf, Closure
<1>3. PICK off \in DOMAIN mem : off = HeaderOf(heap, Closure) /\ IsObj(heap, Closure)
  BY <1>1, <1>2, ClosureIs
<1>4. /\ Sound(heap, mem) /\ stack \in Seq(Nat) /\ Depth \in Nat /\ req = Idle
      /\ \A j \in DOMAIN stack : stack[j] \in Nat /\ Word(heap, mem, stack[j])
  BY Running
<1>5. /\ mem[off].fields \in Seq(Nat)
      /\ \A j \in DOMAIN mem[off].fields : Word(heap, mem, mem[off].fields[j])
  BY <1>4, ObjectType DEF Sound
<1>6. CASE LdCaptured(k)
  <2>1. k \in DOMAIN mem[off].fields /\ Push(mem[off].fields[k])
    BY <1>3, <1>6 DEF LdCaptured
  <2>2. PICK w \in Nat : w = mem[off].fields[k] /\ Word(heap, mem, w)
    BY <1>5, <2>1
  <2> QED
    BY <2>1, <2>2, PushInFrame
<1>7. CASE StCaptured(k)
  <2>1. /\ k \in DOMAIN mem[off].fields /\ Depth > Floor
        /\ mem' = Stored(mem, off, k, Top)
        /\ UNCHANGED <<heap, stack, xroots, nextid, pc, req, gc>>
    BY <1>3, <1>7 DEF StCaptured, Stored
  <2>2. Floor \in Nat /\ req.used \in Nat /\ Floor <= Depth - req.used
    BY <1>1, FrameIs
  <2>3. PICK w \in Nat : w = Top /\ Word(heap, mem, w)
    <3>1. Depth \in DOMAIN stack
      BY <1>4, <2>1, <2>2 DEF Depth
    <3> QED
      BY <1>4, <3>1 DEF Top
  <2>4. Inv'
    BY <2>1, <2>3, CapturedInv
  <2>5. \A a \in DOMAIN mem : a \in DOMAIN mem' /\ mem'[a].kind = mem[a].kind
    <3>1. \A a \in DOMAIN mem : mem[a] \in Object
      BY DEF Inv, Types, ObjectOK
    <3> QED
      BY <2>1, <3>1, StoredShapes
  <2>6. Depth' = Depth
    BY <2>1 DEF Depth
  <2>7. Floor <= Depth' - req'.used
    BY <2>1, <2>2, <2>6
  <2>8. \A j \in 1..Floor : stack'[j] = stack[j]
    BY <2>1
  <2> QED
    BY <2>1, <2>4, <2>5, <2>7, <2>8, FrameKept
<1> QED
  BY <1>6, <1>7

-----------------------------------------------------------------------------
(***************************************************************************)
(* Calls.                                                                  *)
(***************************************************************************)
\* A call puts a frame on the call stack, and leaves the virtual stack.
LEMMA EnterStep ==
  ASSUME Inv, Nested, Called, pc = "run", NEW a \in Nat, NEW c \in {0, 1},
         a + c <= Depth - Floor, Enter(a, 0, c),
         c = 1 => ClosureWord(heap, mem, stack[Depth - a])
  PROVE  Inv' /\ Nested' /\ Called'
<1>1. PICK n \in Nat : n = Len(frames) /\ n > 0 /\ n \in DOMAIN frames /\ DOMAIN frames = 1..n
  BY DEF Nested
<1>2. PICK d \in Nat, e \in Nat : d = Depth /\ e = Floor /\ a + c <= d - e
  BY <1>1, FrameIs
<1>3. stack \in Seq(Nat) /\ d < VSTACK_SIZE /\ req = Idle
      /\ \A k \in DOMAIN stack : Word(heap, mem, stack[k])
  BY <1>2, Running DEF Inv, Types
<1>4. StackOp(stack)
  <2>1. Uncleared(0) = <<>>
    BY <1>2 DEF Uncleared
  <2>2. stack \o <<>> = stack
    BY <1>3
  <2> QED
    BY <2>1, <2>2 DEF Enter
<1>5. Inv'
  BY <1>2, <1>3, <1>4, StackOpInv DEF Depth
<1>6. PICK f : f = [base |-> d, args |-> a, locals |-> 0, closure |-> c]
  OBVIOUS
<1>7. f \in Frame /\ f.base = d /\ f.args = a /\ f.locals = 0 /\ f.closure = c
  BY <1>2, <1>6 DEF Frame
<1>8. frames' = Append(frames, f)
  BY <1>2, <1>6 DEF Enter
<1>9. /\ frames' \in Seq(Frame) /\ Len(frames') = n + 1 /\ DOMAIN frames' = 1..n + 1
      /\ frames'[n + 1] = f
      /\ \A i \in 1..n : frames'[i] = frames[i]
  <2>1. frames \in Seq(Frame)
    BY DEF Nested
  <2> QED
    BY <1>1, <1>7, <1>8, <2>1
<1>10. pc' = "run" /\ heap' = heap /\ mem' = mem /\ stack' = stack /\ req' = req
  BY <1>4 DEF StackOp
<1>11. Depth' = d /\ req.used = 0
  BY <1>2, <1>3, <1>10 DEF Depth, Idle
<1>12. ASSUME NEW i \in 1..n
       PROVE  /\ Globals <= frames[i].base - frames[i].args - frames[i].closure
              /\ frames[i].base + frames[i].locals <= d - a - c
              /\ frames[i].base + frames[i].locals <= d
              /\ \A j \in 1..n : j < i =>
                   frames[j].base + frames[j].locals
                     <= frames[i].base - frames[i].args - frames[i].closure
  <2>1. PICK b \in Nat, l \in Nat : b = frames[i].base /\ l = frames[i].locals /\ b + l <= e
    BY <1>1, <1>2, FrameIs
  <2>2. b + l <= d - a - c /\ b + l <= d
    BY <1>2, <2>1
  <2> QED
    BY <1>1, <2>1, <2>2 DEF Nested
<1>13. Globals <= d - a - c
  <2>1. PICK b \in Nat, x \in Nat, l \in Nat, s \in {0, 1} :
          /\ b = frames[n].base /\ x = frames[n].args /\ l = frames[n].locals
          /\ s = frames[n].closure
    BY <1>1, FrameIs
  <2>2. Globals <= b - x - s /\ b + l <= d - a - c
    BY <1>1, <1>12, <2>1
  <2> QED
    BY <1>2, <2>2, FramesAssumption
<1>14. Nested'
  <2>1. ASSUME NEW i \in 1..n + 1
        PROVE  /\ Globals <= frames'[i].base - frames'[i].args - frames'[i].closure
               /\ frames'[i].base + frames'[i].locals <= Depth' - req'.used
               /\ \A j \in 1..n + 1 : j < i =>
                    frames'[j].base + frames'[j].locals
                      <= frames'[i].base - frames'[i].args - frames'[i].closure
    <3>1. CASE i = n + 1
      <4>1. frames'[i] = f /\ \A j \in 1..n + 1 : j < i => j \in 1..n
        BY <1>9, <3>1
      <4>2. d + 0 <= d - 0
        BY <1>2
      <4> QED
        BY <1>7, <1>9, <1>10, <1>11, <1>12, <1>13, <4>1, <4>2
    <3>2. CASE i # n + 1
      <4>1. i \in 1..n /\ \A j \in 1..n + 1 : j < i => j \in 1..n
        BY <3>2
      <4>2. d = d - 0
        BY <1>2
      <4> QED
        BY <1>9, <1>10, <1>11, <1>12, <4>1, <4>2
    <3> QED
      BY <3>1, <3>2
  <2> QED
    BY <1>9, <2>1 DEF Nested
<1>15. ASSUME NEW i \in 1..n + 1, frames'[i].closure = 1
       PROVE  IsClosureAt(ClosureOf(i))'
  <2>1. CASE i = n + 1
    <3>1. frames'[i] = f
      BY <1>9, <2>1
    <3>2. c = 1 /\ ClosureOf(i)' = d - a
      BY <1>7, <1>15, <3>1 DEF ClosureOf
    <3>3. ClosureWord(heap, mem, stack[d - a])
      BY <1>2, <3>2
    <3> QED
      BY <1>10, <3>2, <3>3 DEF IsClosureAt
  <2>2. CASE i # n + 1
    <3>1. i \in DOMAIN frames /\ frames'[i] = frames[i]
      BY <1>1, <1>9, <2>2
    <3>2. IsClosureAt(ClosureOf(i))
      BY <1>15, <3>1 DEF Called
    <3>3. ClosureOf(i)' = ClosureOf(i)
      BY <3>1 DEF ClosureOf
    <3> QED
      BY <1>10, <3>2, <3>3 DEF IsClosureAt
  <2> QED
    BY <2>1, <2>2
<1>16. Called'
  BY <1>9, <1>15 DEF Called
<1> QED
  BY <1>5, <1>14, <1>16

\* Call and CallC, which finds a closure below the arguments.
LEMMA CallStep ==
  ASSUME Inv, Nested, Called, NEW a \in Nat, Call(a, 0) \/ CallC(a, 0)
  PROVE  Inv' /\ Nested' /\ Called'
<1>1. pc = "run"
  BY DEF Call, CallC
<1>2. PICK d \in Nat, e \in Nat : d = Depth /\ e = Floor
  <2>1. 1 \in DOMAIN frames
    BY DEF Nested
  <2> QED
    BY <2>1, FrameIs
<1>3. CASE Call(a, 0)
  <2>1. a + 0 <= Depth - Floor /\ Enter(a, 0, 0)
    BY <1>2, <1>3 DEF Call
  <2> QED
    BY <1>1, <2>1, EnterStep
<1>4. CASE CallC(a, 0)
  <2>1. PICK c : c = stack[Depth - a] /\ a < d - e
    BY <1>2, <1>4 DEF CallC
  <2>2. Depth - a \in DOMAIN stack
    <3>1. stack \in Seq(Nat) /\ d = Len(stack)
      BY <1>2 DEF Inv, Types, Depth
    <3> QED
      BY <1>2, <2>1, <3>1
  <2>3. c \in Nat /\ Word(heap, mem, c) /\ ~Dangling(c)
    BY <1>1, <2>1, <2>2, StackWord
  <2>4. IsObj(heap, c) /\ mem[HeaderOf(heap, c)].kind = "CLOSURE" /\ Enter(a, 0, 1)
    BY <1>4, <2>1, <2>3 DEF CallC, Dangling
  <2>5. heap \in Chunk /\ Sound(heap, mem)
    BY <1>1, Running
  <2>6. PICK off \in DOMAIN mem : c = Content(heap, off) /\ HeaderOf(heap, c) = off
    <3>1. ~Unboxed(c) /\ Within(heap, c)
      BY <2>4 DEF IsObj, Names
    <3> QED
      BY <2>3, <2>5, <3>1, WordIs
  <2>7. ClosureWord(heap, mem, c)
    BY <2>4, <2>6 DEF ClosureWord
  <2>8. a + 1 <= Depth - Floor
    BY <1>2, <2>1
  <2> QED
    BY <1>1, <2>1, <2>4, <2>7, <2>8, EnterStep
<1> QED
  BY <1>3, <1>4

\* End takes the frame away, and the words that it needed.
LEMMA EndStep ==
  ASSUME Inv, Nested, Called, End
  PROVE  Inv' /\ Nested' /\ Called'
<1>1. PICK n \in Nat : n = Len(frames) /\ n > 1 /\ n \in DOMAIN frames /\ DOMAIN frames = 1..n
  BY DEF Nested, End
<1>2. PICK t : t = frames[n] /\ t = Top_frame
  BY <1>1 DEF Top_frame
<1>3. PICK b \in Nat, a \in Nat, l \in Nat, c \in {0, 1} :
        b = t.base /\ a = t.args /\ l = t.locals /\ c = t.closure
  BY <1>1, <1>2, FrameIs
<1>4. PICK d \in Nat : d = Depth /\ d > b + l
  <2>1. Depth \in Nat
    BY <1>1, FrameIs
  <2>2. Depth > b + l
    BY <1>2, <1>3 DEF End, Floor
  <2> QED
    BY <2>1, <2>2
<1>5. Globals \in Nat /\ Globals <= b - a - c
  BY <1>1, <1>2, <1>3, FramesAssumption DEF Nested
<1>6. PICK x \in Nat, k \in Nat :
        x = b - a - c /\ k = d - x /\ x = d - k /\ k >= 1 /\ k <= d /\ Globals <= x
  BY <1>3, <1>4, <1>5
<1>7. /\ pc = "run" /\ req = Idle /\ StackOp(Append(Lower(k), Top))
      /\ frames' = SubSeq(frames, 1, n - 1)
  <2>1. Lower(k) = SubSeq(stack, 1, t.base - t.args - t.closure)
    BY <1>3, <1>4, <1>6 DEF Lower
  <2>2. pc = "run"
    BY DEF End
  <2> QED
    BY <1>1, <1>2, <2>1, <2>2, Running DEF End
<1>8. stack \in Seq(Nat) /\ DOMAIN stack = 1..d /\ Top \in Nat /\ Word(heap, mem, Top)
  <2>1. stack \in Seq(Nat) /\ DOMAIN stack = 1..d
    BY <1>4 DEF Inv, Types, Depth
  <2>2. d \in DOMAIN stack
    BY <1>3, <1>4, <2>1
  <2> QED
    BY <1>4, <1>7, <2>1, <2>2, StackWord DEF Top
<1>9. Inv'
  BY <1>4, <1>6, <1>7, <1>8, PopsInv
<1>10. /\ Lower(k) \in Seq(Nat) /\ Len(Lower(k)) = x
       /\ \A j \in 1..x : Lower(k)[j] = stack[j]
  BY <1>4, <1>6, <1>8, LowerType
<1>11. /\ stack' = Append(Lower(k), Top)
       /\ Len(stack') = x + 1 /\ \A j \in 1..x : stack'[j] = stack[j]
  <2>1. stack' = Append(Lower(k), Top)
    BY <1>7 DEF StackOp
  <2> QED
    BY <1>8, <1>10, <2>1, Appended
<1>12. pc' = "run" /\ heap' = heap /\ mem' = mem /\ req' = Idle
  BY <1>7 DEF StackOp
<1>13. Depth' = x + 1 /\ req'.used = 0
  BY <1>11, <1>12 DEF Depth, Idle
<1>14. /\ frames' \in Seq(Frame) /\ Len(frames') = n - 1 /\ DOMAIN frames' = 1..n - 1
       /\ \A i \in 1..n - 1 : frames'[i] = frames[i]
  <2>1. frames \in Seq(Frame)
    BY DEF Nested
  <2> QED
    BY <1>1, <1>7, <2>1
<1>15. ASSUME NEW i \in 1..n - 1
       PROVE  /\ i \in DOMAIN frames /\ Globals <= frames[i].base - frames[i].args - frames[i].closure
              /\ frames[i].base + frames[i].locals <= x + 1 - 0
              /\ frames[i].closure = 1 => ClosureOf(i) \in 1..x
  <2>1. i \in DOMAIN frames /\ i < n
    BY <1>1
  <2>2. PICK y \in Nat, z \in Nat, m \in Nat :
          y = frames[i].base /\ z = frames[i].args /\ m = frames[i].locals
    BY <2>1, FrameIs
  <2>3. y + m <= x
    BY <1>1, <1>2, <1>3, <1>6, <2>1, <2>2 DEF Nested
  <2>4. frames[i].closure = 1 => ClosureOf(i) >= 1 /\ ClosureOf(i) = y - z
    <3>1. frames[i].closure = 1 => ClosureOf(i) \in 1..Floor
      BY <2>1, FrameIs
    <3> QED
      BY <2>2, <3>1 DEF ClosureOf
  <2>5. frames[i].closure = 1 => ClosureOf(i) \in 1..x
    BY <2>2, <2>3, <2>4
  <2>6. y + m <= x + 1 - 0
    BY <2>3
  <2> QED
    BY <2>1, <2>2, <2>5, <2>6 DEF Nested
<1>16. Nested'
  <2>1. ASSUME NEW i \in 1..n - 1, NEW j \in 1..n - 1, j < i
        PROVE  frames[j].base + frames[j].locals
                 <= frames[i].base - frames[i].args - frames[i].closure
    BY <1>15, <2>1 DEF Nested
  <2>2. n - 1 > 0
    BY <1>1
  <2> QED
    BY <1>13, <1>14, <1>15, <2>1, <2>2 DEF Nested
<1>17. ASSUME NEW i \in 1..n - 1, frames'[i].closure = 1
       PROVE  IsClosureAt(ClosureOf(i))'
  <2>1. i \in DOMAIN frames /\ frames'[i] = frames[i]
    BY <1>14, <1>15
  <2>2. PICK j \in 1..x : j = ClosureOf(i)
    BY <1>15, <1>17, <2>1
  <2>3. ClosureWord(heap, mem, stack[j])
    BY <1>7, <1>17, <2>1, <2>2 DEF Called, IsClosureAt
  <2>4. ClosureOf(i)' = j /\ stack'[j] = stack[j]
    BY <1>11, <2>1, <2>2 DEF ClosureOf
  <2> QED
    BY <1>12, <2>3, <2>4 DEF IsClosureAt
<1>18. Called'
  BY <1>14, <1>17 DEF Called
<1> QED
  BY <1>9, <1>16, <1>18

-----------------------------------------------------------------------------
\* No operation follows the end of the program.
LEMMA OnlyStopped ==
  ASSUME pc = "exited"
  PROVE  ~Mutator /\ ~Collector
<1>1. ~Mutator
  BY DEF Mutator, Const, Dup, Drop, Swap, Compute, Inspect, StringPatt, Elem, StA, Make,
         Bstring, Lstring, Lsubstring, Lclone, Lstrcat, Request
<1>2. ~Collector
  BY DEF Collector, AllocOnExistingHeap, AllocAfterGC, StartGC, MarkRoot, Dequeue,
         ScanField, EndMark, Locate, Remap, RemapFails, Update, FixRoots, Relocate, EndCompact
<1> QED
  BY <1>1, <1>2

\* Every step of the interpreter keeps the call stack and the heap in order.
LEMMA FramesStep ==
  ASSUME LocalCounts \subseteq {0}, FramesInv, [FramesNext]_allVars
  PROVE  FramesInv'
<1>1. CASE Ended
  <2>1. pc' = "exited" /\ frames' = <<>>
    <3>1. CASE UNCHANGED allVars
      BY <1>1, <3>1 DEF Ended, allVars, vars, frameVars
    <3>2. CASE InFrame(Next)
      <4>1. Next /\ frames' = frames /\ pc = "exited"
        BY <1>1, <3>2 DEF InFrame, Ended
      <4>2. ~Mutator /\ ~Collector
        BY <4>1, OnlyStopped
      <4> QED
        BY <1>1, <4>1, <4>2 DEF Next, Stopped, vars, Ended
    <3>3. CASE FramesNext /\ ~InFrame(Next)
      BY <1>1, <3>3 DEF FramesNext, InFrame, Lwrite, InVariables, Variable, Call, CallC,
                        End, EndMain, Ended
    <3> QED
      BY <3>1, <3>2, <3>3
  <2> QED
    BY <2>1 DEF FramesInv, Ended
<1>2. CASE Inv /\ Nested /\ Called
  <2>1. CASE UNCHANGED allVars
    BY <1>2, <2>1, HeapRests DEF allVars, frameVars, FramesInv
  <2>2. CASE InFrame(Next)
    BY <1>2, <2>2, HeapInFrame DEF FramesInv
  <2>3. CASE InFrame(Lwrite)
    BY <1>2, <2>3, LwriteInFrame DEF FramesInv
  <2>4. CASE InVariables(Variable)
    <3>1. Variable /\ UNCHANGED frames /\ pc = "run"
      BY <2>4 DEF InVariables, Variable
    <3>2. CASE \E p \in Locations : Ld(p) \/ St(p)
      BY <1>2, <3>1, <3>2, VariableStep DEF FramesInv
    <3>3. CASE \E k \in 1..MaxLen : LdCaptured(k) \/ StCaptured(k)
      BY <1>2, <3>1, <3>3, CapturedStep DEF FramesInv
    <3> QED
      BY <3>1, <3>2, <3>3 DEF Variable
  <2>5. CASE \E a \in ArgCounts, l \in LocalCounts : Call(a, l) \/ CallC(a, l)
    <3>1. PICK a \in ArgCounts, l \in LocalCounts : Call(a, l) \/ CallC(a, l)
      BY <2>5
    <3>2. a \in Nat /\ l = 0
      BY FramesAssumption
    <3> QED
      BY <1>2, <3>1, <3>2, CallStep DEF FramesInv
  <2>6. CASE End
    BY <1>2, <2>6, EndStep DEF FramesInv
  <2>7. CASE EndMain
    BY <2>7 DEF EndMain, FramesInv, Ended
  <2> QED
    BY <2>1, <2>2, <2>3, <2>4, <2>5, <2>6, <2>7 DEF FramesNext
<1> QED
  BY <1>1, <1>2 DEF FramesInv

\* The interpreter starts with a main frame and globals that are not set.
LEMMA FramesStart ==
  ASSUME LocalCounts \subseteq {0}, FramesInit
  PROVE  FramesInv
<1> PICK g \in Nat : g = Globals
  BY FramesAssumption
<1> PICK st : st = [i \in 1..g |-> 0]
  OBVIOUS
<1>1. /\ g < VSTACK_SIZE - 1
      /\ InitWith(st)
      /\ frames = <<[base |-> g, args |-> 0, locals |-> 0, closure |-> 0]>>
  <2>1. PICK l \in LocalCounts \cup {0} :
          /\ Globals + l < VSTACK_SIZE - 1
          /\ InitWith([i \in 1..Globals + l |-> 0])
          /\ frames = <<[base |-> Globals, args |-> 0, locals |-> l, closure |-> 0]>>
    BY DEF FramesInit
  <2>2. l = 0 /\ Globals \in Nat /\ Globals + l = Globals
    BY FramesAssumption
  <2> QED
    BY <2>1, <2>2
<1>2. /\ st \in Seq(Nat) /\ Len(st) = g /\ DOMAIN st = 1..g
      /\ \A k \in DOMAIN st : st[k] = 0
  BY <1>1
<1>3. \A k \in DOMAIN st : Word(heap, mem, st[k])
  BY <1>2 DEF Word
<1>4. Inv
  BY <1>1, <1>2, <1>3, InvInitWith, BoundsAssumption
<1>5. stack = st /\ pc = "run" /\ req = Idle
  BY <1>1 DEF InitWith
<1>6. PICK f : f = [base |-> g, args |-> 0, locals |-> 0, closure |-> 0] /\ f \in Frame
  BY <1>1 DEF Frame
<1>7. frames \in Seq(Frame) /\ Len(frames) = 1 /\ DOMAIN frames = {1} /\ frames[1] = f
  BY <1>1, <1>6
<1>8. f.base = g /\ f.args = 0 /\ f.locals = 0 /\ f.closure = 0
  BY <1>6
<1>9. Depth = g /\ req.used = 0
  BY <1>2, <1>5 DEF Depth, Idle
<1>10. Nested
  BY <1>1, <1>7, <1>8, <1>9 DEF Nested
<1>11. Called
  BY <1>7, <1>8 DEF Called
<1> QED
  BY <1>4, <1>10, <1>11 DEF FramesInv

\* While no function has locals, the calls of an interpreted program are well
\* nested, and every closure that is being executed stays one, where loc looks
\* for it, in spite of collections, stores and further calls: none of them
\* makes the interpreter follow a word that is not the address of an object.
THEOREM ClosuresStayActive ==
  ASSUME LocalCounts \subseteq {0}
  PROVE  FramesSpec => []ActiveClosures
<1>1. FramesInit => FramesInv
  BY FramesStart
<1>2. FramesInv /\ [FramesNext]_allVars => FramesInv'
  BY FramesStep
<1>3. FramesInv => ActiveClosures
  <2>1. CASE Ended
    <3>1. frames \in Seq(Frame) /\ Len(frames) = 0 /\ DOMAIN frames = {} /\ pc = "exited"
      BY <2>1 DEF Ended
    <3> QED
      BY <3>1 DEF ActiveClosures, NeverCrashes
  <2>2. CASE Inv /\ Nested /\ Called
    <3>1. NeverCrashes
      BY <2>2 DEF Inv, Types, NeverCrashes
    <3>2. \A i \in 2..Len(frames) :
            frames[i].base - frames[i].args - frames[i].closure
              >= frames[i-1].base + frames[i-1].locals
      <4> TAKE i \in 2..Len(frames)
      <4>1. i \in DOMAIN frames /\ i - 1 \in DOMAIN frames /\ i - 1 < i
        BY <2>2 DEF Nested
      <4>2. PICK b \in Nat, a \in Nat, c \in {0, 1} :
              b = frames[i].base /\ a = frames[i].args /\ c = frames[i].closure
        BY <2>2, <4>1, FrameIs
      <4>3. PICK x \in Nat, y \in Nat : x = frames[i-1].base /\ y = frames[i-1].locals
        BY <2>2, <4>1, FrameIs
      <4>4. x + y <= b - a - c
        BY <2>2, <4>1, <4>2, <4>3 DEF Nested
      <4> QED
        BY <4>2, <4>3, <4>4
    <3>3. ASSUME pc = "run", NEW i \in DOMAIN frames, frames[i].closure = 1
          PROVE  LET c == stack[frames[i].base - frames[i].args] IN
                 IsObj(heap, c) /\ mem[HeaderOf(heap, c)].kind = "CLOSURE"
      BY <2>2, <3>3, ClosureIs DEF ClosureOf
    <3>4. frames \in Seq(Frame)
      BY <2>2 DEF Nested
    <3> QED
      BY <3>1, <3>2, <3>3, <3>4 DEF ActiveClosures
  <2> QED
    BY <2>1, <2>2 DEF FramesInv
<1> QED
  BY <1>1, <1>2, <1>3, PTL DEF FramesSpec

=============================================================================
