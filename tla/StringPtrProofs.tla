-------------------------- MODULE StringPtrProofs --------------------------
(***************************************************************************)
(* Proofs about StringPtr, for every number of handles, strings and texts  *)
(* and every width of the counter.                                         *)
(***************************************************************************)
EXTENDS StringPtr, FiniteSetTheorems, TLAPS

\* the handles that point to s in an assignment f of strings to handles
HoldersOf(f, s) == {h \in Handles : f[h] = s}
Size(f, s) == Cardinality(HoldersOf(f, s))

\* handle h is pointed to n
Put(f, h, n) == [f EXCEPT ![h] = n]

\* Pointing one handle somewhere else adds it to the holders of its new
\* string and takes it from those of its old one (every constructor,
\* assignment and destructor of string_ptr.cpp does this once or twice).
LEMMA Retarget ==
  ASSUME NEW f, f \in [Handles -> CStrings \cup {Unborn}],
         NEW h \in Handles, NEW n \in CStrings \cup {Unborn}, NEW s
  PROVE  /\ Size(f, s) \in Nat
         /\ Size(Put(f, h, n), s) \in Nat
         /\ s = n /\ s # f[h] => Size(Put(f, h, n), s) = Size(f, s) + 1
         /\ s # n /\ s = f[h] => Size(Put(f, h, n), s) = Size(f, s) - 1
         /\ (s = n <=> s = f[h]) => Size(Put(f, h, n), s) = Size(f, s)
<1> DEFINE F == Put(f, h, n)
           A == HoldersOf(f, s)
           B == HoldersOf(F, s)
<1>1. IsFiniteSet(A) /\ IsFiniteSet(B)
  <2>1. A \subseteq Handles /\ B \subseteq Handles
    BY DEF HoldersOf
  <2> QED
    BY <2>1, FS_Subset, StringAssumption
<1>2. Cardinality(A) \in Nat /\ Cardinality(B) \in Nat
  BY <1>1, FS_CardinalityType
<1>3. ASSUME s = n, s # f[h] PROVE Cardinality(B) = Cardinality(A) + 1
  <2>1. h \notin A /\ B = A \cup {h}
    BY <1>3 DEF HoldersOf, Put
  <2> QED
    BY <2>1, <1>1, FS_AddElement
<1>4. ASSUME s # n, s = f[h] PROVE Cardinality(B) = Cardinality(A) - 1
  <2>1. h \in A /\ B = A \ {h}
    BY <1>4 DEF HoldersOf, Put
  <2> QED
    BY <2>1, <1>1, FS_RemoveElement
<1>5. ASSUME s = n <=> s = f[h] PROVE A = B
  BY <1>5 DEF HoldersOf, Put
<1> QED
  BY <1>2, <1>3, <1>4, <1>5 DEF Size

\* A string without holders is in nobody's hands.
LEMMA NoHolders ==
  ASSUME NEW f, NEW s, Size(f, s) = 0
  PROVE  \A h \in Handles : f[h] # s
<1>1. IsFiniteSet(HoldersOf(f, s))
  <2>1. HoldersOf(f, s) \subseteq Handles
    BY DEF HoldersOf
  <2> QED
    BY <2>1, FS_Subset, StringAssumption
<1>2. HoldersOf(f, s) = {}
  BY <1>1, FS_EmptySet DEF Size
<1> QED
  BY <1>2 DEF HoldersOf

-----------------------------------------------------------------------------
(***************************************************************************)
(* Half way through an operation a string n may have one owner that no     *)
(* handle shows yet: the temporary of a copy assignment, the argument of a *)
(* constructor, the source of a move.  Owed says that handles f, strings L *)
(* and counters r are consistent when that owner is counted.               *)
(***************************************************************************)
Owed(f, L, r, n) ==
  /\ f \in [Handles -> CStrings \cup {Unborn}]
  /\ L \subseteq Strings
  /\ r \in [CStrings -> 0..SAT]
  /\ r[null_string] = SAT
  /\ \A h \in Handles : f[h] \in L \cup {null_string, Unborn}
  /\ n \in L \cup {null_string, Unborn}
  /\ \A s \in L : r[s] # SAT => Size(f, s) = IF s = n THEN r[s] ELSE r[s] + 1

\* Between operations nothing is owed: the invariant says the same.
LEMMA InvIsOwed ==
  Inv <=> /\ Owed(cstr, live, rc, Unborn)
          /\ text \in [CStrings -> Readable]
          /\ text[null_string] = NullText
<1>1. \A s \in Strings : s # Unborn
  BY StringAssumption
<1>2. \A s : HoldersOf(cstr, s) = Holders(s)
  BY DEF HoldersOf, Holders
<1>3. ASSUME TypeOK, NEW s \in live
      PROVE  Cardinality(Holders(s)) \in Nat
  <2>1. IsFiniteSet(Handles) /\ Holders(s) \in SUBSET Handles
    BY StringAssumption DEF Holders
  <2> QED
    BY <2>1, FS_Subset, FS_CardinalityType
<1>4. TypeOK => (Counted <=>
        \A s \in live : rc[s] # SAT =>
          Size(cstr, s) = IF s = Unborn THEN rc[s] ELSE rc[s] + 1)
  BY <1>1, <1>2, <1>3 DEF Counted, TypeOK, Size
<1>5. TypeOK => (NoDangling <=>
        \A h \in Handles : cstr[h] \in live \cup {null_string, Unborn})
  BY <1>1, StringAssumption DEF NoDangling, Born, TypeOK
<1> QED
  BY <1>4, <1>5 DEF Inv, Owed, TypeOK, NullSaturated

\* An unborn handle takes over what is owed: the end of every constructor.
LEMMA Settle ==
  ASSUME NEW f, NEW L, NEW r, NEW n, Owed(f, L, r, n),
         NEW h \in Handles, f[h] = Unborn
  PROVE  Owed(Put(f, h, n), L, r, Unborn)
<1> DEFINE F == Put(f, h, n)
<1>1. n \in CStrings \cup {Unborn} /\ F \in [Handles -> CStrings \cup {Unborn}]
  BY DEF Owed, CStrings, Put
<1>2. \A g \in Handles : F[g] \in L \cup {null_string, Unborn}
  BY DEF Owed, Put
<1>3. ASSUME NEW s \in L, r[s] # SAT
      PROVE  Size(F, s) = IF s = Unborn THEN r[s] ELSE r[s] + 1
  <2>1. s # Unborn /\ s # f[h]
    BY StringAssumption DEF Owed
  <2>2. Size(f, s) = IF s = n THEN r[s] ELSE r[s] + 1
    BY <1>3 DEF Owed
  <2>3. /\ Size(f, s) \in Nat
        /\ s = n => Size(F, s) = Size(f, s) + 1
        /\ s # n => Size(F, s) = Size(f, s)
    BY <2>1, <1>1, Retarget DEF Owed
  <2>4. r[s] \in Nat
    BY DEF Owed, CStrings
  <2> HIDE DEF F
  <2> QED
    BY <2>1, <2>2, <2>3, <2>4
<1> QED
  BY <1>1, <1>2, <1>3 DEF Owed

\* A handle gives up its string and takes over what is owed: the end of every
\* assignment and, with nothing owed, of the destructor.
LEMMA Switch ==
  ASSUME NEW f, NEW L, NEW r, NEW n, Owed(f, L, r, n),
         NEW h \in Handles, f[h] # Unborn
  PROVE  LET old == f[h]
         IN  Owed(Put(f, h, n),
                  IF r[old] = 0 THEN L \ {old} ELSE L,
                  IF r[old] = 0 THEN r ELSE Dec(r, old), Unborn)
<1> DEFINE F == Put(f, h, n)
           old == f[h]
           k(s) == Size(f, s)
           m(s) == Size(F, s)
<1>1. /\ n \in CStrings \cup {Unborn}
      /\ F \in [Handles -> CStrings \cup {Unborn}]
      /\ F[h] = n
      /\ \A g \in Handles : g # h => F[g] = f[g]
      /\ old \in L \cup {null_string}
      /\ old \in CStrings
      /\ SAT \in Nat \ {0}
  BY StringAssumption DEF Owed, CStrings, Put
<1>2. ASSUME NEW s
      PROVE  /\ k(s) \in Nat /\ m(s) \in Nat
             /\ s = n /\ s # old => m(s) = k(s) + 1
             /\ s # n /\ s = old => m(s) = k(s) - 1
             /\ (s = n <=> s = old) => m(s) = k(s)
  <2>1. f \in [Handles -> CStrings \cup {Unborn}]
    BY DEF Owed
  <2> QED
    BY <2>1, <1>1, Retarget
<1>3. k(old) >= 1
  <2>1. f \in [Handles -> CStrings \cup {Unborn}]
    BY DEF Owed
  <2>2. /\ Size(Put(f, h, Unborn), old) = k(old) - 1
        /\ Size(Put(f, h, Unborn), old) \in Nat
    BY <2>1, <1>1, Retarget
  <2>3. k(old) \in Nat
    BY <1>2
  <2> HIDE DEF k, old
  <2> QED
    BY <2>2, <2>3
<1>4. \A s \in L : s # Unborn /\ s \in CStrings
  BY StringAssumption DEF Owed, CStrings
<1>5. \A s \in L : r[s] # SAT => k(s) = IF s = n THEN r[s] ELSE r[s] + 1
  BY DEF Owed
<1>6. CASE r[old] = 0
  <2>1. old \in L /\ old # null_string /\ r[old] # SAT
    BY <1>1, <1>6 DEF Owed
  <2>2. old # n /\ k(old) = 1
    <3>1. /\ k(old) \in Nat
          /\ k(old) >= 1
          /\ k(old) = IF old = n THEN r[old] ELSE r[old] + 1
      BY <2>1, <1>5, <1>3, <1>2
    <3> HIDE DEF k, old
    <3> QED
      BY <3>1, <1>6
  <2>3. \A g \in Handles : F[g] # old
    <3>1. m(old) = 0
      <4>1. m(old) = k(old) - 1
        BY <2>2, <1>2
      <4> HIDE DEF m, k, old
      <4> QED
        BY <4>1, <2>2
    <3> HIDE DEF F
    <3> QED
      BY <3>1, NoHolders
  <2>4. \A g \in Handles : F[g] \in (L \ {old}) \cup {null_string, Unborn}
    BY <2>3, <1>1 DEF Owed
  <2>5. ASSUME NEW s \in L \ {old}, r[s] # SAT
        PROVE  m(s) = IF s = Unborn THEN r[s] ELSE r[s] + 1
    BY <2>5, <1>2, <1>4, <1>5
  <2> HIDE DEF F
  <2>6. Owed(F, L \ {old}, r, Unborn)
    BY <2>4, <2>5, <1>1 DEF Owed
  <2> QED
    BY <2>6, <1>6 DEF F
<1>7. CASE r[old] # 0
  <2>1. /\ Dec(r, old) \in [CStrings -> 0..SAT]
        /\ \A s \in CStrings : s # old => Dec(r, old)[s] = r[s]
        /\ r[old] = SAT => Dec(r, old)[old] = SAT
        /\ r[old] # SAT => Dec(r, old)[old] = r[old] - 1
        /\ r[old] \in 0..SAT
    BY <1>1, <1>7 DEF Dec, Owed
  <2>2. Dec(r, old)[null_string] = SAT
    BY <2>1 DEF Owed, CStrings
  <2>3. \A g \in Handles : F[g] \in L \cup {null_string, Unborn}
    BY <1>1 DEF Owed
  <2>4. ASSUME NEW s \in L, Dec(r, old)[s] # SAT
        PROVE  m(s) = IF s = Unborn THEN Dec(r, old)[s] ELSE Dec(r, old)[s] + 1
    <3>1. CASE s = old
      <4>1. r[s] # SAT /\ Dec(r, old)[s] = r[s] - 1
        BY <3>1, <2>4, <2>1
      <4>2. /\ k(s) \in Nat
            /\ s # n => m(s) = k(s) - 1
            /\ s = n => m(s) = k(s)
        BY <3>1, <1>2
      <4>3. k(s) = IF s = n THEN r[s] ELSE r[s] + 1
        BY <4>1, <1>5
      <4>4. s # Unborn /\ r[s] \in Nat
        BY <3>1, <1>4, <2>1
      <4> HIDE DEF k, m, old
      <4> QED
        BY <4>1, <4>2, <4>3, <4>4
    <3>2. CASE s # old
      <4>1. Dec(r, old)[s] = r[s] /\ r[s] # SAT
        BY <3>2, <2>4, <2>1, <1>4
      <4> QED
        BY <4>1, <3>2, <1>2, <1>4, <1>5
    <3> QED
      BY <3>1, <3>2
  <2> HIDE DEF F
  <2>5. Owed(F, L, Dec(r, old), Unborn)
    BY <2>1, <2>2, <2>3, <2>4, <1>1 DEF Owed
  <2> QED
    BY <2>5, <1>7 DEF F
<1> QED
  BY <1>6, <1>7

-----------------------------------------------------------------------------
(***************************************************************************)
(* The four ways to come to owe something.                                 *)
(***************************************************************************)
\* The static empty string may be handed out at any time: it is not counted.
LEMMA OweNull ==
  ASSUME NEW f, NEW L, NEW r, Owed(f, L, r, Unborn)
  PROVE  Owed(f, L, r, null_string)
BY StringAssumption DEF Owed

\* `new CString` returns a string that no handle shows, counted as unshared or
\* saturated.
LEMMA OweNew ==
  ASSUME NEW f, NEW L, NEW r, Owed(f, L, r, Unborn),
         NEW s \in Strings \ L, NEW c \in {0, SAT}
  PROVE  Owed(f, L \cup {s}, [r EXCEPT ![s] = c], s)
<1> DEFINE R == [r EXCEPT ![s] = c]
<1>1. /\ R \in [CStrings -> 0..SAT]
      /\ R[s] = c
      /\ \A u \in CStrings : u # s => R[u] = r[u]
      /\ s # null_string
      /\ s # Unborn
      /\ \A u \in L : u # s /\ u # Unborn /\ u \in CStrings
  BY StringAssumption DEF Owed, CStrings
<1>2. Size(f, s) = 0
  <2>1. HoldersOf(f, s) = {}
    BY <1>1 DEF Owed, HoldersOf
  <2> QED
    BY <2>1, FS_EmptySet DEF Size
<1>3. ASSUME NEW u \in L \cup {s}, R[u] # SAT
      PROVE  Size(f, u) = IF u = s THEN R[u] ELSE R[u] + 1
  <2>1. CASE u = s
    BY <2>1, <1>1, <1>2, <1>3
  <2>2. CASE u # s
    BY <2>2, <1>1, <1>3 DEF Owed
  <2> QED
    BY <2>1, <2>2
<1>4. R[null_string] = SAT
  BY <1>1 DEF Owed, CStrings
<1> HIDE DEF R
<1>5. Owed(f, L \cup {s}, R, s)
  BY <1>1, <1>3, <1>4 DEF Owed
<1> QED
  BY <1>5 DEF R

\* inc_ref_count counts one more owner of the string that handle g shows.
LEMMA OweCopy ==
  ASSUME NEW f, NEW L, NEW r, Owed(f, L, r, Unborn),
         NEW g \in Handles, f[g] # Unborn
  PROVE  Owed(f, L, Inc(r, f[g]), f[g])
<1> DEFINE n == f[g]
           R == Inc(r, n)
<1>1. /\ n \in L \cup {null_string}
      /\ n \in CStrings
      /\ SAT \in Nat
      /\ \A u \in L : u # Unborn /\ u \in CStrings
  BY StringAssumption DEF Owed, CStrings
<1>2. /\ R \in [CStrings -> 0..SAT]
      /\ \A u \in CStrings : u # n => R[u] = r[u]
      /\ r[n] = SAT => R[n] = SAT
      /\ r[n] # SAT => R[n] = r[n] + 1
  BY <1>1 DEF Inc, Owed
<1>3. R[null_string] = SAT
  BY <1>2 DEF Owed, CStrings
<1>4. ASSUME NEW u \in L, R[u] # SAT
      PROVE  Size(f, u) = IF u = n THEN R[u] ELSE R[u] + 1
  <2>1. r[u] # SAT
    BY <1>1, <1>2, <1>4
  <2>2. Size(f, u) = r[u] + 1
    BY <2>1, <1>1 DEF Owed
  <2>3. R[u] = IF u = n THEN r[u] + 1 ELSE r[u]
    BY <2>1, <1>1, <1>2
  <2> HIDE DEF R, n
  <2> QED
    BY <2>2, <2>3
<1>5. n \in L \cup {null_string, Unborn}
  BY <1>1
<1> HIDE DEF R, n
<1>6. Owed(f, L, R, n)
  BY <1>2, <1>3, <1>4, <1>5 DEF Owed
<1> QED
  BY <1>6 DEF R, n

\* The source of a move shows the empty string, and its string waits for the
\* target.
LEMMA OweMove ==
  ASSUME NEW f, NEW L, NEW r, Owed(f, L, r, Unborn),
         NEW g \in Handles, f[g] # Unborn
  PROVE  Owed(Put(f, g, null_string), L, r, f[g])
<1> DEFINE F == Put(f, g, null_string)
<1>1. /\ null_string \in CStrings \cup {Unborn}
      /\ f \in [Handles -> CStrings \cup {Unborn}]
      /\ F \in [Handles -> CStrings \cup {Unborn}]
      /\ \A h \in Handles : F[h] \in L \cup {null_string, Unborn}
      /\ f[g] \in L \cup {null_string, Unborn}
      /\ \A u \in L : u # Unborn /\ u # null_string /\ u \in CStrings
  BY StringAssumption DEF Owed, CStrings, Put
<1>2. ASSUME NEW u \in L, r[u] # SAT
      PROVE  Size(F, u) = IF u = f[g] THEN r[u] ELSE r[u] + 1
  <2>1. /\ Size(f, u) = r[u] + 1
        /\ r[u] \in Nat
    BY <1>1, <1>2 DEF Owed
  <2>2. /\ u = f[g] => Size(F, u) = Size(f, u) - 1
        /\ u # f[g] => Size(F, u) = Size(f, u)
    BY <1>1, Retarget
  <2> HIDE DEF F
  <2> QED
    BY <2>1, <2>2
<1> HIDE DEF F
<1>3. Owed(F, L, r, f[g])
  BY <1>1, <1>2 DEF Owed
<1> QED
  BY <1>3 DEF F

-----------------------------------------------------------------------------
\* The invariant holds when no handle has been constructed.
LEMMA InvInit == Init => Inv
<1> SUFFICES ASSUME Init PROVE Inv
  OBVIOUS
<1>1. TypeOK
  BY StringAssumption DEF Init, TypeOK, Readable, CStrings
<1>2. NoDangling /\ Counted /\ NullSaturated
  BY DEF Init, NoDangling, Born, Counted, NullSaturated, CStrings
<1> QED
  BY <1>1, <1>2 DEF Inv

\* The strings, counters and handles after each operation.
LEMMA OwedNext ==
  ASSUME Owed(cstr, live, rc, Unborn), Next
  PROVE  Owed(cstr', live', rc', Unborn)
<1>1. ASSUME NEW h \in Handles, Default(h) PROVE Owed(cstr', live', rc', Unborn)
  <2>1. Owed(Put(cstr, h, null_string), live, rc, Unborn)
    BY <1>1, OweNull, Settle DEF Default, Born
  <2> QED
    BY <2>1, <1>1 DEF Default, Put
<1>2. ASSUME NEW h \in Handles, Destroy(h) PROVE Owed(cstr', live', rc', Unborn)
  <2> USE DEF Put
  <2> QED
    BY <1>2, Switch DEF Destroy, Born, Release
<1>3. ASSUME NEW h \in Handles, NEW s \in Strings, NEW x \in Readable,
             New(h, s, x)
      PROVE  Owed(cstr', live', rc', Unborn)
  <2>1. Owed(cstr, live', rc', s)
    BY <1>3, OweNew DEF New, Fresh
  <2>2. Owed(Put(cstr, h, s), live', rc', Unborn)
    BY <2>1, <1>3, Settle DEF New, Born
  <2> QED
    BY <2>2, <1>3 DEF New, Put
<1>4. ASSUME NEW h \in Handles, NEW s \in Strings, NEW x \in Readable,
             TextAssign(h, s, x)
      PROVE  Owed(cstr', live', rc', Unborn)
  <2> DEFINE L == live \cup {s}
             R == [rc EXCEPT ![s] = Fresh(x)]
  <2>1. Owed(cstr, L, R, s)
    BY <1>4, OweNew DEF TextAssign, Fresh
  <2>2. cstr[h] # Unborn
    BY <1>4 DEF TextAssign, Born
  <2>3. /\ cstr' = Put(cstr, h, s)
        /\ Release(L, R, cstr[h])
    BY <1>4 DEF TextAssign, Put
  <2> HIDE DEF L, R
  <2> QED
    BY <2>1, <2>2, <2>3, Switch DEF Release
<1>5. ASSUME NEW h \in Handles, NEW g \in Handles, Copy(h, g)
      PROVE  Owed(cstr', live', rc', Unborn)
  <2>1. Owed(cstr, live', rc', cstr[g])
    BY <1>5, OweCopy DEF Copy, Born
  <2>2. Owed(Put(cstr, h, cstr[g]), live', rc', Unborn)
    BY <2>1, <1>5, Settle DEF Copy, Born
  <2> QED
    BY <2>2, <1>5 DEF Copy, Put
<1>6. ASSUME NEW h \in Handles, NEW g \in Handles, CopyAssign(h, g)
      PROVE  Owed(cstr', live', rc', Unborn)
  <2> DEFINE R == Inc(rc, cstr[g])
             n == cstr[g]
  <2>1. Owed(cstr, live, R, n)
    BY <1>6, OweCopy DEF CopyAssign, Born
  <2>2. cstr[h] # Unborn
    BY <1>6 DEF CopyAssign, Born
  <2>3. /\ cstr' = Put(cstr, h, n)
        /\ Release(live, R, cstr[h])
    BY <1>6 DEF CopyAssign, Put
  <2> HIDE DEF R, n
  <2> QED
    BY <2>1, <2>2, <2>3, Switch DEF Release
<1>7. ASSUME NEW h \in Handles, NEW g \in Handles,
             MoveNew(h, g) \/ MoveAssign(h, g)
      PROVE  Owed(cstr', live', rc', Unborn)
  <2> DEFINE F == Put(cstr, g, null_string)
             n == cstr[g]
  <2>1. Owed(F, live, rc, n)
    BY <1>7, OweMove DEF MoveNew, MoveAssign, Born
  <2>2. h # g /\ F[h] = cstr[h]
    BY <1>7 DEF MoveNew, MoveAssign, Born, Put, Owed
  <2>3. cstr' = Put(F, h, n)
    BY <1>7, <2>2 DEF MoveNew, MoveAssign, Moved, Put, Owed
  <2>4. CASE MoveNew(h, g)
    <3>1. F[h] = Unborn /\ UNCHANGED <<live, rc>>
      BY <2>2, <2>4 DEF MoveNew, Born
    <3> HIDE DEF F, n
    <3> QED
      BY <2>1, <2>3, <3>1, Settle
  <2>5. CASE MoveAssign(h, g)
    <3>1. F[h] # Unborn /\ Release(live, rc, F[h])
      BY <2>2, <2>5 DEF MoveAssign, Born
    <3> HIDE DEF F, n
    <3> QED
      BY <2>1, <2>3, <3>1, Switch DEF Release
  <2> QED
    BY <1>7, <2>4, <2>5
<1> QED
  BY <1>1, <1>2, <1>3, <1>4, <1>5, <1>6, <1>7 DEF Next

\* Every operation on a handle preserves the invariant.
LEMMA InvNext == Inv /\ [Next]_vars => Inv'
<1> SUFFICES ASSUME Inv, [Next]_vars PROVE Inv'
  OBVIOUS
<1>1. /\ Owed(cstr, live, rc, Unborn)
      /\ text \in [CStrings -> Readable]
      /\ text[null_string] = NullText
  BY InvIsOwed
<1>2. CASE Next
  <2>1. Owed(cstr', live', rc', Unborn)
    BY <1>1, <1>2, OwedNext
  <2>2. /\ text' \in [CStrings -> Readable]
        /\ text'[null_string] = NullText
    BY <1>1, <1>2, StringAssumption
    DEF Next, Default, Destroy, New, TextAssign, Copy, CopyAssign, MoveNew,
        MoveAssign, CStrings
  <2>3. (Inv <=> /\ Owed(cstr, live, rc, Unborn)
                 /\ text \in [CStrings -> Readable]
                 /\ text[null_string] = NullText)'
    BY InvIsOwed, PTL
  <2> QED
    BY <2>1, <2>2, <2>3
<1>3. CASE UNCHANGED vars
  BY <1>3 DEF vars, Inv, TypeOK, NoDangling, Born, Counted, Holders, NullSaturated
<1> QED
  BY <1>2, <1>3

\* The counters of cstring.cpp and the handles of string_ptr.cpp always agree.
THEOREM Invariance == Spec => []Inv
BY InvInit, InvNext, PTL DEF Spec

\* No handle ever shows a freed CString, for any number of handles and any
\* width of the saturating counter of cstring.h.
THEOREM NeverDangling == Spec => []NoDangling
<1>1. Inv => NoDangling
  BY DEF Inv
<1> QED
  BY <1>1, Invariance, PTL

\* The counter that is not saturated is exact, so that the last owner, and
\* nobody before it, frees the string.
THEOREM AlwaysCounted == Spec => []Counted
<1>1. Inv => Counted
  BY DEF Inv
<1> QED
  BY <1>1, Invariance, PTL

-----------------------------------------------------------------------------
(***************************************************************************)
(* Handles as variables.  A step may write the text of a string only while *)
(* no handle shows that string, so the texts that are shown change where   *)
(* the handles change and nowhere else.                                    *)
(***************************************************************************)
\* What a handle shows, read off cstr and text.
LEMMA ShownFacts ==
  ASSUME Inv
  PROVE  /\ \A h \in Handles : Shown[h] = IF Born(h) THEN text[cstr[h]] ELSE Unborn
         /\ \A h \in Handles : Value!Born(h) <=> Born(h)
         /\ \A h \in Handles : Born(h) => Shown[h] \in Readable
<1>1. \A h \in Handles : Shown[h] = IF Born(h) THEN text[cstr[h]] ELSE Unborn
  BY DEF Shown
<1>2. \A h \in Handles : Born(h) => text[cstr[h]] \in Readable
  BY DEF Inv, TypeOK, Born
<1>3. \A x \in Readable : x # Unborn
  BY StringAssumption DEF Readable
<1>4. \A h \in Handles : Value!Born(h) <=> Born(h)
  BY <1>1, <1>2, <1>3 DEF Value!Born
<1> QED
  BY <1>1, <1>2, <1>4

\* A step that points handle h to n and writes at most the text of a string
\* that no handle shows is an update of what h shows.
LEMMA ShownUpdate ==
  ASSUME Inv, NEW h \in Handles, NEW n \in CStrings,
         cstr' = [cstr EXCEPT ![h] = n],
         \A g \in Handles : g # h /\ Born(g) => text'[cstr[g]] = text[cstr[g]]
  PROVE  Shown' = [Shown EXCEPT ![h] = text'[n]]
<1>1. n # Unborn
  BY StringAssumption DEF CStrings
<1>2. cstr'[h] = n /\ \A g \in Handles : g # h => cstr'[g] = cstr[g]
  BY DEF Inv, TypeOK
<1> DEFINE At(g) == IF cstr'[g] # Unborn THEN text'[cstr'[g]] ELSE Unborn
<1>3. ASSUME NEW g \in Handles
      PROVE  At(g) = IF g = h THEN text'[n] ELSE Shown[g]
  BY <1>1, <1>2 DEF Shown, Born
<1>4. Shown' = [g \in Handles |-> At(g)]
  BY DEF Shown, Born
<1>5. [Shown EXCEPT ![h] = text'[n]]
        = [g \in Handles |-> IF g = h THEN text'[n] ELSE Shown[g]]
  BY DEF Shown
<1> HIDE DEF At
<1> QED
  BY <1>3, <1>4, <1>5

\* What the proofs about the operations use of the invariant.
LEMMA HandleFacts ==
  ASSUME Inv
  PROVE  /\ cstr \in [Handles -> CStrings \cup {Unborn}]
         /\ text \in [CStrings -> Readable]
         /\ \A h \in Handles : Born(h) => cstr[h] \in live \cup {null_string}
         /\ null_string \in CStrings /\ null_string # Unborn
         /\ text[null_string] = NullText
         /\ \A s \in Strings : s \in CStrings
         /\ NullText \in Readable
BY StringAssumption DEF Inv, TypeOK, NoDangling, NullSaturated, CStrings, Readable

\* StringPtr(const char *) and operator=(const char *) show the text given.
LEMMA TextShown ==
  ASSUME Inv, NEW h \in Handles, NEW s \in Strings, NEW x \in Readable,
         New(h, s, x) \/ TextAssign(h, s, x)
  PROVE  /\ New(h, s, x) => Value!Construct(h, x)
         /\ TextAssign(h, s, x) => Value!Assign(h, x)
<1>1. /\ s \notin live
      /\ s # null_string
      /\ cstr' = [cstr EXCEPT ![h] = s]
      /\ text' = [text EXCEPT ![s] = x]
  BY StringAssumption DEF New, TextAssign
<1>2. /\ text'[s] = x
      /\ \A g \in Handles : Born(g) => text'[cstr[g]] = text[cstr[g]]
  BY HandleFacts, <1>1
<1>3. Shown' = [Shown EXCEPT ![h] = text'[s]]
  BY HandleFacts, <1>1, <1>2, ShownUpdate
<1>4. Shown' = [Shown EXCEPT ![h] = x]
  BY <1>2, <1>3
<1> QED
  BY <1>4, ShownFacts DEF New, TextAssign, Value!Construct, Value!Assign

\* The copies show what their source shows, and leave the source alone.
LEMMA CopyShown ==
  ASSUME Inv, NEW h \in Handles, NEW g \in Handles, Copy(h, g) \/ CopyAssign(h, g)
  PROVE  Value!Copy(h, g)
<1>1. /\ Born(g)
      /\ cstr[g] \in CStrings
      /\ cstr' = [cstr EXCEPT ![h] = cstr[g]]
      /\ text' = text
  BY HandleFacts DEF Copy, CopyAssign, Born
<1>2. Shown' = [Shown EXCEPT ![h] = text[cstr[g]]]
  BY <1>1, ShownUpdate
<1>3. Shown[g] = text[cstr[g]]
  BY <1>1, ShownFacts
<1> QED
  BY <1>1, <1>2, <1>3, ShownFacts DEF Value!Copy

\* The moves hand the text over and leave an empty handle.
LEMMA MoveShown ==
  ASSUME Inv, NEW h \in Handles, NEW g \in Handles, MoveNew(h, g) \/ MoveAssign(h, g)
  PROVE  Value!Move(h, g)
<1>1. /\ h # g
      /\ Born(g)
      /\ text' = text
      /\ cstr'[h] = cstr[g]
      /\ cstr'[g] = null_string
      /\ \A i \in Handles : i # h /\ i # g => cstr'[i] = cstr[i]
  BY HandleFacts DEF MoveNew, MoveAssign, Moved, Born
<1>2. Shown' = [Shown EXCEPT ![h] = Shown[g], ![g] = NullText]
  BY HandleFacts, <1>1 DEF Shown, Born
<1> QED
  BY <1>1, <1>2, ShownFacts DEF Value!Move

\* Every operation does to the texts what its caller asks for.
LEMMA AllAsAsked == ASSUME Inv PROVE AsAsked
BY TextShown, CopyShown, MoveShown DEF AsAsked

\* Every operation changes the texts as an operation on plain variables does.
LEMMA ValueNext == Inv /\ [Next]_vars => [Value!Next]_Shown
<1> SUFFICES ASSUME Inv, Next PROVE Value!Next
  <2>1. UNCHANGED vars => UNCHANGED Shown
    BY DEF vars, Shown, Born
  <2> QED
    BY <2>1
<1>1. ASSUME NEW h \in Handles, Default(h) PROVE Value!Next
  <2>1. /\ cstr' = [cstr EXCEPT ![h] = null_string]
        /\ text' = text
        /\ null_string \in CStrings
        /\ text[null_string] = NullText
    BY HandleFacts, <1>1 DEF Default
  <2>2. Shown' = [Shown EXCEPT ![h] = text'[null_string]]
    BY <2>1, ShownUpdate
  <2>3. Shown' = [Shown EXCEPT ![h] = NullText]
    BY <2>1, <2>2
  <2>4. Value!Construct(h, NullText)
    BY <2>3, <1>1, ShownFacts DEF Default, Value!Construct
  <2> QED
    BY <2>4 DEF Value!Next, Value!Readable
<1>2. ASSUME NEW h \in Handles, Destroy(h) PROVE Value!Next
  <2>1. cstr'[h] = Unborn /\ \A g \in Handles : g # h => cstr'[g] = cstr[g]
    BY HandleFacts, <1>2 DEF Destroy
  <2>2. Shown' = [Shown EXCEPT ![h] = Unborn]
    BY <2>1, <1>2 DEF Destroy, Shown, Born
  <2>3. Value!Destroy(h)
    BY <2>2, <1>2, ShownFacts DEF Destroy, Value!Destroy
  <2> QED
    BY <2>3 DEF Value!Next
<1>3. ASSUME NEW h \in Handles, NEW s \in Strings, NEW x \in Readable,
             New(h, s, x) \/ TextAssign(h, s, x)
      PROVE  Value!Next
  <2>1. Value!Construct(h, x) \/ Value!Assign(h, x)
    BY <1>3, TextShown
  <2> QED
    BY <2>1 DEF Value!Next, Value!Readable, Readable
<1>4. ASSUME NEW h \in Handles, NEW g \in Handles,
             Copy(h, g) \/ CopyAssign(h, g)
      PROVE  Value!Next
  BY <1>4, CopyShown DEF Value!Next
<1>5. ASSUME NEW h \in Handles, NEW g \in Handles,
             MoveNew(h, g) \/ MoveAssign(h, g)
      PROVE  Value!Next
  BY <1>5, MoveShown DEF Value!Next
<1> QED
  BY <1>1, <1>2, <1>3, <1>4, <1>5 DEF Next

\* The handles of string_ptr.cpp implement variables that hold texts: sharing,
\* saturation and the reuse of addresses cannot be observed through str(), and
\* a copy shows its source's text.
THEOREM ImplementsValue == Spec => RefinesValue
<1>1. Init => Value!Init
  BY DEF Init, Value!Init, Shown, Born
<1>2. Spec => Value!Spec
  BY <1>1, ValueNext, Invariance, PTL DEF Spec, Value!Spec
<1>3. Inv /\ [Next]_vars => [AsAsked]_vars
  BY AllAsAsked
<1>4. Spec => [][AsAsked]_vars
  BY <1>3, Invariance, PTL DEF Spec
<1> QED
  BY <1>2, <1>4 DEF RefinesValue

\* release never brings the counter of null_string down, so that the static
\* object is never deleted, however many empty handles there have been.
THEOREM NullStays == Spec => []NullSaturated
<1>1. Inv => NullSaturated
  BY DEF Inv
<1> QED
  BY <1>1, Invariance, PTL
=============================================================================
