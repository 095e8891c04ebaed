------------------------------ MODULE StringPtr ------------------------------
(***************************************************************************)
(* The shared string of 08-string-ptr.  A StringPtr points to a CString,   *)
(* which keeps the number of its other owners in the low bits of the       *)
(* pointer to its text.  The counter saturates: a CString whose counter    *)
(* has reached SAT is never freed.                                         *)
(*                                                                         *)
(* Handles are the StringPtr variables of a program; Strings are the       *)
(* addresses that `new CString` may return, which are used again after a   *)
(* delete.  The program has one thread.                                    *)
(***************************************************************************)
EXTENDS Integers, FiniteSets

CONSTANTS
  Handles, Strings, Texts,
  null_string,  \* the static CString of empty handles
  NullText,     \* what str() returns for it
  Unborn,       \* a handle that is not constructed
  SAT           \* REF_COUNT_SATURATION

ASSUME StringAssumption ==
  /\ IsFiniteSet(Handles)
  /\ null_string \notin Strings
  /\ Unborn \notin Strings \cup {null_string}
  /\ NullText \notin Texts
  /\ Unborn \notin Texts \cup {NullText}
  /\ SAT \in Nat \ {0}

VARIABLES
  cstr,         \* handle -> CString
  live,         \* the CStrings that are allocated
  rc,           \* ref_count of a CString
  text          \* text of a CString

vars == <<cstr, live, rc, text>>

CStrings == Strings \cup {null_string}
Readable == Texts \cup {NullText}

Born(h) == cstr[h] # Unborn

Init ==
  /\ cstr = [h \in Handles |-> Unborn]
  /\ live = {}
  /\ rc = [s \in CStrings |-> SAT]
  /\ text = [s \in CStrings |-> NullText]

-----------------------------------------------------------------------------
\* mutant: the counter wraps around
Mutant_Wraps(r, s) == [r EXCEPT ![s] = IF @ = SAT THEN 0 ELSE @ + 1]

\* inc_ref_count
Inc(r, s) == [r EXCEPT ![s] = IF @ = SAT THEN SAT ELSE @ + 1]

\* mutant: a saturated counter is decremented
Mutant_LeavesSaturation(r, s) == [r EXCEPT ![s] = @ - 1]

\* dec_ref_count, of a counter that is not zero
Dec(r, s) == [r EXCEPT ![s] = IF @ = SAT THEN SAT ELSE @ - 1]

\* an owner of s goes away, when counters are r and the strings in L exist
Release(L, r, s) ==
  /\ live' = IF r[s] = 0 THEN L \ {s} ELSE L
  /\ rc' = IF r[s] = 0 THEN r ELSE Dec(r, s)

\* the counter of a new CString; nullptr makes one that is saturated
Fresh(x) == IF x = NullText THEN SAT ELSE 0

-----------------------------------------------------------------------------
\* StringPtr()
Default(h) ==
  /\ ~Born(h)
  /\ cstr' = [cstr EXCEPT ![h] = null_string]
  /\ UNCHANGED <<live, rc, text>>

\* StringPtr(const char *)
New(h, s, x) ==
  /\ ~Born(h)
  /\ s \in Strings \ live
  /\ cstr' = [cstr EXCEPT ![h] = s]
  /\ live' = live \cup {s}
  /\ rc' = [rc EXCEPT ![s] = Fresh(x)]
  /\ text' = [text EXCEPT ![s] = x]

\* StringPtr(const StringPtr &)
Copy(h, g) ==
  /\ ~Born(h)
  /\ Born(g)
  /\ cstr' = [cstr EXCEPT ![h] = cstr[g]]
  /\ rc' = Inc(rc, cstr[g])
  /\ UNCHANGED <<live, text>>

\* operator=(const StringPtr &): copy, swap, destroy the copy
CopyAssign(h, g) ==
  /\ h # g
  /\ Born(h)
  /\ Born(g)
  /\ cstr' = [cstr EXCEPT ![h] = cstr[g]]
  /\ Release(live, Inc(rc, cstr[g]), cstr[h])
  /\ UNCHANGED text

\* operator=(const char *): construct, swap, destroy
TextAssign(h, s, x) ==
  /\ Born(h)
  /\ s \in Strings \ live
  /\ cstr' = [cstr EXCEPT ![h] = s]
  /\ Release(live \cup {s}, [rc EXCEPT ![s] = Fresh(x)], cstr[h])
  /\ text' = [text EXCEPT ![s] = x]

\* mutant: the other handle keeps its string
Mutant_KeepsSource(h, g) == [cstr EXCEPT ![h] = cstr[g]]

Moved(h, g) == [cstr EXCEPT ![h] = cstr[g], ![g] = null_string]

\* StringPtr(StringPtr &&)
MoveNew(h, g) ==
  /\ ~Born(h)
  /\ Born(g)
  /\ cstr' = Moved(h, g)
  /\ UNCHANGED <<live, rc, text>>

\* operator=(StringPtr &&)
MoveAssign(h, g) ==
  /\ h # g
  /\ Born(h)
  /\ Born(g)
  /\ cstr' = Moved(h, g)
  /\ Release(live, rc, cstr[h])
  /\ UNCHANGED text

\* ~StringPtr
Destroy(h) ==
  /\ Born(h)
  /\ cstr' = [cstr EXCEPT ![h] = Unborn]
  /\ Release(live, rc, cstr[h])
  /\ UNCHANGED text

Next ==
  \E h \in Handles :
    \/ Default(h)
    \/ Destroy(h)
    \/ \E s \in Strings, x \in Readable : New(h, s, x) \/ TextAssign(h, s, x)
    \/ \E g \in Handles :
         Copy(h, g) \/ CopyAssign(h, g) \/ MoveNew(h, g) \/ MoveAssign(h, g)

Spec == Init /\ [][Next]_vars

-----------------------------------------------------------------------------
\* Every variable has its type.
TypeOK ==
  /\ cstr \in [Handles -> CStrings \cup {Unborn}]
  /\ live \subseteq Strings
  /\ rc \in [CStrings -> 0..SAT]
  /\ text \in [CStrings -> Readable]

\* A handle points to the static empty string or to a CString that has not
\* been freed: the destructor and the assignments never free a string that
\* another handle still shows, in whatever order copies, moves and
\* destructions come and although the counter is too small to count them.
NoDangling == \A h \in Handles : Born(h) => cstr[h] \in live \cup {null_string}

Holders(s) == {h \in Handles : cstr[h] = s}

\* Unless it is saturated, the counter is the number of owners but one.  So
\* a CString without an owner is freed, unless it was shared too often, and
\* dec_ref_count never throws: its argument is never zero.
Counted ==
  \A s \in live : rc[s] # SAT => Cardinality(Holders(s)) = rc[s] + 1

\* The static empty string, which nobody may delete, stays saturated.
NullSaturated == rc[null_string] = SAT /\ text[null_string] = NullText

Inv == TypeOK /\ NoDangling /\ Counted /\ NullSaturated

\* what the user of a handle reads with str()
Shown == [h \in Handles |-> IF Born(h) THEN text[cstr[h]] ELSE Unborn]

Value == INSTANCE StringValue WITH val <- Shown

\* Each operation does to the texts what its caller asks for.
AsAsked ==
  \A h \in Handles :
    /\ \A s \in Strings, x \in Readable :
         /\ New(h, s, x) => Value!Construct(h, x)
         /\ TextAssign(h, s, x) => Value!Assign(h, x)
    /\ \A g \in Handles :
         /\ Copy(h, g) \/ CopyAssign(h, g) => Value!Copy(h, g)
         /\ MoveNew(h, g) \/ MoveAssign(h, g) => Value!Move(h, g)

\* Sharing cannot be seen: handles behave as variables that hold a text, a
\* copy shows the text of its source, and a new text is the one that was given.
RefinesValue == Value!Spec /\ [][AsAsked]_vars
=============================================================================
