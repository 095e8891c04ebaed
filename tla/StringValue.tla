---------------------------- MODULE StringValue ----------------------------
(***************************************************************************)
(* What a StringPtr of 08-string-ptr looks like to its user: a variable    *)
(* that holds a text.  Copies are independent, and nothing that happens to *)
(* one variable changes the text of another.                               *)
(***************************************************************************)
CONSTANTS Handles, Texts, NullText, Unborn

VARIABLE val  \* handle -> its text; Unborn before construction

Born(h) == val[h] # Unborn

Init == val = [h \in Handles |-> Unborn]

Construct(h, x) == ~Born(h) /\ val' = [val EXCEPT ![h] = x]

Assign(h, x) == Born(h) /\ val' = [val EXCEPT ![h] = x]

\* construction or assignment from another handle, which keeps its text
Copy(h, g) == Born(g) /\ val' = [val EXCEPT ![h] = val[g]]

\* construction or assignment that leaves the other handle empty
Move(h, g) ==
  /\ h # g
  /\ Born(g)
  /\ val' = [val EXCEPT ![h] = val[g], ![g] = NullText]

Destroy(h) == Born(h) /\ val' = [val EXCEPT ![h] = Unborn]

Readable == Texts \cup {NullText}

Next ==
  \E h \in Handles :
    \/ \E x \in Readable : Construct(h, x) \/ Assign(h, x)
    \/ \E g \in Handles : Copy(h, g) \/ Move(h, g)
    \/ Destroy(h)

Spec == Init /\ [][Next]_val
=============================================================================
