------------------------------ MODULE LamaData ------------------------------
(***************************************************************************)
(* The object kinds of the Lama runtime, the words they take and the graph *)
(* their fields span, as far as no address is needed.                      *)
(*                                                                         *)
(* An abstract word is Val (some unboxed integer) or Obj(i), a reference   *)
(* to the i-th object that was allocated.                                  *)
(***************************************************************************)
EXTENDS Integers, Sequences

CONSTANTS
  Shapes,       \* the <<kind, len>> pairs a program may allocate
  VSTACK_SIZE,  \* words of the virtual stack, the lowest of which is never used
  MaxId         \* bound: calls of alloc in a behaviour

Kinds == {"ARRAY", "SEXP", "CLOSURE", "STRING"}

ASSUME ShapesAssumption ==
  \A s \in Shapes : /\ s[1] \in Kinds
                    /\ s[2] \in Nat
                    /\ s[1] = "CLOSURE" => s[2] > 0

ASSUME BoundsAssumption == VSTACK_SIZE \in Nat \ {0} /\ MaxId \in Nat

W == 4                            \* sizeof(size_t) with -m32
HDR == 2                          \* DATA_HEADER_SZ in words

\* the words of an object of this kind and length, header included
SizeOf(kind, len) ==
  CASE kind = "ARRAY"   -> HDR + len
    [] kind = "CLOSURE" -> HDR + len
    [] kind = "SEXP"    -> HDR + len + 1
    [] kind = "STRING"  -> HDR + (len \div W) + 1

\* the words that the field iterators visit: not the tag, not the entry
FieldCount(kind, len) ==
  CASE kind = "ARRAY"   -> len
    [] kind = "SEXP"    -> len
    [] kind = "CLOSURE" -> len - 1
    [] kind = "STRING"  -> 0

\* Belem and Bsta accept index k of object o
InBounds(o, k) == o.kind # "CLOSURE" /\ k \in 1..o.len

MaxLen == CHOOSE n \in {s[2] : s \in Shapes} : \A s \in Shapes : s[2] <= n

Val == <<"val", 0>>
Obj(i) == <<"obj", i>>

\* the objects that the words ws name
Named(ws) == { ws[k][2] : k \in {j \in DOMAIN ws : ws[j][1] = "obj"} }

\* no field of an object in S leads out of S
Closed(g, S) == \A i \in S : Named(g[i].fields) \subseteq S

\* the objects of graph g that the words ws can reach: the least closed set
\* that has what ws name
Reach(g, ws) ==
  { i \in DOMAIN g :
      \A S \in SUBSET DOMAIN g : Named(ws) \subseteq S /\ Closed(g, S) => i \in S }

Prune(g, ws) == [i \in Reach(g, ws) |-> g[i]]
=============================================================================
