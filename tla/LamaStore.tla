------------------------------ MODULE LamaStore ------------------------------
(***************************************************************************)
(* What the Lama heap promises to the interpreter: a store of objects that *)
(* never runs out, never moves an object and never loses one that the      *)
(* virtual stack can still reach.  There are no addresses here: an object  *)
(* is the number of its allocation (the `id` that gc.c keeps in the        *)
(* DEBUG_VERSION build, where cur_id counts calls of alloc).               *)
(*                                                                         *)
(* One action per operation of tools/interprete.cpp or runtime/runtime.c   *)
(* that allocates, reads or writes a heap object.  Every unboxed integer   *)
(* is the same word Val, so an index popped from the stack may be any      *)
(* number within the bounds of the object it indexes.                      *)
(***************************************************************************)
EXTENDS LamaData

VARIABLES
  stack,        \* the virtual stack, bottom first; words are Val or Obj(id)
  graph,        \* reachable object -> its kind, length and fields
  nextid        \* cur_id + 1

storeVars == <<stack, graph, nextid>>

Init ==
  /\ stack = <<>>
  /\ graph = <<>>
  /\ nextid = 1

Depth == Len(stack)
Top == stack[Depth]
Lower(n) == SubSeq(stack, 1, Depth - n)

(***************************************************************************)
(* A step that leaves stack st and, of graph g, what st can reach.         *)
(***************************************************************************)
Becomes(st, g) ==
  /\ stack' = st
  /\ graph' = Prune(g, st)

Extend(g, i, o) == [j \in DOMAIN g \cup {i} |-> IF j = i THEN o ELSE g[j]]

Push(w) ==
  /\ Depth < VSTACK_SIZE - 1
  /\ Becomes(Append(stack, w), graph)
  /\ UNCHANGED nextid

Drop ==
  /\ Depth > 0
  /\ Becomes(Lower(1), graph)
  /\ UNCHANGED nextid

\* arithmetic, pattern tests and the like: n words give way to an integer
Compute(n) ==
  /\ Depth >= n
  /\ Becomes(Append(Lower(n), Val), graph)
  /\ UNCHANGED nextid

Swap ==
  /\ Depth > 1
  /\ Becomes(Lower(2) \o <<Top, stack[Depth-1]>>, graph)
  /\ UNCHANGED nextid

(***************************************************************************)
(* The word an index reads, and the object after word v is stored there:   *)
(* a character of a string is an integer, not a field.                     *)
(***************************************************************************)
Read(o, k) == IF o.kind = "STRING" THEN Val ELSE o.fields[k]

Written(o, k, v) == IF o.kind = "STRING" THEN o ELSE [o EXCEPT !.fields[k] = v]

\* pops an index and an object
Elem(k) ==
  /\ Depth > 1
  /\ Top = Val
  /\ LET p == stack[Depth-1] IN
     /\ p[1] = "obj"
     /\ InBounds(graph[p[2]], k)
     /\ Becomes(Append(Lower(2), Read(graph[p[2]], k)), graph)
  /\ UNCHANGED nextid

\* pops a value, an index and an object; pushes the value
StA(k) ==
  /\ Depth > 2
  /\ stack[Depth-1] = Val
  /\ LET x == stack[Depth-2] IN
     /\ x[1] = "obj"
     /\ InBounds(graph[x[2]], k)
     /\ Becomes(Append(Lower(3), Top),
                [graph EXCEPT ![x[2]] = Written(@, k, Top)])
  /\ UNCHANGED nextid

(***************************************************************************)
(* Allocation: `used` words are popped and the new object is pushed.       *)
(***************************************************************************)
Alloc(used, obj) ==
  /\ nextid <= MaxId
  /\ used <= Depth
  /\ Depth - used < VSTACK_SIZE - 1
  /\ Becomes(Append(Lower(used), Obj(nextid)), Extend(graph, nextid, obj))
  /\ nextid' = nextid + 1

\* Barray, BSexp, Bclosure and Bstring: the popped words are the fields.
Make(kind, len) ==
  LET n == FieldCount(kind, len) IN
    /\ n <= Depth
    /\ Alloc(n, [kind |-> kind, len |-> len, fields |-> SubSeq(stack, Depth - n + 1, Depth)])

\* Lstring: a fresh string of some length replaces the value it prints.
Stringify(len) ==
  /\ Depth > 0
  /\ Alloc(1, [kind |-> "STRING", len |-> len, fields |-> <<>>])

\* Lclone: a shallow copy replaces the object.
Clone ==
  /\ Depth > 0
  /\ Top[1] = "obj"
  /\ Alloc(1, graph[Top[2]])

\* Lsubstring: a string that is not longer replaces a string.
Substring(len) ==
  /\ Depth > 0
  /\ Top[1] = "obj"
  /\ graph[Top[2]].kind = "STRING"
  /\ len <= graph[Top[2]].len
  /\ Alloc(1, [kind |-> "STRING", len |-> len, fields |-> <<>>])

\* Two strings give way to one that is as long as both (++).
Strcat ==
  /\ Depth > 1
  /\ LET a == stack[Depth-1] IN
     /\ a[1] = "obj" /\ Top[1] = "obj"
     /\ graph[a[2]].kind = "STRING" /\ graph[Top[2]].kind = "STRING"
     /\ Alloc(2, [kind |-> "STRING", len |-> graph[a[2]].len + graph[Top[2]].len,
                  fields |-> <<>>])

Next ==
  \/ Push(Val)
  \/ Depth > 0 /\ Push(Top)
  \/ Drop
  \/ Swap
  \/ \E n \in 1..2 : Compute(n)
  \/ \E k \in 1..MaxLen : Elem(k) \/ StA(k)
  \/ \E s \in Shapes : Make(s[1], s[2])
  \/ \E s \in Shapes : s[1] = "STRING" /\ Stringify(s[2])
  \/ \E s \in Shapes : s[1] = "STRING" /\ Substring(s[2])
  \/ Clone
  \/ Strcat

Spec == Init /\ [][Next]_storeVars
=============================================================================
