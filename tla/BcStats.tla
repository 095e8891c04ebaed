------------------------------ MODULE BcStats -------------------------------
(***************************************************************************)
(* tools/bcstats.cpp: how often each instruction, and each pair of         *)
(* instructions that are always executed one after the other, occurs in    *)
(* what a program can reach.  p is a program of Bytecode.                  *)
(*                                                                         *)
(* Every idiom is the sequence of one or two instructions that the program *)
(* keeps as a range of bytes: no encoding of an instruction is a prefix of *)
(* another one, so equal ranges are equal sequences.                       *)
(***************************************************************************)
EXTENDS Verify, SequencesExt

-----------------------------------------------------------------------------
(***************************************************************************)
(* mark_reachable_instructions: the queue is worked off until it is empty; *)
(* an instruction is pushed when it is first met.                          *)
(***************************************************************************)
RECURSIVE Mark(_, _, _)
Mark(p, work, visited) ==
  IF work = <<>> THEN visited
  ELSE LET a == Head(work)
           new == SelectSeq(Successors(p.code[a], a), LAMBDA s : s \notin visited)
       IN  Mark(p, Tail(work) \o new, visited \cup ToSet(new))

reachable(p) == Mark(p, p.entries, ToSet(p.entries))

-----------------------------------------------------------------------------
(***************************************************************************)
(* mark_jumps.  End and Ret are not in its list.  A label is the target of *)
(* any instruction of the file that does not only lead to the next one,    *)
(* also of one that cannot be reached.                                     *)
(***************************************************************************)
\* mutant: a call is taken for an instruction after which the next one comes
Mutant_NoCalls(i) == i.op \in Jumps \cup {"Fail", "Stop"}

jump(i) == i.op \in Jumps \cup {"Call", "CallC", "Fail", "Stop"}

label(p) ==
  UNION {ToSet(Successors(p.code[a], a)) \ {a + 1} : a \in DOMAIN p.code}

-----------------------------------------------------------------------------
(***************************************************************************)
(* main: the loop over the code, as the sequence of what it counts.  prev  *)
(* is 0 where the program has nullptr.                                     *)
(***************************************************************************)
Count(p, a, prev, live, labels) ==
  IF a \notin live THEN [counted |-> <<>>, prev |-> 0]
  ELSE [counted |-> (IF prev # 0 /\ a \notin labels
                     THEN << <<p.code[prev], p.code[a]>> >> ELSE <<>>)
                      \o << <<p.code[a]>> >>,
        prev |-> IF jump(p.code[a]) THEN 0 ELSE a]

counted(p) ==
  LET live == reachable(p)
      labels == label(p)
      step(s, a) == LET c == Count(p, a, s.prev, live, labels)
                    IN  [counted |-> s.counted \o c.counted, prev |-> c.prev]
  IN  FoldLeft(step, [counted |-> <<>>, prev |-> 0], [a \in DOMAIN p.code |-> a]).counted

(***************************************************************************)
(* Grouping.  Idioms of one byte, and pairs of two, are counted in tables  *)
(* with an entry for every opcode; all others are sorted and then counted  *)
(* run by run.  What sorting is for is that equal idioms become            *)
(* neighbours: the order of the bytes is any order here.                   *)
(***************************************************************************)
OneByte == {"StI", "StA", "End", "Ret", "Drop", "Dup", "Swap", "Elem", "Binop",
            "PattString", "Patt", "Lread", "LCall", "Stop"}

short(idiom) == \A j \in DOMAIN idiom : idiom[j].op \in OneByte

RECURSIVE Sorted(_)
Sorted(idioms) ==
  IF idioms = <<>> THEN <<>>
  ELSE SelectSeq(idioms, LAMBDA x : x = Head(idioms))
         \o Sorted(SelectSeq(idioms, LAMBDA x : x # Head(idioms)))

Group(groups, idiom) ==
  IF groups = <<>> \/ Last(groups).idiom # idiom
  THEN Append(groups, [idiom |-> idiom, count |-> 1])
  ELSE [groups EXCEPT ![Len(groups)].count = @ + 1]

\* the entry of an opcode, or of two, in a table
Bump(table, idiom) ==
  IF \E g \in DOMAIN table : table[g].idiom = idiom
  THEN [g \in DOMAIN table |->
          IF table[g].idiom = idiom THEN [table[g] EXCEPT !.count = @ + 1] ELSE table[g]]
  ELSE Append(table, [idiom |-> idiom, count |-> 1])

\* what is printed, most frequent idioms first; which of two that are equally
\* frequent comes first is not said by std::sort
idiom_groups(p) ==
  LET all == counted(p)
      long == FoldLeft(Group, <<>>, Sorted(SelectSeq(all, LAMBDA x : ~short(x))))
  IN  SortSeq(long \o FoldLeft(Bump, <<>>, SelectSeq(all, short)),
              LAMBDA g, h : g.count > h.count)

-----------------------------------------------------------------------------
(***************************************************************************)
(* What the numbers mean.  Reached is what a program's execution can get   *)
(* to from its entry points: the least set with them that Successors does  *)
(* not leave.                                                              *)
(***************************************************************************)
IsReached(p, S) ==
  LET closed(T) == \A a \in T : ToSet(Successors(p.code[a], a)) \subseteq T
  IN  /\ ToSet(p.entries) \subseteq S
      /\ closed(S)
      /\ \A T \in SUBSET S \ {S} : ToSet(p.entries) \subseteq T => ~closed(T)

\* Where the second instruction always follows the first, and the first always
\* comes before the second: control goes on from a to its neighbour only, and
\* comes there from a only.  The exception is the code's own: it does not look
\* at what ends a function, so the last instruction of a function and the
\* first of an entry point behind it that nobody calls are a pair as well.
Straight(p, S, a) ==
  /\ {a, a + 1} \subseteq S
  /\ p.code[a].op \notin Jumps \cup {"Call", "CallC"}
  /\ \A b \in DOMAIN p.code \ {a} :
       /\ a + 1 \notin Goes(p.code[b], b)
       /\ p.code[b].op \in {"Call", "Closure"} => p.code[b].x # a + 1
  /\ \/ Goes(p.code[a], a) = {a + 1}
     \/ p.code[a].op \in {"Ret", "End"}

Occurrences(p, S, idiom) ==
  {a \in S : /\ p.code[a] = idiom[1]
             /\ Len(idiom) = 2 => Straight(p, S, a) /\ p.code[a + 1] = idiom[2]}

Exact(p) ==
  LET groups == idiom_groups(p)
      S == reachable(p)
      found == {<<p.code[a]>> : a \in S}
                 \cup {<<p.code[a], p.code[a + 1]>> : a \in {b \in S : Straight(p, S, b)}}
  IN  /\ {groups[g].idiom : g \in DOMAIN groups} = found
      /\ Len(groups) = Cardinality(found)
      /\ \A g \in DOMAIN groups :
           /\ groups[g].count = Cardinality(Occurrences(p, S, groups[g].idiom))
           /\ g > 1 => groups[g - 1].count >= groups[g].count
\* the file has been read and nothing has been done with it
Loaded == phase = "scan" /\ q = prog.entries

\* The queue of bcstats comes to everything that execution can get to, and to
\* nothing else, whichever jumps lead backwards.  Every number that bcstats prints is the number of places at which the idiom
\* can be executed; a pair is counted where its halves always go together; no
\* idiom is printed twice, and a frequent one comes before a rare one.
StatsExact == Loaded => IsReached(prog, reachable(prog)) /\ Exact(prog)
=============================================================================
