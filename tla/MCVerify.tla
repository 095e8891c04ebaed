------------------------------ MODULE MCVerify ------------------------------
(***************************************************************************)
(* Small programs for the verifier.                                        *)
(***************************************************************************)
EXTENDS BcStats

Make(op, x, n, locs) == [op |-> op, x |-> x, n |-> n, locs |-> locs]
Plain(op) == Make(op, 0, 0, {})
Var(op, kind, index) == Make(op, 0, 0, {<<kind, index>>})

\* the depth at which an address is first reached, 0 if it never is
Depths(cs) ==
  LET starts == { <<b + 1, 0>> : b \in {a \in DOMAIN cs : cs[a].op \in Begins} }
      R[n \in 0..Len(cs)] ==
        IF n = 0 THEN starts
        ELSE LET S == R[n-1]
                 next(a, d) == {<<s, d - Pops(cs[a]) + Pushes(cs[a])>> : s \in Goes(cs[a], a)}
             IN  S \cup UNION {next(r[1], r[2]) : r \in {v \in S : v[1] \in DOMAIN cs}}
      reached == R[Len(cs)]
  IN  [a \in DOMAIN cs |->
         LET ds == {r[2] : r \in {v \in reached : v[1] = a}}
         IN  IF ds = {} THEN 0 ELSE CHOOSE d \in ds : TRUE]

File(cs, entries) == [code |-> cs, entries |-> entries, depth |-> Depths(cs)]

(***************************************************************************)
(* One function with branches and loops: a body of three instructions, and *)
(* another function behind its End.                                        *)
(***************************************************************************)
Steps == {Plain("Const"), Plain("Drop"), Plain("Dup"), Plain("Binop"), Make("SExp", 0, 2, {}),
          Var("St", "Local", 0), Var("Ld", "Local", 1), Var("Ld", "Global", 1),
          Var("Ld", "Arg", 0)}
Branches == {Make(op, t, 0, {}) : op \in {"Jmp", "CJmpZ"}, t \in 2..6}

MCBranches ==
  { File(<<Make("Begin", l, 0, {}), i, j, m, Plain("End"),
           Make("Begin", 0, 0, {}), Plain("Const"), Plain("End")>>, <<1>>) :
      l \in 0..1, i, j, m \in Steps \cup Branches }

(***************************************************************************)
(* Three functions that call each other; the second may be public, too.    *)
(***************************************************************************)
Calls == {Plain("Const"), Make("Call", 5, 0, {}), Make("Call", 8, 1, {}), Make("Call", 9, 0, {}),
          Make("Closure", 5, 0, {}), Make("Closure", 8, 0, {<<"Captured", 0>>}),
          Make("CallC", 0, 0, {}), Var("Ld", "Arg", 0), Var("Ld", "Captured", 0)}

MCCalls ==
  { File(<<Make("Begin", 0, 0, {}), i, j, Plain("End"),
           Make(f, 0, 1, {}), m, Plain("End"),
           Make(g, 0, 1, {}), Plain("Const"), Plain("End")>>, entries) :
      f, g \in Begins, i, j, m \in Calls, entries \in {<<1>>, <<1, 5>>} }

MCPrograms == MCBranches \cup MCCalls
=============================================================================
