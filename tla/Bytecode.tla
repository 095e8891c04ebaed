------------------------------ MODULE Bytecode ------------------------------
(***************************************************************************)
(* The bytecode of Lama as the verifier and the interpreter see it: what   *)
(* an instruction does to the depth of the stack and where control goes.   *)
(*                                                                         *)
(* An instruction takes one address, so an address is an index into the    *)
(* code and no jump leads into the middle of an instruction.  Opcodes of   *)
(* one kind are one: Binop, Patt (all patterns but PattString), LCall      *)
(* (Lwrite, Llength and Lstring).                                          *)
(***************************************************************************)
EXTENDS Integers, Sequences

CONSTANTS
  Globals,      \* file->global_area_size
  Programs      \* the files to verify: [code, entries, depth]

Opcodes ==
  {"Const", "String", "SExp", "StI", "StA", "Jmp", "End", "Ret", "Drop", "Dup",
   "Swap", "Elem", "CJmpZ", "CJmpNZ", "Begin", "CBegin", "Closure", "CallC",
   "Call", "Tag", "Array", "Fail", "Line", "Binop", "Ld", "LdA", "St",
   "PattString", "Patt", "Lread", "LCall", "Barray", "Stop"}

Begins == {"Begin", "CBegin"}
Jumps == {"Jmp", "CJmpZ", "CJmpNZ"}
Stops == {"Ret", "End", "Fail", "Stop"}
Locations == {"Global", "Local", "Arg", "Captured"} \X Nat

(***************************************************************************)
(* The operands of an instruction: x is a target or the number of locals   *)
(* of a Begin, n a number of arguments or elements, locs the variables it  *)
(* reads or writes (several for a Closure, one for Ld, LdA and St).        *)
(***************************************************************************)
Instruction == [op: Opcodes, x: Nat, n: Nat, locs: SUBSET Locations]

(***************************************************************************)
(* depth is a ghost: the words that the compiler has left on the stack,    *)
(* above the locals, when control comes to an address.                     *)
(***************************************************************************)
ASSUME ProgramsAssumption ==
  /\ Globals \in Nat
  /\ \A p \in Programs :
       /\ p.code \in Seq(Instruction)
       /\ p.entries \in Seq(DOMAIN p.code)
       /\ Len(p.entries) > 0
       /\ p.depth \in [DOMAIN p.code -> Int]

-----------------------------------------------------------------------------
(***************************************************************************)
(* The interpreter: words taken from the stack (or only looked at), words  *)
(* put on it, and where the function goes on.  A call is seen from its     *)
(* caller: it ends with the result in the place of its arguments.          *)
(***************************************************************************)
Pops(i) ==
  CASE i.op \in {"SExp", "Barray", "Call"} -> i.n
    [] i.op = "CallC" -> i.n + 1
    [] i.op = "StA" -> 3
    [] i.op \in {"Binop", "StI", "Elem", "Swap", "PattString"} -> 2
    [] i.op \in {"Drop", "Dup", "CJmpZ", "CJmpNZ", "Tag", "Array", "Patt",
                 "LCall", "Fail", "St", "End", "Ret"} -> 1
    [] OTHER -> 0

Pushes(i) ==
  CASE i.op \in {"Dup", "Swap", "LdA"} -> 2
    [] i.op \in {"Const", "String", "SExp", "Barray", "StI", "StA", "Elem",
                 "Closure", "CallC", "Call", "Tag", "Array", "Patt",
                 "PattString", "LCall", "Lread", "Binop", "Ld", "St"} -> 1
    [] OTHER -> 0

Goes(i, a) ==
  CASE i.op \in Stops -> {}
    [] i.op = "Jmp" -> {i.x}
    [] i.op \in {"CJmpZ", "CJmpNZ"} -> {i.x, a + 1}
    [] OTHER -> {a + 1}

-----------------------------------------------------------------------------
(***************************************************************************)
(* The verifier's view: StackDepthFunctor and SuccessorsFunctor.  What an  *)
(* SExp, a Barray or a call takes from the stack is not counted; the       *)
(* specialisation for Fail has no operands, so the general one applies.    *)
(***************************************************************************)
Effect(i) ==
  CASE i.op = "LdA" -> 2
    [] i.op \in {"Const", "String", "SExp", "Dup", "Ld", "Closure", "Call",
                 "Lread", "Barray"} -> 1
    [] i.op \in {"Binop", "StI", "Drop", "Elem", "CJmpZ", "CJmpNZ",
                 "PattString"} -> -1
    [] i.op = "StA" -> -2
    [] OTHER -> 0

\* mutant: what a call leads to is not looked at
Mutant_CallNext(i, a) ==
  CASE i.op \in Stops -> <<>>
    [] i.op = "Jmp" -> <<i.x>>
    [] i.op = "CJmpNZ" -> <<i.x, a + 1>>
    [] i.op = "CJmpZ" -> <<a + 1, i.x>>
    [] OTHER -> <<a + 1>>

Successors(i, a) ==
  CASE i.op \in Stops -> <<>>
    [] i.op = "Jmp" -> <<i.x>>
    [] i.op \in {"CJmpNZ", "Call", "Closure"} -> <<i.x, a + 1>>
    [] i.op = "CJmpZ" -> <<a + 1, i.x>>
    [] OTHER -> <<a + 1>>

-----------------------------------------------------------------------------
\* e is the first End from b on, and no other function begins before it
Ends(code, b, e) ==
  /\ e \in DOMAIN code
  /\ b < e
  /\ code[e].op = "End"
  /\ \A a \in b + 1..e - 1 : code[a].op \notin Begins \cup {"End"}

(***************************************************************************)
(* What the compiler emits.  In every function each instruction finds the  *)
(* words that it takes, at the same depth whichever way control came; the  *)
(* function is left at its End only, and its variables are its own.        *)
(***************************************************************************)
VariableOK(code, b, loc) ==
  CASE loc[1] = "Global" -> loc[2] < Globals
    [] loc[1] = "Local" -> loc[2] < code[b].x
    [] loc[1] = "Arg" -> loc[2] < code[b].n
    [] loc[1] = "Captured" -> code[b].op = "CBegin"

InstructionOK(p, b, e, a) ==
  LET i == p.code[a] IN
    /\ Pops(i) <= p.depth[a]
    /\ \A s \in Goes(i, a) :
         s \in b + 1..e /\ p.depth[s] = p.depth[a] - Pops(i) + Pushes(i)
    /\ \A loc \in i.locs : VariableOK(p.code, b, loc)
    /\ i.op = "Call" => i.x \in DOMAIN p.code /\ p.code[i.x].op = "Begin"
    /\ i.op = "Closure" => i.x \in DOMAIN p.code /\ p.code[i.x].op \in Begins

FunctionOK(p, b) ==
  \E e \in DOMAIN p.code :
    /\ Ends(p.code, b, e)
    /\ p.code[b].locs = {}
    /\ p.depth[b + 1] = 0
    /\ \A a \in b + 1..e : InstructionOK(p, b, e, a)

Compiled(p) ==
  /\ \A k \in DOMAIN p.entries : p.code[p.entries[k]].op = "Begin"
  /\ \A b \in DOMAIN p.code : p.code[b].op \in Begins => FunctionOK(p, b)
=============================================================================
