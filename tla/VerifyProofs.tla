---------------------------- MODULE VerifyProofs ----------------------------
(***************************************************************************)
(* The verifier rejects no program that the compiler emits, it leaves out  *)
(* no function that can be called, and what it accepts keeps its frame.    *)
(*                                                                         *)
(* The argument of the first: along every way through a function the       *)
(* verifier counts at least as many words as the compiler does, because    *)
(* its effect of every instruction is at least the true one (EffectBound), *)
(* and what it queues are successors inside the function that is being     *)
(* visited (FreshOnes).  The other two are in sections of their own below. *)
(***************************************************************************)
EXTENDS Verify, TLAPS

\* The verifier's effect of an instruction is at least the interpreter's.
LEMMA EffectBound ==
  ASSUME NEW i \in Instruction
  PROVE  /\ Pops(i) \in Nat
         /\ Pushes(i) \in Nat
         /\ Effect(i) \in Int
         /\ Effect(i) >= Pushes(i) - Pops(i)
<1>1. i.op \in Opcodes /\ i.n \in Nat
  BY DEF Instruction
<1>2. Pops(i) \in Nat
  BY <1>1 DEF Pops, Opcodes
<1>3. Pushes(i) \in Nat
  BY <1>1 DEF Pushes, Opcodes
<1>4. Effect(i) \in Int /\ Effect(i) >= Pushes(i) - Pops(i)
  BY <1>1 DEF Pops, Pushes, Effect, Opcodes
<1> QED
  BY <1>2, <1>3, <1>4

\* Successors are at most two; what the interpreter goes to is among them,
\* and besides there are only the targets of calls and closures.
LEMMA SuccessorsAre ==
  ASSUME NEW i \in Instruction, NEW a \in Nat
  PROVE  /\ Successors(i, a) \in Seq(Nat)
         /\ Len(Successors(i, a)) \in 0..2
         /\ \A j \in 1..Len(Successors(i, a)) :
              \/ Successors(i, a)[j] \in Goes(i, a)
              \/ i.op \in {"Call", "Closure"} /\ Successors(i, a)[j] = i.x
  BY DEF Successors, Goes, Instruction, Stops

\* A successor is queued or it is not.
LEMMA KeepOne ==
  ASSUME NEW s, NEW S, NEW R, NEW B, NEW T, s \in B /\ s \notin S => s \in T
  PROVE  Keep(s, S, B) \in Seq(T) /\ Keep(s, S \cup R, B) \in Seq(T)
<1>1. CASE s \in B /\ s \notin S
  <2>1. s \in T
    BY <1>1
  <2>2. <<s>> \in Seq(T) /\ <<>> \in Seq(T)
    BY <2>1
  <2>3. Keep(s, S, B) = <<s>>
    BY <1>1 DEF Keep
  <2>4. Keep(s, S \cup R, B) = <<s>> \/ Keep(s, S \cup R, B) = <<>>
    BY DEF Keep
  <2> QED
    BY <2>2, <2>3, <2>4
<1>2. CASE ~(s \in B /\ s \notin S)
  <2>1. Keep(s, S, B) = <<>>
    BY <1>2 DEF Keep
  <2>2. Keep(s, S \cup R, B) = <<>>
    BY <1>2 DEF Keep
  <2>3. <<>> \in Seq(T)
    OBVIOUS
  <2> QED
    BY <2>1, <2>2, <2>3
<1> QED
  BY <1>1, <1>2

\* The successors that are queued lie in B and have not been seen.
LEMMA FreshOnes ==
  ASSUME NEW ss \in Seq(Nat), Len(ss) \in 0..2, NEW S, NEW B, NEW T,
         \A j \in 1..Len(ss) : ss[j] \in B /\ ss[j] \notin S => ss[j] \in T
  PROVE  Fresh(ss, S, B) \in Seq(T)
<1>1. CASE Len(ss) = 0
  BY <1>1 DEF Fresh
<1>2. CASE Len(ss) = 1
  <2>0. ss[1] \in B /\ ss[1] \notin S => ss[1] \in T
    BY <1>2
  <2>1. Keep(ss[1], S, B) \in Seq(T)
    BY <2>0, KeepOne, Zenon
  <2>2. Fresh(ss, S, B) = Keep(ss[1], S, B)
    BY <1>2 DEF Fresh
  <2> QED
    BY <2>1, <2>2
<1>3. CASE Len(ss) = 2
  <2>0. /\ ss[1] \in B /\ ss[1] \notin S => ss[1] \in T
        /\ ss[2] \in B /\ ss[2] \notin S => ss[2] \in T
    BY <1>3
  <2>1. Keep(ss[1], S, B) \in Seq(T)
    BY <2>0, KeepOne, Zenon
  <2>2. Keep(ss[2], S \cup {ss[1]}, B) \in Seq(T)
    BY <2>0, KeepOne, Zenon
  <2>3. Fresh(ss, S, B) = Keep(ss[1], S, B) \o Keep(ss[2], S \cup {ss[1]}, B)
    BY <1>3 DEF Fresh
  <2> QED
    BY <2>1, <2>2, <2>3
<1> QED
  BY <1>1, <1>2, <1>3

\* A function has one End.
LEMMA OneEnd ==
  ASSUME NEW cs, NEW b \in Nat, NEW e \in Nat, NEW f \in Nat,
         Ends(cs, b, e), Ends(cs, b, f)
  PROVE  e = f
  BY DEF Ends

-----------------------------------------------------------------------------
(***************************************************************************)
(* Facts about a compiled program.                                         *)
(***************************************************************************)
\* The code is a sequence of instructions.
LEMMA CodeType ==
  ASSUME prog \in Programs
  PROVE  /\ code \in Seq(Instruction)
         /\ DOMAIN code = 1..Len(code)
         /\ Len(code) \in Nat
         /\ \A a \in DOMAIN code : a \in Nat /\ code[a] \in Instruction
         /\ prog.depth \in [DOMAIN code -> Int]
         /\ prog.entries \in Seq(DOMAIN code)
         /\ Len(prog.entries) > 0
  BY ProgramsAssumption DEF code

\* What FunctionOK says of the End that LastOf finds.
LEMMA FunctionFacts ==
  ASSUME prog \in Programs, Compiled(prog), NEW b \in FunctionStarts
  PROVE  /\ LastOf(b) \in DOMAIN code
         /\ Ends(code, b, LastOf(b))
         /\ code[b].locs = {}
         /\ prog.depth[b + 1] = 0
         /\ \A a \in b + 1..LastOf(b) : InstructionOK(prog, b, LastOf(b), a)
<1>1. b \in DOMAIN code /\ code[b].op \in Begins
  BY DEF FunctionStarts
<1>2. PICK e \in DOMAIN code :
        /\ Ends(code, b, e)
        /\ code[b].locs = {}
        /\ prog.depth[b + 1] = 0
        /\ \A a \in b + 1..e : InstructionOK(prog, b, e, a)
  BY <1>1 DEF Compiled, FunctionOK, code
<1>3. LastOf(b) \in DOMAIN code /\ Ends(code, b, LastOf(b))
  BY <1>2 DEF LastOf
<1>4. LastOf(b) = e
  BY <1>1, <1>2, <1>3, OneEnd, CodeType
<1> QED
  BY <1>2, <1>3, <1>4

\* The scan stays inside functions and finds the Begin of what is called.
LEMMA StaysInside ==
  ASSUME prog \in Programs, Compiled(prog), NEW a \in InFunctions
  PROVE  /\ a \in DOMAIN code
         /\ ~BadTarget(code[a])
         /\ \A s \in Goes(code[a], a) : s \in InFunctions
         /\ code[a].op \in {"Call", "Closure"} => code[a].x \in FunctionStarts
<1>1. PICK b \in FunctionStarts : a \in b..LastOf(b)
  BY DEF InFunctions
<1>2. a \in DOMAIN code /\ b \in DOMAIN code /\ code[b].op \in Begins
  BY DEF InFunctions, FunctionStarts
<1>3. /\ LastOf(b) \in DOMAIN code
      /\ b < LastOf(b)
      /\ \A c \in b + 1..LastOf(b) : InstructionOK(prog, b, LastOf(b), c)
  BY <1>1, FunctionFacts DEF Ends
<1>4. \A s \in b..LastOf(b) : s \in InFunctions
  BY <1>2, <1>3, CodeType DEF InFunctions
<1>5. CASE a = b
  <2>1. Goes(code[a], a) = {a + 1}
    BY <1>2, <1>5 DEF Goes, Begins, Stops
  <2>2. a + 1 \in b..LastOf(b)
    BY <1>2, <1>3, <1>5, CodeType
  <2> QED
    BY <1>2, <1>4, <1>5, <2>1, <2>2 DEF BadTarget, Begins
<1>6. CASE a # b
  <2>1. InstructionOK(prog, b, LastOf(b), a)
    BY <1>1, <1>2, <1>3, <1>6, CodeType
  <2>2. \A s \in Goes(code[a], a) : s \in b + 1..LastOf(b)
    BY <2>1 DEF InstructionOK, code
  <2>3. \A s \in b + 1..LastOf(b) : s \in b..LastOf(b)
    BY <1>2, <1>3, CodeType
  <2>4. /\ code[a].op = "Call" => code[a].x \in DOMAIN code /\ code[code[a].x].op = "Begin"
        /\ code[a].op = "Closure" => code[a].x \in DOMAIN code /\ code[code[a].x].op \in Begins
    BY <2>1 DEF InstructionOK, code
  <2>5. ~BadTarget(code[a])
    BY <2>4 DEF BadTarget
  <2>6. code[a].op \in {"Call", "Closure"} => code[a].x \in FunctionStarts
    BY <2>4 DEF FunctionStarts, Begins
  <2> QED
    BY <1>2, <1>4, <2>2, <2>3, <2>5, <2>6
<1> QED
  BY <1>5, <1>6

\* A function begins inside itself.
LEMMA StartsInside ==
  ASSUME prog \in Programs, Compiled(prog), NEW b \in FunctionStarts
  PROVE  b \in InFunctions /\ b \in b..LastOf(b)
<1>1. b \in DOMAIN code /\ LastOf(b) \in DOMAIN code /\ b < LastOf(b)
  BY FunctionFacts DEF Ends, FunctionStarts
<1> QED
  BY <1>1, CodeType DEF InFunctions

\* No instruction of a function but its first is a Begin.
LEMMA OneBegin ==
  ASSUME prog \in Programs, Compiled(prog), NEW b \in FunctionStarts,
         NEW a \in b + 1..LastOf(b)
  PROVE  a \in DOMAIN code /\ a \notin FunctionStarts
<1>1. b \in DOMAIN code /\ LastOf(b) \in DOMAIN code /\ Ends(code, b, LastOf(b))
  BY FunctionFacts DEF FunctionStarts
<1>2. a \in DOMAIN code
  BY <1>1, CodeType
<1>3. a = LastOf(b) \/ a \in b + 1..LastOf(b) - 1
  BY <1>1, CodeType
<1>4. code[a].op \notin Begins
  BY <1>1, <1>3 DEF Ends, Begins
<1> QED
  BY <1>2, <1>4 DEF FunctionStarts

\* An instruction that is visited with a layout of Items passes the tests,
\* and its successors in the function get layouts of Items.
LEMMA VisitItem ==
  ASSUME prog \in Programs, Compiled(prog), fn \in FunctionStarts, NEW it \in Items
  PROVE  LET a == it[1]
             l == it[2]
             i == code[a]
         IN  /\ a \in DOMAIN code
             /\ i.op = "Call" => l.locals >= 0
             /\ \A loc \in i.locs : ~BadLocation(l, loc)
             /\ After(l, i).locals >= 0
             /\ \A s \in Goes(i, a) : <<s, After(l, i)>> \in Items
             /\ i.op \in {"Call", "Closure"} => i.x \in FunctionStarts
             /\ i.op \in Jumps => i.x \in fn..LastOf(fn)
<1> DEFINE a == it[1]
           l == it[2]
           i == code[a]
           b == fn
           e == LastOf(fn)
<1>1. a \in b..e /\ l \in Layout /\ it = <<a, l>>
  BY DEF Items
<1>2. /\ b \in DOMAIN code /\ e \in DOMAIN code /\ b < e
      /\ code[b].op \in Begins
      /\ code[b].locs = {}
      /\ prog.depth[b + 1] = 0
      /\ \A c \in b + 1..e : InstructionOK(prog, b, e, c)
  BY FunctionFacts DEF Ends, FunctionStarts
<1>3. a \in DOMAIN code /\ i \in Instruction /\ a \in Nat /\ b \in Nat /\ e \in Nat
  BY <1>1, <1>2, CodeType
<1>4. code[b].x \in Nat /\ code[b] \in Instruction
  BY <1>2, CodeType DEF Instruction
<1>5. CASE a = b
  <2>1. i.op \in Begins /\ i.locs = {} /\ i.x = code[b].x
    BY <1>2, <1>5
  <2>2. After(l, i) = [locals |-> code[b].x, is_closure |-> code[b].op = "CBegin"]
    BY <1>5, <2>1 DEF After
  <2>3. Goes(i, a) = {b + 1} /\ b + 1 \in b..e /\ b + 1 # b
    BY <1>2, <1>3, <1>5, <2>1 DEF Goes, Begins, Stops
  <2>4. After(l, i) \in Layout /\ After(l, i).locals = code[b].x
        /\ After(l, i).is_closure = (code[b].op = "CBegin")
    BY <1>4, <2>2 DEF Layout
  <2>5. <<b + 1, After(l, i)>> \in Items
    BY <1>2, <1>4, <2>3, <2>4 DEF Items
  <2> QED
    BY <1>3, <1>4, <2>1, <2>3, <2>4, <2>5 DEF Begins, Jumps
<1>6. CASE a # b
  <2>1. a \in b + 1..e /\ InstructionOK(prog, b, e, a)
    BY <1>1, <1>2, <1>3, <1>6
  <2>2. i.op \notin Begins
    BY <1>3, <2>1, OneBegin DEF FunctionStarts
  <2>3. /\ l.locals \in Int /\ l.is_closure \in BOOLEAN
        /\ l.locals >= code[b].x + prog.depth[a]
        /\ l.is_closure = (code[b].op = "CBegin")
    BY <1>1, <1>6 DEF Items, Layout
  <2>4. /\ Pops(i) <= prog.depth[a]
        /\ \A s \in Goes(i, a) :
             s \in b + 1..e /\ prog.depth[s] = prog.depth[a] - Pops(i) + Pushes(i)
        /\ \A loc \in i.locs : VariableOK(code, b, loc)
        /\ i.op = "Call" => i.x \in DOMAIN code /\ code[i.x].op = "Begin"
        /\ i.op = "Closure" => i.x \in DOMAIN code /\ code[i.x].op \in Begins
    BY <2>1 DEF InstructionOK, code
  <2>5. prog.depth[a] \in Int /\ Globals \in Nat
    BY <1>3, CodeType, ProgramsAssumption
  <2>6. /\ Pops(i) \in Nat /\ Pushes(i) \in Nat /\ Effect(i) \in Int
        /\ Effect(i) >= Pushes(i) - Pops(i)
    BY <1>3, EffectBound
  <2>7. /\ After(l, i) \in Layout
        /\ After(l, i).locals = l.locals + Effect(i)
        /\ After(l, i).is_closure = l.is_closure
    BY <1>1, <2>2, <2>3, <2>6 DEF After, Layout
  <2>8. l.locals >= 0 /\ l.locals >= code[b].x
    BY <1>4, <2>3, <2>4, <2>5, <2>6
  <2>9. After(l, i).locals >= 0
    BY <1>4, <2>3, <2>4, <2>5, <2>6, <2>7
  <2>10. \A loc \in i.locs : ~BadLocation(l, loc)
    <3> SUFFICES ASSUME NEW loc \in i.locs PROVE ~BadLocation(l, loc)
      OBVIOUS
    <3>1. loc \in Locations /\ VariableOK(code, b, loc)
      BY <1>3, <2>4 DEF Instruction
    <3>2. loc[1] \in {"Global", "Local", "Arg", "Captured"} /\ loc[2] \in Nat
      BY <3>1 DEF Locations
    <3>3. CASE loc[1] = "Global"
      BY <3>1, <3>2, <3>3, <2>5 DEF VariableOK, BadLocation
    <3>4. CASE loc[1] = "Local"
      BY <3>1, <3>2, <3>4, <2>3, <2>8, <1>4 DEF VariableOK, BadLocation
    <3>5. CASE loc[1] = "Arg"
      BY <3>5 DEF BadLocation
    <3>6. CASE loc[1] = "Captured"
      BY <3>1, <3>6, <2>3 DEF VariableOK, BadLocation
    <3> QED
      BY <3>2, <3>3, <3>4, <3>5, <3>6
  <2>11. ASSUME NEW s \in Goes(i, a) PROVE <<s, After(l, i)>> \in Items
    <3>1. s \in b + 1..e /\ s \in b..e /\ s # b
      BY <1>3, <2>4
    <3>2. After(l, i).locals >= code[b].x + prog.depth[s]
      BY <1>4, <2>3, <2>4, <2>5, <2>6, <2>7
    <3>3. After(l, i).is_closure = (code[b].op = "CBegin")
      BY <2>3, <2>7
    <3> QED
      BY <2>7, <3>1, <3>2, <3>3 DEF Items
  <2>12. i.op \in Jumps => i.x \in b..e
    <3>1. i.op \in Jumps => i.x \in Goes(i, a)
      BY DEF Jumps, Goes, Stops
    <3> QED
      BY <1>3, <2>4, <3>1
  <2>13. i.op \in {"Call", "Closure"} => i.x \in FunctionStarts
    BY <2>4 DEF FunctionStarts, Begins
  <2> QED
    BY <1>3, <2>8, <2>9, <2>10, <2>11, <2>12, <2>13
<1> QED
  BY <1>5, <1>6

-----------------------------------------------------------------------------
(***************************************************************************)
(* The invariant.                                                          *)
(***************************************************************************)
\* The functions of an unchanged file are unchanged.
LEMMA SameFile ==
  ASSUME prog' = prog
  PROVE  /\ code' = code
         /\ FunctionStarts' = FunctionStarts
         /\ InFunctions' = InFunctions
         /\ Compiled(prog)' = Compiled(prog)
<1>1. code' = code
  BY DEF code
<1>2. FunctionStarts' = FunctionStarts
  BY <1>1 DEF FunctionStarts
<1>3. InFunctions' = InFunctions
  BY <1>1, <1>2 DEF InFunctions, LastOf
<1> QED
  BY <1>1, <1>2, <1>3

\* A function that waits to be visited is a function of the file.
LEMMA TodoStarts ==
  ASSUME begins \in Seq(FunctionStarts), cbegins \in Seq(FunctionStarts),
         k \in 1..Len(todo)
  PROVE  /\ fn \in FunctionStarts
         /\ todo \in Seq(FunctionStarts)
         /\ Len(todo) \in Nat
  BY DEF fn, todo

\* While it is being visited, a function stays the same.
LEMMA SameFunction ==
  ASSUME UNCHANGED <<prog, begins, cbegins, k>>
  PROVE  /\ todo' = todo
         /\ fn' = fn
         /\ LastOf(fn)' = LastOf(fn)
         /\ Items' = Items
<1>1. code' = code
  BY SameFile
<1>2. todo' = todo
  BY DEF todo
<1>3. fn' = fn
  BY <1>2 DEF fn
<1>4. LastOf(fn)' = LastOf(fn)
  BY <1>1, <1>3 DEF LastOf
<1>5. Items' = Items
  BY <1>1, <1>3, <1>4 DEF Items, Layout
<1> QED
  BY <1>2, <1>3, <1>4, <1>5

\* No step changes the file.
LEMMA FileKept == [Next]_vars => prog' = prog
BY DEF Next, Verification, Scan, EndScan, Enter, Visit, CallThrows, Leave,
       Execute, Stop, Finished, Reject, vars

\* The invariant and the file it is about.
FileInv == prog \in Programs /\ Inv

\* It holds when the verifier starts: the public symbols are functions.
LEMMA InitInv == Init => FileInv
<1> USE DEF FileInv
<1> SUFFICES ASSUME Init, Compiled(prog) PROVE prog \in Programs /\ Inv
  BY DEF Init, Inv
<1>1. prog \in Programs
  BY DEF Init
<1>2. prog.entries \in Seq(FunctionStarts)
  <2>1. \A j \in DOMAIN prog.entries : prog.entries[j] \in FunctionStarts
    BY <1>1, CodeType DEF Compiled, FunctionStarts, code, Begins
  <2> QED
    BY <1>1, <2>1, CodeType
<1>3. prog.entries \in Seq(InFunctions)
  <2>1. \A j \in DOMAIN prog.entries : prog.entries[j] \in InFunctions
    BY <1>1, <1>2, StartsInside
  <2> QED
    BY <1>1, <2>1, CodeType
<1>4. cbegins \in Seq(FunctionStarts)
  BY DEF Init
<1>5. k \in 1..Len(todo)
  BY <1>1, <1>2, <1>4, CodeType DEF Init, todo
<1> QED
  BY <1>1, <1>2, <1>3, <1>4, <1>5 DEF Init, Inv

\* The scan queues addresses in functions and collects their beginnings.
LEMMA ScanInv ==
  ASSUME prog \in Programs, Inv, Compiled(prog), Scan
  PROVE  Inv'
<1>1. /\ phase = "scan" /\ q # <<>> /\ q \in Seq(InFunctions)
      /\ begins \in Seq(FunctionStarts)
      /\ cbegins \in Seq(FunctionStarts)
      /\ k \in 1..Len(todo)
      /\ \A b \in DOMAIN min_args : min_args[b] = 0
  BY DEF Scan, Inv
<1> DEFINE a == Head(q)
           new == Fresh(Successors(code[a], a), seen, Nat)
<1>2. a \in InFunctions /\ Tail(q) \in Seq(InFunctions)
  BY <1>1
<1>3. /\ a \in DOMAIN code
      /\ ~BadTarget(code[a])
      /\ \A s \in Goes(code[a], a) : s \in InFunctions
      /\ code[a].op \in {"Call", "Closure"} => code[a].x \in FunctionStarts
  BY <1>2, StaysInside
<1>4. /\ begins' = Found(begins, code[a], "Call")
      /\ cbegins' = Found(cbegins, code[a], "Closure")
      /\ q' = Tail(q) \o new
      /\ UNCHANGED <<prog, phase, k, min_args>>
  BY <1>3 DEF Scan
<1>5. new \in Seq(InFunctions)
  <2>1. /\ Successors(code[a], a) \in Seq(Nat)
        /\ Len(Successors(code[a], a)) \in 0..2
        /\ \A j \in 1..Len(Successors(code[a], a)) :
              \/ Successors(code[a], a)[j] \in Goes(code[a], a)
              \/ /\ code[a].op \in {"Call", "Closure"}
                 /\ Successors(code[a], a)[j] = code[a].x
    BY <1>3, CodeType, SuccessorsAre
  <2>2. code[a].op \in {"Call", "Closure"} => code[a].x \in InFunctions
    BY <1>3, StartsInside
  <2>3. \A j \in 1..Len(Successors(code[a], a)) : Successors(code[a], a)[j] \in InFunctions
    BY <1>3, <2>1, <2>2
  <2> HIDE DEF a
  <2> QED
    BY <2>1, <2>3, FreshOnes
<1>6. q' \in Seq(InFunctions)
  BY <1>2, <1>4, <1>5
<1>7. /\ begins' \in Seq(FunctionStarts)
      /\ cbegins' \in Seq(FunctionStarts)
      /\ Len(begins') >= Len(begins) /\ Len(cbegins') >= Len(cbegins)
  BY <1>1, <1>3, <1>4 DEF Found
<1>8. k' \in 1..Len(todo')
  BY <1>1, <1>4, <1>7 DEF todo
<1> QED
  BY <1>1, <1>4, <1>6, <1>7, <1>8, SameFile DEF Inv

\* A function has an End, and its first item is its Begin.
LEMMA EnterInv ==
  ASSUME prog \in Programs, Inv, Compiled(prog), Enter
  PROVE  Inv'
<1>1. /\ phase = "enter"
      /\ begins \in Seq(FunctionStarts)
      /\ cbegins \in Seq(FunctionStarts)
      /\ k \in 1..Len(todo)
      /\ \A b \in DOMAIN min_args : min_args[b] = 0
  BY DEF Enter, Inv
<1>2. fn \in FunctionStarts
  BY <1>1, TodoStarts
<1>3. /\ q' = << <<fn, Layout0>> >>
      /\ seen' = {fn}
      /\ jumps' = {}
      /\ phase' = "visit"
      /\ UNCHANGED <<prog, begins, cbegins, k, min_args>>
  BY <1>2, FunctionFacts DEF Enter
<1>4. fn' = fn /\ todo' = todo /\ Items' = Items /\ LastOf(fn)' = LastOf(fn)
  BY <1>3, SameFunction
<1>5. <<fn, Layout0>> \in Items
  <2>1. fn \in fn..LastOf(fn) /\ Layout0 \in Layout
    BY <1>2, StartsInside DEF Layout0, Layout
  <2> QED
    BY <2>1 DEF Items
<1>6. Visiting'
  BY <1>3, <1>4, <1>5 DEF Visiting
<1> QED
  BY <1>1, <1>3, <1>4, <1>6, SameFile DEF Inv

\* A visit passes every test and queues items of the same function.
LEMMA VisitInv ==
  ASSUME prog \in Programs, Inv, Compiled(prog), Visit
  PROVE  Inv'
<1>1. /\ phase = "visit" /\ q # <<>>
      /\ q \in Seq(Items) /\ fn \in seen /\ jumps \subseteq fn..LastOf(fn)
      /\ begins \in Seq(FunctionStarts)
      /\ cbegins \in Seq(FunctionStarts)
      /\ k \in 1..Len(todo)
      /\ \A b \in DOMAIN min_args : min_args[b] = 0
  BY DEF Visit, Inv, Visiting
<1>2. fn \in FunctionStarts
  BY <1>1, TodoStarts
<1> DEFINE it == Head(q)
           a == it[1]
           l == it[2]
           i == code[a]
           new == Fresh(Successors(i, a), seen, Body)
<1>3. it \in Items /\ Tail(q) \in Seq(Items)
  BY <1>1
<1>4. /\ a \in DOMAIN code
      /\ i.op = "Call" => l.locals >= 0
      /\ \A loc \in i.locs : ~BadLocation(l, loc)
      /\ After(l, i).locals >= 0
      /\ \A s \in Goes(i, a) : <<s, After(l, i)>> \in Items
      /\ i.op \in {"Call", "Closure"} => i.x \in FunctionStarts
      /\ i.op \in Jumps => i.x \in fn..LastOf(fn)
  BY <1>2, <1>3, VisitItem
<1>5. ~TooFew(l, i) /\ ~Under(After(l, i))
  <2>1. l.locals \in Int /\ After(l, i).locals \in Int
    <3>1. l \in Layout /\ i \in Instruction
      BY <1>3, <1>4, CodeType DEF Items
    <3> HIDE DEF l, i
    <3> QED
      BY <3>1, EffectBound DEF Layout, After, Instruction
  <2> HIDE DEF l, i
  <2> QED
    BY <1>1, <1>4, <2>1 DEF TooFew, AtCall, Under
<1>6. /\ q' = Tail(q) \o [j \in DOMAIN new |-> <<new[j], After(l, i)>>]
      /\ seen' = seen \cup Elements(new)
      /\ jumps' = IF i.op \in Jumps THEN jumps \cup {i.x} ELSE jumps
      /\ UNCHANGED <<prog, phase, begins, cbegins, k, min_args>>
  BY <1>4, <1>5 DEF Visit
<1>7. fn' = fn /\ todo' = todo /\ Items' = Items /\ LastOf(fn)' = LastOf(fn)
  BY <1>6, SameFunction
<1> DEFINE T == {s \in Nat : <<s, After(l, i)>> \in Items}
<1>8. new \in Seq(T)
  <2>1. /\ Successors(i, a) \in Seq(Nat)
        /\ Len(Successors(i, a)) \in 0..2
        /\ \A j \in 1..Len(Successors(i, a)) :
              \/ Successors(i, a)[j] \in Goes(i, a)
              \/ i.op \in {"Call", "Closure"} /\ Successors(i, a)[j] = i.x
    BY <1>4, CodeType, SuccessorsAre
  <2>2. \A s \in Body : s \notin seen => s \notin FunctionStarts
    <3> SUFFICES ASSUME NEW s \in Body, s \notin seen PROVE s \notin FunctionStarts
      OBVIOUS
    <3>1. fn \in Nat /\ LastOf(fn) \in Nat
      BY <1>2, FunctionFacts, CodeType DEF FunctionStarts
    <3>2. s \in fn + 1..LastOf(fn)
      BY <1>1, <3>1 DEF Body
    <3> QED
      BY <1>2, <3>2, OneBegin
  <2>3. \A j \in 1..Len(Successors(i, a)) :
          Successors(i, a)[j] \in Body /\ Successors(i, a)[j] \notin seen
            => Successors(i, a)[j] \in T
    <3> SUFFICES ASSUME NEW j \in 1..Len(Successors(i, a)),
                        Successors(i, a)[j] \in Body, Successors(i, a)[j] \notin seen
                 PROVE  Successors(i, a)[j] \in T
      OBVIOUS
    <3>1. Successors(i, a)[j] \in Goes(i, a)
      BY <1>4, <2>1, <2>2
    <3>2. Successors(i, a)[j] \in Nat
      BY <2>1
    <3> QED
      BY <1>4, <3>1, <3>2
  <2> HIDE DEF a, i, T
  <2> QED
    BY <2>1, <2>3, FreshOnes
<1>9. [j \in DOMAIN new |-> <<new[j], After(l, i)>>] \in Seq(Items)
  <2> HIDE DEF new, l, i
  <2> QED
    BY <1>8
<1>10. q' \in Seq(Items)
  BY <1>3, <1>6, <1>9
<1>11. jumps' \subseteq fn..LastOf(fn)
  BY <1>1, <1>4, <1>6
<1>12. Visiting'
  BY <1>1, <1>6, <1>7, <1>10, <1>11 DEF Visiting
<1> QED
  BY <1>1, <1>6, <1>7, <1>12, SameFile DEF Inv

\* No jump of a function leads out of it.
LEMMA LeaveInv ==
  ASSUME prog \in Programs, Inv, Compiled(prog), Leave
  PROVE  Inv'
<1>1. /\ phase = "visit"
      /\ jumps \subseteq fn..LastOf(fn)
      /\ begins \in Seq(FunctionStarts)
      /\ cbegins \in Seq(FunctionStarts)
      /\ k \in 1..Len(todo)
      /\ \A b \in DOMAIN min_args : min_args[b] = 0
  BY DEF Leave, Inv, Visiting
<1>2. fn \in FunctionStarts /\ Len(todo) \in Nat
  BY <1>1, TodoStarts
<1>3. ~\E t \in jumps : JumpsOut(t)
  <2>1. fn \in Nat /\ LastOf(fn) \in Nat
    BY <1>2, FunctionFacts, CodeType DEF FunctionStarts
  <2> QED
    BY <1>1, <2>1 DEF JumpsOut
<1>4. /\ min_args' = IF pass = "calls" THEN min_args
                     ELSE [b \in DOMAIN min_args \cup {fn} |->
                             IF b = fn THEN Returned ELSE min_args[b]]
      /\ k' = IF k < Len(todo) THEN k + 1 ELSE 1
      /\ phase' \in {"run", "enter"}
      /\ UNCHANGED <<prog, begins, cbegins>>
  BY <1>3 DEF Leave
<1>5. \A b \in DOMAIN min_args' : min_args'[b] = 0
  BY <1>1, <1>4 DEF Returned
<1>6. todo' = todo /\ k' \in 1..Len(todo)
  BY <1>1, <1>2, <1>4 DEF todo
<1> QED
  BY <1>1, <1>4, <1>5, <1>6, SameFile DEF Inv

\* Every step preserves the invariant.
LEMMA NextInv ==
  ASSUME FileInv, [Next]_vars
  PROVE  FileInv'
<1> USE DEF FileInv
<1>1. prog' = prog
  BY FileKept
<1>2. SUFFICES ASSUME Compiled(prog) PROVE Inv'
  BY <1>1, SameFile DEF Inv
<1>3. CASE Scan
  BY <1>2, <1>3, ScanInv
<1>4. CASE Enter
  BY <1>2, <1>4, EnterInv
<1>5. CASE Visit
  BY <1>2, <1>5, VisitInv
<1>6. CASE Leave
  BY <1>2, <1>6, LeaveInv
<1>7. CASE EndScan \/ CallThrows \/ Execute \/ Stop
  <2>1. /\ UNCHANGED <<begins, cbegins, k, min_args>>
        /\ phase' \in {"enter", "terminated", "run", "ended"}
    BY <1>7 DEF EndScan, CallThrows, Execute, Stop
  <2>2. todo' = todo
    BY <2>1 DEF todo
  <2> QED
    BY <1>1, <1>2, <2>1, <2>2, SameFile DEF Inv
<1>8. CASE UNCHANGED vars
  <2>1. UNCHANGED <<prog, phase, q, seen, begins, cbegins, k, jumps, min_args>>
    BY <1>8 DEF vars
  <2>2. todo' = todo /\ fn' = fn
    BY <2>1 DEF todo, fn
  <2>3. Visiting' = Visiting
    BY <2>1, <2>2, SameFile DEF Visiting, Items, LastOf
  <2> QED
    BY <1>1, <1>2, <2>1, <2>2, <2>3, SameFile DEF Inv
<1> QED
  BY <1>3, <1>4, <1>5, <1>6, <1>7, <1>8 DEF Next, Verification, Finished

\* On a compiled program the verifier stays inside functions and its depth is
\* never below the compiler's: Inv is an invariant of the verifier.
THEOREM Invariance == Spec => []Inv
<1>1. FileInv /\ [Next]_vars => FileInv'
  BY NextInv
<1>2. FileInv => Inv
  BY DEF FileInv
<1> QED
  BY <1>1, <1>2, InitInv, PTL DEF Spec

\* verify_reachable_instructions rejects no file that the compiler emits, for
\* every set of files of any length.
THEOREM CompiledIsAccepted == Spec => []AcceptsCompiled
<1>1. Inv => AcceptsCompiled
  BY DEF Inv, AcceptsCompiled
<1> QED
  BY <1>1, Invariance, PTL

-----------------------------------------------------------------------------
(***************************************************************************)
(* What the verifier has looked at, in any file: the argument is that the  *)
(* scan leaves out nothing that control may reach from what it has seen.   *)
(***************************************************************************)
\* Elements of the sequences that the queue is made of.
LEMMA ElementsConcat ==
  ASSUME NEW T, NEW s \in Seq(T), NEW t \in Seq(T)
  PROVE  s \o t \in Seq(T) /\ Elements(s \o t) = Elements(s) \cup Elements(t)
<1>1. /\ s \o t \in Seq(T) /\ DOMAIN (s \o t) = 1..Len(s) + Len(t)
      /\ \A j \in 1..Len(s) : (s \o t)[j] = s[j]
      /\ \A j \in 1..Len(t) : (s \o t)[j + Len(s)] = t[j] /\ j + Len(s) \in 1..Len(s) + Len(t)
      /\ \A j \in 1..Len(s) + Len(t) : j \in 1..Len(s) \/ (s \o t)[j] = t[j - Len(s)]
  OBVIOUS
<1>2. Elements(s \o t) \subseteq Elements(s) \cup Elements(t)
  BY <1>1 DEF Elements
<1>3. Elements(s) \subseteq Elements(s \o t)
  BY <1>1 DEF Elements
<1>4. Elements(t) \subseteq Elements(s \o t)
  BY <1>1 DEF Elements
<1> QED
  BY <1>1, <1>2, <1>3, <1>4

\* What a sequence has after an element is appended.
LEMMA ElementsAppend ==
  ASSUME NEW T, NEW s \in Seq(T), NEW x \in T
  PROVE  /\ Append(s, x) \in Seq(T) /\ Elements(Append(s, x)) = Elements(s) \cup {x}
         /\ Len(s) <= Len(Append(s, x)) /\ \A j \in 1..Len(s) : Append(s, x)[j] = s[j]
<1>1. /\ DOMAIN Append(s, x) = 1..Len(s) + 1
      /\ \A j \in 1..Len(s) : Append(s, x)[j] = s[j]
      /\ Append(s, x)[Len(s) + 1] = x
  OBVIOUS
<1>2. Elements(Append(s, x)) = Elements(s) \cup {x}
  BY <1>1 DEF Elements
<1> QED
  BY <1>1, <1>2

\* What a sequence has is its head and what its tail has.
LEMMA ElementsTail ==
  ASSUME NEW T, NEW s \in Seq(T), s # <<>>
  PROVE  Tail(s) \in Seq(T) /\ Elements(s) = {Head(s)} \cup Elements(Tail(s))
<1>1. /\ Tail(s) \in Seq(T) /\ 1 \in DOMAIN s /\ Head(s) = s[1]
      /\ \A j \in DOMAIN s : j = 1 \/ (j - 1 \in DOMAIN Tail(s) /\ s[j] = Tail(s)[j - 1])
      /\ \A j \in DOMAIN Tail(s) : j + 1 \in DOMAIN s /\ Tail(s)[j] = s[j + 1]
  OBVIOUS
<1>2. ASSUME NEW x \in Elements(s) PROVE x = Head(s) \/ x \in Elements(Tail(s))
  <2>1. PICK j \in DOMAIN s : x = s[j]
    BY DEF Elements
  <2> QED
    BY <1>1, <2>1 DEF Elements
<1>3. Elements(Tail(s)) \subseteq Elements(s)
  BY <1>1 DEF Elements
<1>4. Head(s) \in Elements(s)
  BY <1>1 DEF Elements
<1> QED
  BY <1>1, <1>2, <1>3, <1>4

\* No successor in B is left out that has not been seen.
LEMMA FreshAll ==
  ASSUME NEW ss \in Seq(Nat), Len(ss) \in 0..2, NEW S, NEW B, NEW j \in 1..Len(ss),
         ss[j] \in B
  PROVE  ss[j] \in S \cup Elements(Fresh(ss, S, B))
<1>1. ASSUME NEW x, NEW R, x \in B, x \notin R PROVE Elements(Keep(x, R, B)) = {x}
  <2>1. Keep(x, R, B) = <<x>>
    BY <1>1 DEF Keep
  <2> QED
    BY <2>1 DEF Elements
<1>2. \A x, R : Keep(x, R, B) = <<x>> \/ Keep(x, R, B) = <<>>
  BY DEF Keep
<1>3. CASE Len(ss) = 1
  BY <1>1, <1>3 DEF Fresh
<1>4. CASE Len(ss) = 2
  <2> DEFINE u == Keep(ss[1], S, B)
             v == Keep(ss[2], S \cup {ss[1]}, B)
  <2>1. Fresh(ss, S, B) = u \o v
    BY <1>4 DEF Fresh
  <2>2. u \in Seq(Nat) /\ v \in Seq(Nat)
    <3>1. <<>> \in Seq(Nat) /\ <<ss[1]>> \in Seq(Nat) /\ <<ss[2]>> \in Seq(Nat)
      BY <1>4
    <3> QED
      BY <1>2, <3>1
  <2> HIDE DEF u, v
  <2>3. Elements(Fresh(ss, S, B)) = Elements(u) \cup Elements(v)
    BY <2>1, <2>2, ElementsConcat
  <2>4. ss[1] \in B /\ ss[1] \notin S => Elements(u) = {ss[1]}
    BY <1>1 DEF u
  <2>5. ss[2] \in B /\ ss[2] \notin S /\ ss[2] # ss[1] => Elements(v) = {ss[2]}
    BY <1>1 DEF v
  <2> QED
    BY <1>4, <2>3, <2>4, <2>5
<1> QED
  BY <1>3, <1>4

\* The verifier looks at every address that the interpreter goes to, and at
\* the targets of calls and closures.
LEMMA SuccessorsCover ==
  ASSUME NEW i \in Instruction, NEW a \in Nat
  PROVE  /\ Goes(i, a) \subseteq Elements(Successors(i, a))
         /\ i.op \in {"Call", "Closure"} => i.x \in Elements(Successors(i, a))
         /\ Elements(Successors(i, a)) \subseteq Nat
<1>1. \A x : Elements(<<x>>) = {x}
  BY DEF Elements
<1>2. \A x, y : Elements(<<x, y>>) = {x, y}
  BY DEF Elements
<1>3. i.x \in Nat
  BY DEF Instruction
<1> QED
  BY <1>1, <1>2, <1>3, SuccessorsAre DEF Successors, Goes, Stops, Elements

\* What the scan has seen does not change with what it has not to do with.
LEMMA SameScan ==
  ASSUME UNCHANGED <<prog, begins, cbegins>>
  PROVE  /\ code' = code /\ todo' = todo /\ Main' = Main
         /\ \A V : Scanned(V)' <=> Scanned(V)
<1>1. code' = code /\ todo' = todo /\ Main' = Main
  BY DEF code, todo, Main
<1>2. ASSUME NEW V PROVE Scanned(V)' <=> Scanned(V)
  BY <1>1 DEF Scanned, Processed, BadTarget
<1> QED
  BY <1>1, <1>2

\* What stays as it is when only the queue of a function changes.
LEMMA CoverageKept ==
  ASSUME Coverage, UNCHANGED <<prog, pass, begins, cbegins, k, min_args>>,
         phase \in {"enter", "visit", "run", "ended"},
         phase' \in {"enter", "visit", "rejected", "terminated", "run", "ended"},
         Accepted' => Accepted,
         phase' = "visit" => /\ q' \in Seq(seen' \X Layout)
                             /\ Ends(code, fn, LastOf(fn))
                             /\ \A V \in SUBSET DOMAIN code :
                                  Scanned(V) /\ (phase = "visit" => seen \subseteq V)
                                    => seen' \subseteq V
  PROVE  Coverage'
<1>1. code' = code /\ todo' = todo /\ \A V : Scanned(V)' <=> Scanned(V)
  BY SameScan
<1>2. PICK V \in SUBSET DOMAIN code : Scanned(V) /\ (phase = "visit" => seen \subseteq V)
  BY DEF Coverage
<1>3. /\ Passed' = Passed /\ Layout' = Layout
      /\ fn' = fn /\ \A b : LastOf(b)' = LastOf(b)
  BY <1>1 DEF Passed, Layout, fn, LastOf
<1>4. Scanned(V)' /\ (phase' = "visit" => seen' \subseteq V)
  BY <1>1, <1>2
<1>5. \E W \in SUBSET DOMAIN code' : Scanned(W)' /\ (phase' = "visit" => seen' \subseteq W)
  BY <1>1, <1>4
<1> QED
  BY <1>1, <1>3, <1>5 DEF Coverage

\* A program that is turned down, or has ended, is out of the way.
LEMMA CoverageEnds ==
  ASSUME Coverage, UNCHANGED <<prog, pass, begins, cbegins, k, min_args>>,
         phase' \in {"rejected", "terminated"}
  PROVE  Coverage'
<1>1. code' = code /\ todo' = todo
  BY SameScan
<1>2. Passed' = Passed /\ \A b : LastOf(b)' = LastOf(b)
  BY <1>1 DEF Passed, LastOf
<1> QED
  BY <1>1, <1>2 DEF Coverage, Accepted

\* At first only the entry points are queued.
LEMMA CoverageInit == ASSUME Init PROVE Coverage
<1>1. prog \in Programs
  BY DEF Init
<1>2. /\ prog.entries \in Seq(DOMAIN code) /\ Len(prog.entries) > 0
      /\ DOMAIN code \subseteq Nat
  BY <1>1, CodeType
<1>3. begins = prog.entries /\ cbegins = <<>> /\ cbegins \in Seq(DOMAIN code)
  BY DEF Init
<1>4. todo = prog.entries
  BY <1>2, <1>3 DEF todo
<1>5. Scanning
  BY <1>2, <1>4 DEF Init, Scanning, Elements
<1>6. Passed = {} /\ DOMAIN min_args = {} /\ k \in 1..Len(todo)
  BY <1>2, <1>4 DEF Init, Passed
<1> QED
  BY <1>2, <1>3, <1>5, <1>6 DEF Init, Coverage, Accepted

\* The scan queues the successors of what it looks at.
LEMMA CoverageScan ==
  ASSUME prog \in Programs, Coverage, Scan
  PROVE  Coverage'
<1>0. PICK a : a = Head(q)
  OBVIOUS
<1> DEFINE i == code[a]
           new == Fresh(Successors(i, a), seen, Nat)
<1>1. CASE a \notin DOMAIN code \/ BadTarget(i)
  BY <1>1, <1>0, CoverageEnds DEF Scan, Reject
<1>2. CASE a \in DOMAIN code /\ ~BadTarget(i)
  <2>1. /\ begins' = Found(begins, i, "Call")
        /\ cbegins' = Found(cbegins, i, "Closure")
        /\ q' = Tail(q) \o new
        /\ seen' = seen \cup Elements(new)
        /\ UNCHANGED <<prog, phase, pass, k, jumps, min_args>>
        /\ phase = "scan" /\ q # <<>>
    BY <1>2, <1>0 DEF Scan
  <2>2. /\ begins \in Seq(DOMAIN code) /\ cbegins \in Seq(DOMAIN code)
        /\ Scanning /\ pass = "function" /\ k = 1 /\ DOMAIN min_args = Passed
        /\ k \in 1..Len(todo)
    BY <2>1 DEF Coverage
  <2>3. i \in Instruction /\ a \in Nat /\ code' = code /\ DOMAIN code \subseteq Nat
    BY <1>2, <2>1, CodeType DEF code
  <2>4. /\ Successors(i, a) \in Seq(Nat) /\ Len(Successors(i, a)) \in 0..2
        /\ Elements(Successors(i, a)) \subseteq Nat
        /\ i.op \in {"Call", "Closure"} => i.x \in Elements(Successors(i, a))
    BY <2>3, SuccessorsAre, SuccessorsCover
  <2> HIDE DEF i
  <2>5. new \in Seq(Nat)
    BY <2>4, FreshOnes
  <2>6. Elements(Successors(i, a)) \subseteq seen'
    <3>1. \A j \in 1..Len(Successors(i, a)) : Successors(i, a)[j] \in seen \cup Elements(new)
      BY <2>4, FreshAll
    <3> QED
      BY <2>1, <2>4, <3>1 DEF Elements
  <2> HIDE DEF new
  <2>7. /\ q \in Seq(Nat) /\ seen \subseteq Nat
        /\ Elements(q) \subseteq seen /\ Elements(todo) \subseteq seen
        /\ \A c \in seen \ Elements(q) : Processed(c, seen)
    BY <2>2 DEF Scanning
  <2>8. Tail(q) \in Seq(Nat) /\ Elements(q) = {a} \cup Elements(Tail(q))
    BY <1>0, <2>1, <2>7, ElementsTail
  <2>9. q' \in Seq(Nat) /\ Elements(q') = Elements(Tail(q)) \cup Elements(new)
        /\ Elements(new) \subseteq Nat
    <3>1. Elements(new) \subseteq Nat
      BY <2>5 DEF Elements
    <3>2. PICK rest : rest = Tail(q)
      OBVIOUS
    <3>3. rest \in Seq(Nat)
      BY <2>8, <3>2
    <3>4. rest \o new \in Seq(Nat) /\ Elements(rest \o new) = Elements(rest) \cup Elements(new)
      BY <2>5, <3>3, ElementsConcat
    <3> QED
      BY <2>1, <3>1, <3>2, <3>4, Zenon
  <2>10. /\ i.op = "Call" => i.x \in DOMAIN code
         /\ i.op = "Closure" => i.x \in DOMAIN code
    BY <1>2 DEF BadTarget
  <2>11. /\ begins' \in Seq(DOMAIN code) /\ Len(begins) <= Len(begins')
         /\ Elements(begins') = Elements(begins) \cup (IF i.op = "Call" THEN {i.x} ELSE {})
         /\ \A j \in 1..Len(begins) : begins'[j] = begins[j]
    <3>1. CASE i.op = "Call"
      <4>1. i.x \in DOMAIN code
        BY <2>10, <3>1
      <4>2. begins' = Append(begins, i.x)
        BY <2>1, <3>1 DEF Found
      <4> HIDE DEF i
      <4>3. /\ Append(begins, i.x) \in Seq(DOMAIN code)
            /\ Elements(Append(begins, i.x)) = Elements(begins) \cup {i.x}
            /\ Len(begins) <= Len(Append(begins, i.x))
            /\ \A j \in 1..Len(begins) : Append(begins, i.x)[j] = begins[j]
        BY <2>2, <4>1, ElementsAppend
      <4> QED
        BY <3>1, <4>2, <4>3, Zenon
    <3>2. CASE i.op # "Call"
      BY <2>1, <2>2, <3>2 DEF Found
    <3> QED
      BY <3>1, <3>2
  <2>12. /\ cbegins' \in Seq(DOMAIN code) /\ Len(cbegins) <= Len(cbegins')
         /\ Elements(cbegins') = Elements(cbegins) \cup (IF i.op = "Closure" THEN {i.x} ELSE {})
    <3>1. CASE i.op = "Closure"
      <4>1. i.x \in DOMAIN code
        BY <2>10, <3>1
      <4>2. cbegins' = Append(cbegins, i.x)
        BY <2>1, <3>1 DEF Found
      <4> HIDE DEF i
      <4>3. /\ Append(cbegins, i.x) \in Seq(DOMAIN code)
            /\ Elements(Append(cbegins, i.x)) = Elements(cbegins) \cup {i.x}
            /\ Len(cbegins) <= Len(Append(cbegins, i.x))
        BY <2>2, <4>1, ElementsAppend
      <4> QED
        BY <3>1, <4>2, <4>3, Zenon
    <3>2. CASE i.op # "Closure"
      BY <2>1, <2>2, <3>2 DEF Found
    <3> QED
      BY <3>1, <3>2
  <2>13. /\ Elements(todo) = Elements(begins) \cup Elements(cbegins)
         /\ Elements(todo') = Elements(begins') \cup Elements(cbegins')
    BY <2>2, <2>11, <2>12, ElementsConcat DEF todo
  <2>14. Elements(todo') \subseteq seen'
    BY <2>1, <2>4, <2>6, <2>7, <2>11, <2>12, <2>13
  <2>15. ASSUME NEW c \in seen', c \notin Elements(q') PROVE Processed(c, seen)' \/ c = a
    <3>1. c \in seen /\ (c = a \/ c \notin Elements(q))
      BY <2>1, <2>8, <2>9, <2>15
    <3>2. CASE Processed(c, seen)
      BY <2>1, <2>3, <2>11, <2>12, <3>2 DEF Processed, BadTarget
    <3> QED
      BY <2>7, <3>1, <3>2
  <2>16. Processed(a, seen)'
    <3>1. /\ i.op = "Call" => i.x \in Elements(begins')
          /\ i.op = "Closure" => i.x \in Elements(cbegins')
      BY <2>11, <2>12
    <3>2. a \in DOMAIN code' /\ ~BadTarget(code[a])'
      BY <1>2, <2>3 DEF BadTarget, i
    <3> QED
      BY <2>3, <2>6, <3>1, <3>2 DEF Processed, i
  <2>17. Scanning'
    <3>1. seen' \subseteq Nat /\ Elements(q') \subseteq seen'
      BY <2>1, <2>7, <2>8, <2>9
    <3>2. \A c \in seen' \ Elements(q') : Processed(c, seen)'
      BY <2>15, <2>16
    <3> QED
      BY <2>9, <2>14, <3>1, <3>2 DEF Scanning
  <2>18. k' \in 1..Len(todo') /\ Passed' = {} /\ Passed = {}
    BY <2>1, <2>2, <2>11, <2>12 DEF todo, Passed
  <2>19. /\ Len(prog'.entries) <= Len(begins')
         /\ \A j \in DOMAIN prog'.entries : begins'[j] = prog'.entries[j]
    <3>1. /\ Len(prog.entries) <= Len(begins) /\ Len(prog.entries) \in Nat
          /\ DOMAIN prog.entries = 1..Len(prog.entries)
          /\ \A j \in DOMAIN prog.entries : begins[j] = prog.entries[j]
      BY CodeType DEF Coverage
    <3> QED
      BY <2>1, <2>2, <2>11, <3>1
  <2> QED
    BY <2>1, <2>2, <2>3, <2>11, <2>12, <2>17, <2>18, <2>19 DEF Coverage, Accepted
<1> QED
  BY <1>1, <1>2

\* The queue is empty: what the scan has seen is closed.
LEMMA CoverageEndScan ==
  ASSUME Coverage, EndScan
  PROVE  Coverage'
<1>1. /\ phase = "scan" /\ phase' = "enter" /\ q = <<>>
      /\ UNCHANGED <<prog, pass, seen, begins, cbegins, k, min_args>>
  BY DEF EndScan
<1>2. Scanning
  BY <1>1 DEF Coverage
<1>3. Elements(q) = {}
  BY <1>1 DEF Elements
<1>4. Scanned(seen) /\ seen \in SUBSET DOMAIN code
  BY <1>2, <1>3 DEF Scanning, Scanned, Processed
<1>5. code' = code /\ todo' = todo /\ Scanned(seen)'
  BY <1>1, <1>4, SameScan DEF Scanned, Processed, BadTarget
<1>6. Passed' = Passed /\ Passed = {}
  BY <1>1, <1>5 DEF Coverage, Passed
<1> QED
  BY <1>1, <1>4, <1>5, <1>6 DEF Coverage, Accepted

\* A function that waits to be visited has been seen by the scan.
LEMMA TodoSeen ==
  ASSUME Coverage, NEW V \in SUBSET DOMAIN code, Scanned(V)
  PROVE  /\ fn \in V /\ fn \in DOMAIN code
         /\ todo \in Seq(DOMAIN code) /\ Len(todo) \in Nat
<1>1. todo \in Seq(DOMAIN code) /\ k \in DOMAIN todo /\ Len(todo) \in Nat
  BY DEF Coverage, todo
<1>2. fn \in Elements(todo)
  BY <1>1 DEF fn, Elements
<1> QED
  BY <1>1, <1>2 DEF Scanned

\* A pass enters the next function with nothing seen but its begin.
LEMMA CoverageEnter ==
  ASSUME Coverage, Enter
  PROVE  Coverage'
<1>1. CASE phase' = "rejected"
  BY <1>1, CoverageEnds DEF Enter, Reject
<1>2. CASE phase' # "rejected"
  <2>1. /\ phase = "enter" /\ phase' = "visit"
        /\ q' = << <<fn, Layout0>> >> /\ seen' = {fn}
        /\ UNCHANGED <<prog, pass, begins, cbegins, k, min_args>>
    BY <1>2 DEF Enter, Reject
  <2>2. Layout0 \in Layout
    BY DEF Layout0, Layout
  <2>3. q' \in Seq(seen' \X Layout) /\ Ends(code, fn, LastOf(fn))
    BY <1>2, <2>1, <2>2 DEF Enter, Reject, LastOf
  <2> QED
    BY <2>1, <2>3, TodoSeen, CoverageKept DEF Accepted
<1> QED
  BY <1>1, <1>2

\* A layout stays a layout.
LEMMA AfterLayout ==
  ASSUME NEW l \in Layout, NEW i \in Instruction
  PROVE  After(l, i) \in Layout
BY EffectBound DEF After, Layout, Instruction

\* A visit of an instruction leaves what the scan has found.
LEMMA CoverageVisit ==
  ASSUME prog \in Programs, Coverage, Visit
  PROVE  Coverage'
<1>1. CASE phase' = "rejected"
  BY <1>1, CoverageEnds DEF Visit, Reject
<1>2. CASE phase' # "rejected"
  <2> DEFINE a == Head(q)[1]
             l == Head(q)[2]
             i == code[a]
             new == Fresh(Successors(i, a), seen, Body)
             more == [j \in DOMAIN new |-> <<new[j], After(l, i)>>]
  <2>1. /\ phase = "visit" /\ phase' = "visit" /\ q # <<>>
        /\ q' = Tail(q) \o more
        /\ seen' = seen \cup Elements(new)
        /\ UNCHANGED <<prog, pass, begins, cbegins, k, min_args>>
    BY <1>2 DEF Visit, Reject
  <2>2. q \in Seq(seen \X Layout)
    BY <2>1 DEF Coverage
  <2>3. a \in seen /\ l \in Layout /\ Tail(q) \in Seq(seen \X Layout)
    BY <2>1, <2>2
  <2>4. PICK V \in SUBSET DOMAIN code : Scanned(V) /\ seen \subseteq V
    BY <2>1 DEF Coverage
  <2>5. a \in DOMAIN code /\ i \in Instruction /\ a \in Nat
    BY <2>3, <2>4, CodeType
  <2> HIDE DEF a, i, l
  <2>6. /\ Successors(i, a) \in Seq(Nat) /\ Len(Successors(i, a)) \in 0..2
    BY <2>5, SuccessorsAre
  <2>7. ASSUME NEW W, Scanned(W), seen \subseteq W
        PROVE  new \in Seq(W)
    <3>1. Elements(Successors(i, a)) \subseteq W
      BY <2>3, <2>7 DEF Scanned, Processed, i
    <3>2. \A j \in 1..Len(Successors(i, a)) : Successors(i, a)[j] \in W
      BY <2>6, <3>1 DEF Elements
    <3> QED
      BY <2>6, <3>2, FreshOnes
  <2> HIDE DEF new
  <2>8. \A W \in SUBSET DOMAIN code :
          Scanned(W) /\ seen \subseteq W => seen' \subseteq W
    BY <2>1, <2>7 DEF Elements
  <2>9. After(l, i) \in Layout
    BY <2>3, <2>5, AfterLayout
  <2>10. more \in Seq(seen' \X Layout)
    BY <2>1, <2>4, <2>7, <2>9 DEF Elements
  <2>11. q' \in Seq(seen' \X Layout)
    <3>1. Tail(q) \in Seq(seen' \X Layout)
      BY <2>1, <2>3
    <3> HIDE DEF more
    <3> QED
      BY <2>1, <2>10, <3>1
  <2>12. Ends(code, fn, LastOf(fn))
    BY <2>1 DEF Coverage
  <2> QED
    BY <2>1, <2>8, <2>11, <2>12, CoverageKept DEF Accepted
<1> QED
  BY <1>1, <1>2

\* The function is done, and with the last one both passes are.
LEMMA CoverageLeave ==
  ASSUME Coverage, Leave
  PROVE  Coverage'
<1>1. CASE phase' = "rejected"
  BY <1>1, CoverageEnds DEF Leave, Reject
<1>2. CASE phase' # "rejected"
  <2>1. /\ phase = "visit"
        /\ DOMAIN min_args' = IF pass = "calls" THEN DOMAIN min_args
                              ELSE DOMAIN min_args \cup {fn}
        /\ k' = IF k < Len(todo) THEN k + 1 ELSE 1
        /\ pass' = IF k < Len(todo) THEN pass ELSE "calls"
        /\ phase' = IF k = Len(todo) /\ pass = "calls" THEN "run" ELSE "enter"
        /\ UNCHANGED <<prog, q, seen, begins, cbegins>>
    BY <1>2 DEF Leave, Reject
  <2>2. PICK V \in SUBSET DOMAIN code : Scanned(V)
    BY <2>1 DEF Coverage
  <2>3. /\ k \in 1..Len(todo) /\ Len(todo) \in Nat /\ DOMAIN min_args = Passed
        /\ pass \in {"function", "calls"} /\ code' = code /\ todo' = todo
        /\ Scanned(V)'
    BY <2>1, <2>2, TodoSeen, SameScan DEF Coverage
  <2>4. k' \in 1..Len(todo)
    BY <2>1, <2>3
  <2>5. DOMAIN min_args' = Passed'
    <3>1. CASE pass = "calls"
      BY <2>1, <2>3, <3>1 DEF Passed
    <3>2. CASE pass = "function" /\ k < Len(todo)
      <4>1. Passed = {todo[j] : j \in 1..k - 1} /\ Passed' = {todo[j] : j \in 1..k}
        BY <2>1, <2>3, <3>2 DEF Passed
      <4>2. 1..k = (1..k - 1) \cup {k}
        BY <2>3
      <4> QED
        BY <2>1, <2>3, <3>2, <4>1, <4>2 DEF fn
    <3>3. CASE pass = "function" /\ k = Len(todo)
      <4>1. Passed = {todo[j] : j \in 1..k - 1} /\ Passed' = {todo[j] : j \in 1..k}
        BY <2>1, <2>3, <3>3 DEF Passed
      <4>2. 1..k = (1..k - 1) \cup {k}
        BY <2>3
      <4> QED
        BY <2>1, <2>3, <3>3, <4>1, <4>2 DEF fn
    <3> QED
      BY <2>3, <3>1, <3>2, <3>3
  <2>6. Accepted' => pass' = "calls"
    BY <2>1, <2>3 DEF Accepted
  <2>7. \A b \in DOMAIN min_args' : Ends(code, b, LastOf(b))' 
    BY <2>1, <2>3 DEF Coverage, LastOf
  <2> QED
    BY <2>1, <2>2, <2>3, <2>4, <2>5, <2>6, <2>7 DEF Coverage
<1> QED
  BY <1>1, <1>2

\* Every step keeps the coverage.
LEMMA CoverageNext ==
  ASSUME prog \in Programs, Coverage, [Next]_vars
  PROVE  Coverage'
<1>1. CASE CallThrows
  BY <1>1, CoverageEnds DEF CallThrows
<1>2. CASE Execute \/ Stop
  <2>1. /\ phase = "run" /\ phase' \in {"run", "ended"}
        /\ UNCHANGED <<prog, pass, q, seen, begins, cbegins, k, min_args>>
    BY <1>2 DEF Execute, Stop
  <2> QED
    BY <2>1, CoverageKept DEF Accepted
<1>3. CASE UNCHANGED vars
  <2>1. UNCHANGED <<prog, phase, pass, q, seen, begins, cbegins, k, min_args>>
    BY <1>3 DEF vars
  <2>2. code' = code /\ todo' = todo
    BY <2>1, SameScan
  <2>3. /\ Passed' = Passed /\ Scanning' = Scanning /\ Layout' = Layout
        /\ fn' = fn /\ \A b : LastOf(b)' = LastOf(b)
    BY <2>1, <2>2 DEF Passed, Scanning, Processed, BadTarget, Layout, fn, LastOf
  <2>4. \A V : Scanned(V)' <=> Scanned(V)
    BY <2>1, SameScan
  <2> QED
    BY <2>1, <2>2, <2>3, <2>4 DEF Coverage, Accepted
<1> QED
  BY <1>1, <1>2, <1>3, CoverageScan, CoverageEndScan, CoverageEnter, CoverageVisit, CoverageLeave
  DEF Next, Verification, Finished

\* What the scan has seen is an invariant of the verifier, for every file.
LEMMA CoverageInvariant == Spec => [](prog \in Programs /\ Coverage)
<1> DEFINE I == prog \in Programs /\ Coverage
<1>1. Init => I
  <2>1. Init => prog \in Programs
    BY DEF Init
  <2> QED
    BY <2>1, CoverageInit
<1>2. I /\ [Next]_vars => I'
  BY FileKept, CoverageNext
<1> QED
  BY <1>1, <1>2, PTL DEF Spec

\* Control in a function does not leave what the scan has seen.
LEMMA ReachedSeen ==
  ASSUME prog \in Programs, NEW V \in SUBSET DOMAIN code, Scanned(V), NEW b \in V,
         b \in b..LastOf(b)
  PROVE  ReachedIn(b) \subseteq V
<1> DEFINE S == V \cap (b..LastOf(b))
<1>1. ClosedIn(S, b)
  <2>1. ASSUME NEW a \in S PROVE Goes(code[a], a) \cap (b..LastOf(b)) \subseteq S
    <3>1. a \in DOMAIN code /\ Elements(Successors(code[a], a)) \subseteq V
      BY DEF Scanned, Processed
    <3>2. a \in Nat /\ code[a] \in Instruction
      BY <3>1, CodeType
    <3> QED
      BY <3>1, <3>2, SuccessorsCover
  <2> QED
    BY <2>1 DEF ClosedIn
<1>2. S \in SUBSET (b..LastOf(b))
  OBVIOUS
<1> QED
  BY <1>1, <1>2 DEF ReachedIn

\* Whatever execution gets to in a file that was let through, both passes have
\* gone through the function: for every file, not only for compiled ones.
THEOREM EveryCallVerified == Spec => []CallsVerified
<1>1. ASSUME prog \in Programs, Coverage, Accepted PROVE CallsVerified
  <2>1. PICK V \in SUBSET DOMAIN code : Scanned(V)
    BY <1>1 DEF Coverage, Accepted
  <2>2. DOMAIN min_args = Elements(todo)
    <3>1. DOMAIN min_args = Passed /\ pass = "calls"
      BY <1>1 DEF Coverage
    <3>2. DOMAIN todo = 1..Len(todo)
      BY <1>1 DEF Coverage, todo
    <3> QED
      BY <3>1, <3>2 DEF Passed, Elements
  <2>3. /\ begins \in Seq(DOMAIN code) /\ cbegins \in Seq(DOMAIN code)
        /\ Len(prog.entries) <= Len(begins)
        /\ \A j \in DOMAIN prog.entries : begins[j] = prog.entries[j]
    BY <1>1 DEF Coverage
  <2>4. Elements(todo) = Elements(begins) \cup Elements(cbegins)
    BY <2>3, ElementsConcat DEF todo
  <2>5. ASSUME NEW j \in DOMAIN prog.entries PROVE prog.entries[j] \in DOMAIN min_args
    <3>1. j \in DOMAIN begins
      BY <1>1, <2>3, CodeType
    <3> QED
      BY <2>2, <2>3, <2>4, <3>1 DEF Elements
  <2>6. ASSUME NEW b \in DOMAIN min_args, NEW a \in b..LastOf(b),
               code[a].op \in {"Call", "Closure"}, a \in ReachedIn(b)
        PROVE  code[a].x \in DOMAIN min_args
    <3>1. b \in V /\ b \in Nat /\ Ends(code, b, LastOf(b))
      BY <1>1, <2>1, <2>2, CodeType DEF Coverage, Scanned
    <3>2. b \in b..LastOf(b)
      BY <1>1, <3>1, CodeType DEF Ends
    <3>3. a \in V
      BY <1>1, <2>1, <2>6, <3>1, <3>2, ReachedSeen
    <3> QED
      BY <2>1, <2>2, <2>4, <2>6, <3>3 DEF Scanned, Processed
  <2> QED
    BY <2>5, <2>6 DEF CallsVerified
<1>2. prog \in Programs /\ Coverage => CallsVerified
  BY <1>1 DEF CallsVerified
<1> QED
  BY <1>2, CoverageInvariant, PTL

-----------------------------------------------------------------------------
(***************************************************************************)
(* The run of main.  verify_function has counted, for every instruction of *)
(* main that control reaches, the words that the run has there, and has    *)
(* found them not to run out.                                              *)
(***************************************************************************)
\* The file decides what main is.
LEMMA SameMain ==
  ASSUME prog' = prog
  PROVE  /\ code' = code /\ Main' = Main /\ LastOf(Main)' = LastOf(Main)
         /\ Tracked' <=> Tracked
         /\ \A a, S : Checked(a, S)' <=> Checked(a, S)
<1>1. code' = code /\ Main' = Main
  BY DEF code, Main
<1>2. LastOf(Main)' = LastOf(Main)
  BY <1>1 DEF LastOf
<1>3. Tracked' <=> Tracked
  BY <1>1, <1>2 DEF Tracked
<1>4. ASSUME NEW a, NEW S PROVE Checked(a, S)' <=> Checked(a, S)
  BY <1>1, <1>2 DEF Checked
<1> QED
  BY <1>1, <1>2, <1>3, <1>4

\* Main is the first function that the verifier visits.
LEMMA TodoFirst ==
  ASSUME prog \in Programs, Coverage
  PROVE  todo[1] = Main /\ Main \in DOMAIN code
<1>1. prog.entries \in Seq(DOMAIN code) /\ Len(prog.entries) > 0
  BY CodeType
<1>2. /\ begins \in Seq(DOMAIN code) /\ cbegins \in Seq(DOMAIN code)
      /\ Len(prog.entries) <= Len(begins)
      /\ \A j \in DOMAIN prog.entries : begins[j] = prog.entries[j]
  BY DEF Coverage
<1>3. 1 \in DOMAIN prog.entries /\ 1 \in 1..Len(begins)
  BY <1>1, <1>2
<1> QED
  BY <1>1, <1>2, <1>3 DEF todo, Main

\* main is the first entry point, and the first function of a pass.
LEMMA MainFirst ==
  ASSUME prog \in Programs, Coverage
  PROVE  /\ Main \in DOMAIN code /\ Main \in Nat
         /\ k = 1 => fn = Main
         /\ code[Main].x \in Nat
BY TodoFirst, CodeType DEF fn, Instruction

\* Behind the first instruction of a function there are only others.
LEMMA NoBegin ==
  ASSUME NEW b \in Nat, NEW e \in Nat, Ends(code, b, e), NEW a \in b..e, a # b
  PROVE  a \in b + 1..e /\ code[a].op \notin Begins
<1>1. a = e \/ a \in b + 1..e - 1
  OBVIOUS
<1> QED
  BY <1>1 DEF Ends, Begins

\* Before the run, what is known of main stays known.
LEMMA MainKept ==
  ASSUME NEW S, prog' = prog, MainVisited(S), phase' \in {"enter", "visit"}
  PROVE  MainVisited(S)'
BY SameMain DEF MainVisited, Accepted

\* What is known of main is kept by every step that does not visit it.
LEMMA MainInvKept ==
  ASSUME MainInv, prog' = prog, depth' = depth, min_args' = min_args,
         phase \in {"scan", "enter", "visit"},
         phase' \in {"scan", "enter", "visit", "rejected", "terminated"},
         phase' \in {"enter", "visit"} /\ phase = "scan" => Main \notin DOMAIN min_args,
         phase' = "visit" /\ pass' = "function" /\ k' = 1 /\ Tracked => VisitingMain'
  PROVE  MainInv'
<1>1. ASSUME phase' \in {"enter", "visit"}, Main \in DOMAIN min_args, Tracked
      PROVE  \E S \in SUBSET (Main'..LastOf(Main)') : MainVisited(S)'
  <2>1. PICK S \in SUBSET (Main..LastOf(Main)) : MainVisited(S)
    BY <1>1 DEF MainInv
  <2> QED
    BY <1>1, <2>1, MainKept, SameMain
<1> QED
  BY <1>1, SameMain DEF MainInv

\* verify_function takes one step in main.
LEMMA VisitMain ==
  ASSUME prog \in Programs, Coverage, MainInv, Visit, phase' = "visit",
         pass = "function", k = 1, Tracked
  PROVE  VisitingMain'
<1>1. PICK it : it = Head(q)
  OBVIOUS
<1>2. PICK rest : rest = Tail(q)
  OBVIOUS
<1>3. PICK a, l : a = it[1] /\ l = it[2]
  OBVIOUS
<1> DEFINE i == code[a]
           e == LastOf(Main)
           new == Fresh(Successors(i, a), seen, Body)
           more == [j \in DOMAIN new |-> <<new[j], After(l, i)>>]
           T == {s \in Goes(i, a) : s \in Main..e /\ s # Main}
<1>4. /\ phase = "visit" /\ q # <<>>
      /\ ~Under(After(l, i))
      /\ q' = rest \o more
      /\ seen' = seen \cup Elements(new)
      /\ prog' = prog
  BY <1>1, <1>2, <1>3 DEF Visit, Reject
<1>5. /\ q \in Seq(seen \X Layout)
      /\ VisitingMain
      /\ Ends(code, fn, LastOf(fn))
  BY <1>4 DEF Coverage, MainInv
<1>6. /\ Main \in DOMAIN code /\ Main \in Nat /\ fn = Main /\ code[Main].x \in Nat
      /\ e \in Nat /\ Main < e /\ Ends(code, Main, e) /\ e \in DOMAIN code
  BY <1>5, MainFirst, CodeType DEF Ends
<1>7. Body = Main..e
  BY <1>6 DEF Body
<1>8. /\ rest \in Seq(seen \X Layout) /\ it \in seen \X Layout /\ it = <<a, l>>
      /\ Elements(q) = {it} \cup Elements(rest)
  BY <1>1, <1>2, <1>3, <1>4, <1>5, ElementsTail
<1>9. PICK V \in SUBSET DOMAIN code : Scanned(V) /\ seen \subseteq V
  BY <1>4 DEF Coverage
<1>10. /\ a \in seen /\ a \in Main..e /\ l \in Layout
       /\ a \in DOMAIN code /\ a \in Nat /\ i \in Instruction
       /\ ~BadTarget(i)
       /\ prog.depth[a] \in Int
  BY <1>5, <1>6, <1>8, <1>9, CodeType DEF VisitingMain, Scanned, Processed
<1>11. /\ Successors(i, a) \in Seq(Nat) /\ Len(Successors(i, a)) \in 0..2
       /\ \A j \in 1..Len(Successors(i, a)) :
            \/ Successors(i, a)[j] \in Goes(i, a)
            \/ i.op \in {"Call", "Closure"} /\ Successors(i, a)[j] = i.x
       /\ Goes(i, a) \subseteq Elements(Successors(i, a))
  BY <1>10, SuccessorsAre, SuccessorsCover
\* what is called is a function, and main is the only one here
<1>12. i.op \in {"Call", "Closure"} /\ i.x \in Main..e => i.x = Main
  <2> SUFFICES ASSUME i.op \in {"Call", "Closure"}, i.x \in Main..e, i.x # Main PROVE FALSE
    OBVIOUS
  <2>1. code[i.x].op \in Begins
    BY <1>10 DEF BadTarget, Begins
  <2>2. code[i.x].op \notin Begins
    <3> HIDE DEF i
    <3> QED
      BY <1>6, NoBegin
  <2> QED
    BY <2>1, <2>2
<1>13. new \in Seq(T)
  <2>1. \A j \in 1..Len(Successors(i, a)) :
          Successors(i, a)[j] \in Body /\ Successors(i, a)[j] \notin seen
            => Successors(i, a)[j] \in T
    BY <1>5, <1>7, <1>11, <1>12 DEF VisitingMain
  <2> HIDE DEF T, i
  <2> QED
    BY <1>11, <2>1, FreshOnes
<1>14. a # Main =>
         /\ i.op \notin Begins /\ a \in Main + 1..e
         /\ l.locals = code[Main].x + prog.depth[a]
         /\ After(l, i).locals = code[Main].x + prog.depth[a] + Effect(i)
  <2> SUFFICES ASSUME a # Main
               PROVE  /\ i.op \notin Begins /\ a \in Main + 1..e
                      /\ l.locals = code[Main].x + prog.depth[a]
                      /\ After(l, i).locals = code[Main].x + prog.depth[a] + Effect(i)
    OBVIOUS
  <2>1. i.op \notin Begins /\ a \in Main + 1..e
    BY <1>6, <1>10, NoBegin
  <2>2. l.locals = code[Main].x + prog.depth[a]
    BY <1>5, <1>8 DEF VisitingMain
  <2> QED
    BY <1>10, <2>1, <2>2 DEF After, Layout
\* the depth that goes with a successor is the depth there
<1>15. ASSUME NEW s \in T PROVE After(l, i).locals = code[Main].x + prog.depth[s]
  <2>1. CASE a = Main
    <3>1. i.op \in Begins /\ prog.depth[Main + 1] = 0
      BY <2>1 DEF Tracked
    <3>2. s = Main + 1
      BY <2>1, <3>1 DEF Goes, Begins, Stops
    <3> QED
      BY <1>6, <2>1, <3>1, <3>2 DEF After
  <2>2. CASE a # Main
    <3>1. prog.depth[s] = prog.depth[a] + Effect(i)
      BY <1>14, <2>2 DEF Tracked
    <3>2. Effect(i) \in Int
      BY <1>10, EffectBound
    <3> QED
      BY <1>6, <1>10, <1>14, <2>2, <3>1, <3>2
  <2> QED
    BY <2>1, <2>2
<1> HIDE DEF T, new
<1>16. /\ Elements(new) \subseteq T
       /\ more \in Seq((Elements(new) \X Layout))
       /\ Elements(more) = {<<s, After(l, i)>> : s \in Elements(new)}
  <2>1. After(l, i) \in Layout
    BY <1>10, AfterLayout
  <2> HIDE DEF i
  <2>2. more \in Seq((Elements(new) \X Layout))
    BY <1>13, <2>1 DEF Elements
  <2>3. Elements(more) = {<<s, After(l, i)>> : s \in Elements(new)}
    BY <1>13 DEF Elements
  <2> QED
    BY <1>13, <2>2, <2>3 DEF Elements
<1>17. Elements(q') = Elements(rest) \cup {<<s, After(l, i)>> : s \in Elements(new)}
  <2>1. rest \in Seq((seen \cup Elements(new)) \X Layout)
    BY <1>8
  <2>2. more \in Seq((seen \cup Elements(new)) \X Layout)
    BY <1>16
  <2> HIDE DEF more, i
  <2>3. Elements(rest \o more) = Elements(rest) \cup Elements(more)
    BY <2>1, <2>2, ElementsConcat
  <2> QED
    BY <1>4, <1>16, <2>3
<1>18. Main \in seen' /\ seen' \subseteq Main..e
  BY <1>4, <1>5, <1>16 DEF VisitingMain, T
<1>19. ASSUME NEW o \in Elements(q'), o[1] # Main
       PROVE  o[2].locals = code[Main].x + prog.depth[o[1]]
  <2>1. CASE o \in Elements(rest)
    BY <1>5, <1>8, <1>19, <2>1 DEF VisitingMain
  <2>2. CASE o \in {<<s, After(l, i)>> : s \in Elements(new)}
    BY <1>15, <1>16, <2>2
  <2> QED
    BY <1>17, <2>1, <2>2
<1>20. ASSUME NEW c \in seen', \A o \in Elements(q') : o[1] # c
       PROVE  Checked(c, seen')
  <2>1. c \notin Elements(new)
    <3> SUFFICES ASSUME c \in Elements(new) PROVE FALSE
      OBVIOUS
    <3>1. <<c, After(l, i)>> \in Elements(q')
      BY <1>17
    <3> QED
      BY <1>20, <3>1
  <2>2. c \in seen
    BY <1>4, <2>1
  <2>3. CASE c = a
    <3>1. Goes(i, a) \cap (Main..e) \subseteq seen'
      <4>1. \A j \in 1..Len(Successors(i, a)) :
              Successors(i, a)[j] \in Body => Successors(i, a)[j] \in seen \cup Elements(new)
        <5> HIDE DEF i
        <5> QED
          BY <1>11, FreshAll DEF new
      <4>2. \A s \in Elements(Successors(i, a)) : s \in Body => s \in seen'
        BY <1>4, <1>11, <4>1 DEF Elements
      <4> QED
        BY <1>7, <1>11, <4>2
    <3>2. a # Main => code[Main].x + prog.depth[a] + Effect(i) >= 0
      <4>1. Effect(i) \in Int
        BY <1>10, EffectBound
      <4> QED
        BY <1>4, <1>6, <1>10, <1>14, <4>1 DEF Under
    <3> QED
      BY <2>3, <3>1, <3>2 DEF Checked
  <2>4. CASE c # a
    <3>1. \A o \in Elements(q) : o[1] # c
      BY <1>3, <1>8, <1>17, <1>20, <2>4
    <3>2. Checked(c, seen)
      BY <1>5, <2>2, <3>1 DEF VisitingMain
    <3> QED
      BY <1>4, <3>2 DEF Checked
  <2> QED
    BY <2>3, <2>4
<1>21. ASSUME NEW c \in seen', \A o \in Elements(q') : o[1] # c
       PROVE  Checked(c, seen)'
  <2>1. Checked(c, seen')
    BY <1>20, <1>21
  <2> QED
    BY <1>4, <2>1, SameMain DEF Checked
<1> QED
  BY <1>4, <1>18, <1>19, <1>21, SameMain DEF VisitingMain

\* The verification of other functions keeps what is known of main.
LEMMA MainInvVerification ==
  ASSUME prog \in Programs, Coverage, MainInv, Scan \/ EndScan \/ Enter \/ Visit \/ CallThrows
  PROVE  MainInv'
<1>1. /\ UNCHANGED <<prog, depth, min_args>>
      /\ phase \in {"scan", "enter", "visit"}
      /\ phase' \in {"scan", "enter", "visit", "rejected", "terminated"}
      /\ phase' \in {"enter", "visit"} /\ phase = "scan" => EndScan
      /\ phase' = "visit" => Enter \/ Visit
  BY DEF Scan, EndScan, Enter, Visit, CallThrows, Reject, runVars
<1>2. phase = "scan" => Main \notin DOMAIN min_args
  BY DEF Coverage, Passed
<1>3. ASSUME phase' = "visit", pass' = "function", k' = 1, Tracked
      PROVE  VisitingMain'
  <2>1. CASE Enter
    <3>1. /\ q' = << <<fn, Layout0>> >> /\ seen' = {fn} /\ prog' = prog
          /\ k = 1 /\ phase = "enter"
          /\ \E e \in DOMAIN code : Ends(code, fn, e)
      BY <1>3, <2>1 DEF Enter, Reject
    <3>2. fn = Main /\ Main \in Nat
      BY <3>1, MainFirst
    <3>3. Main \in Main..LastOf(Main)
      <4>1. LastOf(Main) \in DOMAIN code /\ Main < LastOf(Main)
        BY <3>1, <3>2 DEF LastOf, Ends
      <4> QED
        BY <3>2, <4>1, CodeType
    <3>4. Elements(q') = { <<Main, Layout0>> }
      BY <3>1, <3>2 DEF Elements
    <3> QED
      BY <3>1, <3>2, <3>3, <3>4, SameMain DEF VisitingMain
  <2>2. CASE Visit
    <3>1. pass = "function" /\ k = 1
      BY <1>3, <2>2 DEF Visit, Reject
    <3> QED
      BY <1>3, <2>2, <3>1, VisitMain
  <2> QED
    BY <1>1, <1>3, <2>1, <2>2
<1> QED
  BY <1>1, <1>2, <1>3, MainInvKept

\* When the verifier leaves main, what it has seen is closed and checked.
LEMMA MainInvLeave ==
  ASSUME prog \in Programs, Coverage, MainInv, Leave
  PROVE  MainInv'
<1>1. /\ UNCHANGED <<prog, depth>> /\ phase = "visit" /\ q = <<>>
      /\ phase' \in {"rejected", "enter", "run"}
      /\ phase' = "run" => ip' = Main
      /\ phase' # "rejected" => DOMAIN min_args' = IF pass = "calls" THEN DOMAIN min_args
                                                   ELSE DOMAIN min_args \cup {fn}
  BY DEF Leave, Reject, runVars
<1>2. depth' = 0 /\ Main \in Nat /\ code[Main].x \in Nat /\ (k = 1 => fn = Main)
  BY <1>1, MainFirst DEF MainInv
<1>3. ASSUME NEW S \in SUBSET (Main..LastOf(Main)), Main \in S, \A a \in S : Checked(a, S),
             phase' # "rejected"
      PROVE  MainVisited(S)'
  BY <1>1, <1>2, <1>3, SameMain DEF MainVisited
<1>4. ASSUME phase' # "rejected", Main \in DOMAIN min_args', Tracked
      PROVE  \E S \in SUBSET (Main'..LastOf(Main)') : MainVisited(S)'
  <2>1. CASE Main \in DOMAIN min_args
    <3>1. PICK S \in SUBSET (Main..LastOf(Main)) : MainVisited(S)
      BY <1>1, <1>4, <2>1 DEF MainInv
    <3> QED
      BY <1>1, <1>3, <1>4, <3>1, SameMain DEF MainVisited
  <2>2. CASE Main \notin DOMAIN min_args
    <3>1. pass = "function" /\ fn = Main /\ DOMAIN min_args = Passed
      BY <1>1, <1>4, <2>2 DEF Coverage
    <3>2. k = 1
      <4> SUFFICES ASSUME k # 1 PROVE FALSE
        OBVIOUS
      <4>1. 1 \in 1..k - 1 /\ k \in Nat
        BY DEF Coverage
      <4>2. todo[1] \in DOMAIN min_args
        BY <3>1, <4>1 DEF Passed
      <4>3. todo[1] = Main
        BY TodoFirst
      <4> QED
        BY <2>2, <4>2, <4>3
    <3>3. VisitingMain
      BY <1>1, <1>4, <3>1, <3>2 DEF MainInv
    <3>4. Elements(q) = {}
      BY <1>1 DEF Elements
    <3>5. Main \in seen /\ seen \in SUBSET (Main..LastOf(Main)) /\ \A a \in seen : Checked(a, seen)
      BY <3>3, <3>4 DEF VisitingMain
    <3>6. PICK S : S = seen
      OBVIOUS
    <3> QED
      BY <1>1, <1>3, <1>4, <3>5, <3>6, SameMain
  <2> QED
    BY <2>1, <2>2
<1> QED
  BY <1>1, <1>2, <1>4, SameMain DEF MainInv

\* The run of main goes where the verifier has been, at the depth it has counted.
LEMMA MainInvRun ==
  ASSUME prog \in Programs, Coverage, MainInv, Execute \/ Stop
  PROVE  MainInv'
<1>1. /\ UNCHANGED <<prog, min_args>> /\ phase = "run" /\ phase' \in {"run", "ended"}
  BY DEF Execute, Stop
<1> SUFFICES ASSUME Main \in DOMAIN min_args, Tracked
             PROVE  \E S \in SUBSET (Main'..LastOf(Main)') : MainVisited(S)'
  BY <1>1, SameMain DEF MainInv
<1>2. PICK S \in SUBSET (Main..LastOf(Main)) : MainVisited(S)
  BY <1>1 DEF MainInv
<1>3. /\ ip \in S /\ depth = IF ip = Main THEN 0 ELSE prog.depth[ip]
      /\ depth + code[Main].x >= 0
      /\ \A a \in S : Checked(a, S)
  BY <1>1, <1>2 DEF MainVisited, Accepted
<1>4. CASE Stop
  BY <1>1, <1>2, <1>3, <1>4, SameMain DEF Stop, MainVisited, runVars, Accepted
<1>5. CASE Execute
  <2> DEFINE e == LastOf(Main)
             i == code[ip]
  <2>1. /\ depth' = depth - Pops(i) + Pushes(i) /\ ip' \in Goes(i, ip)
        /\ phase' = "run" /\ ip \in DOMAIN code /\ i.op \notin Stops
    BY <1>5 DEF Execute, Stopping
  <2>2. /\ Main \in Nat /\ code[Main].x \in Nat /\ ip \in Nat /\ i \in Instruction
        /\ Ends(code, Main, e) /\ e \in Nat /\ Main < e
        /\ prog.depth \in [DOMAIN code -> Int] /\ e \in DOMAIN code
    BY <2>1, MainFirst, CodeType DEF Coverage, Ends
  <2>3. /\ Pops(i) \in Nat /\ Pushes(i) \in Nat /\ Effect(i) \in Int
    BY <2>2, EffectBound
  <2>4. Checked(ip, S)
    BY <1>3
  <2>5. /\ ip' \in Main + 1..e /\ depth' = prog.depth[ip']
        /\ depth' + code[Main].x >= 0
    <3>1. CASE ip = Main
      <4>1. i.op \in Begins /\ prog.depth[Main + 1] = 0
        BY <3>1 DEF Tracked
      <4>2. ip' = Main + 1 /\ Pops(i) = 0 /\ Pushes(i) = 0
        BY <2>1, <3>1, <4>1 DEF Goes, Pops, Pushes, Begins, Stops
      <4> QED
        BY <1>3, <2>1, <2>2, <3>1, <4>1, <4>2
    <3>2. CASE ip # Main
      <4>1. ip \in Main + 1..e
        BY <1>3, <2>2, <3>2
      <4>2. /\ ip' \in Main + 1..e
            /\ Effect(i) = Pushes(i) - Pops(i)
            /\ prog.depth[ip'] = prog.depth[ip] + Effect(i)
        BY <2>1, <4>1 DEF Tracked
      <4>3. depth = prog.depth[ip] /\ depth \in Int
        BY <1>3, <2>1, <2>2, <3>2
      <4>4. code[Main].x + prog.depth[ip] + Effect(i) >= 0
        BY <2>4, <3>2 DEF Checked
      <4> HIDE DEF i
      <4> QED
        BY <2>1, <2>2, <2>3, <4>2, <4>3, <4>4
    <3> QED
      BY <3>1, <3>2
  <2>6. ip' \in S /\ ip' # Main
    BY <2>1, <2>2, <2>4, <2>5 DEF Checked
  <2>7. MainVisited(S)'
    BY <1>1, <1>2, <1>3, <2>1, <2>5, <2>6, SameMain DEF MainVisited
  <2> QED
    BY <1>1, <2>7, SameMain
<1> QED
  BY <1>4, <1>5

\* Every step, of the verifier and of the run, keeps what is known of main.
LEMMA MainInvNext ==
  ASSUME prog \in Programs, Coverage, MainInv, [Next]_vars
  PROVE  MainInv'
<1>1. CASE UNCHANGED vars
  <2>1. UNCHANGED <<prog, phase, pass, q, seen, k, min_args, ip, depth>>
    BY <1>1 DEF vars, runVars
  <2>2. VisitingMain' <=> VisitingMain
    BY <2>1, SameMain DEF VisitingMain
  <2>3. \A S : MainVisited(S)' <=> MainVisited(S)
    BY <2>1, SameMain DEF MainVisited, Accepted
  <2> QED
    BY <2>1, <2>2, <2>3, SameMain DEF MainInv
<1> QED
  BY <1>1, MainInvVerification, MainInvLeave, MainInvRun
  DEF Next, Verification, Finished

\* The run of a main whose words the verifier can count never takes a word from
\* below its frame, whatever the file has besides.
THEOREM RunKeepsFrame == Spec => []CatchesUnderflow
<1> DEFINE I == prog \in Programs /\ Coverage
<1>1. Init => MainInv
  BY DEF Init, MainInv
<1>2. I /\ MainInv /\ [Next]_vars => MainInv'
  BY MainInvNext
<1>3. I /\ MainInv => CatchesUnderflow
  <2> SUFFICES ASSUME I, MainInv, Accepted, Tracked PROVE depth + code[Main].x >= 0
    BY DEF CatchesUnderflow
  <2>1. Main \in DOMAIN min_args
    <3>1. DOMAIN min_args = Passed /\ pass = "calls" /\ todo[1] = Main /\ k \in 1..Len(todo)
      BY TodoFirst DEF Coverage
    <3>2. 1 \in 1..Len(todo)
      BY <3>1
    <3> QED
      BY <3>1, <3>2 DEF Passed
  <2>2. PICK S \in SUBSET (Main..LastOf(Main)) : MainVisited(S)
    BY <2>1 DEF MainInv, Accepted
  <2> QED
    BY <2>2 DEF MainVisited
<1> QED
  BY <1>1, <1>2, <1>3, CoverageInvariant, PTL DEF Spec
=============================================================================
