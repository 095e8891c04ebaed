------------------------------- MODULE Verify -------------------------------
(***************************************************************************)
(* The bytecode verifier, tools/verify.cpp, and a run of what it accepts.  *)
(*                                                                         *)
(* verify_reachable_instructions first scans everything that control may   *)
(* reach from the public symbols and collects the functions and closures   *)
(* it meets.  Then verify_function, and after it verify_calls, go through  *)
(* the body of each of them breadth first, with the depth of the stack     *)
(* that they have counted so far.  An instruction is visited once, with    *)
(* the depth at which it was first reached.                                *)
(*                                                                         *)
(* At last the interpreter runs main, seen as the depth of its stack.      *)
(***************************************************************************)
EXTENDS Bytecode

CONSTANT MaxDepth  \* bound: words that the run of main may push

VARIABLES
  prog,         \* the file
  phase,        \* what the verifier is doing, or how it has ended
  pass,         \* "function" or "calls", while functions are visited
  q,            \* the queue: addresses, or addresses with a layout
  seen,         \* visited
  begins,       \* the functions that were found
  cbegins,      \* the closures that were found
  k,            \* number of the function being visited
  jumps,        \* targets of its jumps
  min_args,     \* function -> what verify_function has returned
  ip, depth,    \* the run: next instruction, words pushed above the locals
  took          \* ghost: the run took a word that main has not pushed

runVars == <<ip, depth, took>>
vars == <<prog, phase, pass, q, seen, begins, cbegins, k, jumps, min_args, runVars>>

code == prog.code
Main == prog.entries[1]
todo == begins \o cbegins
fn == todo[k]

Init ==
  /\ prog \in Programs
  /\ phase = "scan"
  /\ pass = "function"
  /\ q = prog.entries
  /\ seen = {prog.entries[j] : j \in DOMAIN prog.entries}
  /\ begins = prog.entries
  /\ cbegins = <<>>
  /\ k = 1
  /\ jumps = {}
  /\ min_args = <<>>
  /\ ip = 0
  /\ depth = 0
  /\ took = FALSE

\* FAIL: a message and exit(1)
Reject ==
  /\ phase' = "rejected"
  /\ UNCHANGED <<prog, pass, q, seen, begins, cbegins, k, jumps, min_args, runVars>>

-----------------------------------------------------------------------------
\* mutant: an instruction is put into the queue again whenever it is reached
Mutant_Revisit(s, S, B) == IF s \in B THEN <<s>> ELSE <<>>

\* the loop over successors: s is queued if it lies in B and is not in S
Keep(s, S, B) == IF s \in B /\ s \notin S THEN <<s>> ELSE <<>>

Fresh(ss, S, B) ==
  CASE Len(ss) = 0 -> <<>>
    [] Len(ss) = 1 -> Keep(ss[1], S, B)
    [] OTHER -> Keep(ss[1], S, B) \o Keep(ss[2], S \cup {ss[1]}, B)

Elements(ss) == {ss[j] : j \in DOMAIN ss}

(***************************************************************************)
(* verify_reachable_instructions.  A read behind the code is a FAIL of the *)
(* reader.                                                                 *)
(***************************************************************************)
BadTarget(i) ==
  \/ i.op = "Call" /\ (i.x \notin DOMAIN code \/ code[i.x].op # "Begin")
  \/ i.op = "Closure" /\ (i.x \notin DOMAIN code \/ code[i.x].op \notin Begins)

Found(fs, i, op) == IF i.op = op THEN Append(fs, i.x) ELSE fs

Scan ==
  /\ phase = "scan"
  /\ q # <<>>
  /\ LET a == Head(q) IN
     IF a \notin DOMAIN code \/ BadTarget(code[a]) THEN Reject
     ELSE LET new == Fresh(Successors(code[a], a), seen, Nat) IN
          /\ begins' = Found(begins, code[a], "Call")
          /\ cbegins' = Found(cbegins, code[a], "Closure")
          /\ q' = Tail(q) \o new
          /\ seen' = seen \cup Elements(new)
          /\ UNCHANGED <<prog, phase, pass, k, jumps, min_args, runVars>>

EndScan ==
  /\ phase = "scan"
  /\ q = <<>>
  /\ phase' = "enter"
  /\ UNCHANGED <<prog, pass, q, seen, begins, cbegins, k, jumps, min_args, runVars>>

-----------------------------------------------------------------------------
(***************************************************************************)
(* verify_function and verify_calls.  The arguments and the captured       *)
(* variables that a function uses are counted in the copies of the layout  *)
(* that go through the queue, and are lost with them: verify_function      *)
(* returns the args of the layout that it started with.                    *)
(***************************************************************************)
Layout0 == [locals |-> 0, is_closure |-> FALSE]

Returned == 0

LastOf(b) == CHOOSE e \in DOMAIN code : Ends(code, b, e)

\* the instructions that are visited: verify_calls leaves the End out
Body == fn..(IF pass = "function" THEN LastOf(fn) ELSE LastOf(fn) - 1)

Enter ==
  /\ phase = "enter"
  /\ IF ~\E e \in DOMAIN code : Ends(code, fn, e) THEN Reject
     ELSE /\ q' = << <<fn, Layout0>> >>
          /\ seen' = {fn}
          /\ jumps' = {}
          /\ phase' = "visit"
          /\ UNCHANGED <<prog, pass, begins, cbegins, k, min_args, runVars>>

\* load_location fails
BadLocation(l, loc) ==
  CASE loc[1] = "Global" -> loc[2] > Globals
    [] loc[1] = "Local" -> loc[2] > l.locals
    [] loc[1] = "Arg" -> FALSE
    [] loc[1] = "Captured" -> ~l.is_closure

\* StackDepthFunctor
After(l, i) ==
  IF i.op \in Begins
  THEN [locals |-> i.x, is_closure |-> i.op = "CBegin"]
  ELSE [l EXCEPT !.locals = @ + Effect(i)]

\* mutant: the depth is never looked at
Mutant_NeverUnder(l) == FALSE

Under(l) == pass = "function" /\ l.locals < 0

(***************************************************************************)
(* verify_calls compares the depth with the arguments of the callee.  The  *)
(* functor that should read the callee's address is specialised for        *)
(* char *, the reader applies the one for const char *: the address is not *)
(* initialised, and what min_args_count.at finds there, if it does not     *)
(* throw, is the entry of some function.                                   *)
(***************************************************************************)
AtCall(i) == pass = "calls" /\ i.op = "Call"
TooFew(l, i) == AtCall(i) /\ \E b \in DOMAIN min_args : l.locals < min_args[b]

CallThrows ==
  /\ phase = "visit"
  /\ q # <<>>
  /\ AtCall(code[Head(q)[1]])
  /\ phase' = "terminated"
  /\ UNCHANGED <<prog, pass, q, seen, begins, cbegins, k, jumps, min_args, runVars>>

Visit ==
  /\ phase = "visit"
  /\ q # <<>>
  /\ LET a == Head(q)[1]
         l == Head(q)[2]
         i == code[a]
     IN  IF TooFew(l, i) \/ (\E loc \in i.locs : BadLocation(l, loc)) \/ Under(After(l, i))
         THEN Reject
         ELSE LET new == Fresh(Successors(i, a), seen, Body) IN
              /\ q' = Tail(q) \o [j \in DOMAIN new |-> <<new[j], After(l, i)>>]
              /\ seen' = seen \cup Elements(new)
              /\ jumps' = IF i.op \in Jumps THEN jumps \cup {i.x} ELSE jumps
              /\ UNCHANGED <<prog, phase, pass, begins, cbegins, k, min_args, runVars>>

\* mutant: a jump to the End is taken for one that leaves the body
Mutant_EndIsOutside(t) == t < fn \/ t >= LastOf(fn)

\* the address behind the End counts as inside
JumpsOut(t) == t < fn \/ t > LastOf(fn) + 1

\* the next function, the second pass, or the interpreter
Leave ==
  /\ phase = "visit"
  /\ q = <<>>
  /\ IF pass = "function" /\ \E t \in jumps : JumpsOut(t) THEN Reject
     ELSE /\ min_args' = IF pass = "calls" THEN min_args
                         ELSE [b \in DOMAIN min_args \cup {fn} |->
                                 IF b = fn THEN Returned ELSE min_args[b]]
          /\ k' = IF k < Len(todo) THEN k + 1 ELSE 1
          /\ pass' = IF k < Len(todo) THEN pass ELSE "calls"
          /\ LET done == k = Len(todo) /\ pass = "calls" IN
             /\ phase' = IF done THEN "run" ELSE "enter"
             /\ ip' = IF done THEN Main ELSE ip
          /\ UNCHANGED <<prog, q, seen, begins, cbegins, jumps, depth, took>>

-----------------------------------------------------------------------------
(***************************************************************************)
(* The interpreter runs main.  It does not know where a function's words   *)
(* begin: a pop takes whatever lies there, down to the first global.       *)
(***************************************************************************)
Words == Globals + code[Main].x + depth

\* the program ends, the reader runs off the code, or an assertion of the
\* stack stops the interpreter
Stopping ==
  \/ ip \notin DOMAIN code
  \/ code[ip].op \in Stops
  \/ Words < Pops(code[ip])
  \/ depth - Pops(code[ip]) + Pushes(code[ip]) > MaxDepth

Execute ==
  /\ phase = "run"
  /\ ~Stopping
  /\ LET i == code[ip] IN
     /\ depth' = depth - Pops(i) + Pushes(i)
     /\ took' = (took \/ depth < Pops(i))
     /\ ip' \in Goes(i, ip)
  /\ UNCHANGED <<prog, phase, pass, q, seen, begins, cbegins, k, jumps, min_args>>

Stop ==
  /\ phase = "run"
  /\ Stopping
  /\ phase' = "ended"
  /\ UNCHANGED <<prog, pass, q, seen, begins, cbegins, k, jumps, min_args, runVars>>

Finished == phase \in {"rejected", "terminated", "ended"} /\ UNCHANGED vars

Verification == Scan \/ EndScan \/ Enter \/ Visit \/ CallThrows \/ Leave

Next == Verification \/ Execute \/ Stop \/ Finished

Spec == Init /\ [][Next]_vars

\* the verifier runs on the only thread
FairSpec == Spec /\ WF_vars(Verification)

-----------------------------------------------------------------------------
\* The verifier turns down no program that the compiler emits, whatever way
\* its queue takes through branches and loops.
AcceptsCompiled == Compiled(prog) => phase # "rejected"

\* what the verifier has let through
Accepted == phase \in {"run", "ended"}

\* what lies in the function at b and cannot be left out: the addresses of S
\* lead to addresses of S as long as control stays in the function
ClosedIn(S, b) ==
  /\ b \in S
  /\ \A a \in S : Goes(code[a], a) \cap (b..LastOf(b)) \subseteq S

\* the instructions that control may reach in the function at b
ReachedIn(b) ==
  {a \in b..LastOf(b) : \A S \in SUBSET (b..LastOf(b)) : ClosedIn(S, b) => a \in S}

\* Every function that execution can get to has been verified: the target of
\* each call and closure that the scan has reached, the scan has reached all
\* that follows, and both passes have visited it.
CallsVerified ==
  Accepted =>
    /\ \A j \in DOMAIN prog.entries : prog.entries[j] \in DOMAIN min_args
    /\ \A b \in DOMAIN min_args : \A a \in b..LastOf(b) :
         code[a].op \in {"Call", "Closure"} /\ a \in ReachedIn(b)
           => code[a].x \in DOMAIN min_args

(***************************************************************************)
(* What the depth of the verifier is good for: if main is a function that  *)
(* takes its operands at a depth that does not depend on the way control   *)
(* came, and calls and builds nothing that takes arguments, the verifier's *)
(* depth is the true one.                                                  *)
(***************************************************************************)
Tracked ==
  /\ code[Main].op \in Begins
  /\ prog.depth[Main + 1] = 0
  /\ \A a \in Main + 1..LastOf(Main) :
       \A s \in Goes(code[a], a) :
         /\ s \in Main + 1..LastOf(Main)
         /\ Effect(code[a]) = Pushes(code[a]) - Pops(code[a])
         /\ prog.depth[s] = prog.depth[a] + Effect(code[a])

\* When the verifier has accepted such a program, its run never leaves its
\* frame: the words it takes are its own or its locals.
CatchesUnderflow == Accepted /\ Tracked => depth + code[Main].x >= 0

\* The verifier ends, on loops too, and so does each of its passes.
VerificationEnds == <>(phase \in {"rejected", "terminated", "run"})

\* The verifier's "Stack underflow" (verify.cpp:64): a program that it lets
\* through takes no word from the stack that it has not put there.
NoUnderflow == ~took

(***************************************************************************)
(* The invariant behind the proof that compiled programs are accepted.     *)
(***************************************************************************)
Layout == [locals: Int, is_closure: BOOLEAN]

FunctionStarts == {b \in DOMAIN code : code[b].op \in Begins}

\* the addresses of functions, which the scan never leaves
InFunctions == {a \in DOMAIN code : \E b \in FunctionStarts : a \in b..LastOf(b)}

\* the layouts with which the verifier may come to the instructions of fn: it
\* never counts less than the compiler
Items ==
  {it \in (fn..LastOf(fn)) \X Layout :
     it[1] # fn => /\ it[2].locals >= code[fn].x + prog.depth[it[1]]
                   /\ it[2].is_closure = (code[fn].op = "CBegin")}

Visiting ==
  /\ q \in Seq(Items)
  /\ fn \in seen
  /\ jumps \subseteq fn..LastOf(fn)

\* On a compiled program the verifier stays inside functions, and its depth
\* is never below the compiler's.
Inv ==
  Compiled(prog) =>
    /\ phase \in {"scan", "enter", "visit", "run", "terminated", "ended"}
    /\ begins \in Seq(FunctionStarts)
    /\ cbegins \in Seq(FunctionStarts)
    /\ k \in 1..Len(todo)
    /\ phase = "scan" => q \in Seq(InFunctions)
    /\ phase = "visit" => Visiting
    /\ \A b \in DOMAIN min_args : min_args[b] = 0

(***************************************************************************)
(* The invariant behind the proofs that calls lead to verified functions   *)
(* and that the run of main keeps to its frame, for every file.            *)
(***************************************************************************)
\* what the scan has done when it has taken a from its queue
Processed(a, S) ==
  /\ a \in DOMAIN code
  /\ ~BadTarget(code[a])
  /\ Elements(Successors(code[a], a)) \subseteq S
  /\ code[a].op = "Call" => code[a].x \in Elements(begins)
  /\ code[a].op = "Closure" => code[a].x \in Elements(cbegins)

Scanning ==
  /\ q \in Seq(Nat)
  /\ seen \subseteq Nat
  /\ Elements(q) \subseteq seen
  /\ Elements(todo) \subseteq seen
  /\ \A a \in seen \ Elements(q) : Processed(a, seen)

\* the addresses that the scan has seen in the end
Scanned(V) ==
  /\ Elements(todo) \subseteq V
  /\ \A a \in V : Processed(a, V)

\* the functions that verify_function has gone through
Passed == {todo[j] : j \in 1..(IF pass = "calls" THEN Len(todo) ELSE k - 1)}

Coverage ==
  /\ phase \in {"scan", "enter", "visit", "run", "rejected", "terminated", "ended"}
  /\ pass \in {"function", "calls"}
  /\ begins \in Seq(DOMAIN code)
  /\ cbegins \in Seq(DOMAIN code)
  /\ Len(prog.entries) <= Len(begins)
  /\ \A j \in DOMAIN prog.entries : begins[j] = prog.entries[j]
  /\ k \in 1..Len(todo)
  /\ DOMAIN min_args = Passed
  /\ Accepted => pass = "calls"
  /\ phase = "scan" => pass = "function" /\ k = 1 /\ Scanning
  /\ phase \in {"enter", "visit", "run", "ended"} =>
       \E V \in SUBSET DOMAIN code : Scanned(V) /\ (phase = "visit" => seen \subseteq V)
  /\ phase = "visit" => q \in Seq(seen \X Layout) /\ Ends(code, fn, LastOf(fn))
  /\ \A b \in DOMAIN min_args : Ends(code, b, LastOf(b))

\* what is known of an instruction of main that has been visited
Checked(a, S) ==
  /\ Goes(code[a], a) \cap (Main..LastOf(Main)) \subseteq S
  /\ a # Main => code[Main].x + prog.depth[a] + Effect(code[a]) >= 0

\* verify_function visits main: its depth is the true one
VisitingMain ==
  /\ Main \in seen
  /\ seen \subseteq Main..LastOf(Main)
  /\ \A it \in Elements(q) :
       it[1] # Main => it[2].locals = code[Main].x + prog.depth[it[1]]
  /\ \A a \in seen : (\A it \in Elements(q) : it[1] # a) => Checked(a, seen)

MainVisited(S) ==
  /\ Main \in S
  /\ \A a \in S : Checked(a, S)
  /\ phase = "run" => ip \in S /\ depth = IF ip = Main THEN 0 ELSE prog.depth[ip]
  /\ Accepted => depth + code[Main].x >= 0

MainInv ==
  /\ phase \notin {"run", "ended"} => depth = 0
  /\ phase = "visit" /\ pass = "function" /\ k = 1 /\ Tracked => VisitingMain
  /\ phase \in {"enter", "visit", "run", "ended"} /\ Main \in DOMAIN min_args /\ Tracked =>
       \E S \in SUBSET (Main..LastOf(Main)) : MainVisited(S)

SafetyInv == Coverage /\ MainInv
=============================================================================
