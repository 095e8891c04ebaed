----------------------------- MODULE LamaFrames -----------------------------
(***************************************************************************)
(* The call stack of tools/interprete.cpp on top of LamaGC: globals, calls *)
(* of functions and closures, arguments, locals and captured variables.    *)
(*                                                                         *)
(* LamaGC keeps the live part of the virtual stack only.  The array behind *)
(* it is slots: a pop leaves its word there, and a Begin that makes room   *)
(* for locals turns whatever the slots hold into live words again.         *)
(*                                                                         *)
(* The bytecode is well formed: it never pops below the words its function *)
(* has pushed, and calls with as many arguments as it has pushed.          *)
(***************************************************************************)
EXTENDS LamaGC

CONSTANTS
  Globals,      \* file->global_area_size
  ArgCounts,    \* numbers of arguments a function may take
  LocalCounts,  \* numbers of locals a function may have
  CSTACK_SIZE   \* frames of the call stack

VARIABLES
  slots,        \* the words of __vstack, by their distance from its bottom
  frames        \* the call stack, main frame first

frameVars == <<slots, frames>>
allVars == <<vars, frameVars>>

ASSUME FramesAssumption ==
  /\ Globals \in Nat
  /\ Globals < VSTACK_SIZE - 1
  /\ CSTACK_SIZE \in Nat \ {0}
  /\ ArgCounts \subseteq Nat
  /\ LocalCounts \subseteq Nat

Frame == [base: Nat, args: Nat, locals: Nat, closure: {0, 1}]

Top_frame == frames[Len(frames)]
Floor == Top_frame.base + Top_frame.locals

\* vstack_alloc_globals, cstack_init and the Begin of main, which may have
\* locals of its own; a static array starts as zeros
FramesInit ==
  /\ slots = [i \in 1..VSTACK_SIZE |-> 0]
  /\ \E l \in LocalCounts \cup {0} :
       /\ Globals + l < VSTACK_SIZE - 1
       /\ InitWith([i \in 1..Globals + l |-> 0])
       /\ frames = <<[base |-> Globals, args |-> 0, locals |-> l, closure |-> 0]>>

\* what a step that leaves this stack leaves in the array
Mirror ==
  slots' = [i \in 1..VSTACK_SIZE |-> IF i <= Len(stack') THEN stack'[i] ELSE slots[i]]

\* the words that the callers and the variables of the frame occupy
Below(st) == SubSeq(st, 1, Floor)

\* a step of LamaGC: an operation pops no more than its function has pushed
InFrame(A) ==
  /\ A
  /\ pc = "run" =>
       /\ Len(stack') >= Floor
       /\ Below(stack') = Below(stack)
       /\ req'.used <= Len(stack') - Floor
  /\ Mirror
  /\ UNCHANGED frames

\* a step that reads or writes a variable of the frame
InVariables(A) == A /\ Mirror /\ UNCHANGED frames

-----------------------------------------------------------------------------
\* cstack_alloc only moves the top of the stack: the locals are the words
\* that the slots still hold
Uncleared(n) == SubSeq(slots, Depth + 1, Depth + n)

\* cstack_call, then the Begin or CBegin that the call jumps to
Enter(args, locals, closure) ==
  /\ Len(frames) < CSTACK_SIZE
  /\ Depth + locals < VSTACK_SIZE - 1
  /\ frames' = Append(frames, [base |-> Depth, args |-> args,
                               locals |-> locals, closure |-> closure])
  /\ StackOp(stack \o Uncleared(locals))
  /\ UNCHANGED slots

Call(args, locals) ==
  /\ pc = "run"
  /\ args <= Depth - Floor
  /\ Enter(args, locals, 0)

\* the closure lies below its arguments; its entry is read
CallC(args, locals) ==
  /\ pc = "run"
  /\ args < Depth - Floor
  /\ LET c == stack[Depth - args] IN
     IF ~IsObj(heap, c) THEN Boxed(c) /\ Crash /\ UNCHANGED frameVars
     ELSE /\ mem[HeaderOf(heap, c)].kind = "CLOSURE"
          /\ Enter(args, locals, 1)

\* cstack_end: the result replaces the arguments and the closure
End ==
  /\ pc = "run"
  /\ Len(frames) > 1
  /\ Depth > Floor
  /\ StackOp(Append(SubSeq(stack, 1, Top_frame.base - Top_frame.args - Top_frame.closure),
                    Top))
  /\ frames' = SubSeq(frames, 1, Len(frames) - 1)
  /\ Mirror

\* the End of main returns to NULL, where interprete shuts the heap down
EndMain ==
  /\ pc = "run"
  /\ Len(frames) = 1
  /\ Depth > Floor
  /\ pc' = "exited"
  /\ stack' = Append(SubSeq(stack, 1, Top_frame.base), Top)
  /\ frames' = <<>>
  /\ Mirror
  /\ UNCHANGED <<heap, mem, xroots, nextid, req, gc>>

-----------------------------------------------------------------------------
(***************************************************************************)
(* loc: where the variables of the current frame are.                      *)
(***************************************************************************)
GlobalAt(i) == 1 + i
LocalAt(i) == Top_frame.base + 1 + i

\* mutant: the first argument is taken for the word below it
Mutant_ArgBelow(i) == Top_frame.base - Top_frame.args + i

ArgAt(i) == Top_frame.base - Top_frame.args + 1 + i

Locations ==
  {GlobalAt(i) : i \in 0..Globals-1}
    \cup {LocalAt(i) : i \in 0..Top_frame.locals-1}
    \cup {ArgAt(i) : i \in 0..Top_frame.args-1}

Ld(p) == Push(stack[p])

St(p) == Depth > Floor /\ StackOp([stack EXCEPT ![p] = Top])

\* a captured variable lives in the closure, which lies below the arguments
Closure == stack[Top_frame.base - Top_frame.args]

LdCaptured(k) ==
  /\ Top_frame.closure = 1
  /\ IF ~IsObj(heap, Closure) THEN Crash
     ELSE LET o == mem[HeaderOf(heap, Closure)] IN
          k \in DOMAIN o.fields /\ Push(o.fields[k])

StCaptured(k) ==
  /\ Top_frame.closure = 1
  /\ Depth > Floor
  /\ IF ~IsObj(heap, Closure) THEN Crash
     ELSE LET off == HeaderOf(heap, Closure) IN
          /\ k \in DOMAIN mem[off].fields
          /\ mem' = [mem EXCEPT ![off].fields[k] = Top]
          /\ UNCHANGED <<heap, stack, xroots, nextid, pc, req, gc>>

\* Lwrite returns 0, which is not a boxed integer
Lwrite == pc = "run" /\ Depth > 0 /\ StackOp(Append(Lower(1), 0))

Variable ==
  /\ pc = "run"
  /\ \/ \E p \in Locations : Ld(p) \/ St(p)
     \/ \E k \in 1..MaxLen : LdCaptured(k) \/ StCaptured(k)

FramesNext ==
  \/ InFrame(Next)
  \/ InFrame(Lwrite)
  \/ InVariables(Variable)
  \/ \E a \in ArgCounts, l \in LocalCounts : Call(a, l) \/ CallC(a, l)
  \/ End
  \/ EndMain

FramesSpec == FramesInit /\ [][FramesNext]_allVars

-----------------------------------------------------------------------------
\* The call stack is well nested, and the word below the arguments of every
\* active closure call still is that closure, however often the callee has
\* collected, stored to its variables or called: End pops the right words
\* and loc finds the captured variables, and nothing that the frames hold for
\* the collector makes it read a header that is not there.
ActiveClosures ==
  /\ NeverCrashes
  /\ frames \in Seq(Frame)
  /\ \A i \in 2..Len(frames) :
       frames[i].base - frames[i].args - frames[i].closure
         >= frames[i-1].base + frames[i-1].locals
  /\ pc = "run" =>
       \A i \in DOMAIN frames :
         LET c == stack[frames[i].base - frames[i].args] IN
         frames[i].closure = 1 =>
           /\ IsObj(heap, c)
           /\ mem[HeaderOf(heap, c)].kind = "CLOSURE"

\* The comment in mark (gc.c:512): "queue contains only objects that are valid
\* heap pointers (each corresponding to content of unmarked object)".  A root
\* that mark is about to take for a heap pointer is the content of an object.
EnqueuesObjects ==
  (/\ pc = "mark"
   /\ QueueEmpty
   /\ gc.root <= Len(Roots)
   /\ is_valid_heap_pointer(Roots[gc.root])) => IsObj(heap, Roots[gc.root])
=============================================================================
