------------------------------ MODULE SafeRead ------------------------------
(***************************************************************************)
(* safe_read_byte of 09-safe-byte-read: a read that answers nullopt where  *)
(* there is nothing to read.  It takes the dispositions of two signals for *)
(* the time of the read, and leaves the handler by siglongjmp.             *)
(***************************************************************************)
EXTENDS Signals

VARIABLES
  pc,           \* what the thread is doing
  ptr,          \* what is read: how it ends, or "byte"
  old,          \* old_segv_action and olg_segb_action
  JMP,          \* the mask that sigsetjmp has saved
  result        \* what the last call has returned

readVars == <<ptr, old, JMP, result>>

ReadInit ==
  /\ ptr = "byte"
  /\ old = [sig \in SIGNALS |-> DFL]
  /\ JMP = {}
  /\ result = "byte"

\* A pointer into a page that may not be read, to nothing, or into a mapping
\* behind the end of its file.
Pointers == SIGNALS \cup {"byte"}

Handler(mask) == Action("safe_handler", TRUE, mask)

Call(p) ==
  /\ pc = "main"
  /\ ptr' = p
  /\ pc' = "install"
  /\ UNCHANGED <<signalVars, old, JMP, result>>

\* both calls of sigaction, with one struct
Install ==
  /\ pc = "install"
  /\ \E mask \in SUBSET SIGNALS :
       action' = [sig \in SIGNALS |-> Handler(mask)]
  /\ old' = action
  /\ pc' = "setjmp"
  /\ UNCHANGED <<blocked, outcome, ptr, JMP, result>>

Setjmp ==
  /\ pc = "setjmp"
  /\ JMP' = blocked
  /\ pc' = "read"
  /\ UNCHANGED <<signalVars, ptr, old, result>>

\* *ptr, and where it faults, the signal
Read ==
  /\ pc = "read"
  /\ IF ptr = "byte"
     THEN pc' = "restore" /\ result' = "byte" /\ UNCHANGED signalVars
     ELSE /\ UNCHANGED <<action, result>>
          /\ IF Fatal(ptr)
             THEN outcome' = "killed" /\ UNCHANGED <<pc, blocked>>
             ELSE pc' = action[ptr].handler /\ blocked' = Entered(ptr) /\ UNCHANGED outcome
  /\ UNCHANGED <<ptr, old, JMP>>

\* sigsetjmp(JMP, 1)
JumpMask == JMP

safe_handler ==
  /\ pc = "safe_handler"
  /\ blocked' = JumpMask
  /\ result' = "nullopt"
  /\ pc' = "restore"
  /\ UNCHANGED <<action, outcome, ptr, old, JMP>>

\* mutant: both signals get the old action of SIGSEGV
Mutant_OneOld(sig) == old["SIGSEGV"]

OldAction(sig) == old[sig]

Restore ==
  /\ pc = "restore"
  /\ action' = [sig \in SIGNALS |-> OldAction(sig)]
  /\ pc' = "returned"
  /\ UNCHANGED <<blocked, outcome, readVars>>

Returned ==
  /\ pc = "returned"
  /\ pc' = "main"
  /\ UNCHANGED <<signalVars, readVars>>

ReadNext ==
  \/ \E p \in Pointers : Call(p)
  \/ Install \/ Setjmp \/ Read \/ safe_handler \/ Restore \/ Returned

-----------------------------------------------------------------------------
Reading == {"install", "setjmp", "read", "safe_handler", "restore", "returned"}

\* A call never kills the process, also after many that have faulted, whatever
\* the handler's mask was, and says nullopt exactly if there is no byte.
ReadsSafely ==
  /\ pc \in Reading => outcome = "running"
  /\ pc = "returned" => (result = "nullopt" <=> ptr # "byte")
=============================================================================
