------------------------------ MODULE Signals -------------------------------
(***************************************************************************)
(* Synchronous signals of a process with one thread, as sigaction(2),      *)
(* signal(7) and sigsetjmp(3) describe them: what 06-mempool and           *)
(* 09-safe-byte-read rely on.                                              *)
(*                                                                         *)
(* Neither program sets sa_mask, so which signals a handler blocks is      *)
(* whatever lay on the stack when sigaction was called.                    *)
(***************************************************************************)
VARIABLES
  action,       \* what is done about a signal: [handler, nodefer, mask]
  blocked,      \* the signal mask
  outcome       \* how the process has ended

signalVars == <<action, blocked, outcome>>

SIGNALS == {"SIGSEGV", "SIGBUS"}
DFL == [handler |-> "SIG_DFL", nodefer |-> FALSE, mask |-> {}]

Action(handler, nodefer, mask) == [handler |-> handler, nodefer |-> nodefer, mask |-> mask]

\* a fault kills the process if nobody can be told
Fatal(sig) == sig \in blocked \/ action[sig] = DFL

\* the mask under which the handler runs
Entered(sig) ==
  blocked \cup action[sig].mask \cup (IF action[sig].nodefer THEN {} ELSE {sig})
=============================================================================
