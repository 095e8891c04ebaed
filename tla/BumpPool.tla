------------------------------ MODULE BumpPool ------------------------------
(***************************************************************************)
(* What a pool of 07-non-blocking-pool promises to the threads that build  *)
(* lists in it: an object is written where no other object is, inside the  *)
(* data area of the pool.                                                  *)
(***************************************************************************)
EXTENDS Integers

CONSTANTS Threads, Size, Data, End

VARIABLE owner  \* address of an object that has been written -> its thread

Init == owner = <<>>

Disjoint(a, b) == a + Size <= b \/ b + Size <= a

Write(t, a) ==
  /\ Data <= a
  /\ a + Size <= End
  /\ \A b \in DOMAIN owner : Disjoint(a, b)
  /\ owner' = [b \in DOMAIN owner \cup {a} |-> IF b = a THEN t ELSE owner[b]]

Next == \E t \in Threads : \E a \in Data..End : Write(t, a)

Spec == Init /\ [][Next]_owner
=============================================================================
