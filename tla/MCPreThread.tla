------------------------------ MODULE MCPreThread ------------------------------
(***************************************************************************)
(* Instances of PreThread for TLC.  Two threads of equal priority take     *)
(* turns, a third outranks them.                                           *)
(***************************************************************************)
EXTENDS PreThread, TLC

CONSTANTS t1, t2, t3, t4

\* t3 outranks t1 and t2, which are equal; t4 is last.
Ranked == [t \in Thread |-> CASE t = t3 -> 2 [] t = t4 -> 0 [] OTHER -> 1]

\* t1 loops back to an address once; t2 calls putc; t3 shares its exit call
\* with t1; t4 calls sys_exit.
MixedCode ==
  t1 :> <<4, 8, 4>> @@ t2 :> <<12, 16>> @@ t3 :> <<20, 4>> @@ t4 :> <<28, 4>>
PutcCode == {12}
SysExitCode == {28}

\* t1 never exits (hello2 of preemptive-thread-test-1.c), the others do.
LoopCode == t1 :> <<4, 8>> @@ t2 :> <<12, 8, 12>> @@ t3 :> <<20, 24>>
Looping == {t1}

\* Two threads that run the same function, as in equiv-test-1.c.
SameCode == [t \in Thread |-> <<4, 8>>]
=============================================================================
