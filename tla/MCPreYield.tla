------------------------------- MODULE MCPreYield -------------------------------
(* Instances of PreYield for TLC: t1 and t2 are equals, so are t3 and t4 below. *)
EXTENDS PreYield, TLC

CONSTANTS t1, t2, t3, t4

Ranks == [t \in Thread |-> IF t \in {t3, t4} THEN 1 ELSE 2]
\* One of each pair yields and the other exits; or all yield.
HalfYield == [t \in Thread |-> IF t \in {t1, t3} THEN 1 ELSE 0]
AllYield == [t \in Thread |-> 1]
Forked == SelectSeq(<<t1, t2, t3, t4>>, LAMBDA t : t \in Thread)
=============================================================================
