-------------------------------- MODULE Words --------------------------------
(***************************************************************************)
(* bit-support.h.  A 32-bit word is the set of the positions of its ones:  *)
(* union, intersection and difference are the bitwise operations, and a    *)
(* shift moves the positions and drops those that leave the word.          *)
(***************************************************************************)
EXTENDS Integers, FiniteSets, FiniteSetsExt, Sequences

Bits == 0 .. 31
Words == SUBSET Bits

Shl(x, n) == {i + n : i \in x} \cap Bits
Shr(x, n) == {i - n : i \in x} \cap Bits
Xor(x, y) == (x \ y) \cup (y \ x)

\* The word with the value n, 0 <= n < 2^31.
ToWord(n) == {i \in 0 .. 30 : (n \div 2^i) % 2 = 1}

BitOf(x, i) == IF i \in x THEN 1 ELSE 0

\* The number a word stands for.
Value(x) ==
  LET low[n \in 0 .. 32] == IF n = 0 THEN 0 ELSE low[n - 1] + BitOf(x, n - 1) * 2^(n - 1)
  IN  low[32]

\* Addition modulo 2^32, bit by bit.
Plus(x, y) ==
  LET carry[i \in 0 .. 32] ==
        IF i = 0 THEN 0 ELSE (BitOf(x, i - 1) + BitOf(y, i - 1) + carry[i - 1]) \div 2
  IN  {i \in Bits : (BitOf(x, i) + BitOf(y, i) + carry[i]) % 2 = 1}

bit_clr(x, bit) == x \ {bit}
bit_set(x, bit) == x \cup {bit}
bit_not(x, bit) == Xor(x, {bit})
bit_is_on(x, bit) == bit \in x
bit_is_off(x, bit) == bit \notin x
bit_count(x) == Cardinality(x)

\* The n low bits, also for n = 0 and n = 32.
bits_mask(n) == 0 .. n - 1

bits_get(x, lb, ub) == Shr(x, lb) \cap bits_mask(ub - lb + 1)
bits_clr(x, lb, ub) == x \ Shl(bits_mask(ub - lb + 1), lb)
bits_fit(lb, ub, v) == lb <= ub /\ ub < 32 /\ v \subseteq bits_mask(ub - lb + 1)   \* the assertions
bits_set(x, lb, ub, v) == bits_clr(x, lb, ub) \cup Shl(v, lb)
bits_eq(x, lb, ub, v) == bits_get(x, lb, ub) = v

bits_not(x) == Bits \ x
bits_diff(a, b) == a \cap bits_not(b)
=============================================================================
