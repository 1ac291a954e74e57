---------------------------- MODULE LibraryProofs ----------------------------
(***************************************************************************)
(* Theorems about libpi: random.c, whose seeding is exact for every word   *)
(* and whose arrays are independent streams for every sequence of calls;   *)
(* the generic queue of circular-T.h, for every number of slots and every  *)
(* interleaving of pushes, drops and pops; the generic containers, the     *)
(* stack while it has at most N elements; the memory                       *)
(* and string functions, for every memory; and formatted output, for every *)
(* number of threads and word size; the CRC, which is the division it      *)
(* stands for whatever pieces a message comes in; and the addition of      *)
(* words, which is C's.                                                    *)
(***************************************************************************)
EXTENDS Random, Checksums, DropQueue, Containers, Strings, Format, QueueLemmas, FunctionTheorems,
        WellFoundedInduction

-----------------------------------------------------------------------------
(* Induction.  A library theorem that takes a property as a parameter is   *)
(* out of the provers' reach; the well-founded order of the numbers gives  *)
(* induction for a set of them, and from it the existence of the functions *)
(* that recursive definitions and folds choose.                            *)

\* A set of numbers with 0 and with the successor of each of its members has them all.
LEMMA Descent ==
  ASSUME NEW T, T \subseteq Nat, 0 \in T, \A n \in T : n + 1 \in T
  PROVE  T = Nat
<1> SUFFICES ASSUME T # Nat PROVE FALSE
  OBVIOUS
<1> DEFINE U == Nat \ T
<1>1. U \subseteq Nat /\ U # {}
  OBVIOUS
<1>2. PICK x \in U : \A y \in U : ~ (<<y, x>> \in OpToRel(<, Nat))
  <2> HIDE DEF U
  <2>1. IsWellFoundedOn(OpToRel(<, Nat), Nat)
    BY NatLessThanWellFounded
  <2> DEFINE R == OpToRel(<, Nat)
  <2>2. IsWellFoundedOn(R, Nat)
    BY <2>1
  <2> HIDE DEF R
  <2>3. \E x \in U : \A y \in U : ~ (<<y, x>> \in R)
    BY <1>1, <2>2, WFMin
  <2> QED
    BY <2>3 DEF R
<1>3. x \in Nat /\ x # 0 /\ x - 1 \in Nat /\ (x - 1) + 1 = x
  OBVIOUS
<1>4. x - 1 \in U
  BY <1>3
<1>5. <<x - 1, x>> \in OpToRel(<, Nat)
  BY <1>3 DEF OpToRel
<1> QED
  BY <1>2, <1>4, <1>5

\* The set without the element CHOOSE takes from it.
Remaining(s) == s \ {CHOOSE i \in s : TRUE}

\* What the fold recurs on has one element less.
LEMMA RemainingSmaller ==
  ASSUME NEW D, IsFiniteSet(D), NEW s \in SUBSET D, s # {}
  PROVE  /\ Remaining(s) \in SUBSET D
         /\ Cardinality(s) \in Nat /\ Cardinality(Remaining(s)) \in Nat
         /\ Cardinality(Remaining(s)) = Cardinality(s) - 1
<1>1. (CHOOSE i \in s : TRUE) \in s
  OBVIOUS
<1>2. IsFiniteSet(s)
  BY FS_Subset
<1>3. IsFiniteSet(Remaining(s)) /\ Cardinality(Remaining(s)) = Cardinality(s) - 1
  BY <1>1, <1>2, FS_RemoveElement DEF Remaining
<1> QED
  BY <1>2, <1>3, FS_CardinalityType DEF Remaining

\* A fold whose steps do not leave R is in R.
LEMMA FoldStays ==
  ASSUME NEW D, IsFiniteSet(D), NEW R, NEW h, h[{}] \in R,
         \A s \in SUBSET D : s # {} /\ h[Remaining(s)] \in R => h[s] \in R
  PROVE  h[D] \in R
<1> DEFINE T == {k \in Nat : \A s \in SUBSET D : Cardinality(s) = k => h[s] \in R}
<1>1. 0 \in T
  <2>1. ASSUME NEW s \in SUBSET D, Cardinality(s) = 0 PROVE s = {}
    <3>1. IsFiniteSet(s)
      BY FS_Subset
    <3> QED
      BY <2>1, <3>1, FS_EmptySet
  <2> QED
    BY <2>1
<1>2. ASSUME NEW k \in T PROVE k + 1 \in T
  <2>1. k \in Nat /\ k + 1 \in Nat
    OBVIOUS
  <2>2. ASSUME NEW s \in SUBSET D, Cardinality(s) = k + 1 PROVE h[s] \in R
    <3>1. s # {}
      <4>1. Cardinality(s) # 0
        BY <2>1, <2>2
      <4> QED
        BY <4>1, FS_EmptySet
    <3>2. Remaining(s) \in SUBSET D /\ Cardinality(Remaining(s)) = k
      BY <2>1, <2>2, <3>1, RemainingSmaller
    <3>3. h[Remaining(s)] \in R
      BY <3>2
    <3> QED
      BY <3>1, <3>3
  <2> QED
    BY <2>1, <2>2
<1>3. T = Nat
  <2> HIDE DEF T
  <2>1. T \subseteq Nat
    BY DEF T
  <2> QED
    BY <1>1, <1>2, <2>1, Descent
<1>4. Cardinality(D) \in Nat
  BY FS_CardinalityType
<1> QED
  BY <1>3, <1>4

\* h[s] is what F makes of g, one step for each element of s.
IsFold(h, D, R, F, g) ==
  /\ h \in [SUBSET D -> R]
  /\ h[{}] = g
  /\ \A s \in SUBSET D : s # {} => h[s] = F[h[Remaining(s)]]

\* There is a function as a fold chooses one.
LEMMA FoldExists ==
  ASSUME NEW D, IsFiniteSet(D), NEW R, NEW F, NEW g \in R, \A x \in R : F[x] \in R
  PROVE  \E h : IsFold(h, D, R, F, g)
<1> DEFINE C(k) == {s \in SUBSET D : Cardinality(s) <= k}
           T == {k \in Nat : \E h \in [C(k) -> R] :
                   \A s \in C(k) : h[s] = IF s = {} THEN g ELSE F[h[Remaining(s)]]}
<1>0. ASSUME NEW s \in SUBSET D PROVE Cardinality(s) \in Nat
  BY FS_Subset, FS_CardinalityType
<1>1. 0 \in T
  <2> DEFINE h0 == [s \in C(0) |-> g]
  <2>1. ASSUME NEW s \in C(0) PROVE s = {}
    <3>1. IsFiniteSet(s) /\ Cardinality(s) = 0
      BY <1>0, FS_Subset
    <3> QED
      BY <3>1, FS_EmptySet
  <2>2. h0 \in [C(0) -> R]
    OBVIOUS
  <2>3. \A s \in C(0) : h0[s] = IF s = {} THEN g ELSE F[h0[Remaining(s)]]
    BY <2>1
  <2> HIDE DEF h0
  <2> QED
    BY <2>2, <2>3
<1>2. ASSUME NEW k \in T PROVE k + 1 \in T
  <2>1. k \in Nat /\ k + 1 \in Nat
    OBVIOUS
  <2>2. PICK h \in [C(k) -> R] : \A s \in C(k) : h[s] = IF s = {} THEN g ELSE F[h[Remaining(s)]]
    OBVIOUS
  <2> DEFINE h1 == [s \in C(k + 1) |-> IF s = {} THEN g ELSE F[h[Remaining(s)]]]
  <2>3. ASSUME NEW s \in C(k + 1), s # {} PROVE Remaining(s) \in C(k) /\ Remaining(s) \in C(k + 1)
    <3>1. s \in SUBSET D /\ Cardinality(s) <= k + 1
      OBVIOUS
    <3>2. Remaining(s) \in SUBSET D /\ Cardinality(Remaining(s)) = Cardinality(s) - 1 /\ Cardinality(s) \in Nat
      BY <2>3, <3>1, RemainingSmaller
    <3> QED
      BY <2>1, <3>1, <3>2
  <2>4. h1 \in [C(k + 1) -> R]
    <3>1. ASSUME NEW s \in C(k + 1) PROVE (IF s = {} THEN g ELSE F[h[Remaining(s)]]) \in R
      <4> HIDE DEF C
      <4> QED
        BY <2>3
    <3> HIDE DEF C
    <3> QED
      BY <3>1
  <2>5. ASSUME NEW s \in C(k) PROVE s \in C(k + 1) /\ h1[s] = h[s]
    <3>1. s \in C(k + 1)
      BY <1>0, <2>1
    <3> HIDE DEF C
    <3> QED
      BY <2>2, <3>1
  <2>6. ASSUME NEW s \in C(k + 1) PROVE h1[s] = IF s = {} THEN g ELSE F[h1[Remaining(s)]]
    <3> HIDE DEF C
    <3>1. CASE s = {}
      BY <3>1
    <3>2. CASE s # {}
      <4>1. Remaining(s) \in C(k)
        BY <2>3, <3>2
      <4>2. h1[Remaining(s)] = h[Remaining(s)]
        BY <2>5, <4>1
      <4> QED
        BY <3>2, <4>2
    <3> QED
      BY <3>1, <3>2
  <2> HIDE DEF h1, C
  <2> QED
    BY <2>1, <2>4, <2>6
<1>3. T = Nat
  <2> HIDE DEF T
  <2>1. T \subseteq Nat
    BY DEF T
  <2> QED
    BY <1>1, <1>2, <2>1, Descent
<1>4. Cardinality(D) \in Nat
  BY FS_CardinalityType
<1>5. C(Cardinality(D)) = SUBSET D
  <2>1. \A s \in SUBSET D : Cardinality(s) <= Cardinality(D)
    BY FS_Subset
  <2> QED
    BY <2>1
<1>6. Cardinality(D) \in T
  BY <1>3, <1>4
<1> HIDE DEF C
<1>7. PICK h \in [SUBSET D -> R] :
        \A s \in SUBSET D : h[s] = IF s = {} THEN g ELSE F[h[Remaining(s)]]
  BY <1>5, <1>6
<1> QED
  BY <1>7 DEF IsFold

\* h is g and what n - 1 steps of F make of it, one after the other.
IsIteration(h, n, R, F, g) ==
  /\ h \in [0 .. n - 1 -> R]
  /\ n > 0 => h[0] = g
  /\ \A i \in 1 .. n - 1 : h[i] = F[h[i - 1]]

\* There is a function as such a recursive definition chooses one.
LEMMA IterationExists ==
  ASSUME NEW n \in Nat, NEW R, NEW F, NEW g \in R, \A x \in R : F[x] \in R
  PROVE  \E h : IsIteration(h, n, R, F, g)
<1> DEFINE T == {k \in Nat : \E h \in [0 .. k - 1 -> R] :
                   \A i \in 0 .. k - 1 : h[i] = IF i = 0 THEN g ELSE F[h[i - 1]]}
<1>1. 0 \in T
  <2> DEFINE h0 == [i \in 0 .. 0 - 1 |-> g]
  <2>1. h0 \in [0 .. 0 - 1 -> R]
    OBVIOUS
  <2>2. \A i \in 0 .. 0 - 1 : h0[i] = IF i = 0 THEN g ELSE F[h0[i - 1]]
    OBVIOUS
  <2> HIDE DEF h0
  <2> QED
    BY <2>1, <2>2
<1>2. ASSUME NEW k \in T PROVE k + 1 \in T
  <2>1. k \in Nat /\ k + 1 \in Nat /\ (k + 1) - 1 = k
    OBVIOUS
  <2>2. PICK h \in [0 .. k - 1 -> R] :
          \A i \in 0 .. k - 1 : h[i] = IF i = 0 THEN g ELSE F[h[i - 1]]
    OBVIOUS
  <2> DEFINE h1 == [i \in 0 .. k |-> IF i = 0 THEN g ELSE F[h[i - 1]]]
  <2>3. ASSUME NEW i \in 0 .. k, i # 0 PROVE i - 1 \in 0 .. k - 1 /\ i - 1 \in 0 .. k
    BY <2>1, <2>3
  <2>4. h1 \in [0 .. k -> R]
    BY <2>3
  <2>5. \A i \in 0 .. k - 1 : h1[i] = h[i]
    BY <2>1, <2>2
  <2>6. ASSUME NEW i \in 0 .. k PROVE h1[i] = IF i = 0 THEN g ELSE F[h1[i - 1]]
    <3>1. CASE i = 0
      BY <3>1
    <3>2. CASE i # 0
      BY <2>3, <2>5, <3>2
    <3> QED
      BY <3>1, <3>2
  <2> HIDE DEF h1
  <2>7. \E f \in [0 .. (k + 1) - 1 -> R] :
          \A i \in 0 .. (k + 1) - 1 : f[i] = IF i = 0 THEN g ELSE F[f[i - 1]]
    BY <2>1, <2>4, <2>6
  <2> QED
    BY <2>1, <2>7
<1>3. T = Nat
  <2> HIDE DEF T
  <2>1. T \subseteq Nat
    BY DEF T
  <2> QED
    BY <1>1, <1>2, <2>1, Descent
<1>4. PICK h \in [0 .. n - 1 -> R] :
        \A i \in 0 .. n - 1 : h[i] = IF i = 0 THEN g ELSE F[h[i - 1]]
  BY <1>3
<1>5. (n > 0 => h[0] = g) /\ \A i \in 1 .. n - 1 : h[i] = F[h[i - 1]]
  BY <1>4
<1> QED
  BY <1>5 DEF IsIteration

\* What every step of an iteration keeps holds of all of it.
LEMMA IterationStays ==
  ASSUME NEW R, NEW n \in Nat, NEW h, n > 0 => h[0] \in R,
         \A i \in 1 .. n - 1 : h[i - 1] \in R => h[i] \in R
  PROVE  \A i \in 0 .. n - 1 : h[i] \in R
<1> DEFINE T == {i \in Nat : i < n => h[i] \in R}
<1>1. 0 \in T
  OBVIOUS
<1>2. ASSUME NEW k \in T PROVE k + 1 \in T
  <2>1. k \in Nat /\ k + 1 \in Nat /\ (k + 1) - 1 = k
    OBVIOUS
  <2>2. ASSUME k + 1 < n PROVE h[k + 1] \in R
    <3>1. k < n /\ k + 1 \in 1 .. n - 1
      BY <2>1, <2>2
    <3>2. h[k] \in R
      BY <3>1
    <3> QED
      BY <2>1, <3>1, <3>2
  <2> QED
    BY <2>1, <2>2
<1>3. T = Nat
  <2> HIDE DEF T
  <2>1. T \subseteq Nat
    BY DEF T
  <2> QED
    BY <1>1, <1>2, <2>1, Descent
<1> QED
  BY <1>3

-----------------------------------------------------------------------------
(* The arithmetic random.c fills its tables with.  Large intervals are     *)
(* written as inequalities: the provers do not take them as sets.          *)

\* The words of the sequence a seed produces.
Residues == {x \in Int : 0 <= x /\ x < 2147483647}

\* What a product leaves modulo the prime, of a remainder of either sign.
LEMMA RemainderOf ==
  ASSUME NEW x \in Int, NEW h \in Int, NEW r \in Int,
         -2147483647 < r, r < 2147483647, x = 2147483647 * h + r
  PROVE  x % 2147483647 = IF r < 0 THEN r + 2147483647 ELSE r
<1>1. CASE r < 0
  <2>1. x = 2147483647 * (h - 1) + (r + 2147483647)
    BY SMT
  <2> QED
    BY <1>1, <2>1, SMT
<1>2. CASE r >= 0
  BY <1>2, SMT
<1> QED
  BY <1>1, <1>2, SMT

\* The division splits a word into parts small enough to be multiplied.
LEMMA Split ==
  ASSUME NEW word \in Residues
  PROVE  /\ Quotient(word, 127773) = word \div 127773
         /\ word \div 127773 \in Int
         /\ 0 <= word \div 127773 /\ word \div 127773 <= 16807
         /\ 0 <= word - 127773 * (word \div 127773)
         /\ word - 127773 * (word \div 127773) < 127773
<1>1. word \in Int /\ 0 <= word /\ word < 2147483647
  BY SMT DEF Residues
<1>2. Quotient(word, 127773) = word \div 127773
  BY <1>1, SMT DEF Quotient
<1>3. word \div 127773 \in Int
  BY <1>1, SMT
<1>4. 0 <= word \div 127773 /\ word \div 127773 <= 16807
  BY <1>1, SMT
<1>5. /\ 0 <= word - 127773 * (word \div 127773)
      /\ word - 127773 * (word \div 127773) < 127773
  BY <1>1, SMT
<1> QED
  BY <1>2, <1>3, <1>4, <1>5

\* Every word of the sequence is 16807 times the one before it, modulo the
\* prime 2147483647: srandom_r's quotient, its two products and the correction
\* of a negative difference compute just that (random.c:222-229), also for the
\* words no run reaches.
THEOREM SchrageExact ==
  ASSUME NEW word \in Residues
  PROVE  Schrage(word) = (16807 * word) % 2147483647
<1> DEFINE hi == word \div 127773
           lo == word - 127773 * hi
           next == 16807 * lo - 2836 * hi
<1>1. word \in Int /\ hi \in Int /\ lo \in Int /\ next \in Int
  BY Split, SMT DEF Residues
<1>2. Schrage(word) = IF next < 0 THEN next + 2147483647 ELSE next
  BY Split DEF Schrage
<1>3. 0 <= hi /\ hi <= 16807 /\ 0 <= lo /\ lo < 127773
  BY Split
<1> HIDE DEF hi
<1>4. -2147483647 < next /\ next < 2147483647
  BY <1>1, <1>3, SMT
<1>5. 16807 * word = 2147483647 * hi + next
  BY <1>1, SMT
<1>6. 16807 * word \in Int
  BY <1>1, SMT
<1> HIDE DEF next
<1>7. (16807 * word) % 2147483647 = IF next < 0 THEN next + 2147483647 ELSE next
  BY <1>1, <1>4, <1>5, <1>6, RemainderOf, SMT
<1> QED
  BY <1>2, <1>7, SMT

\* No number on the way needs more than 31 bits and a sign, which is what
\* the code's long has: the products, their difference, and the word stored
\* (random.c:225-230).
THEOREM SchrageFits ==
  ASSUME NEW word \in Residues
  PROVE  /\ 16807 * (word - 127773 * Quotient(word, 127773)) \in Residues
         /\ 2836 * Quotient(word, 127773) \in Residues
         /\ Schrage(word) \in Residues
<1> DEFINE hi == word \div 127773
           lo == word - 127773 * hi
<1>1. word \in Int /\ hi \in Int /\ lo \in Int /\ Quotient(word, 127773) = hi
  BY Split, SMT DEF Residues
<1>2. 0 <= hi /\ hi <= 16807 /\ 0 <= lo /\ lo < 127773
  BY Split
<1>3. Schrage(word) \in Residues
  BY <1>1, SchrageExact, SMT DEF Residues
<1> HIDE DEF hi
<1>4. 16807 * lo \in Residues /\ 2836 * hi \in Residues
  BY <1>1, <1>2, SMT DEF Residues
<1> QED
  BY <1>1, <1>3, <1>4

\* Also of a negative word, which a seed may be.
LEMMA SchrageInt == ASSUME NEW x \in Int PROVE Schrage(x) \in Int
  BY SMT DEF Schrage, Quotient

\* The recursive definition of the words is one: it has the values it asks for.
LEMMA SeedRecurs ==
  ASSUME NEW seed \in Int, NEW n \in Nat
  PROVE  /\ SeedWords(seed, n) = [i \in 0 .. n - 1 |-> SeedWords(seed, n)[i]]
         /\ n > 0 => SeedWords(seed, n)[0] = seed
         /\ \A i \in 0 .. n - 1 : SeedWords(seed, n)[i] \in Int
         /\ \A i \in 1 .. n - 1 : SeedWords(seed, n)[i] = Schrage(SeedWords(seed, n)[i - 1])
<1> DEFINE F == [x \in Int |-> Schrage(x)]
           W == SeedWords(seed, n)
<1>1. \A x \in Int : F[x] \in Int
  BY SchrageInt
<1> HIDE DEF F
<1>2. PICK h : IsIteration(h, n, Int, F, seed)
  BY <1>1, IterationExists
<1>3. /\ h \in [0 .. n - 1 -> Int]
      /\ n > 0 => h[0] = seed
      /\ \A i \in 1 .. n - 1 : h[i] = F[h[i - 1]]
  BY <1>2 DEF IsIteration
<1>4. ASSUME NEW i \in 0 .. n - 1
      PROVE  h[i] = IF i = 0 THEN seed ELSE Schrage(h[i - 1])
  <2>1. CASE i = 0
    BY <1>3, <2>1
  <2>2. CASE i # 0
    <3>1. i \in 1 .. n - 1 /\ i - 1 \in 0 .. n - 1
      BY <2>2
    <3>2. h[i] = F[h[i - 1]] /\ h[i - 1] \in Int
      BY <1>3, <3>1
    <3> QED
      BY <2>2, <3>2 DEF F
  <2> QED
    BY <2>1, <2>2
<1>5. h = [i \in 0 .. n - 1 |-> IF i = 0 THEN seed ELSE Schrage(h[i - 1])]
  BY <1>3, <1>4
<1>6. W = CHOOSE words : words = [i \in 0 .. n - 1 |-> IF i = 0 THEN seed ELSE Schrage(words[i - 1])]
  BY DEF SeedWords
<1> HIDE DEF W
<1>7. W = [i \in 0 .. n - 1 |-> IF i = 0 THEN seed ELSE Schrage(W[i - 1])]
  BY <1>5, <1>6, Zenon
<1>8. /\ \A i \in 1 .. n - 1 : W[i] = Schrage(W[i - 1])
      /\ n > 0 => W[0] = seed
      /\ W = [i \in 0 .. n - 1 |-> W[i]]
  BY <1>7
<1>9. \A i \in 0 .. n - 1 : W[i] \in Int
  <2> DEFINE R == Int
  <2>1. n > 0 => W[0] \in R
    BY <1>8
  <2>2. \A i \in 1 .. n - 1 : W[i - 1] \in R => W[i] \in R
    BY <1>8, SchrageInt
  <2> HIDE DEF R
  <2>3. \A i \in 0 .. n - 1 : W[i] \in R
    BY <2>1, <2>2, IterationStays
  <2> QED
    BY <2>3 DEF R
<1> QED
  BY <1>8, <1>9 DEF W

\* Every word srandom_r fills its table with (random.c:221-232) is 16807 times
\* the one before it modulo the prime, for tables of every size: the rounding
\* and the corrections add up to no error, and no word leaves the range in
\* which the products fit.
THEOREM SeedTableExact ==
  ASSUME NEW seed \in Residues, NEW n \in Nat
  PROVE  /\ \A i \in 0 .. n - 1 : SeedWords(seed, n)[i] \in Residues
         /\ \A i \in 1 .. n - 1 :
              SeedWords(seed, n)[i] = (16807 * SeedWords(seed, n)[i - 1]) % 2147483647
<1> DEFINE W == SeedWords(seed, n)
<1>1. seed \in Int
  BY DEF Residues
<1>2. /\ n > 0 => W[0] = seed
      /\ \A i \in 1 .. n - 1 : W[i] = Schrage(W[i - 1])
  BY <1>1, SeedRecurs
<1> HIDE DEF W
<1>3. n > 0 => W[0] \in Residues
  BY <1>2
<1>4. ASSUME NEW i \in 1 .. n - 1, W[i - 1] \in Residues PROVE W[i] \in Residues
  BY <1>2, <1>4, SchrageFits
<1>5. \A i \in 0 .. n - 1 : W[i] \in Residues
  BY <1>3, <1>4, IterationStays
<1>6. ASSUME NEW i \in 1 .. n - 1 PROVE W[i] = (16807 * W[i - 1]) % 2147483647
  <2>1. i - 1 \in 0 .. n - 1
    OBVIOUS
  <2>2. W[i - 1] \in Residues
    BY <1>5, <2>1
  <2> QED
    BY <1>2, <2>2, SchrageExact
<1> QED
  BY <1>5, <1>6 DEF W

-----------------------------------------------------------------------------
(* The generators.  Type and header of every array are as setstate needs   *)
(* them, and what an array continues with is decided by them and its words *)
(* alone, so that no call but those about an array changes its stream.     *)
Memory == [Buffers -> [head : Nat, word : [0 .. 62 -> Int]]]
Generators ==
  [state : Buffers, type : 0 .. 4, front : 0 .. 62, rear : 0 .. 62, mem : Memory]

\* The pointers are in the table, the right distance apart.
Spaced(g) == g.type # 0 => /\ g.rear < degrees[g.type]
                          /\ g.front = (g.rear + seps[g.type]) % degrees[g.type]

\* What a call may make of generator g: only the table of its array, and the pointers into it.
Around(g) ==
  {h \in Generators :
     /\ h.state = g.state /\ h.type = g.type /\ Spaced(h)
     /\ h.mem[g.state].head = g.mem[g.state].head
     /\ \A c \in Buffers \ {g.state} : h.mem[c] = g.mem[c]}

\* The tables' sizes and distances.
LEMMA Tables ==
  ASSUME NEW t \in 0 .. 4
  PROVE  /\ degrees[t] \in 0 .. 63 /\ seps[t] \in 0 .. 3
         /\ t # 0 => degrees[t] \in {7, 15, 31, 63} /\ seps[t] \in {1, 3}
         /\ t # 0 => seps[t] = IF degrees[t] \in {7, 31} THEN 3 ELSE 1
<1>1. t \in 0 .. 4 => t = 0 \/ t = 1 \/ t = 2 \/ t = 3 \/ t = 4
  OBVIOUS
<1>2. degrees[t] = <<0, 7, 15, 31, 63>>[t + 1] /\ seps[t] = <<0, 3, 1, 3, 1>>[t + 1]
  BY DEF degrees, seps
<1> QED
  BY <1>1, <1>2

\* Both pointers advance by one, although the code tests only one of them for
\* wrapping when the other one wraps (random.c), and stay as far apart.
LEMMA AdvancedApart ==
  ASSUME NEW g \in Generators, Spaced(g), g.type # 0
  PROVE  LET deg == degrees[g.type]
             p == Advanced(g)
         IN  /\ p = <<p[1], p[2]>>
             /\ p[1] = (g.front + 1) % deg
             /\ p[1] \in 0 .. deg - 1 /\ p[2] \in 0 .. deg - 1
             /\ p[1] = (p[2] + seps[g.type]) % deg
<1> DEFINE deg == degrees[g.type]
           sep == seps[g.type]
           f == g.front
           r == g.rear
<1>1. /\ f \in Int /\ r \in Int /\ 0 <= r /\ r < deg /\ f = (r + sep) % deg
      /\ deg \in {7, 15, 31, 63} /\ sep \in {1, 3}
  <2>1. g.type \in 0 .. 4 /\ f \in 0 .. 62 /\ r \in 0 .. 62
    BY DEF Generators
  <2> QED
    BY <2>1, Tables DEF Spaced
<1>2. Advanced(g) = IF f + 1 >= deg THEN <<0, r + 1>> ELSE <<f + 1, IF r + 1 >= deg THEN 0 ELSE r + 1>>
  BY DEF Advanced
<1> HIDE DEF deg, sep, f, r
<1>3. CASE f + 1 >= deg
  <2>1. f + 1 = deg /\ r + 1 < deg
    BY <1>1, <1>3, SMT
  <2>2. (f + 1) % deg = 0 /\ (r + 1 + sep) % deg = 0
    BY <1>1, <2>1, SMT
  <2> QED
    BY <1>1, <1>2, <1>3, <2>1, <2>2 DEF deg, sep, f
<1>4. CASE f + 1 < deg
  <2>1. (f + 1) % deg = f + 1
    BY <1>1, <1>4, SMT
  <2>2. f + 1 = ((IF r + 1 >= deg THEN 0 ELSE r + 1) + sep) % deg
    BY <1>1, <1>4, SMT
  <2> DEFINE r2 == IF r + 1 >= deg THEN 0 ELSE r + 1
  <2>3. r2 \in 0 .. deg - 1 /\ f + 1 \in 0 .. deg - 1
    BY <1>1, <1>4, SMT
  <2>4. Advanced(g) = <<f + 1, r2>>
    BY <1>1, <1>2, <1>4
  <2>5. f + 1 = (r2 + sep) % deg
    BY <2>2
  <2> HIDE DEF r2
  <2> QED
    BY <2>1, <2>3, <2>4, <2>5 DEF deg, sep, f
<1> QED
  BY <1>1, <1>3, <1>4

\* The memory after word i of array b has got value x.
Stored(m, b, i, x) == [m EXCEPT ![b].word[i] = x]

\* The memory is one again.
LEMMA WordStored ==
  ASSUME NEW m \in Memory, NEW b \in Buffers, NEW i \in 0 .. 62, NEW x \in Int
  PROVE  Stored(m, b, i, x) \in Memory
<1> DEFINE R == [head : Nat, word : [0 .. 62 -> Int]]
           r == [m[b] EXCEPT !.word = [m[b].word EXCEPT ![i] = x]]
           n == [m EXCEPT ![b] = r]
<1>1. m[b] \in R /\ m \in [Buffers -> R]
  BY DEF Memory
<1>2. [m[b].word EXCEPT ![i] = x] \in [0 .. 62 -> Int]
  BY <1>1
<1>3. r \in R
  BY <1>1, <1>2
<1>4. Stored(m, b, i, x) = n
  BY <1>1 DEF Stored
<1> HIDE DEF r, R
<1>5. n \in [Buffers -> R]
  BY <1>1, <1>3
<1> QED
  BY <1>4, <1>5 DEF Memory, R

\* A call of random_r stays in the current array and keeps the pointers spaced.
LEMMA RandomStays ==
  ASSUME NEW g \in Generators, NEW h \in Around(g)
  PROVE  RandomState(h) \in Around(g)
<1> DEFINE m == h.mem[g.state]
           w == m.word
           deg == degrees[h.type]
           h2 == RandomState(h)
<1>1. /\ h \in Generators /\ h.state = g.state /\ h.type = g.type /\ Spaced(h)
      /\ m.head = g.mem[g.state].head
      /\ \A c \in Buffers \ {g.state} : h.mem[c] = g.mem[c]
  BY DEF Around
<1>2. /\ h.state \in Buffers /\ h.type \in 0 .. 4 /\ h.front \in 0 .. 62 /\ h.rear \in 0 .. 62
      /\ h.mem \in Memory
      /\ h = [state |-> h.state, type |-> h.type, front |-> h.front, rear |-> h.rear, mem |-> h.mem]
  BY <1>1 DEF Generators
<1>3. m.head \in Nat /\ w \in [0 .. 62 -> Int] /\ m = [head |-> m.head, word |-> w]
  BY <1>1, <1>2 DEF Memory
<1>4. Word \in Nat \ {0}
  BY RandomConstants
<1>5. PICK i \in 0 .. 62, x \in Int, f \in 0 .. 62, r \in 0 .. 62 :
        /\ h2.state = h.state /\ h2.type = h.type /\ h2.front = f /\ h2.rear = r
        /\ h2.mem = [h.mem EXCEPT ![g.state].word[i] = x]
        /\ h2 = [state |-> h2.state, type |-> h2.type, front |-> h2.front, rear |-> h2.rear, mem |-> h2.mem]
        /\ Spaced(h2)
  <2>1. CASE h.type = 0
    <3> DEFINE x == (w[0] * (1103515245 % Word) + 12345) % Word
    <3>1. x \in Int
      <4>1. w[0] \in Int
        BY <1>3
      <4>2. 1103515245 % Word \in Int
        BY <1>4, SMT
      <4> DEFINE c == 1103515245 % Word
      <4>3. w[0] * c \in Int
        BY <4>1, <4>2, SMT
      <4> DEFINE d == w[0] * c
      <4> HIDE DEF d
      <4>4. (d + 12345) % Word \in Int
        BY <1>4, <4>3, SMT DEF d
      <4> QED
        BY <4>4 DEF d
    <3> HIDE DEF x
    <3>2. h2 = [h EXCEPT !.mem[g.state].word[0] = x]
      BY <1>1, <2>1 DEF RandomState, x
    <3> HIDE DEF h2
    <3>3. /\ h2.state = h.state /\ h2.type = h.type /\ h2.front = h.front /\ h2.rear = h.rear
          /\ h2.mem = [h.mem EXCEPT ![g.state].word[0] = x]
          /\ h2 = [state |-> h2.state, type |-> h2.type, front |-> h2.front, rear |-> h2.rear, mem |-> h2.mem]
      BY <1>2, <3>2
    <3>4. Spaced(h2)
      BY <2>1, <3>3 DEF Spaced
    <3>5. 0 \in 0 .. 62 /\ h.front \in 0 .. 62 /\ h.rear \in 0 .. 62
      BY <1>2
    <3> HIDE DEF m
    <3> USE <3>1, <3>5
    <3> WITNESS 0 \in 0 .. 62, x \in Int, h.front \in 0 .. 62, h.rear \in 0 .. 62
    <3> QED
      BY <3>3, <3>4
  <2>2. CASE h.type # 0
    <3> DEFINE p == Advanced(h)
               x == (w[h.front] + w[h.rear]) % Word
    <3>1. x \in Int
      <4>1. w[h.front] \in Int /\ w[h.rear] \in Int
        BY <1>2, <1>3
      <4> QED
        BY <1>4, <4>1, SMT
    <3>2. h2 = [h EXCEPT !.mem[g.state].word[h.front] = x, !.front = p[1], !.rear = p[2]]
      BY <1>1, <2>2 DEF RandomState
    <3>3. p[1] \in 0 .. deg - 1 /\ p[2] \in 0 .. deg - 1 /\ p[1] = (p[2] + seps[h.type]) % deg
      BY <1>1, <2>2, AdvancedApart
    <3>4. deg \in 0 .. 63
      BY <1>2, Tables
    <3> HIDE DEF x, p, h2
    <3>5. /\ h2.state = h.state /\ h2.type = h.type /\ h2.front = p[1] /\ h2.rear = p[2]
          /\ h2.mem = [h.mem EXCEPT ![g.state].word[h.front] = x]
          /\ h2 = [state |-> h2.state, type |-> h2.type, front |-> h2.front, rear |-> h2.rear, mem |-> h2.mem]
      BY <1>2, <3>2
    <3>6. p[1] \in 0 .. 62 /\ p[2] \in 0 .. 62 /\ p[2] < deg
      BY <3>3, <3>4
    <3>7. Spaced(h2)
      BY <3>3, <3>5, <3>6 DEF Spaced
    <3> QED
      BY <1>2, <3>1, <3>5, <3>6, <3>7
  <2> QED
    BY <2>1, <2>2
<1> HIDE DEF h2
<1>6. /\ h2.mem \in Memory /\ h2.mem[g.state].head = m.head
      /\ \A c \in Buffers \ {g.state} : h2.mem[c] = h.mem[c]
  <2>1. h.mem \in Memory /\ g.state \in Buffers
    BY <1>1, <1>2
  <2> HIDE DEF m, w, deg
  <2>2. h2.mem = Stored(h.mem, g.state, i, x)
    BY <1>5 DEF Stored
  <2> DEFINE M == h.mem
             b == g.state
  <2>3. M \in Memory /\ b \in Buffers
    BY <2>1
  <2> HIDE DEF M, b
  <2>4. Stored(M, b, i, x) \in Memory
    BY <2>3, WordStored
  <2>5. Stored(M, b, i, x)[b].head = M[b].head
    BY <2>3 DEF Stored, Memory
  <2>6. \A c \in Buffers \ {b} : Stored(M, b, i, x)[c] = M[c]
    BY <2>3 DEF Stored, Memory
  <2> QED
    BY <2>2, <2>4, <2>5, <2>6 DEF m, M, b
<1>7. h2 \in Generators
  BY <1>2, <1>5, <1>6 DEF Generators
<1> QED
  BY <1>1, <1>5, <1>6, <1>7 DEF Around, h2

\* So do n of them.
LEMMA DrawnStays ==
  ASSUME NEW g \in Generators, NEW h \in Around(g), NEW n \in Nat
  PROVE  Drawn(n, h) \in Around(g)
<1> DEFINE R == Around(g)
           F == [x \in R |-> RandomState(x)]
           D == 1 .. n
           it == CHOOSE f : f = [s \in SUBSET D |->
                    IF s = {} THEN h ELSE RandomState(f[s \ {CHOOSE i \in s : TRUE}])]
<1>1. IsFiniteSet(D)
  BY FS_Interval
<1>2. Drawn(n, h) = it[D]
  BY DEF Drawn, MapThenFoldSet
<1>3. it = CHOOSE f : f = [s \in SUBSET D |-> IF s = {} THEN h ELSE RandomState(f[Remaining(s)])]
  BY DEF Remaining
<1>4. F \in [R -> R]
  <2>1. \A x \in R : RandomState(x) \in R
    BY RandomStays
  <2> HIDE DEF R
  <2> QED
    BY <2>1
<1> HIDE DEF it, R, F, D
<1>5. PICK f : IsFold(f, D, R, F, h)
  <2>1. h \in R /\ \A x \in R : F[x] \in R
    BY <1>4 DEF R
  <2> QED
    BY <1>1, <2>1, FoldExists
<1>6. /\ f \in [SUBSET D -> R]
       /\ f[{}] = h
       /\ \A s \in SUBSET D : s # {} => f[s] = F[f[Remaining(s)]]
  BY <1>5 DEF IsFold
<1>7. f = [s \in SUBSET D |-> IF s = {} THEN h ELSE RandomState(f[Remaining(s)])]
  <2>1. ASSUME NEW s \in SUBSET D PROVE f[s] = IF s = {} THEN h ELSE RandomState(f[Remaining(s)])
    <3>1. CASE s = {}
      BY <1>6, <3>1
    <3>2. CASE s # {}
      <4>1. Remaining(s) \in SUBSET D
        BY DEF Remaining
      <4>2. f[Remaining(s)] \in R
        BY <1>6, <4>1
      <4>3. f[s] = F[f[Remaining(s)]]
        BY <1>6, <3>2
      <4>4. f[s] = RandomState(f[Remaining(s)])
        BY <4>2, <4>3 DEF F
      <4> QED
        BY <3>2, <4>4
    <3> QED
      BY <3>1, <3>2
  <2> QED
    BY <1>6, <2>1
<1>8. it = [s \in SUBSET D |-> IF s = {} THEN h ELSE RandomState(it[Remaining(s)])]
  BY <1>3, <1>7, Zenon
<1>9. it[{}] \in R
  BY <1>8 DEF R
<1>10. ASSUME NEW s \in SUBSET D, s # {}, it[Remaining(s)] \in R PROVE it[s] \in R
  <2>1. it[s] = RandomState(it[Remaining(s)])
    BY <1>8, <1>10
  <2> QED
    BY <1>10, <2>1, RandomStays DEF R
<1>11. it[D] \in R
  BY <1>1, <1>9, <1>10, FoldStays
<1> QED
  BY <1>2, <1>11 DEF R

\* So do the numbers srandom_r discards.
LEMMA DiscardedStays ==
  ASSUME NEW g \in Generators, NEW h \in Around(g), NEW n \in Nat
  PROVE  Discarded(n, h) \in Around(g)
<1> DEFINE R == Around(g)
           Next(x) == IF x.type = 0 THEN x ELSE Drawn(n, x)
           F == [x \in R |-> Next(x)]
           ten == 10
           D == 1 .. ten
           it == CHOOSE f : f = [s \in SUBSET D |->
                    IF s = {} THEN h ELSE Next(f[s \ {CHOOSE i \in s : TRUE}])]
<1>1. IsFiniteSet(D)
  <2>1. 1 \in Int /\ ten \in Int
    OBVIOUS
  <2> HIDE DEF ten
  <2> QED
    BY <2>1, FS_Interval
<1>2. Discarded(n, h) = it[D]
  BY DEF Discarded, MapThenFoldSet
<1>3. it = CHOOSE f : f = [s \in SUBSET D |-> IF s = {} THEN h ELSE Next(f[Remaining(s)])]
  BY DEF Remaining
<1>4. ASSUME NEW x \in R PROVE Next(x) \in R
  BY DrawnStays
<1> HIDE DEF Next
<1>5. F \in [R -> R]
  <2>1. \A x \in R : Next(x) \in R
    BY <1>4
  <2> HIDE DEF R
  <2> QED
    BY <2>1
<1> HIDE DEF it, R, F, D
<1>6. PICK f : IsFold(f, D, R, F, h)
  <2>1. h \in R /\ \A x \in R : F[x] \in R
    BY <1>5 DEF R
  <2> QED
    BY <1>1, <2>1, FoldExists
<1>7. /\ f \in [SUBSET D -> R]
       /\ f[{}] = h
       /\ \A s \in SUBSET D : s # {} => f[s] = F[f[Remaining(s)]]
  BY <1>6 DEF IsFold
<1>8. f = [s \in SUBSET D |-> IF s = {} THEN h ELSE Next(f[Remaining(s)])]
  <2>1. ASSUME NEW s \in SUBSET D PROVE f[s] = IF s = {} THEN h ELSE Next(f[Remaining(s)])
    <3>1. CASE s = {}
      BY <1>7, <3>1
    <3>2. CASE s # {}
      <4>1. Remaining(s) \in SUBSET D
        BY DEF Remaining
      <4>2. f[Remaining(s)] \in R
        BY <1>7, <4>1
      <4>3. f[s] = F[f[Remaining(s)]]
        BY <1>7, <3>2
      <4>4. f[s] = Next(f[Remaining(s)])
        BY <4>2, <4>3 DEF F
      <4> QED
        BY <3>2, <4>4
    <3> QED
      BY <3>1, <3>2
  <2> QED
    BY <1>7, <2>1
<1>9. it = [s \in SUBSET D |-> IF s = {} THEN h ELSE Next(it[Remaining(s)])]
  BY <1>3, <1>8, Zenon
<1>10. it[{}] \in R
  BY <1>9 DEF R
<1>11. ASSUME NEW s \in SUBSET D, s # {}, it[Remaining(s)] \in R PROVE it[s] \in R
  <2>1. it[s] = Next(it[Remaining(s)])
    BY <1>9, <1>11
  <2> QED
    BY <1>11, <1>4, <2>1
<1>12. it[D] \in R
  BY <1>1, <1>10, <1>11, FoldStays
<1> QED
  BY <1>2, <1>12 DEF R

\* srandom_r fills the current table only, and spaces the pointers.
LEMMA SrandomStays ==
  ASSUME NEW g \in Generators, NEW seed0 \in Int
  PROVE  SrandomState(seed0, g) \in Around(g)
<1> DEFINE seed == IF seed0 = 0 THEN 1 ELSE seed0
           deg == degrees[g.type]
           n == IF g.type = 0 THEN 1 ELSE deg
           words == SeedWords(seed, n)
           b == g.state
           was == g.mem[b].word
           filled == [i \in 0 .. 62 |-> IF i \in DOMAIN words THEN words[i] % Word ELSE was[i]]
           seeded == [g EXCEPT !.mem[b].word = filled]
           start == [seeded EXCEPT !.front = seps[g.type], !.rear = 0]
<1>1. /\ g.state \in Buffers /\ g.type \in 0 .. 4 /\ g.front \in 0 .. 62 /\ g.rear \in 0 .. 62
      /\ g.mem \in Memory
      /\ g = [state |-> g.state, type |-> g.type, front |-> g.front, rear |-> g.rear, mem |-> g.mem]
  BY DEF Generators
<1>2. deg \in 0 .. 63 /\ seps[g.type] \in 0 .. 3 /\ (g.type # 0 => deg \in {7, 15, 31, 63} /\ seps[g.type] \in {1, 3})
  BY <1>1, Tables
<1>3. seed \in Int /\ n \in Nat
  BY <1>2
<1>4. SrandomState(seed0, g) = IF g.type = 0 THEN seeded ELSE Discarded(deg, start)
  BY DEF SrandomState
<1> HIDE DEF seed, n
<1>5. DOMAIN words = 0 .. n - 1 /\ \A i \in 0 .. n - 1 : words[i] \in Int
  <2>1. words = [i \in 0 .. n - 1 |-> words[i]] /\ \A i \in 0 .. n - 1 : words[i] \in Int
    BY <1>3, SeedRecurs
  <2> HIDE DEF words
  <2> QED
    BY <2>1
<1> HIDE DEF words
<1>6. filled \in [0 .. 62 -> Int]
  <2>1. was \in [0 .. 62 -> Int]
    BY <1>1 DEF Memory
  <2> HIDE DEF was
  <2>2. ASSUME NEW i \in 0 .. 62 PROVE (IF i \in DOMAIN words THEN words[i] % Word ELSE was[i]) \in Int
    <3>1. Word \in Nat \ {0}
      BY RandomConstants
    <3>2. CASE i \in DOMAIN words
      <4>1. words[i] \in Int
        BY <1>5, <3>2
      <4>2. words[i] % Word \in Int
        BY <3>1, <4>1
      <4> QED
        BY <3>2, <4>2
    <3>3. CASE i \notin DOMAIN words
      BY <2>1, <3>3
    <3> QED
      BY <3>2, <3>3
  <2> QED
    BY <2>2
<1> HIDE DEF filled
<1> DEFINE mem2 == [g.mem EXCEPT ![b].word = filled]
<1>7. mem2 \in Memory /\ mem2[b].head = g.mem[b].head /\ \A c \in Buffers \ {b} : mem2[c] = g.mem[c]
  <2> DEFINE M == g.mem
  <2>1. M \in [Buffers -> [head : Nat, word : [0 .. 62 -> Int]]] /\ b \in Buffers
    BY <1>1 DEF Memory
  <2>2. mem2 = [M EXCEPT ![b].word = filled]
    OBVIOUS
  <2> HIDE DEF M, mem2, b
  <2>3. mem2 \in Memory
    BY <1>6, <2>1, <2>2 DEF Memory
  <2>4. mem2[b].head = M[b].head /\ \A c \in Buffers \ {b} : mem2[c] = M[c]
    BY <2>1, <2>2
  <2> QED
    BY <2>3, <2>4 DEF M
<1>8. /\ seeded = [state |-> b, type |-> g.type, front |-> g.front, rear |-> g.rear, mem |-> mem2]
      /\ start = [state |-> b, type |-> g.type, front |-> seps[g.type], rear |-> 0, mem |-> mem2]
  <2>1. seeded = [g EXCEPT !.mem = mem2]
    BY <1>1
  <2> HIDE DEF mem2, seeded
  <2>2. seeded = [state |-> b, type |-> g.type, front |-> g.front, rear |-> g.rear, mem |-> mem2]
    BY <1>1, <2>1
  <2> DEFINE sep == seps[g.type]
             t == g.type
             f == g.front
             r == g.rear
             zero == 0
  <2>3. seeded = [state |-> b, type |-> t, front |-> f, rear |-> r, mem |-> mem2]
    BY <2>2
  <2> HIDE DEF sep, t, b, f, r, zero
  <2>4. start = [seeded EXCEPT !.front = sep, !.rear = zero]
    BY DEF sep, t, zero
  <2> HIDE DEF start
  <2>5. /\ start = [state |-> start.state, type |-> start.type, front |-> start.front,
                   rear |-> start.rear, mem |-> start.mem]
        /\ start.state = b /\ start.type = t /\ start.front = sep /\ start.rear = zero
        /\ start.mem = mem2
    BY <2>3, <2>4
  <2> QED
    BY <2>2, <2>5 DEF sep, t, zero
<1> HIDE DEF mem2, seeded, start
<1>9. CASE g.type = 0
  <2>1. seeded \in Generators
    BY <1>1, <1>7, <1>8 DEF Generators
  <2>2. Spaced(seeded)
    BY <1>8, <1>9 DEF Spaced
  <2> QED
    BY <1>4, <1>7, <1>8, <1>9, <2>1, <2>2 DEF Around
<1>10. CASE g.type # 0
  <2>1. start \in Generators
    BY <1>1, <1>2, <1>7, <1>8 DEF Generators
  <2>2. Spaced(start)
    <3> DEFINE sep == seps[g.type]
    <3>1. start.rear = 0 /\ start.front = sep /\ start.type = g.type
      BY <1>8
    <3>2. 0 < deg /\ sep = (0 + sep) % deg
      BY <1>2, <1>10
    <3> QED
      BY <3>1, <3>2 DEF Spaced
  <2>3. start \in Around(g)
    BY <1>7, <1>8, <2>1, <2>2 DEF Around
  <2>4. deg \in Nat
    BY <1>2
  <2> QED
    BY <1>4, <1>10, <2>3, <2>4, DiscardedStays
<1> QED
  BY <1>9, <1>10

\* The largest type that fits.
LEMMA TypeForFits == ASSUME NEW n \in Nat, n >= 8 PROVE TypeFor(n) \in 0 .. 4
<1> DEFINE InType(t) == Breaks[t + 1] <= n /\ (t < 4 => n < Breaks[t + 2])
<1>1. TypeFor(n) = CHOOSE t \in 0 .. 4 : InType(t)
  BY DEF TypeFor
<1>2. Breaks[1] = 8 /\ Breaks[2] = 32 /\ Breaks[3] = 64 /\ Breaks[4] = 128 /\ Breaks[5] = 256
  BY DEF Breaks
<1>3. \E t \in 0 .. 4 : InType(t)
  <2>1. n < 32 => InType(0)
    BY <1>2
  <2>2. n >= 32 /\ n < 64 => InType(1)
    BY <1>2
  <2>3. n >= 64 /\ n < 128 => InType(2)
    BY <1>2
  <2>4. n >= 128 /\ n < 256 => InType(3)
    BY <1>2
  <2>5. n >= 256 => InType(4)
    BY <1>2
  <2> HIDE DEF InType
  <2> QED
    BY <2>1, <2>2, <2>3, <2>4, <2>5
<1> HIDE DEF InType
<1> QED
  BY <1>1, <1>3, Zenon

-----------------------------------------------------------------------------
\* A word at index -1 that setstate can use.
HeadOK(x) == IF x % 5 = 0 THEN x = 0 ELSE x \div 5 < degrees[x % 5]

\* The header holds the pointer and the type, and gives them back.
LEMMA HeaderRead ==
  ASSUME NEW g \in Generators, Spaced(g)
  PROVE  /\ Header(g) \in Nat /\ HeadOK(Header(g))
         /\ Header(g) % 5 = g.type
         /\ g.type # 0 => Header(g) \div 5 = g.rear
<1>1. g.type \in 0 .. 4 /\ g.rear \in 0 .. 62
  BY DEF Generators
<1>2. CASE g.type = 0
  BY <1>2 DEF Header, HeadOK
<1>3. CASE g.type # 0
  <2> DEFINE t == g.type
             r == g.rear
  <2>1. Header(g) = 5 * r + t
    BY <1>3 DEF Header, MAX_TYPES
  <2>2. r < degrees[t]
    BY <1>3 DEF Spaced
  <2> HIDE DEF t, r
  <2>3. t \in 1 .. 4 /\ r \in 0 .. 62
    BY <1>1, <1>3 DEF t, r
  <2>4. (5 * r + t) % 5 = t /\ (5 * r + t) \div 5 = r /\ 5 * r + t \in Nat
    BY <2>3
  <2> DEFINE x == 5 * r + t
  <2> HIDE DEF x
  <2>5. x % 5 = t /\ x \div 5 = r /\ x \in Nat /\ Header(g) = x
    BY <2>1, <2>4 DEF x
  <2>6. HeadOK(x)
    BY <2>2, <2>3, <2>5 DEF HeadOK
  <2> QED
    BY <2>5, <2>6 DEF t, r
<1> QED
  BY <1>2, <1>3

\* The arrays as setstate leaves them before it reads the new one's header.
Saved(g) == [g.mem EXCEPT ![g.state].head = Header(g)]

\* The terms the next number is computed from, of an array with this header and these words.
Terms(m) ==
  LET type == m.head % 5
      deg == degrees[type]
      front == ((m.head \div 5) + seps[type]) % deg
  IN  IF type = 0 THEN <<m.word[0]>> ELSE [i \in 1 .. deg |-> m.word[(front + i - 1) % deg]]

HeadsOK(g) == \A c \in Buffers : HeadOK(g.mem[c].head)

\* The inductive invariant: the pointers are spaced as the type says, and every
\* array setstate may be called with has a header it can use.
GenGood == gen \in Generators /\ Spaced(gen) /\ HeadsOK(gen)

\* What an array continues with is decided by its words and the header setstate reads.
LEMMA Windows ==
  ASSUME GenGood, NEW b \in Buffers
  PROVE  Window(b) = Terms(Saved(gen)[b])
<1>1. gen \in Generators /\ Spaced(gen)
  BY DEF GenGood
<1>2. gen.state \in Buffers /\ gen.type \in 0 .. 4 /\ gen.mem \in Memory
  BY <1>1 DEF Generators
<1> DEFINE M == Saved(gen)
           k == gen.state
           hd == Header(gen)
<1>3. M[k].head = hd /\ M[k].word = gen.mem[k].word /\ \A c \in Buffers \ {k} : M[c] = gen.mem[c]
  <2>1. gen.mem \in [Buffers -> [head : Nat, word : [0 .. 62 -> Int]]]
    BY <1>2 DEF Memory
  <2> HIDE DEF hd
  <2>2. M = [gen.mem EXCEPT ![k].head = hd]
    BY DEF Saved, hd
  <2> QED
    BY <1>2, <2>1, <2>2
<1> HIDE DEF M
<1>4. CASE b = k
  <2>1. After(b) = gen
    BY <1>4 DEF After
  <2>2. Window(b) = IF gen.type = 0 THEN <<gen.mem[b].word[0]>>
                    ELSE [i \in 1 .. degrees[gen.type] |->
                            gen.mem[b].word[(gen.front + i - 1) % degrees[gen.type]]]
    BY <2>1 DEF Window
  <2>3. hd % 5 = gen.type /\ (gen.type # 0 => hd \div 5 = gen.rear)
    BY <1>1, HeaderRead
  <2>4. gen.type # 0 => gen.front = (gen.rear + seps[gen.type]) % degrees[gen.type]
    BY <1>1 DEF Spaced
  <2> HIDE DEF hd
  <2>5. Terms(M[b]) = IF gen.type = 0 THEN <<gen.mem[b].word[0]>>
                      ELSE [i \in 1 .. degrees[gen.type] |->
                            gen.mem[b].word[((((hd \div 5) + seps[gen.type]) % degrees[gen.type]) + i - 1)
                                              % degrees[gen.type]]]
    BY <1>3, <1>4, <2>3 DEF Terms
  <2>6. CASE gen.type = 0
    BY <2>2, <2>5, <2>6 DEF M
  <2>7. CASE gen.type # 0
    BY <2>2, <2>3, <2>4, <2>5, <2>7 DEF M
  <2> QED
    BY <2>6, <2>7
<1>5. CASE b # k
  <2> DEFINE s == [gen EXCEPT !.mem[k].head = hd]
             h == gen.mem[b].head
             t == h % 5
  <2>1. After(b) = SetstateState(b, gen)
    BY <1>5 DEF After
  <2>2. s.mem[b].head = h
    BY <1>2, <1>5 DEF Generators, Memory
  <2>3. SetstateState(b, gen) =
          IF t = 0 THEN [s EXCEPT !.type = 0, !.state = b]
          ELSE [s EXCEPT !.type = t, !.state = b, !.rear = h \div 5,
                         !.front = ((h \div 5) + seps[t]) % degrees[t]]
    <3> DEFINE q == s.mem[b].head
    <3>1. SetstateState(b, gen) =
            IF q % 5 = 0 THEN [s EXCEPT !.type = 0, !.state = b]
            ELSE [s EXCEPT !.type = q % 5, !.state = b, !.rear = q \div 5,
                           !.front = ((q \div 5) + seps[q % 5]) % degrees[q % 5]]
      BY Zenon DEF SetstateState, MAX_TYPES
    <3> HIDE DEF s
    <3>2. q = h
      BY <2>2
    <3> HIDE DEF q, h
    <3> QED
      BY <3>1, <3>2
  <2> DEFINE a == SetstateState(b, gen)
             f == ((h \div 5) + seps[t]) % degrees[t]
  <2> HIDE DEF hd, h, t
  <2>4. s.state = gen.state /\ s = [state |-> gen.state, type |-> gen.type, front |-> gen.front,
                                    rear |-> gen.rear, mem |-> s.mem]
    BY <1>1 DEF Generators
  <2>5. a.type = t /\ (t # 0 => a.front = f)
    <3> HIDE DEF s
    <3> QED
      BY <2>3, <2>4
  <2> HIDE DEF a
  <2>6. Window(b) = IF t = 0 THEN <<gen.mem[b].word[0]>>
                    ELSE [i \in 1 .. degrees[t] |-> gen.mem[b].word[(f + i - 1) % degrees[t]]]
    BY <2>1, <2>5 DEF Window, a
  <2>7. Terms(gen.mem[b]) = IF t = 0 THEN <<gen.mem[b].word[0]>>
                    ELSE [i \in 1 .. degrees[t] |-> gen.mem[b].word[(f + i - 1) % degrees[t]]]
    BY DEF Terms, h, t
  <2> QED
    BY <1>3, <1>5, <2>6, <2>7 DEF M
<1> QED
  BY <1>4, <1>5

\* Positions in a table of deg words, f the oldest one's: the one after f and the r-th before it.
LEMMA RoundTable ==
  ASSUME NEW deg \in {7, 15, 31, 63}, NEW f \in 0 .. deg - 1, NEW i \in 1 .. deg
  PROVE  /\ (f + i - 1) % deg \in 0 .. deg - 1
         /\ (f + 1 - 1) % deg = f
         /\ i < deg => /\ (((f + 1) % deg) + i - 1) % deg = (f + (i + 1) - 1) % deg
                       /\ (f + (i + 1) - 1) % deg # f
         /\ i = deg => (((f + 1) % deg) + i - 1) % deg = f
<1>1. CASE deg = 7
  BY <1>1, SMT
<1>2. CASE deg = 15
  BY <1>2, SMT
<1>3. CASE deg = 31
  BY <1>3, SMT
<1>4. CASE deg = 63
  BY <1>4, SMT
<1> QED
  BY <1>1, <1>2, <1>3, <1>4

\* The term at the rear pointer is the one Sep terms from the newest.
LEMMA RearTerm ==
  ASSUME NEW deg \in {7, 15, 31, 63}, NEW sep \in {1, 3}, NEW r \in 0 .. deg - 1
  PROVE  /\ (r + sep) % deg \in 0 .. deg - 1
         /\ (((r + sep) % deg) + (deg - sep + 1) - 1) % deg = r
         /\ deg - sep + 1 \in 1 .. deg
<1>1. CASE deg = 7
  BY <1>1, SMT
<1>2. CASE deg = 15
  BY <1>2, SMT
<1>3. CASE deg = 31
  BY <1>3, SMT
<1>4. CASE deg = 63
  BY <1>4, SMT
<1> QED
  BY <1>1, <1>2, <1>3, <1>4

\* The terms the next number of generator g is computed from.
Ahead(g) ==
  LET deg == degrees[g.type]
      w == g.mem[g.state].word
  IN  IF g.type = 0 THEN <<w[0]>> ELSE [i \in 1 .. deg |-> w[(g.front + i - 1) % deg]]

\* One call of random_r takes the oldest term and adds the next one.
LEMMA DrawsNext ==
  ASSUME NEW g \in Generators, Spaced(g)
  PROVE  /\ Ahead(RandomState(g)) = Append(Tail(Ahead(g)), Streams!NextTerm(Ahead(g)))
         /\ RandomResult(g) = Streams!NextTerm(Ahead(g)) \div (IF Len(Ahead(g)) = 1 THEN 1 ELSE 2)
<1> DEFINE b == g.state
           w == g.mem[b].word
           h == RandomState(g)
           s == Ahead(g)
<1>1. /\ g.state \in Buffers /\ g.type \in 0 .. 4 /\ g.front \in 0 .. 62 /\ g.rear \in 0 .. 62
      /\ g.mem \in Memory
      /\ g = [state |-> g.state, type |-> g.type, front |-> g.front, rear |-> g.rear, mem |-> g.mem]
  BY DEF Generators
<1>2. w \in [0 .. 62 -> Int] /\ g.mem \in [Buffers -> [head : Nat, word : [0 .. 62 -> Int]]]
  BY <1>1 DEF Memory
<1>3. CASE g.type = 0
  <2> DEFINE x == (w[0] * (1103515245 % Word) + 12345) % Word
  <2>1. h = [g EXCEPT !.mem[b].word[0] = x]
    BY <1>3 DEF RandomState
  <2>2. x \in Int
    <3>1. w[0] \in Int /\ Word \in Nat \ {0}
      BY <1>2, RandomConstants
    <3> DEFINE c == 1103515245 % Word
    <3>2. c \in Int
      BY <3>1, SMT
    <3> DEFINE d == w[0] * c
    <3>3. d \in Int
      BY <3>1, <3>2, SMT
    <3> HIDE DEF d
    <3>4. (d + 12345) % Word \in Int
      BY <3>1, <3>3, SMT
    <3> QED
      BY <3>4 DEF d
  <2> HIDE DEF x
  <2>3. h.state = b /\ h.type = 0 /\ h.mem = [g.mem EXCEPT ![b].word[0] = x]
    <3> HIDE DEF h, b
    <3>1. b = g.state
      BY DEF b
    <3> QED
      BY <1>1, <1>3, <2>1, <3>1
  <2>4. h.mem[b].word[0] = x
    <3> HIDE DEF h
    <3> QED
      BY <1>1, <1>2, <2>3
  <2>5. Ahead(h) = <<x>>
    <3> HIDE DEF h
    <3> QED
      BY <2>3, <2>4 DEF Ahead
  <2>6. s = <<w[0]>>
    BY <1>3 DEF Ahead
  <2>7. Streams!NextTerm(s) = x
    <3> HIDE DEF s
    <3>1. Len(s) = 1 /\ s[1] = w[0]
      BY <2>6
    <3> QED
      BY <3>1 DEF Streams!NextTerm, x
  <2>8. RandomResult(g) = x
    BY <1>3, <2>4 DEF RandomResult
  <2> HIDE DEF s, h
  <2>9. Len(s) = 1 /\ Append(Tail(s), x) = <<x>> /\ x \div 1 = x
    BY <2>2, <2>6
  <2> QED
    BY <2>5, <2>7, <2>8, <2>9 DEF s, h
<1>4. CASE g.type # 0
  <2> DEFINE deg == degrees[g.type]
             sep == seps[g.type]
             f == g.front
             r == g.rear
             p == Advanced(g)
             x == (w[f] + w[r]) % Word
  <2>1. /\ deg \in {7, 15, 31, 63} /\ sep \in {1, 3} /\ sep = (IF deg \in {7, 31} THEN 3 ELSE 1)
        /\ r \in 0 .. deg - 1 /\ f = (r + sep) % deg
    <3>1. /\ deg \in {7, 15, 31, 63} /\ sep \in {1, 3} /\ sep = (IF deg \in {7, 31} THEN 3 ELSE 1)
      BY <1>1, <1>4, Tables
    <3>2. r < deg /\ f = (r + sep) % deg
      BY <1>4 DEF Spaced
    <3> QED
      BY <1>1, <3>1, <3>2
  <2>2. p[1] = (f + 1) % deg
    BY <1>4, AdvancedApart
  <2>3. h = [g EXCEPT !.mem[b].word[f] = x, !.front = p[1], !.rear = p[2]]
    BY <1>4 DEF RandomState
  <2>4. s = [i \in 1 .. deg |-> w[(f + i - 1) % deg]]
    BY <1>4 DEF Ahead
  <2>5. RandomResult(g) = h.mem[b].word[f] \div 2
    BY <1>4 DEF RandomResult
  <2>6. f \in 0 .. 62 /\ b \in Buffers
    BY <1>1
  <2>7. x \in Int
    <3>1. w[f] \in Int /\ w[r] \in Int /\ Word \in Nat \ {0}
      BY <1>1, <1>2, RandomConstants
    <3> QED
      BY <3>1, SMT
  <2> HIDE DEF x, p, h, b
  <2>8. h.state = b /\ h.type = g.type /\ h.front = p[1] /\ h.mem = [g.mem EXCEPT ![b].word[f] = x]
    <3>1. b = g.state
      BY DEF b
    <3> QED
      BY <1>1, <2>3, <3>1
  <2>9. h.mem[b].word = [w EXCEPT ![f] = x]
    BY <1>2, <2>6, <2>8
  <2> DEFINE w2 == h.mem[b].word
  <2>10. w2[f] = x /\ \A i \in 0 .. 62 : i # f => w2[i] = w[i]
    BY <1>2, <2>6, <2>9
  <2>11. Ahead(h) = [i \in 1 .. deg |-> w2[(p[1] + i - 1) % deg]]
    BY <1>4, <2>8 DEF Ahead
  <2> HIDE DEF s, w, w2, f, r, deg, sep
  <2>12. f \in 0 .. deg - 1 /\ deg - 1 \in 0 .. 62 /\ deg \in Nat
    BY <2>1, RearTerm
  <2>13. Streams!NextTerm(s) = x
    <3>1. Len(s) = deg /\ deg # 1
      BY <2>1, <2>4
    <3>2. s[1] = w[f]
      <4>1. 1 \in 1 .. deg /\ (f + 1 - 1) % deg = f
        BY <2>1, <2>12, RoundTable
      <4> QED
        BY <2>4, <4>1
    <3>3. s[deg - sep + 1] = w[r]
      <4>1. deg - sep + 1 \in 1 .. deg /\ (f + (deg - sep + 1) - 1) % deg = r
        BY <2>1, RearTerm
      <4> QED
        BY <2>4, <4>1
    <3>4. Streams!NextTerm(s) = (s[1] + s[deg - (IF deg \in {7, 31} THEN 3 ELSE 1) + 1]) % Word
      BY <2>1, <3>1 DEF Streams!NextTerm
    <3> QED
      BY <2>1, <3>2, <3>3, <3>4 DEF x
  <2>14. Ahead(h) = Append(Tail(s), x)
    <3>1. ASSUME NEW i \in 1 .. deg
          PROVE  w2[(p[1] + i - 1) % deg] = IF i < deg THEN w[(f + (i + 1) - 1) % deg] ELSE x
      <4>1. CASE i < deg
        <5> DEFINE j == (f + (i + 1) - 1) % deg
        <5>1. (p[1] + i - 1) % deg = j /\ j # f
          <6>1. deg \in {7, 15, 31, 63} /\ f \in 0 .. deg - 1
            BY <2>1, <2>12
          <6>2. (((f + 1) % deg) + i - 1) % deg = (f + (i + 1) - 1) % deg
            BY <4>1, <6>1, RoundTable
          <6>3. (f + (i + 1) - 1) % deg # f
            BY <4>1, <6>1, RoundTable
          <6> QED
            BY <2>2, <6>2, <6>3
        <5>2. j \in 0 .. deg - 1
          <6>1. i + 1 \in 1 .. deg
            BY <2>12, <4>1
          <6> QED
            BY <2>1, <2>12, <6>1, RoundTable
        <5> HIDE DEF j
        <5>3. j \in 0 .. 62
          BY <2>12, <5>2
        <5>4. w2[j] = w[j]
          BY <2>10, <5>1, <5>3
        <5> QED
          BY <4>1, <5>1, <5>4 DEF j
      <4>2. CASE i = deg
        <5>1. (p[1] + i - 1) % deg = f
          BY <2>1, <2>2, <2>12, <4>2, RoundTable
        <5> QED
          BY <2>10, <2>12, <4>2, <5>1
      <4> QED
        BY <2>12, <4>1, <4>2
    <3>2. s \in Seq(Int) /\ Len(s) = deg
      <4>1. ASSUME NEW i \in 1 .. deg PROVE w[(f + i - 1) % deg] \in Int
        <5> DEFINE j == (f + i - 1) % deg
        <5>1. j \in 0 .. deg - 1
          BY <2>1, <2>12, RoundTable
        <5> HIDE DEF j
        <5>2. j \in 0 .. 62
          BY <2>12, <5>1
        <5>3. w[j] \in Int
          BY <1>2, <5>2 DEF w
        <5> QED
          BY <5>3 DEF j
      <4>2. s \in [1 .. deg -> Int]
        BY <2>4, <4>1
      <4> QED
        BY <2>12, <4>2
    <3> DEFINE u == Append(Tail(s), x)
    <3>3. u \in Seq(Int) /\ Len(u) = deg
      BY <2>1, <2>7, <3>2
    <3>4. ASSUME NEW i \in 1 .. deg PROVE u[i] = IF i < deg THEN s[i + 1] ELSE x
      BY <2>1, <2>7, <3>2
    <3>5. ASSUME NEW i \in 1 .. deg, i < deg PROVE s[i + 1] = w[(f + (i + 1) - 1) % deg]
      <4>1. i + 1 \in 1 .. deg
        BY <2>12, <3>5
      <4> QED
        BY <2>4, <4>1
    <3> HIDE DEF u
    <3>6. u = [i \in 1 .. deg |-> u[i]]
      BY <3>3
    <3>7. ASSUME NEW i \in 1 .. deg PROVE w2[(p[1] + i - 1) % deg] = u[i]
      BY <3>1, <3>4, <3>5
    <3> QED
      BY <2>11, <3>6, <3>7 DEF u
  <2>15. Len(s) = deg /\ deg # 1
    BY <2>1, <2>4
  <2> QED
    BY <2>5, <2>10, <2>13, <2>14, <2>15 DEF s, h, w2
<1> QED
  BY <1>3, <1>4

\* What the arrays are after setstate has stored the current one's header.
LEMMA SavedArrays ==
  ASSUME NEW g \in Generators
  PROVE  /\ g.state \in Buffers
         /\ Saved(g)[g.state].head = Header(g)
         /\ Saved(g)[g.state].word = g.mem[g.state].word
         /\ \A c \in Buffers \ {g.state} : Saved(g)[c] = g.mem[c]
<1> DEFINE k == g.state
           M == g.mem
           hd == Header(g)
<1>1. k \in Buffers /\ M \in [Buffers -> [head : Nat, word : [0 .. 62 -> Int]]]
  BY DEF Generators, Memory
<1>2. Saved(g) = [M EXCEPT ![k].head = hd]
  BY DEF Saved
<1> HIDE DEF k, M, hd
<1>3. /\ Saved(g)[k].head = hd /\ Saved(g)[k].word = M[k].word
      /\ \A c \in Buffers \ {k} : Saved(g)[c] = M[c]
  BY <1>1, <1>2
<1> QED
  BY <1>1, <1>3 DEF k, M, hd

\* The arrays and the header decide what every array continues with.
LEMMA SavedTypes ==
  ASSUME NEW g \in Generators, Spaced(g), HeadsOK(g)
  PROVE  /\ Saved(g) \in Memory
         /\ \A c \in Buffers : HeadOK(Saved(g)[c].head)
<1> DEFINE k == g.state
           M == g.mem
           hd == Header(g)
<1>1. k \in Buffers /\ M \in [Buffers -> [head : Nat, word : [0 .. 62 -> Int]]]
  BY DEF Generators, Memory
<1>2. hd \in Nat /\ HeadOK(hd)
  BY HeaderRead
<1>3. Saved(g) = [M EXCEPT ![k].head = hd]
  BY DEF Saved
<1>4. \A c \in Buffers : HeadOK(M[c].head)
  BY DEF HeadsOK
<1> HIDE DEF k, M, hd
<1>5. Saved(g) \in [Buffers -> [head : Nat, word : [0 .. 62 -> Int]]]
  BY <1>1, <1>2, <1>3
<1>6. Saved(g)[k].head = hd /\ \A c \in Buffers \ {k} : Saved(g)[c] = M[c]
  BY <1>1, <1>3
<1> QED
  BY <1>2, <1>4, <1>5, <1>6 DEF Memory

\* setstate: the arrays are as they were left, and the new one is current.
LEMMA SetstateKeeps ==
  ASSUME NEW g \in Generators, Spaced(g), HeadsOK(g), NEW b \in Buffers
  PROVE  LET h == SetstateState(b, g)
         IN  /\ h \in Generators /\ Spaced(h) /\ HeadsOK(h)
             /\ h.state = b /\ h.mem = Saved(g) /\ Header(h) = Saved(g)[b].head
<1> DEFINE h == SetstateState(b, g)
           S == Saved(g)
           x == S[b].head
           t == x % 5
           r == x \div 5
           f == (r + seps[t]) % degrees[t]
           s == [g EXCEPT !.mem[g.state].head = Header(g)]
<1>1. /\ g.state \in Buffers /\ g.type \in 0 .. 4 /\ g.front \in 0 .. 62 /\ g.rear \in 0 .. 62
      /\ g = [state |-> g.state, type |-> g.type, front |-> g.front, rear |-> g.rear, mem |-> g.mem]
  BY DEF Generators
<1>2. S \in Memory /\ \A c \in Buffers : HeadOK(S[c].head)
  BY SavedTypes
<1>3. x \in Nat /\ HeadOK(x)
  <2>1. S[b] \in [head : Nat, word : [0 .. 62 -> Int]]
    BY <1>2 DEF Memory
  <2> QED
    BY <1>2, <2>1
<1>4. /\ s.state = g.state /\ s.type = g.type /\ s.front = g.front /\ s.rear = g.rear /\ s.mem = S
      /\ s = [state |-> s.state, type |-> s.type, front |-> s.front, rear |-> s.rear, mem |-> s.mem]
  BY <1>1 DEF Saved
<1>5. h = IF t = 0 THEN [s EXCEPT !.type = 0, !.state = b]
          ELSE [s EXCEPT !.type = t, !.state = b, !.rear = r, !.front = f]
  <2> DEFINE q == s.mem[b].head
  <2>1. h = IF q % 5 = 0 THEN [s EXCEPT !.type = 0, !.state = b]
            ELSE [s EXCEPT !.type = q % 5, !.state = b, !.rear = q \div 5,
                           !.front = ((q \div 5) + seps[q % 5]) % degrees[q % 5]]
    BY Zenon DEF SetstateState, MAX_TYPES
  <2> HIDE DEF s
  <2>2. q = x
    BY <1>4
  <2> HIDE DEF q, x
  <2> QED
    BY <2>1, <2>2
<1> HIDE DEF s, h, x, S
<1>6. t \in 0 .. 4 /\ r \in Nat /\ x = 5 * r + t
  BY <1>3
<1>7. CASE t = 0
  <2>1. h = [s EXCEPT !.type = 0, !.state = b]
    BY <1>5, <1>7
  <2>2. /\ h.state = b /\ h.type = 0 /\ h.front = g.front /\ h.rear = g.rear /\ h.mem = S
        /\ h = [state |-> h.state, type |-> h.type, front |-> h.front, rear |-> h.rear, mem |-> h.mem]
    BY <1>4, <2>1
  <2>3. h \in Generators
    BY <1>1, <1>2, <2>2 DEF Generators
  <2>4. Spaced(h) /\ HeadsOK(h)
    BY <1>2, <2>2 DEF Spaced, HeadsOK
  <2>5. Header(h) = x
    BY <1>3, <1>7, <2>2 DEF Header, HeadOK
  <2> QED
    BY <2>2, <2>3, <2>4, <2>5 DEF h, x, S
<1>8. CASE t # 0
  <2>1. r < degrees[t] /\ degrees[t] \in {7, 15, 31, 63} /\ seps[t] \in {1, 3}
    <3>1. x % 5 # 0 => x \div 5 < degrees[x % 5]
      BY <1>3 DEF HeadOK
    <3>2. r < degrees[t]
      BY <1>8, <3>1
    <3> HIDE DEF t, r
    <3> QED
      BY <1>6, <1>8, <3>2, Tables
  <2> HIDE DEF t, r
  <2>2. r \in 0 .. 62 /\ f \in 0 .. 62
    <3> DEFINE deg == degrees[t]
               sep == seps[t]
    <3>1. deg \in {7, 15, 31, 63} /\ sep \in {1, 3} /\ r \in 0 .. deg - 1
      BY <1>6, <2>1
    <3> HIDE DEF deg, sep
    <3>2. r \in 0 .. 62 /\ (r + sep) % deg \in 0 .. 62
      BY <3>1, RearTerm
    <3> QED
      BY <3>2 DEF deg, sep
  <2>3. h = [s EXCEPT !.type = t, !.state = b, !.rear = r, !.front = f]
    BY <1>5, <1>8
  <2>4. f = (r + seps[t]) % degrees[t]
    OBVIOUS
  <2> HIDE DEF f
  <2>5. /\ h.state = b /\ h.type = t /\ h.front = f /\ h.rear = r /\ h.mem = S
        /\ h = [state |-> h.state, type |-> h.type, front |-> h.front, rear |-> h.rear, mem |-> h.mem]
    BY <1>4, <2>3
  <2>6. h \in Generators
    BY <1>2, <1>6, <2>2, <2>5 DEF Generators
  <2>7. Spaced(h) /\ HeadsOK(h)
    BY <1>2, <2>1, <2>4, <2>5 DEF Spaced, HeadsOK
  <2>8. Header(h) = x
    BY <1>6, <1>8, <2>5 DEF Header, MAX_TYPES
  <2> QED
    BY <2>5, <2>6, <2>7, <2>8 DEF h, x, S
<1> QED
  BY <1>7, <1>8

\* srandom: only the current array's position changes.
LEMMA SrandomKeeps ==
  ASSUME NEW g \in Generators, Spaced(g), HeadsOK(g), NEW h \in Around(g)
  PROVE  /\ h \in Generators /\ Spaced(h) /\ HeadsOK(h)
         /\ h.state = g.state
         /\ \A c \in Buffers \ {h.state} : Saved(h)[c] = Saved(g)[c]
<1>1. /\ h \in Generators /\ h.state = g.state /\ h.type = g.type /\ Spaced(h)
      /\ h.mem[g.state].head = g.mem[g.state].head
      /\ \A c \in Buffers \ {g.state} : h.mem[c] = g.mem[c]
  BY DEF Around
<1>2. HeadsOK(h)
  BY <1>1 DEF HeadsOK
<1>3. \A c \in Buffers \ {h.state} : Saved(h)[c] = Saved(g)[c]
  <2>1. \A c \in Buffers \ {h.state} : Saved(h)[c] = h.mem[c]
    BY <1>1, SavedArrays
  <2>2. \A c \in Buffers \ {g.state} : Saved(g)[c] = g.mem[c]
    BY SavedArrays
  <2> QED
    BY <1>1, <2>1, <2>2
<1> QED
  BY <1>1, <1>2, <1>3

\* initstate of an array with room: the old one must have its pointer stored.
LEMMA InitstateKeeps ==
  ASSUME NEW g \in Generators, HeadsOK(g), NEW b \in Buffers, NEW n \in Nat, n >= 8, NEW seed \in Int
  PROVE  LET h == InitstateState(seed, b, n, g)
         IN  /\ h \in Generators /\ Spaced(h) /\ HeadsOK(h)
             /\ h.state = b
             /\ \A c \in Buffers \ {b} : Saved(h)[c] = g.mem[c]
<1> DEFINE g1 == [g EXCEPT !.type = TypeFor(n), !.state = b]
           g2 == SrandomState(seed, g1)
           h == InitstateState(seed, b, n, g)
           hd == Header(g2)
<1>1. /\ g.front \in 0 .. 62 /\ g.rear \in 0 .. 62 /\ g.mem \in Memory
      /\ g = [state |-> g.state, type |-> g.type, front |-> g.front, rear |-> g.rear, mem |-> g.mem]
  BY DEF Generators
<1>2. TypeFor(n) \in 0 .. 4
  BY TypeForFits
<1>3. /\ g1.state = b /\ g1.type = TypeFor(n) /\ g1.front = g.front /\ g1.rear = g.rear /\ g1.mem = g.mem
      /\ g1 = [state |-> g1.state, type |-> g1.type, front |-> g1.front, rear |-> g1.rear, mem |-> g1.mem]
  <2> DEFINE t == TypeFor(n)
  <2>1. g1 = [g EXCEPT !.type = t, !.state = b]
    OBVIOUS
  <2> HIDE DEF g1, t
  <2>2. /\ g1.state = b /\ g1.type = t /\ g1.front = g.front /\ g1.rear = g.rear /\ g1.mem = g.mem
        /\ g1 = [state |-> g1.state, type |-> g1.type, front |-> g1.front, rear |-> g1.rear, mem |-> g1.mem]
    BY <1>1, <2>1
  <2> QED
    BY <2>2 DEF t
<1> HIDE DEF g1
<1>4. g1 \in Generators
  BY <1>1, <1>2, <1>3 DEF Generators
<1>5. g2 \in Around(g1)
  BY <1>4, SrandomStays
<1>6. h = [g2 EXCEPT !.mem[b].head = hd]
  <2>1. Breaks[1] = 8
    BY DEF Breaks
  <2> QED
    BY <2>1 DEF InitstateState, g1
<1> HIDE DEF g2, h
<1>7. /\ g2 \in Generators /\ g2.state = b /\ Spaced(g2)
      /\ \A c \in Buffers \ {b} : g2.mem[c] = g.mem[c]
  BY <1>3, <1>5 DEF Around
<1>8. hd \in Nat /\ HeadOK(hd)
  BY <1>7, HeaderRead
<1>9. h.mem = Saved(g2)
  <2>1. g2 = [state |-> g2.state, type |-> g2.type, front |-> g2.front, rear |-> g2.rear, mem |-> g2.mem]
    BY <1>7 DEF Generators
  <2>2. Saved(g2) = [g2.mem EXCEPT ![b].head = hd]
    BY <1>7 DEF Saved
  <2> HIDE DEF hd
  <2> QED
    BY <1>6, <2>1, <2>2
<1>10. Saved(g2) \in Memory /\ \A c \in Buffers : HeadOK(Saved(g2)[c].head)
  <2>1. /\ Saved(g2)[b].head = hd
        /\ \A c \in Buffers \ {b} : Saved(g2)[c] = g2.mem[c]
    BY <1>7, SavedArrays
  <2>2. \A c \in Buffers : HeadOK(Saved(g2)[c].head)
    <3> HIDE DEF hd
    <3> QED
      BY <1>7, <1>8, <2>1 DEF HeadsOK
  <2>3. Saved(g2) \in Memory
    <3> DEFINE M == g2.mem
    <3>1. M \in [Buffers -> [head : Nat, word : [0 .. 62 -> Int]]]
      BY <1>7 DEF Generators, Memory
    <3>2. Saved(g2) = [M EXCEPT ![b].head = hd]
      BY <1>7 DEF Saved
    <3> HIDE DEF M, hd
    <3> QED
      BY <1>8, <3>1, <3>2 DEF Memory
  <2> QED
    BY <2>2, <2>3
<1>11. /\ h.state = b /\ h.type = g2.type /\ h.front = g2.front /\ h.rear = g2.rear
       /\ h = [state |-> h.state, type |-> h.type, front |-> h.front, rear |-> h.rear, mem |-> h.mem]
  <2>1. g2 = [state |-> g2.state, type |-> g2.type, front |-> g2.front, rear |-> g2.rear, mem |-> g2.mem]
    BY <1>7 DEF Generators
  <2> HIDE DEF hd
  <2> QED
    BY <1>6, <1>7, <2>1
<1>12. h \in Generators
  BY <1>7, <1>9, <1>10, <1>11 DEF Generators
<1>13. Spaced(h) /\ HeadsOK(h)
  BY <1>7, <1>9, <1>10, <1>11 DEF Spaced, HeadsOK
<1>14. \A c \in Buffers \ {b} : Saved(h)[c] = g.mem[c]
  <2>1. \A c \in Buffers \ {b} : Saved(h)[c] = h.mem[c]
    BY <1>11, <1>12, SavedArrays
  <2>2. \A c \in Buffers \ {b} : Saved(g2)[c] = g2.mem[c]
    BY <1>7, SavedArrays
  <2> QED
    BY <1>7, <1>9, <2>1, <2>2
<1> QED
  BY <1>11, <1>12, <1>13, <1>14 DEF h

\* The stream of each array.
Positions == [b \in Buffers |-> Window(b)]

\* They are what the arrays continue with, once the current pointer is stored.
PositionsStored == Positions = [b \in Buffers |-> Terms(Saved(gen)[b])]

\* This holds while the headers are usable.
LEMMA PositionsAre == GenGood => PositionsStored
<1> SUFFICES ASSUME GenGood PROVE PositionsStored
  OBVIOUS
<1>1. \A b \in Buffers : Window(b) = Terms(Saved(gen)[b])
  BY Windows
<1> QED
  BY <1>1 DEF Positions, PositionsStored

\* The generator is set up with its array current.
LEMMA GenInitGood == RandomInit => GenGood /\ out = 0 /\ gen.state \in Buffers
<1> SUFFICES ASSUME RandomInit PROVE GenGood /\ out = 0 /\ gen.state \in Buffers
  OBVIOUS
<1>1. out = 0
  BY DEF RandomInit
<1>2. PICK b \in Buffers : gen = InitstateState(1, b, Size[b], Started(b))
  BY DEF RandomInit
<1> DEFINE g == Started(b)
           n == Size[b]
<1>3. n \in Nat
  BY RandomConstants
<1>4. g \in Generators /\ Spaced(g) /\ HeadsOK(g)
  <2>1. Blank \in [head : Nat, word : [0 .. 62 -> Int]] /\ Blank.head = 0
    BY DEF Blank
  <2>2. [c \in Buffers |-> Blank] \in Memory
    BY <2>1 DEF Memory
  <2>3. g = [state |-> b, type |-> 0, front |-> 0, rear |-> 0, mem |-> [c \in Buffers |-> Blank]]
    BY DEF Started
  <2> HIDE DEF g
  <2>4. g \in Generators
    BY <2>2, <2>3 DEF Generators
  <2>5. Spaced(g)
    BY <2>3 DEF Spaced
  <2>6. HeadOK(0)
    BY DEF HeadOK
  <2>7. \A c \in Buffers : g.mem[c].head = 0
    BY <2>1, <2>3
  <2> QED
    BY <2>4, <2>5, <2>6, <2>7 DEF HeadsOK
<1> HIDE DEF g, n
<1>5. CASE n < 8
  <2>1. gen = g
    BY <1>2, <1>5 DEF InitstateState, Breaks, g, n
  <2> QED
    BY <1>1, <1>4, <2>1 DEF GenGood, Generators
<1>6. CASE n >= 8
  <2>1. gen = InitstateState(1, b, n, g) /\ 1 \in Int
    BY <1>2 DEF g, n
  <2>2. gen \in Generators /\ Spaced(gen) /\ HeadsOK(gen)
    BY <1>3, <1>4, <1>6, <2>1, InitstateKeeps
  <2> QED
    BY <1>1, <2>2 DEF GenGood, Generators
<1> QED
  BY <1>3, <1>5, <1>6

\* random_r draws from the current array's sequence.
LEMMA DrawStep ==
  GenGood /\ Random_r => GenGood' /\ Streams!Draw
<1> SUFFICES ASSUME GenGood, Random_r PROVE GenGood' /\ Streams!Draw
  OBVIOUS
<1> DEFINE k == gen.state
<1>1. gen' = RandomState(gen) /\ out' = RandomResult(gen)
  BY DEF Random_r
<1>2. gen \in Generators /\ Spaced(gen) /\ HeadsOK(gen)
  BY DEF GenGood
<1>3. gen \in Around(gen)
  BY <1>2 DEF Around
<1>4. gen' \in Around(gen)
  BY <1>1, <1>2, <1>3, RandomStays
<1>5. /\ gen' \in Generators /\ Spaced(gen') /\ HeadsOK(gen') /\ gen'.state = gen.state
      /\ \A c \in Buffers \ {gen.state} : Saved(gen')[c] = Saved(gen)[c]
  BY <1>2, <1>4, SrandomKeeps
<1>6. GenGood'
  BY <1>5 DEF GenGood, HeadsOK
<1>7. PositionsStored /\ PositionsStored'
  BY <1>6, PositionsAre, PTL
<1>8. \A c \in Buffers \ {k} : Positions'[c] = Positions[c]
  <2>1. \A c \in Buffers : Positions[c] = Terms(Saved(gen)[c]) /\ Positions'[c] = Terms(Saved(gen')[c])
    BY <1>7 DEF PositionsStored
  <2> QED
    BY <1>5, <2>1
<1> DEFINE s == Ahead(gen)
<1>9. k \in Buffers
  BY <1>2 DEF Generators
<1>10. Positions[k] = s
  <2>1. After(k) = gen
    BY DEF After
  <2>2. Window(k) = s
    BY <2>1 DEF Window, Ahead
  <2> QED
    BY <1>9, <2>2 DEF Positions
<1>11. Positions'[k] = Ahead(gen')
  <2>1. After(gen.state)' = gen'
    BY DEF After
  <2>2. Window(gen.state)' = Ahead(gen')
    BY <2>1 DEF Window, Ahead
  <2>3. gen'.state = k
    BY <1>5
  <2> QED
    BY <1>9, <2>2, <2>3 DEF Positions
<1>12. /\ Ahead(gen') = Append(Tail(s), Streams!NextTerm(s))
       /\ out' = Streams!NextTerm(s) \div (IF Len(s) = 1 THEN 1 ELSE 2)
  BY <1>1, <1>2, DrawsNext
<1> HIDE DEF s
<1>13. Positions = [b \in Buffers |-> Positions[b]] /\ Positions' = [b \in Buffers |-> Positions'[b]]
  BY DEF Positions
<1> DEFINE p == Positions
           q == Positions'
           new == Append(Tail(s), Streams!NextTerm(s))
<1>14. q = [p EXCEPT ![k] = new]
  <2>1. p[k] = s /\ q[k] = new /\ \A c \in Buffers \ {k} : q[c] = p[c]
    BY <1>8, <1>10, <1>11, <1>12
  <2>2. p = [b \in Buffers |-> p[b]] /\ q = [b \in Buffers |-> q[b]]
    BY <1>13
  <2> HIDE DEF p, q, new, k
  <2> QED
    BY <2>1, <2>2
<1>15. Streams!Draw
  <2>1. p[k] = s
    BY <1>10
  <2>2. q = [p EXCEPT ![k] = Append(Tail(p[k]), Streams!NextTerm(p[k]))]
    BY <1>14, <2>1
  <2>3. out' = Streams!NextTerm(p[k]) \div (IF Len(p[k]) = 1 THEN 1 ELSE 2)
    BY <1>12, <2>1
  <2>4. gen'.state = gen.state
    BY <1>5
  <2> QED
    BY <2>2, <2>3, <2>4 DEF Streams!Draw, Positions
<1> QED
  BY <1>6, <1>15

\* A call that leaves the arrays but b as they are kept seeds b, or nothing.
LEMMA SeedStep ==
  ASSUME GenGood, GenGood', out' = out,
         \A c \in Buffers \ {gen'.state} : Saved(gen')[c] = Saved(gen)[c]
  PROVE  Streams!Seed
<1>1. PositionsStored /\ PositionsStored'
  BY PositionsAre, PTL
<1>2. \A c \in Buffers : Positions[c] = Terms(Saved(gen)[c]) /\ Positions'[c] = Terms(Saved(gen')[c])
  BY <1>1 DEF PositionsStored
<1>3. \A c \in Buffers \ {gen'.state} : Positions'[c] = Positions[c]
  BY <1>2
<1>4. gen'.state \in Buffers
  BY DEF GenGood, Generators
<1> QED
  BY <1>3, <1>4 DEF Streams!Seed, Positions

\* srandom_r seeds the current array.
LEMMA SrandomStep == GenGood /\ Srandom_r => GenGood' /\ Streams!Seed
<1> SUFFICES ASSUME GenGood, Srandom_r PROVE GenGood' /\ Streams!Seed
  OBVIOUS
<1>1. PICK s \in Seeds : gen' = SrandomState(s, gen)
  BY DEF Srandom_r
<1>2. s \in Int /\ out' = out
  BY RandomConstants DEF Srandom_r
<1>3. gen \in Generators /\ Spaced(gen) /\ HeadsOK(gen)
  BY DEF GenGood
<1>4. gen' \in Around(gen)
  BY <1>1, <1>2, <1>3, SrandomStays
<1>5. /\ gen' \in Generators /\ Spaced(gen') /\ HeadsOK(gen') /\ gen'.state = gen.state
      /\ \A c \in Buffers \ {gen'.state} : Saved(gen')[c] = Saved(gen)[c]
  BY <1>3, <1>4, SrandomKeeps
<1>6. GenGood'
  BY <1>5 DEF GenGood, HeadsOK
<1> QED
  BY <1>2, <1>5, <1>6, SeedStep

\* initstate_r seeds the array it is given, if there is room for a table in it.
LEMMA InitstateStep ==
  ASSUME SaveFirst
  PROVE  GenGood /\ Initstate_r => GenGood' /\ (Streams!Seed \/ UNCHANGED <<gen, out>>)
<1> SUFFICES ASSUME GenGood, Initstate_r
             PROVE  GenGood' /\ (Streams!Seed \/ UNCHANGED <<gen, out>>)
  OBVIOUS
<1>1. PICK b \in Buffers, seed \in Seeds : \E n \in {4, Size[b]} : gen' = InitstateState(seed, b, n, gen)
  BY DEF Initstate_r
<1>2. PICK n \in {4, Size[b]} : gen' = InitstateState(seed, b, n, gen)
  BY <1>1
<1>3. n \in Nat /\ seed \in Int /\ out' = out /\ gen.mem[gen.state].head = Header(gen)
  BY RandomConstants DEF Initstate_r
<1>4. gen \in Generators /\ Spaced(gen) /\ HeadsOK(gen)
  BY DEF GenGood
<1>5. CASE n < 8
  <2>1. gen' = gen
    BY <1>2, <1>5 DEF InitstateState, Breaks
  <2>2. GenGood'
    BY <1>4, <2>1 DEF GenGood, HeadsOK
  <2> QED
    BY <1>3, <2>1, <2>2
<1>6. CASE n >= 8
  <2>1. /\ gen' \in Generators /\ Spaced(gen') /\ HeadsOK(gen') /\ gen'.state = b
        /\ \A c \in Buffers \ {b} : Saved(gen')[c] = gen.mem[c]
    BY <1>2, <1>3, <1>4, <1>6, InitstateKeeps
  <2>2. \A c \in Buffers : Terms(Saved(gen)[c]) = Terms(gen.mem[c])
    <3>1. /\ Saved(gen)[gen.state].head = Header(gen)
          /\ Saved(gen)[gen.state].word = gen.mem[gen.state].word
          /\ \A c \in Buffers \ {gen.state} : Saved(gen)[c] = gen.mem[c]
      BY <1>4, SavedArrays
    <3>2. ASSUME NEW c \in Buffers PROVE Terms(Saved(gen)[c]) = Terms(gen.mem[c])
      <4>1. CASE c = gen.state
        BY <1>3, <3>1, <4>1 DEF Terms
      <4>2. CASE c # gen.state
        BY <3>1, <4>2
      <4> QED
        BY <4>1, <4>2
    <3> QED
      BY <3>2
  <2>3. GenGood'
    BY <2>1 DEF GenGood, HeadsOK
  <2>4. PositionsStored /\ PositionsStored'
    BY <2>3, PositionsAre, PTL
  <2>5. \A c \in Buffers : Positions[c] = Terms(gen.mem[c]) /\ Positions'[c] = Terms(Saved(gen')[c])
    BY <2>2, <2>4 DEF PositionsStored
  <2>6. \A c \in Buffers \ {gen'.state} : Positions'[c] = Positions[c]
    BY <2>1, <2>5
  <2>7. Streams!Seed
    BY <1>3, <2>1, <2>6 DEF Streams!Seed, Positions
  <2> QED
    BY <2>3, <2>7
<1> QED
  BY <1>3, <1>5, <1>6

\* setstate_r only selects.
LEMMA SetstateStep == GenGood /\ Setstate_r => GenGood' /\ Streams!Select
<1> SUFFICES ASSUME GenGood, Setstate_r PROVE GenGood' /\ Streams!Select
  OBVIOUS
<1>1. PICK b \in Buffers : gen' = SetstateState(b, gen)
  BY DEF Setstate_r
<1>2. gen \in Generators /\ Spaced(gen) /\ HeadsOK(gen) /\ out' = out
  BY DEF GenGood, Setstate_r
<1>3. /\ gen' \in Generators /\ Spaced(gen') /\ HeadsOK(gen')
      /\ gen'.state = b /\ gen'.mem = Saved(gen) /\ Header(gen') = Saved(gen)[b].head
  BY <1>1, <1>2, SetstateKeeps
<1>4. GenGood'
  BY <1>3 DEF GenGood, HeadsOK
<1>5. \A c \in Buffers : Terms(Saved(gen')[c]) = Terms(Saved(gen)[c])
  <2>1. /\ Saved(gen')[b].head = Header(gen')
        /\ Saved(gen')[b].word = gen'.mem[b].word
        /\ \A c \in Buffers \ {b} : Saved(gen')[c] = gen'.mem[c]
    BY <1>3, SavedArrays
  <2>2. Terms(Saved(gen')[b]) = Terms(Saved(gen)[b])
    BY <1>3, <2>1 DEF Terms
  <2> QED
    BY <1>3, <2>1, <2>2
<1>6. PositionsStored /\ PositionsStored'
  BY <1>4, PositionsAre, PTL
<1>7. Positions' = Positions
  BY <1>5, <1>6 DEF PositionsStored
<1> QED
  BY <1>2, <1>3, <1>4, <1>7 DEF Streams!Select, Positions

\* Nothing of the generator: the wrapper's calls.
LEMMA NoStep == GenGood /\ UNCHANGED <<gen, out>> => GenGood' /\ UNCHANGED Streams!svars
  BY DEF GenGood, HeadsOK, Streams!svars, Window, After

\* random.c implements the independent streams, whatever the arrays' sizes and
\* the calls: draws, seeds, and switches resume each array's sequence where it
\* was left (random.c:299-356), for clients that store the pointer of the
\* current array with setstate before they call initstate, which does not.
THEOREM StreamsAreIndependent ==
  ASSUME SaveFirst
  PROVE  RandomSpec => ResumesStreams
<1>1. RandomInit => GenGood /\ Streams!Init
  BY GenInitGood DEF Streams!Init
<1>2. GenGood /\ [RandomNext]_rvars => GenGood' /\ [Streams!Next]_Streams!svars
  <2> SUFFICES ASSUME GenGood, [RandomNext]_rvars
               PROVE  GenGood' /\ [Streams!Next]_Streams!svars
    OBVIOUS
  <2>1. CASE Random_r
    BY <2>1, DrawStep DEF Streams!Next
  <2>2. CASE Srandom_r
    BY <2>2, SrandomStep DEF Streams!Next
  <2>3. CASE Initstate_r
    BY <2>3, InitstateStep, NoStep DEF Streams!Next
  <2>4. CASE Setstate_r
    BY <2>4, SetstateStep DEF Streams!Next
  <2>5. CASE Pi_random_seed \/ Pi_random_init \/ Pi_random \/ UNCHANGED rvars
    <3>1. UNCHANGED <<gen, out>>
      BY <2>5 DEF Pi_random_seed, Pi_random_init, Pi_random, rvars, gvars
    <3> QED
      BY <3>1, NoStep
  <2> QED
    BY <2>1, <2>2, <2>3, <2>4, <2>5 DEF RandomNext
<1> QED
  BY <1>1, <1>2, PTL DEF RandomSpec, ResumesStreams, Streams!Spec

-----------------------------------------------------------------------------
(* The generic queue.  The elements are numbered in the order of the       *)
(* pushes, so that the inductive invariant can say which of them each slot *)
(* holds, which one the tail is at, and which one a pop that is in         *)
(* progress is about to return.                                            *)

\* The last element that is not in the queue any more: given to a pop or an
\* older one, dropped, or lost by an overtaken pop.
Left == Latest(Gone, lost)

\* The value Left had when a pop that is in progress read the tail.
LeftAtLoad == Left - drops

DropTypes ==
  /\ slot \in [DropSlots -> Nat] /\ pushed \in Nat
  /\ popper \in {"idle", "nonempty", "tail", "elem"}
  /\ given \in Seq(Nat) /\ LastGiven <= pushed
  /\ drops \in Nat /\ lost \in Nat /\ lost <= pushed

\* Element e was put into slot (e - 1) mod QN, and the last QN are still there.
Placed ==
  /\ chead = pushed % QN /\ ctail = Left % QN
  /\ \A e \in 1 .. pushed : pushed - e < QN => slot[(e - 1) % QN] = e

\* A pop in progress: the slot it reads holds the element that was the oldest,
\* or, after two drops, one that was pushed into the same slot later.
Popping ==
  /\ popper \in {"idle", "nonempty"} => drops = 0
  /\ popper = "nonempty" => Left < pushed
  /\ popper \in {"tail", "elem"} =>
       loaded[1] = LeftAtLoad % QN /\ LastGiven <= LeftAtLoad /\ LeftAtLoad < pushed
  /\ popper = "elem" =>
       /\ loaded[2] \in LeftAtLoad + 1 .. pushed
       /\ loaded[2] % QN = (LeftAtLoad + 1) % QN
       /\ drops <= 1 => loaded[2] = LeftAtLoad + 1
  /\ drops > 0 => pushed = Left + QN - 1

DropInv ==
  /\ DropTypes /\ Placed /\ Popping /\ ~paniced
  /\ loaded = <<loaded[1], loaded[2]>>
  /\ \A i \in 1 .. Len(given) - 1 : given[i] < given[i + 1]

\* One slot on, in the array and in the numbering.
LEMMA RoundNext ==
  ASSUME NEW x \in Nat
  PROVE  x % QN \in DropSlots /\ ((x % QN) + 1) % QN = (x + 1) % QN
<1>1. QN \in Nat \ {0} /\ x \in Int /\ 1 \in Int
  BY SlotsDivideWord
<1>2. x % QN \in 0 .. QN - 1
  BY <1>1, ModParts
<1>3. ((x % QN) + 1) % QN = (x + 1) % QN
  BY <1>1, ModAdd
<1> QED
  BY <1>2, <1>3 DEF DropSlots

\* The last of p elements that was put into the slot of element o + 1.
LEMMA LastWritten ==
  ASSUME NEW o \in Nat, NEW p \in Nat, o < p
  PROVE  \E e \in o + 1 .. p :
           /\ e = p - ((p - (o + 1)) % QN) /\ p - e < QN
           /\ (e - 1) % QN = o % QN /\ e % QN = (o + 1) % QN
           /\ p - (o + 1) < QN => e = o + 1
<1> DEFINE d == p - (o + 1)
           r == d % QN
<1>1. QN \in Nat \ {0} /\ QN > 1 /\ o \in Int /\ p \in Int /\ d \in Int /\ d >= 0
  BY SlotsDivideWord
<1>2. r \in 0 .. QN - 1 /\ \E k \in Int : d = r + k * QN
  <2> HIDE DEF d
  <2> QED
    BY <1>1, ModParts
<1>3. PICK k \in Int : d = r + k * QN
  BY <1>2
<1>4. d < QN => r = d
  <2> HIDE DEF r
  <2>1. d < QN => d \in 0 .. QN - 1 /\ d = d + 0 * QN
    BY <1>1
  <2> HIDE DEF d
  <2>2. d < QN => d % QN = d
    BY <1>1, <2>1, ModIs
  <2> QED
    BY <2>2 DEF r
<1> HIDE DEF r
<1> DEFINE m == k * QN
<1>5. m \in Int /\ m >= 0
  <2>1. m \in Int /\ (k >= 0 => m >= 0) /\ (k <= -1 => m <= -QN)
    BY <1>1, <1>3, SMT
  <2> HIDE DEF m
  <2>2. d = r + m
    BY <1>3 DEF m
  <2> QED
    BY <1>1, <1>2, <2>1, <2>2
<1> DEFINE e == p - r
<1>6. e = (o + 1) + m /\ e - 1 = o + m /\ e \in o + 1 .. p /\ p - e < QN
  <2>1. d = r + m
    BY <1>3
  <2> HIDE DEF m
  <2> QED
    BY <1>1, <1>2, <1>5, <2>1
<1>7. ASSUME NEW x \in Nat PROVE (x + m) % QN = x % QN
  <2>1. x \in Int /\ x % QN \in 0 .. QN - 1 /\ \E j \in Int : x = (x % QN) + j * QN
    <3>1. x \in Int
      OBVIOUS
    <3> QED
      BY <1>1, <3>1, ModParts
  <2>2. PICK j \in Int : x = (x % QN) + j * QN
    BY <2>1
  <2> DEFINE y == x % QN
             z == x + m
  <2>3. z = y + (j + k) * QN /\ z \in Int /\ j + k \in Int
    <3>1. x = y + j * QN
      BY <2>2
    <3>2. y \in Int
      BY <2>1
    <3> HIDE DEF y
    <3> QED
      BY <1>1, <3>1, <3>2, SMT
  <2>4. y \in 0 .. QN - 1
    BY <2>1
  <2> HIDE DEF y, z
  <2>5. z % QN = y
    BY <1>1, <2>3, <2>4, ModIs
  <2> QED
    BY <2>5 DEF y, z
<1>8. (e - 1) % QN = o % QN /\ e % QN = (o + 1) % QN
  BY <1>6, <1>7
<1>9. d < QN => e = o + 1
  BY <1>1, <1>4
<1> QED
  BY <1>6, <1>8, <1>9 DEF r

\* pfx_empty, pfx_full and pfx_cnt, of a queue that o elements have left of the
\* p that were pushed.
LEMMA RoundCounts ==
  ASSUME NEW o \in Nat, NEW p \in Nat, o <= p, p - o <= QN - 1
  PROVE  /\ (p % QN = o % QN) <=> (o = p)
         /\ (((p % QN) + 1) % QN = o % QN) <=> (p - o = QN - 1)
         /\ (((p % QN) - (o % QN)) % QWord) % QN = p - o
<1>1. /\ QN \in Nat \ {0} /\ QN > 1 /\ QWord \in Nat \ {0} /\ QWord % QN = 0
      /\ o \in Int /\ p \in Int
  BY SlotsDivideWord
<1>2. (p % QN = o % QN) <=> (o = p)
  <2>1. p - o < QN
    BY <1>1
  <2>2. o % QN = p % QN => o = p
    BY <1>1, <2>1, ModDistinct
  <2> QED
    BY <2>2
<1>3. (((p % QN) + 1) % QN = o % QN) <=> (p - o = QN - 1)
  <2>1. ((p % QN) + 1) % QN = (p + 1) % QN
    BY RoundNext
  <2>2. CASE p - o = QN - 1
    <3>1. p + 1 = o + 1 * QN
      BY <1>1, <2>2
    <3>2. PICK k \in Int : o = (o % QN) + k * QN
      BY <1>1, ModParts
    <3> DEFINE r == o % QN
    <3>3. r \in 0 .. QN - 1 /\ o = r + k * QN
      BY <1>1, <3>2, ModParts
    <3> HIDE DEF r
    <3>4. p + 1 = r + (k + 1) * QN
      BY <1>1, <3>1, <3>3, SMT
    <3>5. (p + 1) % QN = r
      <4>1. p + 1 \in Int /\ k + 1 \in Int
        OBVIOUS
      <4> QED
        BY <1>1, <3>3, <3>4, <4>1, ModIs
    <3> QED
      BY <2>1, <2>2, <3>5 DEF r
  <2>3. CASE p - o < QN - 1
    <3> DEFINE next == p + 1
    <3>1. next \in Int /\ o <= next /\ next - o < QN /\ next # o
      BY <1>1, <2>3
    <3> HIDE DEF next
    <3>2. o % QN # next % QN
      BY <1>1, <3>1, ModDistinct
    <3> QED
      BY <1>1, <2>1, <2>3, <3>2 DEF next
  <2> QED
    BY <1>1, <2>2, <2>3
<1>4. (((p % QN) - (o % QN)) % QWord) % QN = p - o
  <2>1. p % QN \in Int /\ o % QN \in Int
    BY <1>1, ModParts
  <2> DEFINE x == (p % QN) - (o % QN)
  <2>2. x \in Int
    BY <2>1
  <2>3. x % QN = (p - o) % QN
    BY <1>1, ModDifference
  <2> HIDE DEF x
  <2>4. (x % QWord) % QN = x % QN
    BY <1>1, <2>2, ModOfWord
  <2>5. p - o \in Int /\ p - o \in 0 .. QN - 1 /\ p - o = (p - o) + 0 * QN
    BY <1>1
  <2>6. (p - o) % QN = p - o
    BY <1>1, <2>5, ModIs
  <2> QED
    BY <2>3, <2>4, <2>6 DEF x
<1> QED
  BY <1>2, <1>3, <1>4

\* A push leaves the other elements of the last QN where they are.
LEMMA PushPlaces ==
  ASSUME NEW s \in [DropSlots -> Nat], NEW p \in Nat,
         \A e \in 1 .. p : p - e < QN => s[(e - 1) % QN] = e
  PROVE  \A e \in 1 .. p + 1 : (p + 1) - e < QN => [s EXCEPT ![p % QN] = p + 1][(e - 1) % QN] = e
<1> SUFFICES ASSUME NEW e \in 1 .. p + 1, (p + 1) - e < QN
             PROVE  [s EXCEPT ![p % QN] = p + 1][(e - 1) % QN] = e
  OBVIOUS
<1>1. e - 1 \in Nat /\ (e - 1) % QN \in DropSlots /\ p % QN \in DropSlots
  BY RoundNext
<1>2. CASE e = p + 1
  <2>1. e - 1 = p
    BY <1>2
  <2> QED
    BY <1>1, <1>2, <2>1
<1>3. CASE e <= p
  <2>1. e - 1 \in Int /\ p \in Int /\ e - 1 <= p /\ p - (e - 1) < QN /\ e - 1 # p
    BY <1>3, SlotsDivideWord
  <2>2. QN \in Nat \ {0}
    BY SlotsDivideWord
  <2>3. (e - 1) % QN # p % QN
    BY <2>1, <2>2, ModDistinct
  <2>4. e \in 1 .. p /\ p - e < QN
    BY <1>3, <2>2
  <2> QED
    BY <1>1, <2>3, <2>4
<1> QED
  BY <1>2, <1>3

-----------------------------------------------------------------------------
(* The generic queue: the steps.                                           *)

\* What the indices say of the numbering.
LEMMA DropCounts ==
  ASSUME DropInv
  PROVE  /\ pushed \in Nat /\ Left \in Nat /\ LastGiven \in Nat /\ LeftAtLoad \in Nat
         /\ drops \in Nat /\ lost \in Nat
         /\ LastGiven <= Left /\ lost <= Left /\ Left <= pushed /\ pushed - Left <= QN - 1
         /\ pushed - Left < QN - 1 => Left = Latest(LastGiven, lost)
         /\ Empty <=> Left = pushed
         /\ Full <=> pushed - Left = QN - 1
         /\ Cnt = pushed - Left
         /\ chead \in DropSlots /\ ctail \in DropSlots
         /\ (chead + 1) % QN = (pushed + 1) % QN /\ (ctail + 1) % QN = (Left + 1) % QN
<1>1. /\ QN \in Nat /\ QN > 1 /\ pushed \in Nat /\ LastGiven <= pushed /\ drops \in Nat
      /\ given \in Seq(Nat) /\ lost \in Nat /\ lost <= pushed
  BY SlotsDivideWord DEF DropInv, DropTypes
<1>2. LastGiven \in Nat
  BY <1>1 DEF LastGiven
<1> DEFINE g == LastGiven
<1>3. /\ Left \in Nat /\ g <= Left /\ lost <= Left /\ Left <= pushed /\ pushed - Left <= QN - 1
      /\ pushed - Left < QN - 1 => Left = Latest(g, lost)
  <2>1. Left = Latest(Latest(g, pushed - (QN - 1)), lost) /\ g \in Nat /\ g <= pushed
    BY <1>1, <1>2 DEF Left, Gone
  <2> HIDE DEF g
  <2> QED
    BY <1>1, <2>1 DEF Latest
<1>4. LeftAtLoad \in Nat
  <2>1. CASE drops = 0
    BY <1>3, <2>1 DEF LeftAtLoad
  <2>2. CASE drops > 0
    <3>1. popper \in {"tail", "elem"}
      BY <2>2 DEF DropInv, DropTypes, Popping
    <3>2. LastGiven <= LeftAtLoad
      BY <3>1 DEF DropInv, Popping
    <3> QED
      BY <1>1, <1>2, <1>3, <3>2 DEF LeftAtLoad
  <2> QED
    BY <1>1, <2>1, <2>2
<1>5. chead = pushed % QN /\ ctail = Left % QN
  BY DEF DropInv, Placed
<1>6. /\ Empty <=> Left = pushed
      /\ Full <=> pushed - Left = QN - 1
      /\ Cnt = pushed - Left
  BY <1>1, <1>3, <1>5, RoundCounts DEF Empty, Full, Cnt
<1>7. /\ chead \in DropSlots /\ ctail \in DropSlots
      /\ (chead + 1) % QN = (pushed + 1) % QN /\ (ctail + 1) % QN = (Left + 1) % QN
  BY <1>1, <1>3, <1>5, RoundNext
<1> QED
  BY <1>1, <1>2, <1>3, <1>4, <1>6, <1>7

\* The queue starts empty, both sides outside their calls.
LEMMA DropInitGood == DropInit => DropInv
<1> SUFFICES ASSUME DropInit PROVE DropInv
  OBVIOUS
<1>1. /\ slot = [i \in DropSlots |-> 0] /\ chead = 0 /\ ctail = 0 /\ popper = "idle" /\ loaded = <<0, 0>>
      /\ given = <<>> /\ pushed = 0 /\ drops = 0 /\ lost = 0 /\ paniced = (~Empty \/ Full \/ Cnt # 0)
      /\ QN \in Nat /\ QN > 1
  BY SlotsDivideWord DEF DropInit
<1>2. LastGiven = 0 /\ Len(given) = 0
  BY <1>1 DEF LastGiven
<1>3. Left = 0
  BY <1>1, <1>2 DEF Left, Gone, Latest
<1>4. 0 % QN = 0
  <2>1. 0 \in 0 .. QN - 1 /\ QN \in Nat \ {0} /\ 0 = 0 + 0 * QN
    BY <1>1
  <2> QED
    BY <2>1, ModIs
<1>5. /\ (0 % QN = 0 % QN) <=> (0 = 0)
      /\ (((0 % QN) + 1) % QN = 0 % QN) <=> (0 - 0 = QN - 1)
      /\ (((0 % QN) - (0 % QN)) % QWord) % QN = 0 - 0
  BY <1>1, RoundCounts
<1>6. ~paniced
  <2>1. chead = 0 % QN /\ ctail = 0 % QN /\ 0 - 0 = 0 /\ QN - 1 # 0
    BY <1>1, <1>4
  <2>2. Empty /\ ~Full /\ Cnt = 0
    BY <1>5, <2>1 DEF Empty, Full, Cnt
  <2> QED
    BY <1>1, <2>2
<1>7. DropTypes /\ Placed /\ Popping
  BY <1>1, <1>2, <1>3, <1>4 DEF DropTypes, Placed, Popping
<1> QED
  BY <1>1, <1>2, <1>6, <1>7 DEF DropInv

\* pfx_pop, from the test that the queue is not empty to the load of the element.
LEMMA PopsLoad == DropInv /\ (PopBegin \/ PopTail \/ PopLoad) => DropInv'
<1> SUFFICES ASSUME DropInv, PopBegin \/ PopTail \/ PopLoad PROVE DropInv'
  OBVIOUS
<1>1. UNCHANGED <<slot, chead, ctail, given, pushed, drops, lost, paniced>>
  BY DEF PopBegin, PopTail, PopLoad
<1>2. LastGiven' = LastGiven /\ Left' = Left /\ LeftAtLoad' = LeftAtLoad
  BY <1>1 DEF LastGiven, Left, Gone, LeftAtLoad
<1>3. DropTypes /\ Placed /\ Popping /\ ~paniced
  BY DEF DropInv
<1>4. LastGiven <= Left /\ Left <= pushed /\ Left \in Nat /\ pushed \in Nat /\ (Empty <=> Left = pushed)
      /\ LeftAtLoad \in Nat /\ LastGiven \in Nat /\ pushed - Left <= QN - 1 /\ drops \in Nat
  BY DropCounts
<1>5. Placed'
  BY <1>1, <1>2, <1>3 DEF Placed
<1>6. CASE PopBegin
  <2>1. popper = "idle" /\ popper' = "nonempty" /\ loaded' = loaded /\ ~Empty
    BY <1>6 DEF PopBegin
  <2>2. DropTypes'
    BY <1>1, <1>2, <1>3, <2>1 DEF DropTypes
  <2>3. Popping'
    BY <1>1, <1>2, <1>3, <1>4, <2>1 DEF Popping
  <2> QED
    BY <1>1, <1>5, <2>1, <2>2, <2>3 DEF DropInv
<1>7. CASE PopTail
  <2>1. popper = "nonempty" /\ popper' = "tail" /\ loaded' = <<ctail, 0>>
    BY <1>7 DEF PopTail
  <2>2. drops = 0 /\ Left < pushed
    BY <1>3, <2>1 DEF Popping
  <2>3. LeftAtLoad = Left
    BY <1>4, <2>2 DEF LeftAtLoad
  <2>4. ctail = Left % QN
    BY <1>3 DEF Placed
  <2>5. loaded'[1] = ctail /\ loaded' = <<loaded'[1], loaded'[2]>>
    BY <2>1
  <2>6. Popping'
    BY <1>1, <1>2, <1>4, <2>1, <2>2, <2>3, <2>4, <2>5 DEF Popping
  <2>7. DropTypes'
    BY <1>1, <1>2, <1>3, <2>1 DEF DropTypes
  <2> QED
    BY <1>1, <1>5, <2>5, <2>6, <2>7 DEF DropInv
<1>8. CASE PopLoad
  <2>1. popper = "tail" /\ popper' = "elem" /\ loaded' = <<loaded[1], slot[loaded[1]]>>
    BY <1>8 DEF PopLoad
  <2>2. loaded[1] = LeftAtLoad % QN /\ LastGiven <= LeftAtLoad /\ LeftAtLoad < pushed
        /\ (drops > 0 => pushed = Left + QN - 1)
    BY <1>3, <2>1 DEF Popping
  <2>3. PICK e \in LeftAtLoad + 1 .. pushed :
           /\ pushed - e < QN
           /\ (e - 1) % QN = LeftAtLoad % QN /\ e % QN = (LeftAtLoad + 1) % QN
           /\ pushed - (LeftAtLoad + 1) < QN => e = LeftAtLoad + 1
    <3> HIDE DEF LeftAtLoad
    <3> QED
      BY <1>4, <2>2, LastWritten
  <2>4. slot[LeftAtLoad % QN] = e
    BY <1>3, <1>4, <2>3 DEF Placed
  <2>5. drops <= 1 => e = LeftAtLoad + 1
    BY <1>4, <2>2, <2>3, SlotsDivideWord DEF LeftAtLoad
  <2>6. loaded'[1] = loaded[1] /\ loaded'[2] = e /\ loaded' = <<loaded'[1], loaded'[2]>>
    BY <2>1, <2>2, <2>4
  <2>7. Popping'
    BY <1>1, <1>2, <2>1, <2>2, <2>3, <2>5, <2>6 DEF Popping
  <2>8. DropTypes'
    BY <1>1, <1>2, <1>3, <2>1 DEF DropTypes
  <2> QED
    BY <1>1, <1>5, <2>6, <2>7, <2>8 DEF DropInv
<1> QED
  BY <1>6, <1>7, <1>8

\* The store of a pop, in the numbering: it has returned element v; without a
\* drop, or with one, the tail comes behind v, and with more drops behind the
\* last element that was pushed into the slot of v.
LEMMA StoreLeaves ==
  ASSUME DropInv, PopStore
  PROVE  /\ LastGiven' = loaded[2] /\ Left' \in Nat /\ loaded[2] <= Left' /\ Left' <= pushed
         /\ lost' \in Nat /\ lost' <= pushed
         /\ ctail' = Left' % QN
<1> DEFINE o == LeftAtLoad
           v == loaded[2]
           l == lost'
<1>1. /\ popper = "elem" /\ ctail' = (loaded[1] + 1) % QN /\ given' = Append(given, v)
      /\ l = (IF drops > 1 THEN pushed - ((drops - 2) % QN) ELSE lost) /\ pushed' = pushed
  BY DEF PopStore
<1>2. DropTypes /\ Popping
  BY DEF DropInv
<1>3. /\ LastGiven <= Left /\ Left <= pushed /\ Left \in Nat /\ pushed \in Nat /\ drops \in Nat
      /\ o \in Nat /\ LastGiven \in Nat /\ pushed - Left <= QN - 1 /\ lost \in Nat /\ lost <= Left
  BY DropCounts
<1>4. /\ loaded[1] = o % QN /\ v \in o + 1 .. pushed /\ v % QN = (o + 1) % QN
      /\ drops <= 1 => v = o + 1
      /\ LastGiven <= o /\ o < pushed
      /\ drops > 0 => pushed = Left + QN - 1
      /\ o = Left - drops
  BY <1>1, <1>2 DEF Popping, LeftAtLoad
<1>5. QN \in Nat \ {0} /\ QN > 1
  BY SlotsDivideWord
<1>6. LastGiven' = v
  <2>1. v \in Nat /\ given \in Seq(Nat)
    BY <1>2, <1>3, <1>4 DEF DropTypes
  <2> HIDE DEF v
  <2>2. given' # <<>> /\ given'[Len(given')] = v
    BY <1>1, <2>1
  <2> QED
    BY <2>2 DEF LastGiven
<1>7. Left' = Latest(Latest(v, pushed - (QN - 1)), l)
  BY <1>1, <1>6 DEF Left, Gone
<1>8. ctail' = (o + 1) % QN
  <2> HIDE DEF o
  <2> QED
    BY <1>1, <1>3, <1>4, RoundNext
<1>9. CASE drops <= 1
  <2>1. l = lost /\ v = o + 1
    BY <1>1, <1>3, <1>4, <1>9
  <2> HIDE DEF o, l, v
  <2>2. Left' = o + 1
    BY <1>3, <1>4, <1>5, <1>7, <1>9, <2>1 DEF Latest
  <2> QED
    BY <1>3, <1>4, <1>6, <1>8, <2>1, <2>2 DEF l, v
<1>10. CASE drops > 1
  <2> DEFINE d == pushed - (o + 1)
             k == drops - 2
  <2>1. d = k + QN /\ k \in Nat
    BY <1>3, <1>4, <1>5, <1>10
  <2>2. d % QN = k % QN
    <3>1. k % QN \in 0 .. QN - 1 /\ \E j \in Int : k = (k % QN) + j * QN
      <4>1. k \in Int
        BY <2>1
      <4> HIDE DEF k
      <4> QED
        BY <1>5, <4>1, ModParts
    <3>2. PICK j \in Int : k = (k % QN) + j * QN
      BY <3>1
    <3> DEFINE r == k % QN
    <3>3. d = r + (j + 1) * QN /\ d \in Int /\ j + 1 \in Int
      <4>1. k = r + j * QN /\ r \in Int
        BY <3>1, <3>2
      <4> HIDE DEF k, r, d
      <4> QED
        BY <1>5, <2>1, <4>1, SMT
    <3> HIDE DEF r, d, k
    <3>4. r \in 0 .. QN - 1
      BY <3>1 DEF r
    <3> QED
      BY <1>5, <3>3, <3>4, ModIs DEF r
  <2>3. PICK e \in o + 1 .. pushed :
           /\ e = pushed - (d % QN) /\ pushed - e < QN /\ e % QN = (o + 1) % QN
    <3> HIDE DEF o
    <3> QED
      BY <1>3, <1>4, LastWritten
  <2>4. l = e
    BY <1>1, <1>10, <2>2, <2>3
  <2>5. v <= e
    <3>1. SUFFICES ASSUME e < v PROVE FALSE
      BY <1>3, <1>4, <2>3
    <3> HIDE DEF v, o
    <3>2. e \in Int /\ v \in Int /\ e <= v /\ v - e < QN /\ e % QN = v % QN
      BY <1>3, <1>4, <1>5, <2>3, <3>1
    <3>3. e = v
      BY <1>5, <3>2, ModDistinct
    <3> QED
      BY <3>1, <3>2, <3>3
  <2> HIDE DEF o, l, v, d, k
  <2>6. e \in Nat /\ e <= pushed /\ pushed - (QN - 1) <= e /\ v \in Nat
    BY <1>3, <1>4, <1>5, <2>3
  <2>7. Left' = e
    BY <1>3, <1>5, <1>7, <2>4, <2>5, <2>6 DEF Latest
  <2> QED
    BY <1>3, <1>6, <1>8, <2>3, <2>4, <2>5, <2>6, <2>7 DEF l, v
<1> QED
  BY <1>3, <1>9, <1>10

\* pfx_pop's store: the element is newer than the last one given.
LEMMA PopsStore == DropInv /\ PopStore => DropInv'
<1> SUFFICES ASSUME DropInv, PopStore PROVE DropInv'
  OBVIOUS
<1> DEFINE v == loaded[2]
<1>1. /\ popper = "elem" /\ popper' = "idle" /\ given' = Append(given, v) /\ drops' = 0
      /\ UNCHANGED <<slot, chead, loaded, pushed, paniced>>
  BY DEF PopStore
<1>2. DropTypes /\ Placed /\ Popping /\ ~paniced
  BY DEF DropInv
<1>3. pushed \in Nat /\ LeftAtLoad \in Nat /\ LastGiven \in Nat
  BY DropCounts
<1>4. v \in Nat /\ LastGiven < v /\ v <= pushed
  BY <1>1, <1>2, <1>3 DEF Popping
<1>5. /\ LastGiven' = v /\ Left' \in Nat /\ v <= Left' /\ Left' <= pushed
      /\ lost' \in Nat /\ lost' <= pushed /\ ctail' = Left' % QN
  BY StoreLeaves
<1> HIDE DEF v
<1>6. given \in Seq(Nat) /\ given' \in Seq(Nat) /\ Len(given') = Len(given) + 1
      /\ given'[Len(given')] = v /\ given' # <<>>
      /\ \A i \in 1 .. Len(given) : given'[i] = given[i]
  BY <1>1, <1>2, <1>4 DEF DropTypes
<1>7. Placed'
  BY <1>1, <1>2, <1>5 DEF Placed
<1>8. \A i \in 1 .. Len(given') - 1 : given'[i] < given'[i + 1]
  <2> SUFFICES ASSUME NEW i \in 1 .. Len(given) PROVE given'[i] < given'[i + 1]
    BY <1>6
  <2>1. CASE i < Len(given)
    <3>1. i \in 1 .. Len(given) - 1 /\ i + 1 \in 1 .. Len(given)
      BY <1>6, <2>1
    <3>2. given[i] < given[i + 1]
      BY <3>1 DEF DropInv
    <3> QED
      BY <1>6, <3>1, <3>2
  <2>2. CASE i = Len(given)
    <3>1. LastGiven = given[i]
      BY <1>6, <2>2 DEF LastGiven
    <3> QED
      BY <1>3, <1>4, <1>6, <2>2, <3>1
  <2> QED
    BY <1>6, <2>1, <2>2
<1>9. DropTypes'
  BY <1>1, <1>2, <1>4, <1>5, <1>6 DEF DropTypes
<1>10. Popping'
  BY <1>1 DEF Popping
<1> QED
  BY <1>1, <1>2, <1>7, <1>8, <1>9, <1>10 DEF DropInv

\* What a push leaves: a full queue has one more element behind it.
LEMMA PushLeaves ==
  ASSUME DropInv, pushed' = pushed + 1, UNCHANGED <<given, lost>>
  PROVE  Left' = (IF Full THEN Left + 1 ELSE Left) /\ LastGiven' = LastGiven
<1>1. LastGiven' = LastGiven
  BY DEF LastGiven
<1>2. QN \in Nat /\ QN > 1
  BY SlotsDivideWord
<1> DEFINE g == LastGiven
<1>3. /\ pushed \in Nat /\ Left \in Nat /\ g \in Nat /\ g <= Left /\ lost \in Nat /\ lost <= Left
      /\ Left <= pushed /\ pushed - Left <= QN - 1 /\ (Full <=> pushed - Left = QN - 1)
      /\ Left = Latest(Latest(g, pushed - (QN - 1)), lost)
  BY DropCounts DEF Left, Gone
<1>4. Left' = Latest(Latest(g, (pushed + 1) - (QN - 1)), lost)
  BY <1>1 DEF Left, Gone
<1> HIDE DEF g
<1> QED
  BY <1>1, <1>2, <1>3, <1>4 DEF Latest

\* pfx_push and pfx_push_w_drop: the numbering goes on, and a pop in progress
\* still knows the slot it read.
LEMMA PushesGood == DropInv /\ (PushIfRoom \/ PushWDrop) => DropInv'
<1> SUFFICES ASSUME DropInv, PushIfRoom \/ PushWDrop PROVE DropInv'
  OBVIOUS
<1>1. DropTypes /\ Placed /\ Popping /\ ~paniced
  BY DEF DropInv
<1>2. /\ LastGiven <= Left /\ Left <= pushed /\ Left \in Nat /\ pushed \in Nat /\ drops \in Nat
      /\ LeftAtLoad \in Nat /\ LastGiven \in Nat /\ pushed - Left <= QN - 1
      /\ (Empty <=> Left = pushed) /\ (Full <=> pushed - Left = QN - 1)
      /\ chead \in DropSlots /\ (chead + 1) % QN = (pushed + 1) % QN
      /\ (ctail + 1) % QN = (Left + 1) % QN
  BY DropCounts
<1>3. /\ slot' = [slot EXCEPT ![chead] = pushed + 1] /\ chead' = (chead + 1) % QN
      /\ pushed' = pushed + 1 /\ UNCHANGED <<popper, loaded, given, lost>>
  BY DEF PushIfRoom, PushWDrop, Pushed
<1>4. LastGiven' = LastGiven /\ Left' = IF Full THEN Left + 1 ELSE Left
  BY <1>3, PushLeaves
<1>5. QN \in Nat /\ QN > 1
  BY SlotsDivideWord
<1>6. drops > 0 => Full
  BY <1>1, <1>2, <1>5 DEF Popping
<1>7. ctail' = Left' % QN
  <2>1. ctail = Left % QN
    BY <1>1 DEF Placed
  <2>2. CASE PushIfRoom
    BY <1>4, <2>1, <2>2 DEF PushIfRoom
  <2>3. CASE PushWDrop
    BY <1>2, <1>4, <2>1, <2>3 DEF PushWDrop
  <2> QED
    BY <2>2, <2>3
<1>8. ~paniced'
  <2>1. CASE PushIfRoom
    BY <1>1, <2>1 DEF PushIfRoom
  <2>2. CASE PushWDrop
    <3>1. Full => ~Empty
      BY <1>2, <1>5
    <3>2. Full => (chead + 1) % QN # ctail'
      <4>1. SUFFICES ASSUME Full PROVE (pushed + 1) % QN # (Left + 1) % QN
        BY <1>2, <1>4, <1>7
      <4> DEFINE x == Left + 1
                 y == pushed + 1
      <4>2. x \in Nat /\ y \in Nat /\ x <= y /\ y - x <= QN - 1 /\ x # y
        BY <1>2, <1>5, <4>1
      <4> HIDE DEF x, y
      <4>3. y % QN # x % QN
        BY <4>2, RoundCounts
      <4> QED
        BY <4>3 DEF x, y
    <3> QED
      BY <2>2, <3>1, <3>2 DEF PushWDrop
  <2> QED
    BY <2>1, <2>2
<1>9. /\ drops' = (IF Full /\ popper \in {"tail", "elem"} THEN drops + 1 ELSE drops)
      /\ drops' \in Nat /\ drops <= drops'
  <2>1. CASE PushIfRoom
    BY <1>2, <2>1 DEF PushIfRoom
  <2>2. CASE PushWDrop
    BY <1>2, <2>2 DEF PushWDrop
  <2> QED
    BY <2>1, <2>2
<1>10. popper \in {"tail", "elem"} => LeftAtLoad' = LeftAtLoad
  BY <1>2, <1>3, <1>4, <1>9 DEF LeftAtLoad
<1>11. Placed'
  <2>1. chead = pushed % QN /\ slot \in [DropSlots -> Nat]
        /\ \A e \in 1 .. pushed : pushed - e < QN => slot[(e - 1) % QN] = e
    BY <1>1 DEF Placed, DropTypes
  <2>2. \A e \in 1 .. pushed + 1 : (pushed + 1) - e < QN =>
          [slot EXCEPT ![pushed % QN] = pushed + 1][(e - 1) % QN] = e
    BY <1>2, <2>1, PushPlaces
  <2>3. slot' = [slot EXCEPT ![pushed % QN] = pushed + 1]
    BY <1>3, <2>1
  <2>4. \A e \in 1 .. pushed' : pushed' - e < QN => slot'[(e - 1) % QN] = e
    BY <1>3, <2>2, <2>3
  <2>5. chead' = pushed' % QN
    BY <1>2, <1>3
  <2> QED
    BY <1>7, <2>4, <2>5 DEF Placed
<1>12. DropTypes'
  <2>1. slot' \in [DropSlots -> Nat] /\ pushed' \in Nat /\ LastGiven' <= pushed' /\ lost' <= pushed'
    BY <1>1, <1>2, <1>3, <1>4 DEF DropTypes
  <2> QED
    BY <1>1, <1>3, <1>9, <2>1 DEF DropTypes
<1>13. Popping'
  <2>1. popper \in {"idle", "nonempty"} => drops' = 0
    BY <1>1, <1>9 DEF Popping
  <2>2. popper = "nonempty" => Left' < pushed'
    BY <1>1, <1>2, <1>3, <1>4 DEF Popping
  <2>3. popper \in {"tail", "elem"} =>
          loaded[1] = LeftAtLoad' % QN /\ LastGiven' <= LeftAtLoad' /\ LeftAtLoad' < pushed'
    BY <1>1, <1>2, <1>3, <1>4, <1>10 DEF Popping
  <2>4. popper = "elem" =>
          /\ loaded[2] \in LeftAtLoad' + 1 .. pushed'
          /\ loaded[2] % QN = (LeftAtLoad' + 1) % QN
          /\ drops' <= 1 => loaded[2] = LeftAtLoad' + 1
    BY <1>1, <1>2, <1>3, <1>9, <1>10 DEF Popping
  <2>5. drops' > 0 => pushed' = Left' + QN - 1
    BY <1>2, <1>3, <1>4, <1>5, <1>6, <1>9
  <2> QED
    BY <1>3, <2>1, <2>2, <2>3, <2>4, <2>5 DEF Popping
<1> QED
  BY <1>3, <1>8, <1>11, <1>12, <1>13 DEF DropInv

\* The numbering is inductive.
LEMMA DropInvariant == DropSpec => []DropInv
<1>1. DropInv /\ [DropNext]_qvars => DropInv'
  <2> SUFFICES ASSUME DropInv, [DropNext]_qvars PROVE DropInv'
    OBVIOUS
  <2>1. CASE UNCHANGED qvars
    BY <2>1 DEF qvars, DropInv, DropTypes, Placed, Popping, LeftAtLoad, Left, Gone, LastGiven
  <2>2. CASE PopBegin \/ PopTail \/ PopLoad
    BY <2>2, PopsLoad
  <2>3. CASE PopStore
    BY <2>3, PopsStore
  <2>4. CASE PushIfRoom \/ PushWDrop
    BY <2>4, PushesGood
  <2> QED
    BY <2>1, <2>2, <2>3, <2>4 DEF DropNext
<1> QED
  BY <1>1, DropInitGood, PTL DEF DropSpec

\* However many drops overtake a pop, elements leave in the order of the pushes
\* and none twice, nothing panics, and the queue holds the newest elements, all
\* that fit and were pushed after the last one given and the last one lost
\* (circular-T.h:54-67, 103-110), for every number of slots and of pushes.
THEOREM NewestAlwaysInOrder == DropSpec => []NewestInOrder
<1>1. DropInv => NewestInOrder
  <2> SUFFICES ASSUME DropInv PROVE NewestInOrder
    OBVIOUS
  <2>1. /\ pushed \in Nat /\ Left \in Nat /\ Left <= pushed /\ Cnt = pushed - Left
        /\ pushed - Left <= QN - 1
    BY DropCounts
  <2>2. ctail = Left % QN /\ \A e \in 1 .. pushed : pushed - e < QN => slot[(e - 1) % QN] = e
    BY DEF DropInv, Placed
  <2>3. ASSUME NEW i \in 1 .. pushed - Left
        PROVE  Get(i - 1) = Left + i
    <3>1. i - 1 < Cnt /\ i \in Int /\ Left + i \in 1 .. pushed /\ (Left + i) - 1 = Left + (i - 1)
          /\ pushed - (Left + i) < QN
      BY <2>1, SlotsDivideWord
    <3>2. (ctail + (i - 1)) % QN = (Left + (i - 1)) % QN
      <4>1. QN \in Nat \ {0} /\ Left \in Int /\ i - 1 \in Int
        BY <2>1, SlotsDivideWord
      <4> QED
        BY <2>2, <4>1, ModAdd
    <3>3. slot[((Left + i) - 1) % QN] = Left + i
      BY <2>2, <3>1
    <3> QED
      BY <2>1, <3>1, <3>2, <3>3 DEF Get
  <2>4. Held = [i \in 1 .. pushed - Left |-> Left + i]
    BY <2>1, <2>3 DEF Held
  <2>5. /\ ~paniced
        /\ \A i \in 1 .. Len(given) - 1 : given[i] < given[i + 1]
    BY DEF DropInv
  <2> QED
    BY <2>4, <2>5 DEF NewestInOrder, HoldsAfter, Left
<1> QED
  BY <1>1, DropInvariant, PTL

\* The header's promise (circular-T.h:1-3) holds in a program where no second drop
\* comes between the load and the store of a pop: then nothing is lost.
THEOREM OneDropLosesNothing ==
  DropSpec /\ [](drops <= 1) => []NewestKept
<1> DEFINE Few == drops <= 1
           NoneLost == lost = 0
<1>1. NewestInOrder /\ NoneLost /\ DropInv => NewestKept
  <2> SUFFICES ASSUME NewestInOrder, lost = 0, DropTypes PROVE NewestKept
    BY DEF DropInv
  <2>1. QN \in Nat /\ pushed \in Nat /\ LastGiven \in Nat
    BY SlotsDivideWord DEF DropTypes, LastGiven
  <2>2. Latest(Gone, lost) = Gone
    BY <2>1 DEF Gone, Latest
  <2> QED
    BY <2>2 DEF NewestInOrder, NewestKept
<1>2. DropInit => NoneLost
  BY DEF DropInit
<1>3. NoneLost /\ Few /\ DropInv /\ [DropNext]_qvars => NoneLost'
  <2> SUFFICES ASSUME lost = 0, drops <= 1, DropInv, [DropNext]_qvars PROVE lost' = 0
    OBVIOUS
  <2>1. ~(drops > 1)
    BY DEF DropInv, DropTypes
  <2> QED
    BY <2>1 DEF DropNext, qvars, PopBegin, PopTail, PopLoad, PopStore, PushIfRoom, PushWDrop
<1>4. DropSpec /\ []Few => []NewestKept
  <2> HIDE DEF Few, NoneLost
  <2> QED
    BY <1>1, <1>2, <1>3, DropInvariant, NewestAlwaysInOrder, PTL DEF DropSpec
<1> QED
  BY <1>4

-----------------------------------------------------------------------------
(* The generic containers: what a client meets that follows the links or   *)
(* goes through an array.                                                  *)

\* The loop of the iterators from the first element on meets them in order.
LEMMA ForwardsExact ==
  ASSUME NEW S, NEW s \in Seq(S), NEW a, \A i \in 1 .. Len(s) : a[i - 1] = s[i]
  PROVE  Forwards(a, Len(s)) = s
<1> DEFINE n == Len(s)
           h == [i \in 0 .. n |-> SubSeq(s, i + 1, n)]
           W == CHOOSE next : next = [i \in 0 .. n |-> IF i >= n THEN <<>> ELSE <<a[i]>> \o next[i + 1]]
           T == {k \in Nat : k <= n => W[n - k] = h[n - k]}
<1>0. n \in Nat /\ \A i \in 1 .. n : s[i] \in S
  OBVIOUS
<1>1. ASSUME NEW i \in 0 .. n
      PROVE  h[i] = IF i >= n THEN <<>> ELSE <<a[i]>> \o h[i + 1]
  <2>1. CASE i >= n
    BY <2>1
  <2>2. CASE i < n
    <3> DEFINE l == SubSeq(s, i + 1, n)
               r == <<a[i]>> \o SubSeq(s, (i + 1) + 1, n)
    <3>1. i + 1 \in 0 .. n /\ i + 1 \in 1 .. n /\ a[i] = s[i + 1]
      BY <1>0, <2>2
    <3>2. /\ l \in Seq(S) /\ Len(l) = n - i /\ \A j \in 1 .. n - i : l[j] = s[i + j]
      BY <1>0, <2>2
    <3> DEFINE t == SubSeq(s, (i + 1) + 1, n)
    <3>5. t \in Seq(S) /\ Len(t) = n - i - 1 /\ \A j \in 1 .. n - i - 1 : t[j] = s[i + 1 + j]
      BY <1>0, <2>2
    <3>6. r = <<a[i]>> \o t /\ a[i] \in S
      BY <1>0, <3>1
    <3> HIDE DEF t, r
    <3>7. /\ r \in Seq(S) /\ Len(r) = n - i /\ r[1] = a[i]
          /\ \A j \in 2 .. n - i : r[j] = t[j - 1]
      BY <1>0, <2>2, <3>5, <3>6
    <3>8. ASSUME NEW j \in 2 .. n - i PROVE r[j] = s[i + j]
      <4>1. j - 1 \in 1 .. n - i - 1 /\ i + 1 + (j - 1) = i + j
        BY <1>0, <2>2
      <4> QED
        BY <3>5, <3>7, <4>1
    <3>3. /\ r \in Seq(S) /\ Len(r) = n - i /\ \A j \in 1 .. n - i : r[j] = s[i + j]
      <4>1. \A j \in 1 .. n - i : j = 1 \/ j \in 2 .. n - i
        BY <1>0
      <4> QED
        BY <3>1, <3>7, <3>8, <4>1
    <3> HIDE DEF l, r
    <3>4. l = r
      BY <3>2, <3>3, SeqEqual
    <3>9. h[i] = l /\ h[i + 1] = SubSeq(s, (i + 1) + 1, n)
      BY <3>1 DEF l
    <3> HIDE DEF h
    <3> QED
      BY <2>2, <3>4, <3>9 DEF r
  <2> QED
    BY <1>0, <2>1, <2>2
<1>2. h = [i \in 0 .. n |-> IF i >= n THEN <<>> ELSE <<a[i]>> \o h[i + 1]]
  BY <1>1
<1>3. Forwards(a, n) = W[0]
  BY DEF Forwards
<1>4. h[0] = s
  BY <1>0
<1> HIDE DEF h
<1>5. W = [i \in 0 .. n |-> IF i >= n THEN <<>> ELSE <<a[i]>> \o W[i + 1]]
  BY <1>2, Zenon
<1> HIDE DEF W, n
<1>10. \A i \in 0 .. n : W[i] = IF i >= n THEN <<>> ELSE <<a[i]>> \o W[i + 1]
  BY <1>5, Zenon
<1>6. 0 \in T
  <2>1. n - 0 = n /\ n \in 0 .. n /\ n >= n
    BY <1>0
  <2> QED
    BY <1>1, <1>10, <2>1
<1>7. ASSUME NEW k \in T PROVE k + 1 \in T
  <2>1. k \in Nat /\ k + 1 \in Nat
    OBVIOUS
  <2>2. ASSUME k + 1 <= n PROVE W[n - (k + 1)] = h[n - (k + 1)]
    <3> DEFINE i == n - (k + 1)
    <3>1. i \in 0 .. n /\ i + 1 = n - k /\ i < n /\ k <= n
      BY <1>0, <2>1, <2>2
    <3>2. W[i + 1] = h[i + 1]
      BY <3>1
    <3> HIDE DEF i
    <3>3. W[i] = <<a[i]>> \o W[i + 1] /\ h[i] = <<a[i]>> \o h[i + 1]
      <4>1. ~ (i >= n)
        BY <1>0, <3>1
      <4> QED
        BY <1>1, <1>10, <3>1, <4>1
    <3> QED
      BY <3>2, <3>3 DEF i
  <2> QED
    BY <2>1, <2>2
<1>8. T = Nat
  <2>1. T \subseteq Nat
    OBVIOUS
  <2> HIDE DEF T
  <2> QED
    BY <1>6, <1>7, <2>1, Descent
<1>9. W[0] = h[0]
  <2>1. n \in T /\ n - n = 0 /\ n <= n
    <3> HIDE DEF T
    <3> QED
      BY <1>0, <1>8
  <2> QED
    BY <2>1
<1> QED
  BY <1>3, <1>4, <1>9 DEF n

\* From the last element back, in reverse order.
LEMMA BackwardsExact ==
  ASSUME NEW S, NEW s \in Seq(S), NEW a, \A i \in 1 .. Len(s) : a[i - 1] = s[i]
  PROVE  Backwards(a, Len(s)) = Reverse(s)
<1> DEFINE n == Len(s)
           h == [i \in -1 .. n - 1 |-> [j \in 1 .. i + 1 |-> s[(i + 1 - j) + 1]]]
           W == CHOOSE prev : prev = [i \in -1 .. n - 1 |-> IF i < 0 THEN <<>> ELSE <<a[i]>> \o prev[i - 1]]
           T == {k \in Nat : k <= n => W[k - 1] = h[k - 1]}
<1>0. n \in Nat /\ \A i \in 1 .. n : s[i] \in S
  OBVIOUS
<1>1. ASSUME NEW i \in -1 .. n - 1
      PROVE  h[i] = IF i < 0 THEN <<>> ELSE <<a[i]>> \o h[i - 1]
  <2>1. CASE i < 0
    <3>1. i = -1 /\ i + 1 = 0
      BY <1>0, <2>1
    <3>2. h[i] \in Seq(S) /\ Len(h[i]) = 0
      BY <3>1
    <3> QED
      BY <2>1, <3>2, EmptySeq
  <2>2. CASE i >= 0
    <3> DEFINE l == [j \in 1 .. i + 1 |-> s[(i + 1 - j) + 1]]
               t == [j \in 1 .. (i - 1) + 1 |-> s[((i - 1) + 1 - j) + 1]]
               r == <<a[i]>> \o t
    <3>1. i - 1 \in -1 .. n - 1 /\ i + 1 \in 1 .. n /\ a[i] = s[i + 1]
      <4>1. i - 1 \in -1 .. n - 1 /\ i + 1 \in 1 .. n /\ (i + 1) - 1 = i
        BY <1>0, <2>2
      <4> QED
        BY <4>1
    <3>2. l \in Seq(S) /\ Len(l) = i + 1 /\ \A j \in 1 .. i + 1 : l[j] = s[(i + 1 - j) + 1]
      <4>1. \A j \in 1 .. i + 1 : (i + 1 - j) + 1 \in 1 .. n
        BY <1>0, <2>2
      <4> QED
        BY <1>0, <2>2, <4>1
    <3>3. t \in Seq(S) /\ Len(t) = i /\ \A j \in 1 .. i : t[j] = s[((i - 1) + 1 - j) + 1]
      <4>1. (i - 1) + 1 = i /\ \A j \in 1 .. i : ((i - 1) + 1 - j) + 1 \in 1 .. n
        BY <1>0, <2>2
      <4> QED
        BY <1>0, <2>2, <4>1
    <3> HIDE DEF l, t
    <3>4. r \in Seq(S) /\ Len(r) = i + 1 /\ \A j \in 1 .. i + 1 : r[j] = s[(i + 1 - j) + 1]
      <4>1. r \in Seq(S) /\ Len(r) = i + 1
        BY <1>0, <2>2, <3>1, <3>3
      <4>2. r[1] = s[i + 1]
        BY <1>0, <2>2, <3>1, <3>3
      <4>3. ASSUME NEW j \in 2 .. i + 1 PROVE r[j] = s[(i + 1 - j) + 1]
        <5>1. j - 1 \in 1 .. i /\ ((i - 1) + 1 - (j - 1)) + 1 = (i + 1 - j) + 1
          BY <2>2
        <5>2. r[j] = t[j - 1]
          BY <1>0, <2>2, <3>1, <3>3
        <5> QED
          BY <3>3, <5>1, <5>2
      <4>4. \A j \in 1 .. i + 1 : (j = 1 /\ i + 1 = (i + 1 - j) + 1) \/ j \in 2 .. i + 1
        BY <2>2
      <4> QED
        BY <4>1, <4>2, <4>3, <4>4
    <3>5. l = r
      <4> HIDE DEF r
      <4> QED
        BY <3>2, <3>4, SeqEqual
    <3>6. h[i] = l /\ h[i - 1] = t
      BY <3>1 DEF l, t
    <3>7. ~ (i < 0)
      BY <2>2
    <3> HIDE DEF h
    <3> QED
      BY <3>5, <3>6, <3>7
  <2> QED
    BY <1>0, <2>1, <2>2
<1>2. h = [i \in -1 .. n - 1 |-> IF i < 0 THEN <<>> ELSE <<a[i]>> \o h[i - 1]]
  BY <1>1
<1>3. Backwards(a, n) = W[n - 1]
  BY DEF Backwards
<1>4. h[n - 1] = Reverse(s)
  <2>1. n - 1 \in -1 .. n - 1 /\ (n - 1) + 1 = n
    BY <1>0
  <2> QED
    BY <2>1 DEF Reverse
<1> HIDE DEF h
<1>5. W = [i \in -1 .. n - 1 |-> IF i < 0 THEN <<>> ELSE <<a[i]>> \o W[i - 1]]
  BY <1>2, Zenon
<1> HIDE DEF W, n
<1>10. \A i \in -1 .. n - 1 : W[i] = IF i < 0 THEN <<>> ELSE <<a[i]>> \o W[i - 1]
  BY <1>5, Zenon
<1>6. 0 \in T
  <2>1. 0 - 1 \in -1 .. n - 1 /\ 0 - 1 < 0
    BY <1>0
  <2> QED
    BY <1>1, <1>10, <2>1
<1>7. ASSUME NEW k \in T PROVE k + 1 \in T
  <2>1. k \in Nat /\ k + 1 \in Nat /\ (k + 1) - 1 = k
    OBVIOUS
  <2>2. ASSUME k + 1 <= n PROVE W[k] = h[k]
    <3>1. k \in -1 .. n - 1 /\ ~ (k < 0) /\ k <= n
      BY <1>0, <2>1, <2>2
    <3>2. W[k - 1] = h[k - 1]
      BY <3>1
    <3>3. W[k] = <<a[k]>> \o W[k - 1] /\ h[k] = <<a[k]>> \o h[k - 1]
      BY <1>1, <1>10, <3>1
    <3> QED
      BY <3>2, <3>3
  <2> QED
    BY <2>1, <2>2
<1>8. T = Nat
  <2>1. T \subseteq Nat
    OBVIOUS
  <2> HIDE DEF T
  <2> QED
    BY <1>6, <1>7, <2>1, Descent
<1>9. W[n - 1] = h[n - 1]
  <2>1. n \in T /\ n <= n
    <3> HIDE DEF T
    <3> QED
      BY <1>0, <1>8
  <2> QED
    BY <2>1
<1> QED
  BY <1>3, <1>4, <1>9 DEF n

\* A sequence of different elements is no longer than there are elements.
LEMMA NoLonger ==
  ASSUME NEW S, IsFiniteSet(S), NEW q \in Seq(S), IsInjective(q)
  PROVE  Len(q) <= Cardinality(S) /\ Cardinality(S) \in Nat
<1>1. ToSet(q) \in SUBSET S
  BY DEF ToSet
<1>2. IsFiniteSet(ToSet(q)) /\ Cardinality(ToSet(q)) = Len(q)
  BY DistinctCount
<1> QED
  BY <1>1, <1>2, FS_Subset, FS_CardinalityType

\* A client that follows the links of a list meets its elements in order.
LEMMA LinkedExact ==
  ASSUME NEW q \in Seq(LElems), IsInjective(q),
         NEW first, NEW last, Spells(first, last, lnext, q, LNull)
  PROVE  Linked(first) = q
<1> DEFINE n == Len(q)
           K == Cardinality(LElems)
           x == Append(q, LNull)
           upto(i) == IF i <= n THEN i + 1 ELSE n + 1
           h == [i \in 0 .. K |-> SubSeq(x, 1, upto(i))]
           step(w) == IF Last(w) = LNull THEN w ELSE Append(w, lnext[Last(w)])
           W == CHOOSE walk : walk = [i \in 0 .. K |-> IF i = 0 THEN <<first>> ELSE step(walk[i - 1])]
           T == {k \in Nat : k <= K => W[k] = h[k]}
           S == LElems \cup {LNull}
<1>0. /\ n \in Nat /\ K \in Nat /\ n <= K
      /\ \A i \in 1 .. n : q[i] \in LElems /\ q[i] # LNull
  BY ElementsAssumption, NoLonger
<1>1. /\ x \in Seq(S) /\ Len(x) = n + 1 /\ x[n + 1] = LNull
      /\ \A i \in 1 .. n : x[i] = q[i]
  <2>1. q \in Seq(S) /\ LNull \in S
    OBVIOUS
  <2> HIDE DEF S
  <2> QED
    BY <1>0, <2>1
<1>2. /\ first = x[1]
      /\ \A i \in 1 .. n : lnext[x[i]] = x[i + 1]
  <2>1. q = <<>> => n = 0 /\ first = LNull
    BY DEF Spells
  <2>2. q # <<>> => n >= 1 /\ first = q[1]
    BY <1>0 DEF Spells
  <2>3. \A i \in 1 .. n : lnext[q[i]] = IF i = n THEN LNull ELSE q[i + 1]
    BY DEF Spells
  <2> QED
    BY <1>0, <1>1, <2>1, <2>2, <2>3
<1>3. Front(x) = q
  <2>1. Front(x) \in Seq(S) /\ Len(Front(x)) = n /\ \A i \in 1 .. n : Front(x)[i] = q[i]
    BY <1>0, <1>1 DEF Front
  <2>2. q \in Seq(S)
    OBVIOUS
  <2> HIDE DEF x, S
  <2> QED
    BY <2>1, <2>2, SeqEqual
<1> HIDE DEF x, S
<1>4. h[0] = <<first>>
  <2> DEFINE f == SubSeq(x, 1, 1)
  <2>1. 0 \in 0 .. K /\ upto(0) = 1
    BY <1>0
  <2>2. h[0] = f
    BY <2>1
  <2> HIDE DEF h
  <2>3. f \in Seq(S) /\ Len(f) = 1 /\ f[1] = first
    BY <1>0, <1>1, <1>2
  <2> HIDE DEF f
  <2>4. f = <<first>>
    BY <2>3
  <2> QED
    BY <2>2, <2>4
<1>5. ASSUME NEW i \in 1 .. K PROVE h[i] = step(h[i - 1])
  <2> DEFINE m == upto(i - 1)
             w == SubSeq(x, 1, m)
  <2>1. m \in 1 .. n + 1 /\ i - 1 \in 0 .. K /\ i \in 0 .. K
    BY <1>0
  <2>2. w \in Seq(S) /\ Len(w) = m /\ \A j \in 1 .. m : w[j] = x[j]
    BY <1>1, <2>1
  <2>3. Last(w) = x[m]
    BY <2>1, <2>2 DEF Last
  <2>4. CASE m = n + 1
    <3>1. Last(w) = LNull /\ upto(i) = n + 1
      BY <1>0, <1>1, <2>3, <2>4
    <3> QED
      BY <2>1, <2>4, <3>1
  <2>5. CASE m # n + 1
    <3>1. m \in 1 .. n /\ upto(i) = m + 1
      BY <1>0, <2>1, <2>5
    <3>2. Last(w) # LNull /\ lnext[Last(w)] = x[m + 1]
      BY <1>0, <1>1, <1>2, <2>3, <3>1
    <3>3. SubSeq(x, 1, m + 1) = Append(w, x[m + 1])
      <4> DEFINE l == SubSeq(x, 1, m + 1)
                 r == Append(w, x[m + 1])
      <4> HIDE DEF w, m
      <4>1. l \in Seq(S) /\ Len(l) = m + 1 /\ \A j \in 1 .. m + 1 : l[j] = x[j]
        BY <1>0, <1>1, <3>1
      <4>2. r \in Seq(S) /\ Len(r) = m + 1 /\ \A j \in 1 .. m + 1 : r[j] = x[j]
        BY <1>0, <1>1, <2>2, <3>1
      <4> HIDE DEF l, r
      <4>3. l = r
        BY <4>1, <4>2, SeqEqual
      <4> QED
        BY <4>3 DEF l, r
    <3> QED
      BY <2>1, <3>1, <3>2, <3>3
  <2> QED
    BY <2>4, <2>5
<1>6. h = [i \in 0 .. K |-> IF i = 0 THEN <<first>> ELSE step(h[i - 1])]
  <2>1. \A i \in 0 .. K : i = 0 \/ i \in 1 .. K
    BY <1>0
  <2> QED
    BY <1>4, <1>5, <2>1
<1>7. Linked(first) = Front(W[K])
  BY DEF Linked
<1>8. h[K] = x
  <2>1. upto(K) = n + 1 /\ K \in 0 .. K
    BY <1>0
  <2> QED
    BY <1>0, <1>1, <2>1
<1> HIDE DEF h
<1>9. W = [i \in 0 .. K |-> IF i = 0 THEN <<first>> ELSE step(W[i - 1])]
  BY <1>6, Zenon
<1> HIDE DEF W, K
<1>10. 0 \in T
  BY <1>0, <1>4, <1>9
<1>11. ASSUME NEW k \in T PROVE k + 1 \in T
  <2>1. k \in Nat /\ k + 1 \in Nat /\ (k + 1) - 1 = k
    OBVIOUS
  <2>2. ASSUME k + 1 <= K PROVE W[k + 1] = h[k + 1]
    <3>1. k + 1 \in 1 .. K /\ k + 1 \in 0 .. K /\ k + 1 # 0
      BY <1>0, <2>1, <2>2
    <3>2. W[k] = h[k]
      BY <1>0, <2>1, <2>2
    <3>3. W[k + 1] = step(W[k]) /\ h[k + 1] = step(h[k])
      BY <1>5, <1>9, <2>1, <3>1
    <3> QED
      BY <3>2, <3>3
  <2> QED
    BY <2>1, <2>2
<1>12. T = Nat
  <2>1. T \subseteq Nat
    OBVIOUS
  <2> HIDE DEF T
  <2> QED
    BY <1>10, <1>11, <2>1, Descent
<1>13. W[K] = h[K]
  BY <1>0, <1>12
<1> QED
  BY <1>3, <1>7, <1>8, <1>13

-----------------------------------------------------------------------------
(* Queue and list take elements with the links they had: each store that   *)
(* changes a link changes that of the new element or of the one before it. *)

ListLast == IF lseq = <<>> THEN LNull ELSE lseq[Len(lseq)]

LinksGood ==
  /\ qseq \in Seq(LElems) /\ lseq \in Seq(LElems)
  /\ IsInjective(qseq) /\ IsInjective(lseq) /\ ToSet(qseq) \cap ToSet(lseq) = {}
  /\ lnext \in [LElems -> LElems \cup {LNull}]
  /\ qcnt = Len(qseq)
  /\ Spells(qhead, qtail, lnext, qseq, LNull)
  /\ Spells(llist, ListLast, lnext, lseq, LNull)

\* Links elsewhere do not matter to a list.
LEMMA SpellsElsewhere ==
  ASSUME NEW S, NEW null, NEW q \in Seq(S), NEW first, NEW last, NEW link, NEW link2,
         Spells(first, last, link, q, null), \A x \in ToSet(q) : link2[x] = link[x]
  PROVE  Spells(first, last, link2, q, null)
<1>1. \A i \in 1 .. Len(q) : q[i] \in ToSet(q)
  BY DEF ToSet
<1> QED
  BY <1>1 DEF Spells

\* The fields of the queue's struct.
LEMMA QueueFields ==
  ASSUME LinksGood
  PROVE  /\ qhead \in LElems \cup {LNull} /\ qtail \in LElems \cup {LNull}
         /\ qtail = LNull <=> qseq = <<>>
         /\ qhead = LNull <=> qseq = <<>>
         /\ qseq # <<>> => qhead = qseq[1] /\ qtail = qseq[Len(qseq)] /\ Len(qseq) \in 1 .. Len(qseq)
         /\ llist \in LElems \cup {LNull} /\ (llist = LNull <=> lseq = <<>>)
<1>1. /\ qseq \in Seq(LElems) /\ Spells(qhead, qtail, lnext, qseq, LNull)
      /\ lseq \in Seq(LElems) /\ Spells(llist, ListLast, lnext, lseq, LNull)
      /\ LNull \notin LElems
  BY ElementsAssumption DEF LinksGood
<1>2. /\ qhead = LNull <=> qseq = <<>>
      /\ qtail = LNull <=> qseq = <<>>
      /\ qseq # <<>> => /\ qhead = qseq[1] /\ qtail = qseq[Len(qseq)]
                        /\ qhead \in LElems /\ qtail \in LElems /\ Len(qseq) \in 1 .. Len(qseq)
  BY <1>1, SpellsProps
<1>3. /\ llist = LNull <=> lseq = <<>>
      /\ lseq # <<>> => llist = lseq[1] /\ 1 \in 1 .. Len(lseq) /\ lseq[1] \in LElems
  BY <1>1, SpellsProps
<1> QED
  BY <1>2, <1>3

\* The queue takes a new element at place k.
LEMMA QueueTakes ==
  ASSUME LinksGood, NEW e \in Unlinked, NEW k \in 1 .. Len(qseq) + 1,
         qcnt' = qcnt + 1, qseq' = InsertAt(qseq, k, e), UNCHANGED <<llist, lseq>>,
         lnext' \in [LElems -> LElems \cup {LNull}],
         k = 1 => qhead' = e, k > 1 => qhead' = qhead,
         k = Len(qseq) + 1 => qtail' = e, k <= Len(qseq) => qtail' = qtail,
         lnext'[e] = IF k = Len(qseq) + 1 THEN LNull ELSE qseq[k],
         k > 1 => lnext'[qseq[k - 1]] = e,
         \A x \in LElems : x # e /\ (k > 1 => x # qseq[k - 1]) => lnext'[x] = lnext[x]
  PROVE  LinksGood'
<1> DEFINE q2 == InsertAt(qseq, k, e)
<1>1. /\ qseq \in Seq(LElems) /\ lseq \in Seq(LElems)
      /\ IsInjective(qseq) /\ IsInjective(lseq) /\ ToSet(qseq) \cap ToSet(lseq) = {}
      /\ qcnt = Len(qseq)
      /\ Spells(qhead, qtail, lnext, qseq, LNull)
      /\ Spells(llist, ListLast, lnext, lseq, LNull)
  BY DEF LinksGood
<1>2. e \in LElems /\ e \notin ToSet(qseq) /\ e \notin ToSet(lseq)
  BY DEF Unlinked
<1>3. q2 \in Seq(LElems) /\ Len(q2) = Len(qseq) + 1
  BY <1>1, <1>2, InsertAtProps
<1>4. ToSet(q2) = ToSet(qseq) \cup {e} /\ IsInjective(q2)
  BY <1>1, <1>2, InsertAtSet
<1>5. Spells(qhead', qtail', lnext', q2, LNull)
  <2> HIDE DEF q2
  <2>1. Spells(qhead', qtail', lnext', InsertAt(qseq, k, e), LNull)
    BY <1>1, <1>2, SpellsInsert
  <2> QED
    BY <2>1 DEF q2
<1>6. \A x \in ToSet(lseq) : lnext'[x] = lnext[x]
  <2> SUFFICES ASSUME NEW x \in ToSet(lseq) PROVE lnext'[x] = lnext[x]
    OBVIOUS
  <2>1. x \in LElems /\ x # e /\ x \notin ToSet(qseq)
    <3>1. x \in LElems
      BY <1>1 DEF ToSet
    <3> QED
      BY <1>1, <1>2, <3>1
  <2>2. k > 1 => qseq[k - 1] \in ToSet(qseq)
    <3>1. k > 1 => k - 1 \in DOMAIN qseq
      BY <1>1
    <3> QED
      BY <3>1 DEF ToSet
  <2> QED
    BY <2>1, <2>2
<1>7. Spells(llist, ListLast, lnext', lseq, LNull)
  BY <1>1, <1>6, SpellsElsewhere
<1>8. llist' = llist /\ lseq' = lseq /\ ListLast' = ListLast /\ qseq' = q2
  BY DEF ListLast
<1>9. ToSet(q2) \cap ToSet(lseq) = {}
  BY <1>1, <1>2, <1>4
<1> HIDE DEF q2
<1> QED
  BY <1>1, <1>3, <1>4, <1>5, <1>7, <1>8, <1>9 DEF LinksGood

\* Pushed at the front.
LEMMA PushedFirst ==
  ASSUME LinksGood, NEW e \in Unlinked, Q_pushed(e), qseq' = <<e>> \o qseq,
         UNCHANGED <<llist, lseq>>
  PROVE  LinksGood'
<1>1. qseq \in Seq(LElems) /\ lnext \in [LElems -> LElems \cup {LNull}] /\ e \in LElems
  BY DEF LinksGood, Unlinked
<1>2. qseq' = InsertAt(qseq, 1, e)
  BY <1>1, EndsAreInsertAt
<1>3. /\ qcnt' = qcnt + 1 /\ lnext' = [lnext EXCEPT ![e] = qhead]
      /\ qhead' = e /\ qtail' = IF qtail = LNull THEN e ELSE qtail
  BY DEF Q_pushed
<1>4. lnext' \in [LElems -> LElems \cup {LNull}]
  BY <1>1, <1>3, QueueFields
<1>5. lnext'[e] = qhead /\ \A x \in LElems : x # e => lnext'[x] = lnext[x]
  BY <1>1, <1>3
<1>6. /\ qseq = <<>> <=> Len(qseq) = 0
      /\ Len(qseq) \in Nat
  BY <1>1
<1>7. CASE qseq = <<>>
  <2>1. qhead = LNull /\ qtail' = e /\ 1 = Len(qseq) + 1
    BY <1>3, <1>6, <1>7, QueueFields
  <2> QED
    BY <1>2, <1>3, <1>4, <1>5, <1>6, <2>1, QueueTakes
<1>8. CASE qseq # <<>>
  <2>1. qhead = qseq[1] /\ qtail' = qtail /\ 1 # Len(qseq) + 1
    BY <1>3, <1>6, <1>8, QueueFields
  <2> QED
    BY <1>2, <1>3, <1>4, <1>5, <1>6, <2>1, QueueTakes
<1> QED
  BY <1>7, <1>8

\* Appended at the end.
LEMMA AppendedLast ==
  ASSUME LinksGood, NEW e \in Unlinked, Q_appended(e), qseq' = InsertAt(qseq, Len(qseq) + 1, e),
         UNCHANGED <<llist, lseq>>
  PROVE  LinksGood'
<1> DEFINE n == Len(qseq)
<1>1. /\ qseq \in Seq(LElems) /\ lnext \in [LElems -> LElems \cup {LNull}]
      /\ e \in LElems /\ e \notin ToSet(qseq) /\ n \in Nat /\ (qseq = <<>> <=> n = 0)
  BY DEF LinksGood, Unlinked
<1>2. /\ qcnt' = qcnt + 1
      /\ lnext' = IF qtail = LNull THEN [lnext EXCEPT ![e] = LNull]
                  ELSE [lnext EXCEPT ![e] = LNull, ![qtail] = e]
      /\ qhead' = IF qtail = LNull THEN e ELSE qhead
      /\ qtail' = e
  BY DEF Q_appended
<1>3. CASE qseq = <<>>
  <2>1. qtail = LNull /\ n + 1 = 1
    BY <1>1, <1>3, QueueFields
  <2>2. lnext' = [lnext EXCEPT ![e] = LNull] /\ qhead' = e
    BY <1>2, <2>1
  <2>3. /\ lnext' \in [LElems -> LElems \cup {LNull}] /\ lnext'[e] = LNull
        /\ \A x \in LElems : x # e => lnext'[x] = lnext[x]
    BY <1>1, <2>2
  <2>4. ~ (n + 1 > 1) /\ ~ (n + 1 <= n) /\ n + 1 \in 1 .. n + 1
    BY <1>1, <2>1
  <2> QED
    BY <1>2, <2>1, <2>2, <2>3, <2>4, QueueTakes
<1>4. CASE qseq # <<>>
  <2>1. qtail # LNull /\ qtail = qseq[n] /\ n \in 1 .. n /\ qtail \in LElems
    BY <1>4, QueueFields
  <2>2. qtail # e
    BY <1>1, <2>1 DEF ToSet
  <2>3. lnext' = [lnext EXCEPT ![e] = LNull, ![qtail] = e] /\ qhead' = qhead
    BY <1>2, <2>1
  <2>4. /\ lnext' \in [LElems -> LElems \cup {LNull}] /\ lnext'[e] = LNull /\ lnext'[qtail] = e
        /\ \A x \in LElems : x # e /\ x # qtail => lnext'[x] = lnext[x]
    BY <1>1, <2>1, <2>2, <2>3
  <2>5. (n + 1) - 1 = n /\ n + 1 > 1 /\ ~ (n + 1 = 1) /\ ~ (n + 1 <= n) /\ n + 1 \in 1 .. n + 1
    BY <1>1, <2>1
  <2> HIDE DEF n
  <2>6. qseq[(n + 1) - 1] = qtail
    BY <2>1, <2>5
  <2> QED
    BY <1>2, <2>3, <2>4, <2>5, <2>6, QueueTakes DEF n
<1> QED
  BY <1>3, <1>4

\* Taking the first element of the queue leaves both lists linked.
LEMMA PopsLink == LinksGood /\ Q_pop => LinksGood'
<1> SUFFICES ASSUME LinksGood, Q_pop PROVE LinksGood'
  OBVIOUS
<1>1. /\ qseq \in Seq(LElems) /\ lseq \in Seq(LElems)
      /\ IsInjective(qseq) /\ IsInjective(lseq) /\ ToSet(qseq) \cap ToSet(lseq) = {}
      /\ lnext \in [LElems -> LElems \cup {LNull}]
      /\ qcnt = Len(qseq)
      /\ Spells(qhead, qtail, lnext, qseq, LNull)
      /\ Spells(llist, ListLast, lnext, lseq, LNull)
  BY DEF LinksGood
<1>2. /\ qhead # LNull /\ qcnt' = qcnt - 1 /\ qhead' = lnext[qhead]
      /\ qtail' = IF lnext[qhead] = LNull THEN LNull ELSE qtail
      /\ qseq' = Tail(qseq) /\ lnext' = lnext /\ llist' = llist /\ lseq' = lseq
  BY DEF Q_pop
<1>3. qseq # <<>> /\ LNull \notin LElems
  BY <1>2, QueueFields, ElementsAssumption
<1>4. Spells(qhead', qtail', lnext, qseq', LNull)
  <2>1. Spells(lnext[qhead], IF lnext[qhead] = LNull THEN LNull ELSE qtail, lnext, Tail(qseq), LNull)
    BY <1>1, <1>3, SpellsTail
  <2> QED
    BY <1>2, <2>1
<1>5. ToSet(qseq') \subseteq ToSet(qseq) /\ IsInjective(qseq')
  BY <1>1, <1>2, <1>3, TailSet
<1>6. qseq' \in Seq(LElems) /\ Len(qseq') = Len(qseq) - 1
  BY <1>1, <1>2, <1>3
<1>7. ListLast' = ListLast
  BY <1>2 DEF ListLast
<1>8. ToSet(qseq') \cap ToSet(lseq') = {}
  BY <1>1, <1>2, <1>5
<1>9. qcnt' = Len(qseq')
  BY <1>1, <1>2, <1>6
<1> QED
  BY <1>1, <1>2, <1>4, <1>5, <1>6, <1>7, <1>8, <1>9 DEF LinksGood

\* So does adding an element to it, at either end or behind another.
LEMMA InsertsLink == LinksGood /\ (Q_push \/ Q_append \/ Q_insert_after) => LinksGood'
<1> SUFFICES ASSUME LinksGood, Q_push \/ Q_append \/ Q_insert_after PROVE LinksGood'
  OBVIOUS
<1> DEFINE n == Len(qseq)
<1>1. /\ qseq \in Seq(LElems) /\ lnext \in [LElems -> LElems \cup {LNull}]
      /\ IsInjective(qseq) /\ n \in Nat /\ DOMAIN qseq = 1 .. n
      /\ Spells(qhead, qtail, lnext, qseq, LNull)
  BY DEF LinksGood
<1>2. CASE Q_push
  <2>1. PICK e \in Unlinked : Q_pushed(e) /\ qseq' = <<e>> \o qseq /\ UNCHANGED <<llist, lseq>>
    BY <1>2 DEF Q_push
  <2> QED
    BY <2>1, PushedFirst
<1>3. CASE Q_append
  <2>1. PICK e \in Unlinked : Q_appended(e) /\ qseq' = Append(qseq, e) /\ UNCHANGED <<llist, lseq>>
    BY <1>3 DEF Q_append
  <2>2. e \in LElems
    BY DEF Unlinked
  <2>3. qseq' = InsertAt(qseq, Len(qseq) + 1, e)
    BY <1>1, <2>1, <2>2, EndsAreInsertAt
  <2> QED
    BY <2>1, <2>3, AppendedLast
<1>4. CASE Q_insert_after
  <2> DEFINE place(e) == CHOOSE i \in DOMAIN qseq : qseq[i] = e
  <2>1. PICK e \in ToSet(qseq) \cup {LNull}, e_new \in Unlinked :
          /\ \/ e = LNull /\ Q_pushed(e_new)
             \/ e # LNull /\ qtail = e /\ Q_appended(e_new)
             \/ /\ e # LNull /\ qtail # e
                /\ qcnt' = qcnt + 1
                /\ lnext' = [lnext EXCEPT ![e_new] = lnext[e], ![e] = e_new]
                /\ UNCHANGED <<qhead, qtail>>
          /\ qseq' = IF e = LNull THEN <<e_new>> \o qseq
                     ELSE InsertAt(qseq, place(e) + 1, e_new)
          /\ UNCHANGED <<llist, lseq>>
    BY <1>4 DEF Q_insert_after
  <2>2. CASE e = LNull
    BY <2>1, <2>2, PushedFirst
  <2>3. CASE e # LNull
    <3> DEFINE k == place(e)
    <3>1. k \in 1 .. n /\ qseq[k] = e
      <4>1. \E i \in DOMAIN qseq : qseq[i] = e
        BY <2>3 DEF ToSet
      <4> QED
        BY <1>1, <4>1
    <3> HIDE DEF k
    <3>2. qseq' = InsertAt(qseq, k + 1, e_new)
      BY <2>1, <2>3 DEF k
    <3>3. e \in LElems /\ e_new \in LElems /\ e_new # e
      BY <1>1, <3>1 DEF Unlinked, ToSet
    <3>4. qseq # <<>> /\ qtail = qseq[n] /\ n \in 1 .. n
      <4>1. qseq # <<>>
        BY <1>1, <3>1
      <4> QED
        BY <4>1, QueueFields
    <3>5. CASE qtail = e
      <4>1. k = n
        BY <1>1, <3>1, <3>4, <3>5 DEF IsInjective
      <4> QED
        BY <2>1, <2>3, <3>2, <3>5, <4>1, AppendedLast
    <3>6. CASE qtail # e
      <4>1. /\ qcnt' = qcnt + 1 /\ lnext' = [lnext EXCEPT ![e_new] = lnext[e], ![e] = e_new]
            /\ qhead' = qhead /\ qtail' = qtail /\ UNCHANGED <<llist, lseq>>
        BY <2>1, <2>3, <3>6
      <4>2. k # n
        BY <3>1, <3>4, <3>6
      <4>3. lnext[e] = qseq[k + 1]
        BY <1>1, <3>1, <4>2 DEF Spells
      <4>4. /\ lnext' \in [LElems -> LElems \cup {LNull}]
            /\ lnext'[e_new] = qseq[k + 1] /\ lnext'[e] = e_new
            /\ \A x \in LElems : x # e_new /\ x # e => lnext'[x] = lnext[x]
        BY <1>1, <3>3, <4>1, <4>3
      <4> DEFINE m == k + 1
      <4>5. /\ m \in 1 .. n + 1 /\ m - 1 = k /\ m > 1 /\ m # 1 /\ m # n + 1 /\ m <= n
        <5> HIDE DEF n
        <5>1. n \in Nat /\ k \in 1 .. n
          BY <1>1, <3>1
        <5> QED
          BY <4>2, <5>1
      <4>6. /\ qseq' = InsertAt(qseq, m, e_new) /\ qseq[m - 1] = e /\ lnext'[e_new] = qseq[m]
        BY <3>1, <3>2, <4>4, <4>5
      <4> HIDE DEF m
      <4> QED
        BY <4>1, <4>4, <4>5, <4>6, QueueTakes
    <3> QED
      BY <3>5, <3>6
  <2> QED
    BY <2>2, <2>3
<1> QED
  BY <1>2, <1>3, <1>4

\* And so do the operations of the list.
LEMMA ListLinks == LinksGood /\ (List_pop \/ List_push) => LinksGood'
<1> SUFFICES ASSUME LinksGood, List_pop \/ List_push PROVE LinksGood'
  OBVIOUS
<1>1. /\ qseq \in Seq(LElems) /\ lseq \in Seq(LElems)
      /\ IsInjective(qseq) /\ IsInjective(lseq) /\ ToSet(qseq) \cap ToSet(lseq) = {}
      /\ lnext \in [LElems -> LElems \cup {LNull}]
      /\ qcnt = Len(qseq)
      /\ Spells(qhead, qtail, lnext, qseq, LNull)
      /\ Spells(llist, ListLast, lnext, lseq, LNull)
      /\ LNull \notin LElems
  BY ElementsAssumption DEF LinksGood
<1>2. CASE List_pop
  <2>1. /\ llist # LNull /\ llist' = lnext[llist] /\ lseq' = Tail(lseq)
        /\ UNCHANGED <<qhead, qtail, qcnt, lnext, qseq>>
    BY <1>2 DEF List_pop
  <2>2. lseq # <<>>
    BY <2>1, QueueFields
  <2>3. Spells(llist', IF lnext[llist] = LNull THEN LNull ELSE ListLast, lnext, lseq', LNull)
    <3>1. Spells(lnext[llist], IF lnext[llist] = LNull THEN LNull ELSE ListLast, lnext, Tail(lseq), LNull)
      BY <1>1, <2>2, SpellsTail
    <3> QED
      BY <2>1, <3>1
  <2>4. ToSet(lseq') \subseteq ToSet(lseq) /\ IsInjective(lseq') /\ lseq' \in Seq(LElems)
    BY <1>1, <2>1, <2>2, TailSet
  <2>5. ListLast' = IF lnext[llist] = LNull THEN LNull ELSE ListLast
    <3> DEFINE l == IF lnext[llist] = LNull THEN LNull ELSE ListLast
    <3> HIDE DEF l
    <3>1. Spells(llist', l, lnext, lseq', LNull)
      BY <2>3 DEF l
    <3>2. l = IF lseq' = <<>> THEN LNull ELSE lseq'[Len(lseq')]
      BY <3>1 DEF Spells
    <3> QED
      BY <3>2 DEF ListLast, l
  <2>6. ToSet(qseq) \cap ToSet(lseq') = {}
    BY <1>1, <2>4
  <2> QED
    BY <1>1, <2>1, <2>3, <2>4, <2>5, <2>6 DEF LinksGood
<1>3. CASE List_push
  <2>1. PICK e \in Unlinked : /\ lnext' = [lnext EXCEPT ![e] = llist] /\ llist' = e
                              /\ lseq' = <<e>> \o lseq
                              /\ UNCHANGED <<qhead, qtail, qcnt, qseq>>
    BY <1>3 DEF List_push
  <2> DEFINE n == Len(lseq)
             l2 == InsertAt(lseq, 1, e)
             last2 == IF lseq = <<>> THEN e ELSE ListLast
  <2>2. e \in LElems /\ e \notin ToSet(qseq) /\ e \notin ToSet(lseq)
    BY DEF Unlinked
  <2>3. lseq' = l2
    BY <1>1, <2>1, <2>2, EndsAreInsertAt
  <2>4. /\ lnext' \in [LElems -> LElems \cup {LNull}] /\ lnext'[e] = llist
        /\ \A x \in LElems : x # e => lnext'[x] = lnext[x]
    BY <1>1, <2>1, <2>2, QueueFields
  <2>5. /\ n \in Nat /\ 1 \in 1 .. n + 1 /\ (lseq = <<>> <=> n = 0)
        /\ lseq = <<>> => llist = LNull
        /\ lseq # <<>> => llist = lseq[1]
    BY <1>1 DEF Spells
  <2>6. lnext'[e] = IF 1 = n + 1 THEN LNull ELSE lseq[1]
    BY <2>4, <2>5
  <2>7. Spells(e, last2, lnext', l2, LNull)
    <3>1. (1 = n + 1 => last2 = e) /\ (1 <= n => last2 = ListLast)
      BY <2>5
    <3> HIDE DEF last2
    <3> QED
      BY <1>1, <2>2, <2>4, <2>5, <2>6, <3>1, SpellsInsert
  <2>8. /\ l2 \in Seq(LElems) /\ ToSet(l2) = ToSet(lseq) \cup {e} /\ IsInjective(l2)
    <3>1. l2 \in Seq(LElems)
      BY <1>1, <2>2, <2>5, InsertAtProps
    <3>2. ToSet(l2) = ToSet(lseq) \cup {e} /\ IsInjective(l2)
      BY <1>1, <2>2, <2>5, InsertAtSet
    <3> QED
      BY <3>1, <3>2
  <2>9. last2 = ListLast'
    <3> HIDE DEF last2, l2
    <3>1. last2 = IF l2 = <<>> THEN LNull ELSE l2[Len(l2)]
      BY <2>7 DEF Spells
    <3> QED
      BY <2>3, <3>1 DEF ListLast
  <2>10. Spells(qhead, qtail, lnext', qseq, LNull)
    <3>1. \A x \in ToSet(qseq) : lnext'[x] = lnext[x]
      <4>1. \A x \in ToSet(qseq) : x \in LElems /\ x # e
        BY <1>1, <2>2 DEF ToSet
      <4> QED
        BY <2>4, <4>1
    <3> QED
      BY <1>1, <3>1, SpellsElsewhere
  <2>11. ToSet(qseq) \cap ToSet(l2) = {}
    BY <1>1, <2>2, <2>8
  <2> HIDE DEF l2, last2
  <2>12. qhead' = qhead /\ qtail' = qtail /\ qcnt' = qcnt /\ qseq' = qseq /\ llist' = e
    BY <2>1
  <2> QED
    BY <1>1, <2>3, <2>4, <2>7, <2>8, <2>9, <2>10, <2>11, <2>12 DEF LinksGood
<1> QED
  BY <1>2, <1>3

-----------------------------------------------------------------------------
(* The arrays hold what was put in, up to the N+1st element of the stack,  *)
(* which is in the word of the count.                                      *)

Cells == Nat \cup StackWords

ArraysGood ==
  /\ sseq \in Seq(StackWords) /\ Len(sseq) <= StackN + 1
  /\ smem \in [0 .. StackN -> Cells]
  /\ \A i \in 1 .. Len(sseq) : i <= StackN => smem[i - 1] = sseq[i]
  /\ scnt = IF Len(sseq) <= StackN THEN Len(sseq) ELSE sseq[Len(sseq)]
  /\ vseq \in Seq(StackWords) /\ vcnt = Len(vseq) /\ vcnt <= StackN
  /\ vec \in [0 .. StackN - 1 -> Cells]
  /\ \A i \in 1 .. Len(vseq) : vec[i - 1] = vseq[i]

\* A push leaves the stack holding its contents.
LEMMA PushesArray == ArraysGood /\ StackPush => ArraysGood'
<1> SUFFICES ASSUME ArraysGood, StackPush PROVE ArraysGood'
  OBVIOUS
<1> DEFINE n == Len(sseq)
<1>1. PICK e \in StackWords :
        /\ scnt = n /\ ~ (scnt > StackN)
        /\ smem' = [[smem EXCEPT ![StackN] = scnt + 1] EXCEPT ![scnt] = e]
        /\ sseq' = Append(sseq, e) /\ UNCHANGED <<vec, vcnt, vseq>>
  BY DEF StackPush
<1>2. /\ sseq \in Seq(StackWords) /\ n \in Nat /\ smem \in [0 .. StackN -> Cells]
      /\ \A i \in 1 .. n : i <= StackN => smem[i - 1] = sseq[i]
      /\ StackN \in Nat /\ n <= StackN
  BY <1>1, ElementsAssumption DEF ArraysGood
<1>3. /\ sseq' \in Seq(StackWords) /\ Len(sseq') = n + 1 /\ sseq'[n + 1] = e
      /\ \A i \in 1 .. n : sseq'[i] = sseq[i]
  BY <1>1, <1>2
<1> HIDE DEF n
<1>4. smem' = [[smem EXCEPT ![StackN] = n + 1] EXCEPT ![n] = e]
  BY <1>1
<1>5. /\ smem' \in [0 .. StackN -> Cells]
      /\ smem'[n] = e
      /\ n # StackN => smem'[StackN] = n + 1
      /\ \A i \in 0 .. StackN : i # n /\ i # StackN => smem'[i] = smem[i]
  <2>1. n \in 0 .. StackN /\ StackN \in 0 .. StackN /\ n + 1 \in Cells /\ e \in Cells
    BY <1>2 DEF Cells
  <2> QED
    BY <1>2, <1>4, <2>1
<1>6. ASSUME NEW i \in 1 .. n + 1, i <= StackN PROVE smem'[i - 1] = sseq'[i]
  <2>1. CASE i = n + 1
    BY <1>2, <1>3, <1>5, <2>1
  <2>2. CASE i # n + 1
    <3>1. i \in 1 .. n /\ i - 1 \in 0 .. StackN /\ i - 1 # n /\ i - 1 # StackN
      BY <1>2, <1>6, <2>2
    <3> QED
      BY <1>2, <1>3, <1>5, <1>6, <3>1
  <2> QED
    BY <2>1, <2>2
<1>7. scnt' = IF n + 1 <= StackN THEN n + 1 ELSE sseq'[n + 1]
  <2>1. scnt' = smem'[StackN] /\ (n + 1 <= StackN <=> n # StackN)
    BY <1>2 DEF scnt
  <2> QED
    BY <1>3, <1>5, <2>1
<1>8. n + 1 <= StackN + 1
  BY <1>2
<1> QED
  BY <1>1, <1>3, <1>5, <1>6, <1>7, <1>8 DEF ArraysGood

\* So does a pop.
LEMMA PopsArray == ArraysGood /\ StackPop => ArraysGood'
<1> SUFFICES ASSUME ArraysGood, StackPop PROVE ArraysGood'
  OBVIOUS
<1> DEFINE n == Len(sseq)
<1>1. /\ scnt = n /\ scnt > 0
      /\ smem' = [smem EXCEPT ![StackN] = scnt - 1]
      /\ sseq' = Front(sseq) /\ UNCHANGED <<vec, vcnt, vseq>>
  BY DEF StackPop
<1>2. /\ sseq \in Seq(StackWords) /\ n \in Nat /\ smem \in [0 .. StackN -> Cells]
      /\ \A i \in 1 .. n : i <= StackN => smem[i - 1] = sseq[i]
      /\ StackN \in Nat /\ n <= StackN + 1 /\ n > 0
  BY <1>1, ElementsAssumption DEF ArraysGood
<1>3. /\ sseq' \in Seq(StackWords) /\ Len(sseq') = n - 1
      /\ \A i \in 1 .. n - 1 : sseq'[i] = sseq[i]
  BY <1>1, <1>2 DEF Front
<1> HIDE DEF n
<1>4. smem' = [smem EXCEPT ![StackN] = n - 1]
  BY <1>1
<1>5. /\ smem' \in [0 .. StackN -> Cells] /\ smem'[StackN] = n - 1
      /\ \A i \in 0 .. StackN : i # StackN => smem'[i] = smem[i]
  <2>1. StackN \in 0 .. StackN /\ n - 1 \in Cells
    BY <1>2 DEF Cells
  <2> QED
    BY <1>2, <1>4, <2>1
<1>6. ASSUME NEW i \in 1 .. n - 1, i <= StackN PROVE smem'[i - 1] = sseq'[i]
  <2>1. i \in 1 .. n /\ i - 1 \in 0 .. StackN /\ i - 1 # StackN
    BY <1>2, <1>6
  <2> QED
    BY <1>2, <1>3, <1>5, <1>6, <2>1
<1>7. scnt' = IF n - 1 <= StackN THEN n - 1 ELSE sseq'[n - 1]
  BY <1>2, <1>5 DEF scnt
<1>8. n - 1 <= StackN + 1
  BY <1>2
<1> QED
  BY <1>1, <1>3, <1>5, <1>6, <1>7, <1>8 DEF ArraysGood

\* An append leaves the vector holding its contents.
LEMMA AppendsArray == ArraysGood /\ VectorAppend => ArraysGood'
<1> SUFFICES ASSUME ArraysGood, VectorAppend PROVE ArraysGood'
  OBVIOUS
<1> DEFINE n == Len(vseq)
<1>1. PICK e \in StackWords :
        /\ vcnt < StackN /\ vec' = [vec EXCEPT ![vcnt] = e] /\ vseq' = Append(vseq, e)
        /\ vcnt' = vcnt + 1 /\ UNCHANGED <<smem, sseq>>
  BY DEF VectorAppend
<1>2. /\ vseq \in Seq(StackWords) /\ vcnt = n /\ n \in Nat /\ vec \in [0 .. StackN - 1 -> Cells]
      /\ \A i \in 1 .. n : vec[i - 1] = vseq[i]
      /\ StackN \in Nat
  BY ElementsAssumption DEF ArraysGood
<1>3. /\ vseq' \in Seq(StackWords) /\ Len(vseq') = n + 1 /\ vseq'[n + 1] = e
      /\ \A i \in 1 .. n : vseq'[i] = vseq[i]
  BY <1>1, <1>2
<1> HIDE DEF n
<1>4. /\ vec' \in [0 .. StackN - 1 -> Cells] /\ vec'[n] = e
      /\ \A i \in 0 .. StackN - 1 : i # n => vec'[i] = vec[i]
  <2>1. n \in 0 .. StackN - 1 /\ e \in Cells
    BY <1>1, <1>2 DEF Cells
  <2> QED
    BY <1>1, <1>2, <2>1
<1>5. ASSUME NEW i \in 1 .. n + 1 PROVE vec'[i - 1] = vseq'[i]
  <2>1. CASE i = n + 1
    BY <1>2, <1>3, <1>4, <2>1
  <2>2. CASE i # n + 1
    <3>1. i \in 1 .. n /\ i - 1 \in 0 .. StackN - 1 /\ i - 1 # n
      BY <1>1, <1>2, <2>2
    <3> QED
      BY <1>2, <1>3, <1>4, <3>1
  <2> QED
    BY <2>1, <2>2
<1>6. vcnt' = n + 1 /\ n + 1 <= StackN
  BY <1>1, <1>2
<1>7. /\ sseq' \in Seq(StackWords) /\ Len(sseq') <= StackN + 1
      /\ smem' \in [0 .. StackN -> Cells]
      /\ \A i \in 1 .. Len(sseq') : i <= StackN => smem'[i - 1] = sseq'[i]
      /\ scnt' = IF Len(sseq') <= StackN THEN Len(sseq') ELSE sseq'[Len(sseq')]
  BY <1>1 DEF ArraysGood, scnt
<1> QED
  BY <1>3, <1>4, <1>5, <1>6, <1>7 DEF ArraysGood

\* What a client meets is what was put in.
LEMMA GoodIsExact == LinksGood /\ ArraysGood => ListsExact
<1> SUFFICES ASSUME LinksGood, ArraysGood PROVE ListsExact
  OBVIOUS
<1>1. Linked(qhead) = qseq /\ Linked(llist) = lseq
  <2>1. Linked(qhead) = qseq
    BY LinkedExact DEF LinksGood
  <2>2. Linked(llist) = lseq
    BY LinkedExact DEF LinksGood
  <2> QED
    BY <2>1, <2>2
<1>2. qcnt = Len(qseq) /\ qtail = IF qseq = <<>> THEN LNull ELSE Last(qseq)
  BY QueueFields DEF LinksGood, Last
<1>3. vcnt = Len(vseq) /\ Forwards(vec, vcnt) = vseq /\ Backwards(vec, vcnt) = Reverse(vseq)
  <2>1. vseq \in Seq(StackWords) /\ vcnt = Len(vseq) /\ \A i \in 1 .. Len(vseq) : vec[i - 1] = vseq[i]
    BY DEF ArraysGood
  <2>2. Forwards(vec, Len(vseq)) = vseq
    BY <2>1, ForwardsExact
  <2>3. Backwards(vec, Len(vseq)) = Reverse(vseq)
    BY <2>1, BackwardsExact
  <2> QED
    BY <2>1, <2>2, <2>3
<1> QED
  BY <1>1, <1>2, <1>3 DEF ListsExact

LEMMA GoodIsStack == ArraysGood /\ Len(sseq) <= StackN => StackExact
<1> SUFFICES ASSUME ArraysGood, Len(sseq) <= StackN PROVE StackExact
  OBVIOUS
<1>1. sseq \in Seq(StackWords) /\ scnt = Len(sseq) /\ Len(sseq) \in Nat /\ StackN \in Nat
  BY ElementsAssumption DEF ArraysGood
<1>2. \A i \in 1 .. Len(sseq) : smem[i - 1] = sseq[i]
  <2>1. \A i \in 1 .. Len(sseq) : i <= StackN
    BY <1>1
  <2> QED
    BY <2>1 DEF ArraysGood
<1>3. Forwards(smem, Len(sseq)) = sseq
  BY <1>1, <1>2, ForwardsExact
<1>4. Backwards(smem, Len(sseq)) = Reverse(sseq)
  BY <1>1, <1>2, BackwardsExact
<1> QED
  BY <1>1, <1>3, <1>4 DEF StackExact

\* The empty containers hold nothing.
LEMMA ContainersInitGood == ContainersInit => LinksGood /\ ArraysGood
<1> SUFFICES ASSUME ContainersInit PROVE LinksGood /\ ArraysGood
  OBVIOUS
<1>0. StackN \in Nat
  BY ElementsAssumption
<1>1. LinksGood
  <2>1. /\ qseq = <<>> /\ lseq = <<>> /\ <<>> \in Seq(LElems) /\ Len(<<>>) = 0
        /\ ToSet(<<>>) = {} /\ IsInjective(<<>>)
    BY DEF ContainersInit, ToSet, IsInjective
  <2>2. /\ Spells(qhead, qtail, lnext, qseq, LNull)
        /\ Spells(llist, ListLast, lnext, lseq, LNull)
    BY <2>1 DEF ContainersInit, Spells, ListLast
  <2>3. lnext \in [LElems -> LElems \cup {LNull}] /\ qcnt = 0
    BY DEF ContainersInit
  <2> QED
    BY <2>1, <2>2, <2>3 DEF LinksGood
<1>2. ArraysGood
  <2>1. /\ sseq = <<>> /\ vseq = <<>> /\ <<>> \in Seq(StackWords) /\ Len(<<>>) = 0
    BY DEF ContainersInit
  <2>2. smem \in [0 .. StackN -> Cells] /\ vec \in [0 .. StackN - 1 -> Cells] /\ vcnt = 0
    BY DEF ContainersInit, Cells
  <2>3. scnt = 0
    BY <1>0 DEF ContainersInit, scnt
  <2> QED
    BY <1>0, <2>1, <2>2, <2>3 DEF ArraysGood
<1> QED
  BY <1>1, <1>2

\* What the contents of the containers rest on, the stack's up to the element
\* that is stored over its count.
LEMMA ContainersInvariant == ContainersSpec => [](LinksGood /\ ArraysGood)
<1> DEFINE Good == LinksGood /\ ArraysGood
<1>1. ContainersInit => Good
  BY ContainersInitGood
<1>2. Good /\ [ContainersNext]_cvars => Good'
  <2> SUFFICES ASSUME LinksGood, ArraysGood, [ContainersNext]_cvars PROVE LinksGood' /\ ArraysGood'
    OBVIOUS
  <2>1. ASSUME UNCHANGED linkvars PROVE LinksGood'
    BY <2>1 DEF LinksGood, ListLast, linkvars
  <2>2. ASSUME UNCHANGED arrayvars PROVE ArraysGood'
    BY <2>2 DEF ArraysGood, scnt, arrayvars
  <2>3. CASE LinkNext
    <3>1. UNCHANGED arrayvars
      BY <2>3 DEF LinkNext, Q_pop, Q_push, Q_append, Q_insert_after, List_pop, List_push
    <3>2. LinksGood'
      BY <2>3, PopsLink, InsertsLink, ListLinks DEF LinkNext
    <3> QED
      BY <2>2, <3>1, <3>2
  <2>4. CASE ArrayNext
    <3>1. UNCHANGED linkvars
      BY <2>4 DEF ArrayNext, StackPush, StackPop, VectorAppend
    <3>2. ArraysGood'
      BY <2>4, PushesArray, PopsArray, AppendsArray DEF ArrayNext
    <3> QED
      BY <2>1, <3>1, <3>2
  <2>5. CASE UNCHANGED cvars
    BY <2>1, <2>2, <2>5 DEF cvars
  <2> QED
    BY <2>3, <2>4, <2>5 DEF ContainersNext
<1> HIDE DEF Good
<1>3. ContainersSpec => []Good
  BY <1>1, <1>2, PTL DEF ContainersSpec
<1> QED
  BY <1>3 DEF Good

\* Queue, list and vector hold what was put in, in order, for any number of
\* elements and any length of the array: elements that move between the queue and
\* the list with the links they had (Q.h:27-82, list-T.h:12-25), and the vector
\* both ways (vector-T.h:26-51).
THEOREM ListsAlwaysExact == ContainersSpec => []ListsExact
  BY GoodIsExact, ContainersInvariant, PTL

\* A stack holds what was pushed and not popped, in order both ways, as long as
\* its client does not push more than the N elements of the array; the N+1st is
\* not refused (stack-T.h:29).
THEOREM StackExactWithinN == ContainersSpec => [](Len(sseq) <= StackN => StackExact)
<1> DEFINE Within == Len(sseq) <= StackN => StackExact
<1>1. LinksGood /\ ArraysGood => Within
  BY GoodIsStack
<1> HIDE DEF Within
<1>2. ContainersSpec => []Within
  BY <1>1, ContainersInvariant, PTL
<1> QED
  BY <1>2 DEF Within

-----------------------------------------------------------------------------
(* A fold over a sequence takes the last place first, so that its value on *)
(* the first i places is what the i-th step makes of that on those before. *)

\* The least and the largest number of a set.
LEMMA MinIs ==
  ASSUME NEW s, s \subseteq Int, NEW x \in s, \A y \in s : x <= y
  PROVE  Min(s) = x
<1> DEFINE n == Min(s)
<1>1. n \in s /\ \A y \in s : n <= y
  BY DEF Min
<1> HIDE DEF n
<1>2. n \in Int /\ x \in Int /\ n <= x /\ x <= n
  BY <1>1
<1>3. n = x
  BY <1>2
<1> QED
  BY <1>3 DEF n

\* The least of a set of numbers.
LEMMA MinOf ==
  ASSUME NEW s, s \subseteq Nat, s # {}
  PROVE  Min(s) \in s /\ \A y \in s : Min(s) <= y
  BY LeastNumber DEF Min

\* The greatest of a bounded set of numbers.
LEMMA MaxOf ==
  ASSUME NEW k \in Nat, NEW s \in SUBSET (1 .. k), s # {}
  PROVE  Max(s) \in s /\ \A y \in s : y <= Max(s)
<1> DEFINE U == {k - y : y \in s}
<1>0. \A y \in s : y \in 1 .. k /\ k - y \in Nat
  <2> SUFFICES ASSUME NEW y \in s PROVE y \in 1 .. k /\ k - y \in Nat
    OBVIOUS
  <2>1. y \in 1 .. k
    OBVIOUS
  <2> QED
    BY <2>1
<1>1. U \subseteq Nat /\ U # {}
  BY <1>0
<1>2. PICK m \in U : \A j \in U : m <= j
  <2> HIDE DEF U
  <2> QED
    BY <1>1, LeastNumber
<1>3. PICK x \in s : m = k - x
  OBVIOUS
<1>4. \A y \in s : x >= y
  <2>1. ASSUME NEW y \in s PROVE x >= y
    <3>1. k - y \in U /\ x \in Int /\ y \in Int
      BY <1>0
    <3>2. k - x <= k - y
      BY <1>2, <1>3, <3>1
    <3> QED
      BY <3>1, <3>2
  <2> QED
    BY <2>1
<1>5. Max(s) \in s /\ \A y \in s : Max(s) >= y
  BY <1>4 DEF Max
<1> QED
  BY <1>5

\* The first i places, and all but the last of them.
LEMMA Places ==
  ASSUME NEW k \in Nat, NEW i \in 1 .. k
  PROVE  /\ 1 .. i \in SUBSET (1 .. k) /\ 1 .. i - 1 \in SUBSET (1 .. k) /\ 1 .. i # {}
         /\ Max(1 .. i) = i /\ (1 .. i) \ {Max(1 .. i)} = 1 .. i - 1
<1>1. 1 .. i \in SUBSET (1 .. k) /\ 1 .. i - 1 \in SUBSET (1 .. k) /\ i \in 1 .. i
  OBVIOUS
<1>2. Max(1 .. i) \in 1 .. i /\ \A y \in 1 .. i : y <= Max(1 .. i)
  BY <1>1, MaxOf
<1>3. Max(1 .. i) = i
  BY <1>1, <1>2
<1> QED
  BY <1>1, <1>3

\* h[s] is what the steps F[i] make of g, for each i in s.
IsSeqFold(h, k, R, F, g) ==
  /\ h \in [SUBSET (1 .. k) -> R]
  /\ h[{}] = g
  /\ \A s \in SUBSET (1 .. k) : s # {} => h[s] = F[Max(s)][h[s \ {Max(s)}]]

\* There is a function as a fold over a sequence chooses one.
LEMMA SeqFoldExists ==
  ASSUME NEW k \in Nat, NEW R, NEW F, NEW g \in R, \A i \in 1 .. k, x \in R : F[i][x] \in R
  PROVE  \E h : IsSeqFold(h, k, R, F, g)
<1> DEFINE T == {j \in Nat : j <= k => \E h : IsSeqFold(h, j, R, F, g)}
<1>1. 0 \in T
  <2> DEFINE h == [s \in SUBSET (1 .. 0) |-> g]
  <2>1. SUBSET (1 .. 0) = {{}}
    OBVIOUS
  <2>2. h \in [SUBSET (1 .. 0) -> R] /\ h[{}] = g
    BY <2>1
  <2>3. IsSeqFold(h, 0, R, F, g)
    BY <2>1, <2>2 DEF IsSeqFold
  <2> HIDE DEF h
  <2> QED
    BY <2>3
<1>2. ASSUME NEW j \in T PROVE j + 1 \in T
  <2>1. j \in Nat /\ j + 1 \in Nat
    OBVIOUS
  <2>2. ASSUME j + 1 <= k PROVE \E h : IsSeqFold(h, j + 1, R, F, g)
    <3>1. PICK h : IsSeqFold(h, j, R, F, g)
      BY <2>1, <2>2
    <3> DEFINE A == SUBSET (1 .. j)
               B == SUBSET (1 .. j + 1)
               h1 == [s \in B |-> IF s = {} THEN g ELSE F[Max(s)][h[s \ {Max(s)}]]]
    <3>2. /\ h \in [A -> R] /\ h[{}] = g
          /\ \A s \in A : s # {} => h[s] = F[Max(s)][h[s \ {Max(s)}]]
      BY <3>1 DEF IsSeqFold
    <3>3. ASSUME NEW s \in B, s # {} PROVE Max(s) \in 1 .. k /\ s \ {Max(s)} \in A
      <4>1. Max(s) \in s /\ \A y \in s : y <= Max(s)
        BY <2>1, <3>3, MaxOf
      <4>2. Max(s) \in 1 .. j + 1 /\ \A y \in s : y \in 1 .. j + 1
        BY <4>1
      <4>3. ASSUME NEW y \in s \ {Max(s)} PROVE y \in 1 .. j
        BY <2>1, <4>1, <4>2
      <4>4. Max(s) \in 1 .. k
        BY <2>1, <2>2, <4>2
      <4> QED
        BY <4>3, <4>4
    <3>4. ASSUME NEW s \in A PROVE s \in B /\ h1[s] = h[s]
      <4>1. s \in B
        BY <2>1
      <4> HIDE DEF A, B
      <4> QED
        BY <3>2, <4>1
    <3> HIDE DEF A, B
    <3>5. h1 \in [B -> R]
      <4>1. ASSUME NEW s \in B PROVE (IF s = {} THEN g ELSE F[Max(s)][h[s \ {Max(s)}]]) \in R
        BY <3>2, <3>3
      <4> QED
        BY <4>1
    <3>6. {} \in B
      BY DEF B
    <3>7. ASSUME NEW s \in B, s # {} PROVE h1[s] = F[Max(s)][h1[s \ {Max(s)}]]
      <4>1. h1[s] = F[Max(s)][h[s \ {Max(s)}]]
        BY <3>7
      <4>2. h1[s \ {Max(s)}] = h[s \ {Max(s)}]
        BY <3>3, <3>4, <3>7
      <4> QED
        BY <4>1, <4>2
    <3>8. h1[{}] = g
      BY <3>6
    <3> HIDE DEF h1
    <3>9. IsSeqFold(h1, j + 1, R, F, g)
      BY <3>5, <3>7, <3>8 DEF IsSeqFold, B
    <3> QED
      BY <3>9
  <2> QED
    BY <2>1, <2>2
<1>3. T = Nat
  <2>1. T \subseteq Nat
    OBVIOUS
  <2> HIDE DEF T
  <2> QED
    BY <1>1, <1>2, <2>1, Descent
<1> QED
  BY <1>3

-----------------------------------------------------------------------------
(* The memory and string functions.  A copy in units of u bytes leaves at  *)
(* dst what was at src once every unit is read before it is overwritten,   *)
(* which the order of the units sees to; strings are compared by texts.    *)

Contents == [Addr -> 0 .. 255]

\* A copy of a unit is a memory.
LEMMA UnitCopied ==
  ASSUME NEW x \in Contents, NEW dst \in Nat, NEW src \in Nat, NEW u \in Nat, NEW p \in Nat,
         NEW j, p = u * j, dst + p + u <= MemSize, src + p + u <= MemSize
  PROVE  CopyUnit(x, dst, src, u, j) \in Contents
<1>1. ASSUME NEW a \in Addr, a \in Area(dst + p, u) PROVE a - dst + src \in Addr
  BY <1>1, MemoryAssumption DEF Addr, Area
<1>2. ASSUME NEW a \in Addr
      PROVE  (IF a \in Area(dst + p, u) THEN x[a - dst + src] ELSE x[a]) \in 0 .. 255
  BY <1>1 DEF Contents
<1> QED
  BY <1>2 DEF CopyUnit, Contents

\* Behind what has been moved, one more unit: what it reads has not been written.
UnitMoves(m, dst, src, u, p, i) ==
  (/\ m \in Contents /\ dst \in Nat /\ src \in Nat /\ u \in Nat /\ p \in Nat
   /\ dst + p + u <= MemSize /\ src + p + u <= MemSize /\ (dst <= src \/ src + p + u <= dst)
   /\ p = u * i)
    => CopyUnit(Moved(m, dst, src, p), dst, src, u, i) = Moved(m, dst, src, p + u)

\* It is a fact of its own, for a solver does not find p and i by itself.
LEMMA NextUnit ==
  \A m, dst, src, u, p, i : UnitMoves(m, dst, src, u, p, i)
<1> SUFFICES ASSUME NEW m \in Contents, NEW dst \in Nat, NEW src \in Nat, NEW u \in Nat, NEW p \in Nat,
                    dst + p + u <= MemSize, src + p + u <= MemSize, dst <= src \/ src + p + u <= dst,
                    NEW i, p = u * i
             PROVE  CopyUnit(Moved(m, dst, src, p), dst, src, u, i) = Moved(m, dst, src, p + u)
  BY DEF UnitMoves
<1> DEFINE x == Moved(m, dst, src, p)
<1>0. MemSize \in Nat
  BY MemoryAssumption
<1>1. ASSUME NEW a \in Addr
      PROVE  (IF a \in Area(dst + p, u) THEN x[a - dst + src] ELSE x[a])
             = IF a \in Area(dst, p + u) THEN m[a - dst + src] ELSE m[a]
  <2>0. a \in Int /\ 0 <= a /\ a < MemSize
    BY <1>0 DEF Addr
  <2>1. CASE a \in Area(dst + p, u)
    <3> DEFINE b == a - dst + src
    <3>1. dst + p <= a /\ a < dst + p + u
      BY <2>0, <2>1 DEF Area
    <3>2. b \in Addr
      BY <1>0, <2>0, <3>1 DEF Addr
    <3>3. b \notin Area(dst, p)
      BY <1>0, <2>0, <3>1 DEF Area
    <3>4. a \in Area(dst, p + u)
      BY <2>0, <3>1 DEF Area
    <3> HIDE DEF b
    <3>5. x[b] = m[b]
      BY <3>2, <3>3 DEF Moved
    <3> QED
      BY <2>1, <3>4, <3>5 DEF b
  <2>2. CASE a \notin Area(dst + p, u)
    <3>1. a \in Area(dst, p + u) <=> a \in Area(dst, p)
      BY <2>0, <2>2 DEF Area
    <3> QED
      BY <2>2, <3>1 DEF Moved
  <2> QED
    BY <2>1, <2>2
<1> HIDE DEF x
<1>2. CopyUnit(x, dst, src, u, i) = Moved(m, dst, src, p + u)
  BY <1>1 DEF CopyUnit, Moved
<1> QED
  BY <1>2 DEF x

\* Units of any width, copied upwards, are a move unless the destination
\* starts inside the source.
LEMMA CopiedUp ==
  ASSUME NEW m \in Contents, NEW dst \in Nat, NEW src \in Nat, NEW u \in {1, 4, 8}, NEW k \in Nat,
         NEW n \in Nat, n = u * k, dst + n <= MemSize, src + n <= MemSize, dst <= src \/ src + n <= dst
  PROVE  CopyUp(m, dst, src, u, k) = Moved(m, dst, src, n)
<1> DEFINE q == [i \in 1 .. k |-> i]
           Op(i, x) == CopyUnit(x, dst, src, u, q[i] - 1)
           R == Contents
           D == SUBSET (DOMAIN q)
           F == [i \in 1 .. k |-> [x \in R |-> Op(i, x)]]
           W == CHOOSE f : f = [s \in D |-> IF s = {} THEN m ELSE Op(Max(s), f[s \ {Max(s)}])]
           T == {i \in Nat : i <= k => W[1 .. i] = Moved(m, dst, src, u * i)}
<1>0. \A i \in 1 .. k : /\ u * (i - 1) \in Nat /\ u * i = u * (i - 1) + u /\ u * i <= n
                        /\ u \in Nat /\ i - 1 \in Nat
  <2>1. u = 1 \/ u = 4 \/ u = 8
    OBVIOUS
  <2> QED
    BY <2>1
<1>1. CopyUp(m, dst, src, u, k) = W[DOMAIN q]
  BY DEF CopyUp, FoldLeft, MapThenFoldSet
<1>12. DOMAIN q = 1 .. k /\ D = SUBSET (1 .. k) /\ \A i \in 1 .. k : q[i] = i
  OBVIOUS
<1> HIDE DEF q, D
<1>2. PICK h : IsSeqFold(h, k, R, F, m)
  <2>1. ASSUME NEW i \in 1 .. k, NEW x \in R PROVE Op(i, x) \in R
    <3> DEFINE p == u * (i - 1)
    <3>1. p \in Nat /\ p + u <= n /\ u \in Nat /\ n \in Int
      BY <1>0
    <3>2. p = u * (q[i] - 1)
      BY <1>12
    <3> HIDE DEF p
    <3>3. dst + p + u <= MemSize /\ src + p + u <= MemSize
      BY <3>1, MemoryAssumption
    <3> QED
      BY <3>1, <3>2, <3>3, UnitCopied
  <2> HIDE DEF R, Op
  <2>2. \A i \in 1 .. k, x \in R : F[i][x] \in R
    BY <2>1
  <2>3. m \in R
    BY DEF R
  <2> HIDE DEF F
  <2> QED
    BY <2>2, <2>3, SeqFoldExists
<1>3. /\ h \in [D -> R] /\ h[{}] = m
      /\ \A s \in D : s # {} => h[s] = F[Max(s)][h[s \ {Max(s)}]]
  BY <1>2, <1>12 DEF IsSeqFold
<1> HIDE DEF R, Op
<1>4. h = [s \in D |-> IF s = {} THEN m ELSE Op(Max(s), h[s \ {Max(s)}])]
  <2>1. ASSUME NEW s \in D, s # {} PROVE h[s] = Op(Max(s), h[s \ {Max(s)}])
    <3>1. Max(s) \in 1 .. k
      BY <1>12, <2>1, MaxOf
    <3>2. s \ {Max(s)} \in D
      BY <1>12
    <3> HIDE DEF D
    <3> QED
      BY <1>3, <2>1, <3>1, <3>2
  <2> HIDE DEF D, F
  <2> QED
    BY <1>3, <2>1
<1> HIDE DEF F
<1>5. W = [s \in D |-> IF s = {} THEN m ELSE Op(Max(s), W[s \ {Max(s)}])]
  BY <1>4, Zenon
<1> HIDE DEF W
<1>6. ASSUME NEW i \in 1 .. k PROVE W[1 .. i] = CopyUnit(W[1 .. i - 1], dst, src, u, i - 1)
  <2>1. W[1 .. i] = Op(Max(1 .. i), W[(1 .. i) \ {Max(1 .. i)}])
    <3>1. 1 .. i \in D /\ 1 .. i # {}
      BY <1>12, Places
    <3> QED
      BY <1>5, <3>1
  <2> QED
    BY <1>12, <2>1, Places DEF Op
<1>7. W[1 .. 0] = m
  <2>1. 1 .. 0 = {} /\ {} \in D
    BY <1>12
  <2> QED
    BY <1>5, <2>1
<1>8. 0 \in T
  <2>1. Moved(m, dst, src, u * 0) = m
    <3>1. u * 0 = 0 /\ m = [a \in Addr |-> m[a]]
      BY DEF Contents
    <3> QED
      BY <3>1 DEF Moved, Area
  <2> QED
    BY <1>7, <2>1
<1>9. ASSUME NEW i \in T PROVE i + 1 \in T
  <2>0. i \in Nat /\ i + 1 \in Nat /\ (i + 1) - 1 = i
    OBVIOUS
  <2>1. ASSUME i + 1 <= k PROVE W[1 .. i + 1] = Moved(m, dst, src, u * (i + 1))
    <3>1. i + 1 \in 1 .. k /\ i <= k
      BY <2>0, <2>1
    <3> DEFINE x == Moved(m, dst, src, u * i)
               p == u * i
    <3>2. W[1 .. i + 1] = CopyUnit(x, dst, src, u, i)
      BY <1>6, <2>0, <3>1
    <3>3. p \in Nat /\ u * (i + 1) = p + u /\ p + u <= n /\ u \in Nat
      BY <1>0, <2>0, <3>1
    <3>4. n \in Nat
      BY <1>0, <3>1
    <3>5. CopyUnit(x, dst, src, u, i) = Moved(m, dst, src, p + u)
      <4>1. p = u * i
        OBVIOUS
      <4>2. x = Moved(m, dst, src, p)
        OBVIOUS
      <4> HIDE DEF p, x
      <4>3. dst + p + u <= MemSize /\ src + p + u <= MemSize /\ (dst <= src \/ src + p + u <= dst)
        <5>1. MemSize \in Nat
          BY MemoryAssumption
        <5>2. dst + (p + u) <= dst + n /\ src + (p + u) <= src + n
          BY <3>3, <3>4
        <5> QED
          BY <3>3, <5>1, <5>2
      <4>4. CopyUnit(Moved(m, dst, src, p), dst, src, u, i) = Moved(m, dst, src, p + u)
        <5>1. p \in Nat /\ u \in Nat
          BY <3>3
        <5>2. UnitMoves(m, dst, src, u, p, i)
          BY NextUnit, Zenon
        <5> QED
          BY <4>1, <4>3, <5>1, <5>2, Zenon DEF UnitMoves
      <4> QED
        BY <4>2, <4>4
    <3> QED
      BY <3>2, <3>3, <3>5
  <2> QED
    BY <2>0, <2>1
<1>10. T = Nat
  <2>1. T \subseteq Nat
    OBVIOUS
  <2> HIDE DEF T
  <2> QED
    BY <1>8, <1>9, <2>1, Descent
<1>11. k \in T
  <2> HIDE DEF T
  <2> QED
    BY <1>10
<1> QED
  BY <1>1, <1>11, <1>12

\* In front of what has been moved, one more byte.
LEMMA ByteBefore ==
  ASSUME NEW m \in Contents, NEW dst \in Nat, NEW src \in Nat, NEW i \in Nat, NEW j \in Nat,
         src < dst, dst + j + i < MemSize,
         NEW e, e = dst + j, NEW f, f = src + j,
         NEW e1, e1 = e + 1, NEW f1, f1 = f + 1, NEW i1, i1 = i + 1
  PROVE  CopyUnit(Moved(m, e1, f1, i), dst, src, 1, j) = Moved(m, e, f, i1)
<1> DEFINE x == Moved(m, e1, f1, i)
<1>0. MemSize \in Nat /\ e \in Nat /\ f \in Nat /\ e = dst + 1 * j /\ e + i < MemSize /\ f < e
  BY MemoryAssumption
<1>1. ASSUME NEW a \in Addr
      PROVE  (IF a \in Area(e, 1) THEN x[a - dst + src] ELSE x[a])
             = IF a \in Area(e, i + 1) THEN m[a - e + f] ELSE m[a]
  <2>0. a \in Int /\ 0 <= a /\ a < MemSize
    BY <1>0 DEF Addr
  <2>1. CASE a \in Area(e, 1)
    <3>1. a = e /\ a - dst + src = f /\ f \in Addr /\ f \notin Area(e + 1, i) /\ a - e + f = f
          /\ a \in Area(e, i + 1)
      BY <1>0, <2>0, <2>1 DEF Area, Addr
    <3>2. x[f] = m[f]
      BY <1>0, <3>1 DEF Moved
    <3> HIDE DEF x
    <3> QED
      BY <2>1, <3>1, <3>2
  <2>2. CASE a \notin Area(e, 1)
    <3>1. /\ a \in Area(e, i + 1) <=> a \in Area(e + 1, i)
          /\ a - (e + 1) + (f + 1) = a - e + f
      BY <1>0, <2>0, <2>2 DEF Area
    <3>2. x[a] = IF a \in Area(e + 1, i) THEN m[a - (e + 1) + (f + 1)] ELSE m[a]
      BY <1>0 DEF Moved
    <3> HIDE DEF x
    <3> QED
      BY <2>2, <3>1, <3>2
  <2> QED
    BY <2>1, <2>2
<1>2. CopyUnit(x, dst, src, 1, j) = Moved(m, e, f, i1)
  <2> HIDE DEF x
  <2>1. CopyUnit(x, dst, src, 1, j) = [a \in Addr |-> IF a \in Area(e, 1) THEN x[a - dst + src] ELSE x[a]]
    BY <1>0 DEF CopyUnit
  <2> QED
    BY <1>1, <2>1 DEF Moved
<1> QED
  BY <1>2 DEF x

\* Bytes copied downwards are a move when the destination is higher.
LEMMA CopiedDown ==
  ASSUME NEW m \in Contents, NEW dst \in Nat, NEW src \in Nat, NEW c \in Nat,
         src < dst, dst + c <= MemSize
  PROVE  memmove(m, dst, src, c) = Moved(m, dst, src, c)
<1> DEFINE q == [i \in 1 .. c |-> i]
           Op(i, x) == CopyUnit(x, dst, src, 1, c - q[i])
           R == Contents
           D == SUBSET (DOMAIN q)
           F == [i \in 1 .. c |-> [x \in R |-> Op(i, x)]]
           W == CHOOSE f : f = [s \in D |-> IF s = {} THEN m ELSE Op(Max(s), f[s \ {Max(s)}])]
           T == {i \in Nat : i <= c => W[1 .. i] = Moved(m, dst + c - i, src + c - i, i)}
<1>1. memmove(m, dst, src, c) = W[DOMAIN q]
  <2>1. ~ (src = dst) /\ ~ (src > dst)
    OBVIOUS
  <2> QED
    BY <2>1 DEF memmove, FoldLeft, MapThenFoldSet
<1>12. DOMAIN q = 1 .. c /\ D = SUBSET (1 .. c) /\ \A i \in 1 .. c : q[i] = i
  OBVIOUS
<1> HIDE DEF q, D
<1>2. PICK h : IsSeqFold(h, c, R, F, m)
  <2>1. ASSUME NEW i \in 1 .. c, NEW x \in R PROVE Op(i, x) \in R
    <3> DEFINE p == c - i
    <3>1. p \in Nat /\ p = 1 * p /\ c - q[i] = p /\ dst + p + 1 <= MemSize /\ src + p + 1 <= MemSize
      BY <1>12, MemoryAssumption
    <3> HIDE DEF p
    <3> QED
      BY <3>1, UnitCopied
  <2> HIDE DEF R, Op
  <2>2. \A i \in 1 .. c, x \in R : F[i][x] \in R
    BY <2>1
  <2>3. m \in R
    BY DEF R
  <2> HIDE DEF F
  <2> QED
    BY <2>2, <2>3, SeqFoldExists
<1>3. /\ h \in [D -> R] /\ h[{}] = m
      /\ \A s \in D : s # {} => h[s] = F[Max(s)][h[s \ {Max(s)}]]
  BY <1>2, <1>12 DEF IsSeqFold
<1> HIDE DEF R, Op
<1>4. h = [s \in D |-> IF s = {} THEN m ELSE Op(Max(s), h[s \ {Max(s)}])]
  <2>1. ASSUME NEW s \in D, s # {} PROVE h[s] = Op(Max(s), h[s \ {Max(s)}])
    <3>1. Max(s) \in 1 .. c
      BY <1>12, <2>1, MaxOf
    <3>2. s \ {Max(s)} \in D
      BY <1>12
    <3> QED
      BY <1>3, <2>1, <3>1, <3>2
  <2> HIDE DEF F
  <2> QED
    BY <1>3, <2>1
<1> HIDE DEF F
<1>5. W = [s \in D |-> IF s = {} THEN m ELSE Op(Max(s), W[s \ {Max(s)}])]
  BY <1>4, Zenon
<1> HIDE DEF W
<1>6. ASSUME NEW i \in 1 .. c PROVE W[1 .. i] = CopyUnit(W[1 .. i - 1], dst, src, 1, c - i)
  <2>1. W[1 .. i] = Op(Max(1 .. i), W[(1 .. i) \ {Max(1 .. i)}])
    <3>1. 1 .. i \in D /\ 1 .. i # {}
      BY <1>12, Places
    <3> QED
      BY <1>5, <3>1
  <2> QED
    BY <1>12, <2>1, Places DEF Op
<1>7. W[1 .. 0] = m
  <2>1. 1 .. 0 = {} /\ {} \in D
    BY <1>12
  <2> QED
    BY <1>5, <2>1
<1>8. 0 \in T
  <2>1. Moved(m, dst + c - 0, src + c - 0, 0) = m
    <3>1. m = [a \in Addr |-> m[a]] /\ Area(dst + c - 0, 0) = {}
      BY DEF Contents, Area
    <3> QED
      BY <3>1 DEF Moved
  <2> QED
    BY <1>7, <2>1
<1>9. ASSUME NEW i \in T PROVE i + 1 \in T
  <2>0. i \in Nat /\ i + 1 \in Nat /\ (i + 1) - 1 = i
    OBVIOUS
  <2>1. ASSUME i + 1 <= c
        PROVE  W[1 .. i + 1] = Moved(m, dst + c - (i + 1), src + c - (i + 1), i + 1)
    <3>1. i + 1 \in 1 .. c /\ i <= c
      BY <2>0, <2>1
    <3> DEFINE j == c - (i + 1)
               e == dst + c - (i + 1)
               f == src + c - (i + 1)
               e1 == dst + c - i
               f1 == src + c - i
               i1 == i + 1
    <3>2. W[1 .. i] = Moved(m, e1, f1, i)
      BY <3>1
    <3>3. W[1 .. i + 1] = CopyUnit(W[1 .. i], dst, src, 1, j)
      BY <1>6, <2>0, <3>1
    <3>4. /\ j \in Nat /\ e = dst + j /\ f = src + j /\ e1 = e + 1 /\ f1 = f + 1 /\ i1 = i + 1
          /\ dst + j + i < MemSize
      BY <2>0, <2>1, MemoryAssumption
    <3> HIDE DEF T, j, e, f, e1, f1, i1
    <3>5. CopyUnit(Moved(m, e1, f1, i), dst, src, 1, j) = Moved(m, e, f, i1)
      BY <2>0, <3>4, ByteBefore
    <3> QED
      BY <3>2, <3>3, <3>5 DEF e, f, i1
  <2> QED
    BY <2>0, <2>1
<1>10. T = Nat
  <2>1. T \subseteq Nat
    OBVIOUS
  <2> HIDE DEF T
  <2> QED
    BY <1>8, <1>9, <2>1, Descent
<1>11. W[1 .. c] = Moved(m, dst, src, c)
  <2>1. c \in T
    <3> HIDE DEF T
    <3> QED
      BY <1>10
  <2>2. dst + c - c = dst /\ src + c - c = src /\ c <= c
    OBVIOUS
  <2> QED
    BY <2>1, <2>2
<1> QED
  BY <1>1, <1>11, <1>12

\* What every way of copying comes to.
LEMMA CopiesMove ==
  ASSUME NEW m \in Contents, NEW dst \in Nat, NEW src \in Nat, NEW n \in Nat,
         dst + n <= MemSize, src + n <= MemSize
  PROVE  /\ memmove(m, dst, src, n) = Moved(m, dst, src, n)
         /\ dst \notin Area(src + 1, n - 1) => memcpy(m, dst, src, n) = Moved(m, dst, src, n)
         /\ Aligned(n, 4) /\ Apart(dst, n, src, n) => lmemcpy(m, dst, src, n) = Moved(m, dst, src, n)
         /\ Aligned(n, 8) /\ Apart(dst, n, src, n) => llmemcpy(m, dst, src, n) = Moved(m, dst, src, n)
<1>0. /\ n \div 1 \in Nat /\ n = 1 * (n \div 1)
      /\ Aligned(n, 4) => n \div 4 \in Nat /\ n = 4 * (n \div 4)
      /\ Aligned(n, 8) => n \div 8 \in Nat /\ n = 8 * (n \div 8)
  BY DEF Aligned
<1>1. ASSUME dst <= src \/ src + n <= dst, NEW u \in {1, 4, 8}, u = 1 \/ Aligned(n, u)
      PROVE  CopyUp(m, dst, src, u, n \div u) = Moved(m, dst, src, n)
  <2>1. n \div u \in Nat /\ n = u * (n \div u)
    BY <1>0, <1>1
  <2> DEFINE k == n \div u
  <2> HIDE DEF k
  <2>2. k \in Nat /\ n = u * k
    BY <2>1 DEF k
  <2>3. CopyUp(m, dst, src, u, k) = Moved(m, dst, src, n)
    <3>1. CASE u = 1
      BY <1>1, <2>2, <3>1, CopiedUp
    <3>2. CASE u = 4
      BY <1>1, <2>2, <3>2, CopiedUp
    <3>3. CASE u = 8
      BY <1>1, <2>2, <3>3, CopiedUp
    <3> QED
      BY <3>1, <3>2, <3>3
  <2> QED
    BY <2>3 DEF k
<1>2. memmove(m, dst, src, n) = Moved(m, dst, src, n)
  <2>1. CASE src = dst
    <3>1. \A a \in Addr : a - dst + src = a
      BY <2>1 DEF Addr
    <3>2. memmove(m, dst, src, n) = m /\ m = [a \in Addr |-> m[a]]
      BY <2>1 DEF memmove, Contents
    <3> QED
      BY <3>1, <3>2 DEF Moved
  <2>2. CASE src > dst
    <3>1. CopyUp(m, dst, src, 1, n) = Moved(m, dst, src, n)
      <4>1. n = 1 * n /\ dst <= src
        BY <2>2
      <4> QED
        BY <4>1, CopiedUp
    <3> QED
      BY <2>2, <3>1 DEF memmove
  <2>3. CASE src < dst
    BY <2>3, CopiedDown
  <2> QED
    BY <2>1, <2>2, <2>3
<1>3. ASSUME dst \notin Area(src + 1, n - 1) PROVE memcpy(m, dst, src, n) = Moved(m, dst, src, n)
  <2>1. dst <= src \/ src + n <= dst
    BY <1>3 DEF Area
  <2> DEFINE fits(u) == Aligned(dst, u) /\ Aligned(src, u) /\ Aligned(n, u)
             w == IF fits(8) THEN 8 ELSE IF fits(4) THEN 4 ELSE 1
  <2>2. w \in {1, 4, 8} /\ (w = 1 \/ Aligned(n, w))
    OBVIOUS
  <2>3. memcpy(m, dst, src, n) = CopyUp(m, dst, src, w, n \div w)
    BY DEF memcpy
  <2> HIDE DEF w
  <2> QED
    BY <1>1, <2>1, <2>2, <2>3
<1>4. Apart(dst, n, src, n) => dst <= src \/ src + n <= dst
  <2> SUFFICES ASSUME ~ (dst <= src), ~ (src + n <= dst) PROVE ~ Apart(dst, n, src, n)
    OBVIOUS
  <2>1. dst \in Area(dst, n) /\ dst \in Area(src, n)
    BY DEF Area
  <2> QED
    BY <2>1 DEF Apart
<1> QED
  BY <1>1, <1>2, <1>3, <1>4 DEF lmemcpy, llmemcpy

\* What is at an address after a move.
LEMMA MovedAt ==
  ASSUME NEW m, NEW dst \in Nat, NEW src \in Nat, NEW n, NEW a \in Addr, NEW b \in Nat, a + src = b + dst,
         a \in Area(dst, n)
  PROVE  Moved(m, dst, src, n)[a] = m[b]
<1>1. a - dst + src = b
  BY MemoryAssumption DEF Addr
<1> QED
  BY <1>1 DEF Moved

\* The string at p has n bytes before its terminator.
Ends(m, p, n) ==
  /\ n \in Nat /\ p + n \in Addr /\ m[p + n] = NUL
  /\ \A i \in 0 .. n - 1 : m[p + i] # NUL

\* strlen is the distance to the byte that ends the string.
LEMMA StrlenIs ==
  ASSUME NEW m, NEW p \in Nat, NEW n, Ends(m, p, n)
  PROVE  strlen(m, p) = n
<1> DEFINE S == {i \in Addr : p + i \in Addr /\ m[p + i] = NUL}
<1>0. MemSize \in Nat /\ n \in Nat /\ p + n \in Addr /\ m[p + n] = NUL
      /\ \A i \in 0 .. n - 1 : m[p + i] # NUL
  BY MemoryAssumption DEF Ends
<1>1. n \in S /\ S \subseteq Int
  BY <1>0 DEF Addr
<1>2. ASSUME NEW y \in S PROVE n <= y
  <2>1. y \in Nat /\ m[p + y] = NUL
    BY <1>0 DEF Addr
  <2>2. y \notin 0 .. n - 1
    BY <1>0, <2>1
  <2> QED
    BY <1>0, <2>1, <2>2
<1> HIDE DEF S
<1>3. Min(S) = n
  BY <1>1, <1>2, MinIs
<1> QED
  BY <1>3 DEF strlen, S

\* A string ends where strlen says.
LEMMA StrlenEnds ==
  ASSUME NEW m, NEW p \in Addr, IsString(m, p)
  PROVE  Ends(m, p, strlen(m, p))
<1> DEFINE S == {i \in Addr : p + i \in Addr /\ m[p + i] = NUL}
           n == Min(S)
<1>0. MemSize \in Nat /\ p \in Nat
  BY MemoryAssumption DEF Addr
<1>1. PICK a \in Addr : a >= p /\ m[a] = NUL
  BY DEF IsString
<1>2. a - p \in S
  <2>1. a - p \in Addr /\ p + (a - p) = a
    BY <1>0, <1>1 DEF Addr
  <2> QED
    BY <1>1, <2>1
<1>3. S \subseteq Nat
  BY DEF Addr
<1>4. n \in S /\ \A y \in S : n <= y
  <2> HIDE DEF S
  <2> QED
    BY <1>2, <1>3, MinOf
<1>5. n \in Nat /\ p + n \in Addr /\ m[p + n] = NUL
  BY <1>3, <1>4
<1> HIDE DEF n
<1>6. ASSUME NEW i \in 0 .. n - 1 PROVE m[p + i] # NUL
  <2>1. i \in Addr /\ p + i \in Addr /\ ~ (n <= i)
    BY <1>0, <1>5 DEF Addr
  <2> QED
    BY <1>4, <2>1
<1>7. strlen(m, p) = n
  BY DEF strlen, n
<1> QED
  BY <1>5, <1>6, <1>7 DEF Ends

\* A string's text, byte by byte.
LEMMA TextIs ==
  ASSUME NEW m, NEW p \in Nat, NEW n, Ends(m, p, n)
  PROVE  Text(m, p) = [i \in 1 .. n |-> m[p + i - 1]]
  BY StrlenIs DEF Text

\* A string's text with its terminator.
LEMMA EndedText ==
  ASSUME NEW m \in Contents, NEW p \in Nat, NEW n, Ends(m, p, n)
  PROVE  /\ Len(Append(Text(m, p), NUL)) = n + 1
         /\ \A i \in 1 .. n + 1 : Append(Text(m, p), NUL)[i] = m[p + i - 1]
<1> DEFINE t == Text(m, p)
<1>0. MemSize \in Nat /\ n \in Nat /\ p + n \in Addr /\ m[p + n] = NUL
  BY MemoryAssumption DEF Ends
<1>1. t = [i \in 1 .. n |-> m[p + i - 1]]
  BY TextIs
<1> HIDE DEF t
<1>2. t \in Seq(0 .. 255) /\ Len(t) = n
  <2>1. \A i \in 1 .. n : p + i - 1 \in Addr
    BY <1>0 DEF Addr
  <2>2. \A i \in 1 .. n : m[p + i - 1] \in 0 .. 255
    BY <2>1 DEF Contents
  <2> QED
    BY <1>0, <1>1, <2>2
<1>3. NUL \in 0 .. 255
  BY DEF NUL
<1> DEFINE S == Append(t, NUL)
<1>4. Len(S) = n + 1 /\ S[n + 1] = NUL /\ \A i \in 1 .. n : S[i] = t[i]
  BY <1>0, <1>2, <1>3
<1> HIDE DEF S
<1>5. ASSUME NEW i \in 1 .. n + 1 PROVE S[i] = m[p + i - 1]
  <2>1. CASE i = n + 1
    <3>1. p + i - 1 = p + n
      BY <1>0, <2>1
    <3> QED
      BY <1>0, <1>4, <2>1, <3>1
  <2>2. CASE i \in 1 .. n
    BY <1>1, <1>4, <2>2
  <2> QED
    BY <1>0, <2>1, <2>2
<1> QED
  BY <1>4, <1>5 DEF S, t

\* A string whose bytes are those of another one has its text.
LEMMA SameText ==
  ASSUME NEW m, NEW p \in Nat, NEW n, Ends(m, p, n), NEW m2, NEW q \in Nat, q + n \in Addr,
         \A i \in 0 .. n : m2[q + i] = m[p + i]
  PROVE  Text(m2, q) = Text(m, p)
<1>0. n \in Nat /\ m[p + n] = NUL /\ \A i \in 0 .. n - 1 : m[p + i] # NUL
  BY DEF Ends
<1>1. Ends(m2, q, n)
  <2>1. n \in 0 .. n /\ \A i \in 0 .. n - 1 : i \in 0 .. n
    BY <1>0
  <2> QED
    BY <1>0, <2>1 DEF Ends
<1>2. ASSUME NEW i \in 1 .. n PROVE m2[q + i - 1] = m[p + i - 1]
  <2>1. i - 1 \in 0 .. n /\ q + (i - 1) = q + i - 1 /\ p + (i - 1) = p + i - 1
    BY <1>0
  <2>2. m2[q + (i - 1)] = m[p + (i - 1)]
    BY <2>1
  <2> QED
    BY <2>1, <2>2
<1>3. Text(m2, q) = [i \in 1 .. n |-> m2[q + i - 1]] /\ Text(m, p) = [i \in 1 .. n |-> m[p + i - 1]]
  BY <1>1, TextIs
<1> QED
  BY <1>2, <1>3

\* strcpy leaves two copies of the text.
LEMMA StrcpyTexts ==
  ASSUME NEW m \in Contents, NEW s1 \in Addr, NEW s2 \in Addr, IsString(m, s2),
         NEW k, k = strlen(m, s2) + 1, Fits(s1, k), Apart(s1, k, s2, k)
  PROVE  /\ Text(strcpy(m, s1, s2), s1) = Text(m, s2)
         /\ Text(strcpy(m, s1, s2), s2) = Text(m, s2)
<1> DEFINE n == strlen(m, s2)
           x == Moved(m, s1, s2, k)
<1>0. MemSize \in Nat /\ s1 \in Nat /\ s2 \in Nat
  BY MemoryAssumption DEF Addr
<1>1. Ends(m, s2, n)
  BY StrlenEnds
<1>2. n \in Nat /\ s2 + n \in Addr /\ k = n + 1
  BY <1>1 DEF Ends
<1> HIDE DEF n
<1>3. k \in Nat /\ k = 1 * k /\ s1 + k <= MemSize /\ s2 + k <= MemSize /\ s1 + n \in Addr
  BY <1>0, <1>2 DEF Fits, Addr
<1>4. ASSUME NEW i \in 0 .. n
      PROVE  x[s1 + i] = m[s2 + i] /\ x[s2 + i] = m[s2 + i]
  <2> DEFINE a == s1 + i
             b == s2 + i
  <2>1. /\ a \in Addr /\ b \in Addr /\ b \in Nat /\ a + s2 = b + s1
        /\ a \in Area(s1, k) /\ b \in Area(s2, k)
    BY <1>0, <1>2, <1>3 DEF Area, Addr
  <2>2. b \notin Area(s1, k)
    <3> HIDE DEF a, b
    <3> QED
      BY <2>1 DEF Apart
  <2> HIDE DEF a, b
  <2>3. x[a] = m[b]
    <3> HIDE DEF x
    <3>1. Moved(m, s1, s2, k)[a] = m[b]
      BY <1>0, <2>1, MovedAt
    <3> QED
      BY <3>1 DEF x
  <2>4. x[b] = m[b]
    BY <2>1, <2>2 DEF Moved
  <2> QED
    BY <2>3, <2>4 DEF a, b
<1>5. s1 <= s2 \/ s2 + k <= s1
  <2> SUFFICES ASSUME ~ (s1 <= s2), ~ (s2 + k <= s1) PROVE FALSE
    OBVIOUS
  <2>1. s1 \in Area(s1, k) /\ s1 \in Area(s2, k)
    BY <1>0, <1>2, <1>3 DEF Area
  <2> QED
    BY <2>1 DEF Apart
<1>6. strcpy(m, s1, s2) = x
  <2>1. CopyUp(m, s1, s2, 1, k) = x
    BY <1>0, <1>3, <1>5, CopiedUp
  <2> QED
    BY <1>2, <2>1 DEF strcpy, n
<1> HIDE DEF x
<1>7. Text(x, s1) = Text(m, s2)
  BY <1>0, <1>1, <1>3, <1>4, SameText
<1>8. Text(x, s2) = Text(m, s2)
  BY <1>0, <1>1, <1>2, <1>4, SameText
<1> QED
  BY <1>6, <1>7, <1>8

\* strcat leaves the second text behind the first.
LEMMA StrcatTexts ==
  ASSUME NEW m \in Contents, NEW s1 \in Addr, NEW s2 \in Addr, IsString(m, s1), IsString(m, s2),
         NEW k, k = strlen(m, s2) + 1, NEW all, all = strlen(m, s1) + k,
         Fits(s1, all), Apart(s1, all, s2, k)
  PROVE  /\ Text(strcat(m, s1, s2), s1) = Text(m, s1) \o Text(m, s2)
         /\ Text(strcat(m, s1, s2), s2) = Text(m, s2)
<1> DEFINE l == strlen(m, s1)
           n == strlen(m, s2)
           e == s1 + l
           x == Moved(m, e, s2, k)
<1>0. MemSize \in Nat /\ s1 \in Nat /\ s2 \in Nat
  BY MemoryAssumption DEF Addr
<1>1. Ends(m, s1, l) /\ Ends(m, s2, n)
  BY StrlenEnds
<1>2. /\ n \in Nat /\ s2 + n \in Addr /\ k = n + 1 /\ m[s2 + n] = NUL
      /\ \A i \in 0 .. n - 1 : m[s2 + i] # NUL
      /\ l \in Nat /\ s1 + l \in Addr /\ all = l + k
      /\ \A i \in 0 .. l - 1 : m[s1 + i] # NUL
  BY <1>1 DEF Ends
<1> HIDE DEF n, l
<1>3. /\ k \in Nat /\ k = 1 * k /\ e \in Nat /\ e + k <= MemSize /\ s2 + k <= MemSize
      /\ e + n \in Addr /\ s1 + (l + n) \in Addr
  BY <1>0, <1>2 DEF Fits, Addr
<1>4. ASSUME NEW i \in 0 .. n
      PROVE  x[e + i] = m[s2 + i] /\ x[s2 + i] = m[s2 + i]
  <2> DEFINE a == e + i
             b == s2 + i
  <2>1. /\ a \in Addr /\ b \in Addr /\ b \in Nat /\ a + s2 = b + e
        /\ a \in Area(e, k) /\ b \in Area(s2, k)
    BY <1>0, <1>2, <1>3 DEF Area, Addr
  <2>2. b \in Area(e, k) => b \in Area(s1, all)
    BY <1>0, <1>2, <1>3 DEF Area
  <2>3. b \notin Area(e, k)
    <3> HIDE DEF a, b, e
    <3> QED
      BY <2>1, <2>2 DEF Apart
  <2> HIDE DEF a, b, e
  <2>4. x[a] = m[b]
    <3> HIDE DEF x
    <3>0. e \in Nat /\ s2 \in Nat
      BY <1>0, <1>3
    <3>1. a \in Addr /\ b \in Nat
      BY <2>1
    <3>2. a + s2 = b + e
      BY <2>1
    <3>3. a \in Area(e, k)
      BY <2>1
    <3>4. a - e + s2 = b
      BY <3>0, <3>1, <3>2, MemoryAssumption DEF Addr
    <3>5. Moved(m, e, s2, k)[a] = m[b]
      BY <3>1, <3>3, <3>4 DEF Moved
    <3> QED
      BY <3>5 DEF x
  <2>5. x[b] = m[b]
    BY <2>1, <2>3 DEF Moved
  <2> QED
    BY <2>4, <2>5 DEF a, b
<1>5. ASSUME NEW i \in 0 .. l - 1 PROVE x[s1 + i] = m[s1 + i]
  <2>1. s1 + i \in Addr /\ s1 + i \notin Area(e, k)
    BY <1>0, <1>2, <1>3 DEF Area, Addr
  <2> HIDE DEF e
  <2> QED
    BY <2>1 DEF Moved
<1>6. e <= s2 \/ s2 + k <= e
  <2> SUFFICES ASSUME ~ (e <= s2), ~ (s2 + k <= e) PROVE FALSE
    OBVIOUS
  <2>1. e \in Area(s1, all) /\ e \in Area(s2, k)
    BY <1>0, <1>2, <1>3 DEF Area
  <2> QED
    BY <2>1 DEF Apart
<1>7. strcat(m, s1, s2) = x
  <2>1. CopyUp(m, e, s2, 1, k) = x
    <3> HIDE DEF e
    <3> QED
      BY <1>0, <1>3, <1>6, CopiedUp
  <2>2. (s1 + strlen(m, s1) + 1) - 2 + 1 = e /\ strlen(m, s2) + 1 = k
    BY <1>0, <1>2 DEF l, n
  <2> HIDE DEF e
  <2>3. strcat(m, s1, s2) = CopyUp(m, (s1 + strlen(m, s1) + 1) - 2 + 1, s2, 1, strlen(m, s2) + 1)
    BY DEF strcat
  <2> QED
    BY <2>1, <2>2, <2>3
<1> HIDE DEF x
<1>8. Text(x, s2) = Text(m, s2)
  BY <1>0, <1>1, <1>2, <1>4, SameText
<1>9. Ends(x, s1, l + n)
  <2>1. x[s1 + (l + n)] = NUL
    <3>1. n \in 0 .. n /\ e + n = s1 + (l + n)
      BY <1>0, <1>2
    <3> QED
      BY <1>2, <1>4, <3>1
  <2>2. ASSUME NEW i \in 0 .. (l + n) - 1 PROVE x[s1 + i] # NUL
    <3>1. CASE i < l
      BY <1>2, <1>5, <3>1
    <3>2. CASE i >= l
      <4> DEFINE j == i - l
      <4>1. j \in 0 .. n - 1 /\ j \in 0 .. n /\ e + j = s1 + i
        BY <1>0, <1>2, <3>2
      <4> HIDE DEF j, e
      <4>2. x[e + j] = m[s2 + j] /\ m[s2 + j] # NUL
        BY <1>2, <1>4, <4>1
      <4> QED
        BY <4>1, <4>2
    <3> QED
      BY <1>2, <3>1, <3>2
  <2> QED
    BY <1>2, <1>3, <2>1, <2>2 DEF Ends
<1>10. Text(x, s1) = Text(m, s1) \o Text(m, s2)
  <2> DEFINE t == Text(x, s1)
             u == Text(m, s1)
             v == Text(m, s2)
             V == {m[a] : a \in Addr} \cup {x[a] : a \in Addr}
  <2>1. /\ t = [i \in 1 .. l + n |-> x[s1 + i - 1]]
        /\ u = [i \in 1 .. l |-> m[s1 + i - 1]]
        /\ v = [i \in 1 .. n |-> m[s2 + i - 1]]
    BY <1>0, <1>1, <1>9, TextIs
  <2> HIDE DEF t, u, v
  <2>2. t \in Seq(V) /\ Len(t) = l + n
    <3>1. \A i \in 1 .. l + n : s1 + i - 1 \in Addr
      BY <1>0, <1>2, <1>3 DEF Addr
    <3>2. \A i \in 1 .. l + n : x[s1 + i - 1] \in V
      BY <3>1
    <3> HIDE DEF V
    <3> QED
      BY <1>2, <2>1, <3>2
  <2>3. u \in Seq(V) /\ Len(u) = l
    <3>1. \A i \in 1 .. l : s1 + i - 1 \in Addr
      BY <1>0, <1>2, <1>3 DEF Addr
    <3>2. \A i \in 1 .. l : m[s1 + i - 1] \in V
      BY <3>1
    <3> HIDE DEF V
    <3> QED
      BY <1>2, <2>1, <3>2
  <2>4. v \in Seq(V) /\ Len(v) = n
    <3>1. \A i \in 1 .. n : s2 + i - 1 \in Addr
      BY <1>0, <1>2, <1>3 DEF Addr
    <3>2. \A i \in 1 .. n : m[s2 + i - 1] \in V
      BY <3>1
    <3> HIDE DEF V
    <3> QED
      BY <1>2, <2>1, <3>2
  <2> HIDE DEF V
  <2>5. u \o v \in Seq(V) /\ Len(u \o v) = l + n
    BY <1>2, <2>3, <2>4
  <2>6. ASSUME NEW i \in 1 .. l + n PROVE t[i] = (u \o v)[i]
    <3>1. CASE i <= l
      <4>1. (u \o v)[i] = u[i] /\ i \in 1 .. l /\ i - 1 \in 0 .. l - 1 /\ s1 + (i - 1) = s1 + i - 1
        BY <1>0, <1>2, <2>3, <2>4, <3>1
      <4>2. x[s1 + (i - 1)] = m[s1 + (i - 1)]
        BY <1>5, <4>1
      <4> QED
        BY <2>1, <4>1, <4>2
    <3>2. CASE i > l
      <4> DEFINE j == i - l
      <4>1. (u \o v)[i] = v[j] /\ j \in 1 .. n
        BY <1>2, <2>3, <2>4, <3>2
      <4>2. j - 1 \in 0 .. n /\ e + (j - 1) = s1 + i - 1 /\ s2 + (j - 1) = s2 + j - 1
        BY <1>0, <1>2, <3>2
      <4> HIDE DEF j, e
      <4>3. x[e + (j - 1)] = m[s2 + (j - 1)]
        BY <1>4, <4>2
      <4> QED
        BY <2>1, <4>1, <4>2, <4>3
    <3>3. i <= l \/ i > l
      BY <1>2
    <3> QED
      BY <3>1, <3>2, <3>3
  <2>7. t = u \o v
    BY <2>2, <2>5, <2>6, SeqEqual
  <2> QED
    BY <2>7 DEF t, u, v
<1> QED
  BY <1>7, <1>8, <1>10

\* Comparing up to the end of the first string, when a is not the prefix of b's bytes.
LEMMA OrderIs ==
  ASSUME NEW m \in Contents, NEW a \in Addr, NEW b \in Addr, NEW l, NEW n, Ends(m, a, l), Ends(m, b, n),
         NEW st \in 0 .. l, \A i \in 0 .. st - 1 : m[a + i] = m[b + i], m[a + st] # m[b + st]
  PROVE  Order(Text(m, a), Text(m, b)) = m[a + st] - m[b + st]
<1>0. MemSize \in Nat /\ a \in Nat /\ b \in Nat /\ l \in Nat /\ n \in Nat
  BY MemoryAssumption DEF Addr, Ends
<1> DEFINE S == Append(Text(m, a), NUL)
           T == Append(Text(m, b), NUL)
           d == {i \in 1 .. Len(S) : i > Len(T) \/ S[i] # T[i]}
<1>1. /\ Len(S) = l + 1 /\ \A i \in 1 .. l + 1 : S[i] = m[a + i - 1]
      /\ Len(T) = n + 1 /\ \A i \in 1 .. n + 1 : T[i] = m[b + i - 1]
  BY <1>0, EndedText
<1>2. Order(Text(m, a), Text(m, b)) = IF d = {} THEN 0 ELSE S[Min(d)] - T[Min(d)]
  BY DEF Order
<1> HIDE DEF S, T
<1>3. st <= n
  <2> SUFFICES ASSUME n < st PROVE FALSE
    BY <1>0
  <2>1. m[a + n] = m[b + n] /\ n \in 0 .. l - 1
    BY <1>0
  <2> QED
    BY <2>1 DEF Ends
<1>4. ASSUME NEW i \in 1 .. st + 1 PROVE S[i] = m[a + i - 1] /\ T[i] = m[b + i - 1]
  BY <1>0, <1>1, <1>3
<1>5. S[st + 1] = m[a + st] /\ T[st + 1] = m[b + st]
  <2>1. st + 1 \in 1 .. st + 1 /\ a + (st + 1) - 1 = a + st /\ b + (st + 1) - 1 = b + st
    BY <1>0
  <2> QED
    BY <1>4, <2>1
<1>6. st + 1 \in d
  BY <1>0, <1>1, <1>5
<1>7. ASSUME NEW y \in d PROVE st + 1 <= y
  <2> SUFFICES ASSUME y <= st PROVE FALSE
    BY <1>0, <1>1
  <2>1. y \in 1 .. st + 1 /\ y - 1 \in 0 .. st - 1 /\ y <= n + 1
    BY <1>0, <1>1, <1>3
  <2>2. m[a + (y - 1)] = m[b + (y - 1)] /\ a + (y - 1) = a + y - 1 /\ b + (y - 1) = b + y - 1
    BY <1>0, <2>1
  <2> QED
    BY <1>1, <1>4, <2>1, <2>2
<1>8. Min(d) = st + 1
  <2>1. d \subseteq Int
    OBVIOUS
  <2> HIDE DEF d
  <2> QED
    BY <1>6, <1>7, <2>1, MinIs
<1> QED
  BY <1>2, <1>5, <1>6, <1>8

\* When they agree through the terminator.
LEMMA OrderEqual ==
  ASSUME NEW m \in Contents, NEW a \in Addr, NEW b \in Addr, NEW l, NEW n, Ends(m, a, l), Ends(m, b, n),
         \A i \in 0 .. l : m[a + i] = m[b + i]
  PROVE  Order(Text(m, a), Text(m, b)) = 0
<1>0. MemSize \in Nat /\ a \in Nat /\ b \in Nat /\ l \in Nat /\ n \in Nat
  BY MemoryAssumption DEF Addr, Ends
<1> DEFINE S == Append(Text(m, a), NUL)
           T == Append(Text(m, b), NUL)
           d == {i \in 1 .. Len(S) : i > Len(T) \/ S[i] # T[i]}
<1>1. /\ Len(S) = l + 1 /\ \A i \in 1 .. l + 1 : S[i] = m[a + i - 1]
      /\ Len(T) = n + 1 /\ \A i \in 1 .. n + 1 : T[i] = m[b + i - 1]
  BY <1>0, EndedText
<1>2. Order(Text(m, a), Text(m, b)) = IF d = {} THEN 0 ELSE S[Min(d)] - T[Min(d)]
  BY DEF Order
<1> HIDE DEF S, T
<1>3. l <= n
  <2> SUFFICES ASSUME n < l PROVE FALSE
    BY <1>0
  <2>1. m[a + n] = m[b + n] /\ n \in 0 .. l - 1
    BY <1>0
  <2> QED
    BY <2>1 DEF Ends
<1>4. ASSUME NEW y \in 1 .. l + 1 PROVE S[y] = T[y] /\ y <= n + 1
  <2>1. y - 1 \in 0 .. l /\ y \in 1 .. n + 1 /\ a + (y - 1) = a + y - 1 /\ b + (y - 1) = b + y - 1
    BY <1>0, <1>3
  <2>2. m[a + (y - 1)] = m[b + (y - 1)]
    BY <2>1
  <2> QED
    BY <1>1, <2>1, <2>2
<1>5. d = {}
  BY <1>0, <1>1, <1>4
<1> QED
  BY <1>2, <1>5

\* The comparison of two strings, whole or of the first one's length.
LEMMA Strcmps ==
  ASSUME NEW m \in Contents, NEW a \in Addr, NEW b \in Addr, IsString(m, a), IsString(m, b)
  PROVE  strcmp(m, a, b) = Order(Text(m, a), Text(m, b))
<1> DEFINE l == strlen(m, a)
           n == strlen(m, b)
           c == Min({l, n})
           d == {i \in 0 .. c : m[a + i] # m[b + i] \/ m[a + i] = NUL}
           st == Min(d)
<1>0. Ends(m, a, l) /\ Ends(m, b, n)
  BY StrlenEnds
<1>1. strcmp(m, a, b) = m[a + st] - m[b + st]
  BY DEF strcmp
<1> HIDE DEF l, n
<1>2. /\ l \in Nat /\ m[a + l] = NUL /\ \A i \in 0 .. l - 1 : m[a + i] # NUL
      /\ n \in Nat /\ m[b + n] = NUL /\ \A i \in 0 .. n - 1 : m[b + i] # NUL
  BY <1>0 DEF Ends
<1>3. c \in {l, n} /\ c <= l /\ c <= n
  <2>1. {l, n} \subseteq Nat /\ {l, n} # {}
    BY <1>2
  <2>2. c \in {l, n} /\ \A y \in {l, n} : c <= y
    BY <2>1, MinOf
  <2> QED
    BY <2>2
<1> HIDE DEF c
<1>4. c \in d
  <2>1. c \in 0 .. c
    BY <1>2, <1>3
  <2>2. m[a + c] # m[b + c] \/ m[a + c] = NUL
    <3>1. CASE c = l
      BY <1>2, <3>1
    <3>2. CASE c = n /\ c # l
      <4>1. c \in 0 .. l - 1
        BY <1>2, <1>3, <3>2
      <4> QED
        BY <1>2, <3>2, <4>1
    <3> QED
      BY <1>3, <3>1, <3>2
  <2> QED
    BY <2>1, <2>2
<1>5. st \in d /\ \A y \in d : st <= y
  <2>1. d \subseteq Nat
    OBVIOUS
  <2> HIDE DEF d
  <2> QED
    BY <1>4, <2>1, MinOf
<1> HIDE DEF st
<1>6. st \in 0 .. l /\ st <= c
  BY <1>2, <1>3, <1>5
<1>7. ASSUME NEW i \in 0 .. st - 1 PROVE m[a + i] = m[b + i] /\ m[a + i] # NUL
  <2>1. i \in 0 .. c /\ ~ (st <= i)
    BY <1>2, <1>3, <1>6
  <2> QED
    BY <1>5, <2>1
<1>8. CASE m[a + st] # m[b + st]
  BY <1>0, <1>1, <1>6, <1>7, <1>8, OrderIs
<1>9. CASE m[a + st] = m[b + st]
  <2>1. m[a + st] = NUL
    BY <1>5, <1>9
  <2>2. st = l
    <3> SUFFICES ASSUME st # l PROVE FALSE
      OBVIOUS
    <3>1. st \in 0 .. l - 1
      BY <1>2, <1>6
    <3> QED
      BY <1>2, <2>1, <3>1
  <2>3. ASSUME NEW i \in 0 .. l PROVE m[a + i] = m[b + i]
    <3>1. CASE i = l
      BY <1>9, <2>2, <3>1
    <3>2. CASE i # l
      <4>1. i \in 0 .. st - 1
        BY <1>2, <2>2, <3>2
      <4> QED
        BY <1>7, <4>1
    <3> QED
      BY <3>1, <3>2
  <2>4. Order(Text(m, a), Text(m, b)) = 0
    BY <1>0, <2>3, OrderEqual
  <2>5. m[a + st] - m[b + st] = 0
    BY <1>9, <2>1 DEF NUL
  <2> QED
    BY <1>1, <2>4, <2>5
<1> QED
  BY <1>8, <1>9

\* strncmp over a whole string orders the texts.
LEMMA Strncmps ==
  ASSUME NEW m \in Contents, NEW a \in Addr, NEW b \in Addr, IsString(m, a), IsString(m, b),
         NEW k, k = strlen(m, a) + 1
  PROVE  strncmp(m, a, b, k) = Order(Text(m, a), Text(m, b))
<1> DEFINE l == strlen(m, a)
           n == strlen(m, b)
           d == {i \in 0 .. k - 1 : m[a + i] # m[b + i]}
           st == Min(d)
<1>0. Ends(m, a, l) /\ Ends(m, b, n)
  BY StrlenEnds
<1>1. l \in Nat /\ k = l + 1
  BY <1>0 DEF Ends
<1> HIDE DEF l, n
<1>2. strncmp(m, a, b, k) = IF d = {} THEN 0 ELSE m[a + st] - m[b + st]
  <2>1. k # 0
    BY <1>1
  <2> QED
    BY <2>1 DEF strncmp
<1>3. CASE d = {}
  <2>1. \A i \in 0 .. l : m[a + i] = m[b + i]
    BY <1>1, <1>3
  <2>2. Order(Text(m, a), Text(m, b)) = 0
    BY <1>0, <2>1, OrderEqual
  <2> QED
    BY <1>2, <1>3, <2>2
<1>4. CASE d # {}
  <2>1. st \in d /\ \A y \in d : st <= y
    <3>1. d \subseteq Nat
      BY <1>1
    <3> HIDE DEF d
    <3> QED
      BY <1>4, <3>1, MinOf
  <2> HIDE DEF st
  <2>2. st \in 0 .. l /\ m[a + st] # m[b + st]
    BY <1>1, <2>1
  <2>3. ASSUME NEW i \in 0 .. st - 1 PROVE m[a + i] = m[b + i]
    <3>1. i \in 0 .. k - 1 /\ ~ (st <= i)
      BY <1>1, <2>2
    <3> QED
      BY <2>1, <3>1
  <2>4. Order(Text(m, a), Text(m, b)) = m[a + st] - m[b + st]
    BY <1>0, <2>2, <2>3, OrderIs
  <2> QED
    BY <1>2, <1>4, <2>4
<1> QED
  BY <1>3, <1>4

\* A character is found where it stands first, or it is not in the string.
LEMMA Strchrs ==
  ASSUME NEW m, NEW s \in Addr, NEW c, IsString(m, s)
  PROVE  /\ (strchr(m, s, c) = -1) <=> (\A i \in 0 .. strlen(m, s) : m[s + i] # c)
         /\ strchr(m, s, c) # -1 => m[strchr(m, s, c)] = c
<1> DEFINE l == strlen(m, s)
           d == {i \in 0 .. l : m[s + i] = c}
<1>0. l \in Nat /\ s \in Nat
  <2>1. Ends(m, s, l)
    BY StrlenEnds
  <2> QED
    BY <2>1, MemoryAssumption DEF Ends, Addr
<1>1. strchr(m, s, c) = IF d = {} THEN -1 ELSE s + Min(d)
  BY DEF strchr
<1> HIDE DEF l
<1>2. d = {} <=> \A i \in 0 .. l : m[s + i] # c
  OBVIOUS
<1>3. d # {} => Min(d) \in d
  <2>1. d \subseteq Nat
    BY <1>0
  <2> HIDE DEF d
  <2> QED
    BY <2>1, MinOf
<1>4. d # {} => Min(d) \in Nat /\ m[s + Min(d)] = c
  BY <1>0, <1>3
<1> HIDE DEF d
<1>5. d # {} => s + Min(d) # -1
  BY <1>0, <1>4
<1> QED
  BY <1>1, <1>2, <1>4, <1>5 DEF l

\* Two areas compare equal exactly when moving one over the other changes nothing.
LEMMA Memcmps ==
  ASSUME NEW m \in Contents, NEW a \in Nat, NEW b \in Nat, NEW n \in Nat,
         a + n <= MemSize, b + n <= MemSize
  PROVE  (memcmp(m, a, b, n) = 0) = (Moved(m, a, b, n) = m)
<1> DEFINE d == {i \in 0 .. n - 1 : m[a + i] # m[b + i]}
<1>0. MemSize \in Nat
  BY MemoryAssumption
<1>1. memcmp(m, a, b, n) = IF d = {} THEN 0 ELSE m[a + Min(d)] - m[b + Min(d)]
  BY DEF memcmp
<1>2. CASE d = {}
  <2>1. ASSUME NEW x \in Addr
        PROVE  (IF x \in Area(a, n) THEN m[x - a + b] ELSE m[x]) = m[x]
    <3>1. CASE x \in Area(a, n)
      <4> DEFINE i == x - a
      <4>1. i \in 0 .. n - 1 /\ a + i = x /\ b + i = x - a + b
        BY <1>0, <3>1 DEF Area, Addr
      <4> HIDE DEF i
      <4>2. m[a + i] = m[b + i]
        BY <1>2, <4>1
      <4> QED
        BY <4>1, <4>2
    <3> QED
      BY <3>1
  <2>2. m = [x \in Addr |-> m[x]]
    BY DEF Contents
  <2>3. Moved(m, a, b, n) = m
    BY <2>1, <2>2 DEF Moved
  <2> QED
    BY <1>1, <1>2, <2>3
<1>3. CASE d # {}
  <2> DEFINE i == Min(d)
             x == a + i
             y == b + i
  <2>1. i \in d
    <3>1. d \subseteq Nat
      OBVIOUS
    <3> HIDE DEF d
    <3> QED
      BY <1>3, <3>1, MinOf
  <2>2. i \in 0 .. n - 1 /\ m[a + i] # m[b + i]
    BY <2>1
  <2> HIDE DEF i
  <2>3. x \in Addr /\ y \in Addr /\ y \in Nat /\ x \in Area(a, n) /\ x + b = y + a /\ m[x] # m[y]
    BY <1>0, <2>2 DEF Addr, Area
  <2>4. memcmp(m, a, b, n) = m[x] - m[y]
    BY <1>1, <1>3 DEF i
  <2> HIDE DEF x, y
  <2>5. m[x] \in 0 .. 255 /\ m[y] \in 0 .. 255
    BY <2>3 DEF Contents
  <2>6. memcmp(m, a, b, n) # 0
    <3>1. m[x] # m[y]
      BY <2>3
    <3> HIDE DEF d
    <3>2. \A g, h \in 0 .. 255 : g # h => g - h # 0
      OBVIOUS
    <3>3. m[x] - m[y] # 0
      BY <2>5, <3>1, <3>2
    <3> QED
      BY <2>4, <3>3
  <2>7. Moved(m, a, b, n)[x] = m[y]
    <3>1. x \in Addr /\ y \in Nat
      BY <2>3
    <3>2. x + b = y + a
      BY <2>3
    <3>3. x \in Area(a, n)
      BY <2>3
    <3> HIDE DEF d
    <3> QED
      BY <3>1, <3>2, <3>3, MovedAt
  <2> QED
    BY <2>3, <2>6, <2>7
<1> QED
  BY <1>2, <1>3

\* An area is all zeros exactly when filling it with zeros changes nothing.
LEMMA Memiszeros ==
  ASSUME NEW m \in Contents, NEW p \in Nat, NEW n \in Nat, p + n <= MemSize
  PROVE  memiszero(m, p, n) <=> memset(m, p, 0, n) = m
<1>1. \A x \in Area(p, n) : x \in Addr
  BY MemoryAssumption DEF Area, Addr
<1>2. memset(m, p, 0, n) = [x \in Addr |-> IF x \in Area(p, n) THEN 0 ELSE m[x]]
  BY DEF memset
<1>3. m = [x \in Addr |-> m[x]]
  BY DEF Contents
<1> DEFINE z == [x \in Addr |-> IF x \in Area(p, n) THEN 0 ELSE m[x]]
<1>4. ASSUME memiszero(m, p, n) PROVE z = m
  BY <1>3, <1>4 DEF memiszero
<1>5. ASSUME z = m PROVE memiszero(m, p, n)
  <2>1. ASSUME NEW x \in Area(p, n) PROVE m[x] = 0
    <3>1. z[x] = 0
      BY <1>1
    <3> QED
      BY <1>5, <3>1
  <2> QED
    BY <2>1 DEF memiszero
<1> QED
  BY <1>2, <1>4, <1>5

\* The room two areas leave.
LEMMA Room ==
  ASSUME NEW p \in Addr, NEW q \in Addr, NEW n \in 0 .. MemSize - Max({p, q})
  PROVE  n \in Nat /\ p + n <= MemSize /\ q + n <= MemSize
<1>0. MemSize \in Nat /\ p \in Nat /\ q \in Nat
  BY MemoryAssumption DEF Addr
<1>1. Max({p, q}) \in {p, q} /\ \A y \in {p, q} : Max({p, q}) >= y
  <2>1. \E x \in {p, q} : \A y \in {p, q} : x >= y
    <3>1. CASE p >= q
      BY <1>0, <3>1
    <3>2. CASE q >= p
      BY <1>0, <3>2
    <3> QED
      BY <1>0, <3>1, <3>2
  <2> QED
    BY <2>1 DEF Max
<1> QED
  BY <1>0, <1>1

\* What a call finds, and what it does with it.
StringsInv == (call.fn = "none" => mem \in Contents) /\ StringsExact

\* The step of one call.
LEMMA Called ==
  ASSUME NEW fn, NEW a, NEW b, NEW n, NEW m, NEW ret, Done(fn, <<a, b, n>>, m, ret)
  PROVE  /\ mem' = m /\ old' = mem /\ call'.fn = fn
         /\ call'.dst = a /\ call'.src = b /\ call'.n = n /\ call'.ret = ret
  BY DEF Done

\* What a copying call returns and leaves.
LEMMA CopyExact ==
  ASSUME mem \in Contents, Copy
  PROVE  StringsInv'
<1>1. PICK dst \in Addr, src \in Addr : \E n \in 0 .. MemSize - Max({dst, src}) :
        \/ Done("memcpy", <<dst, src, n>>, memcpy(mem, dst, src, n), dst)
        \/ Done("memmove", <<dst, src, n>>, memmove(mem, dst, src, n), dst)
        \/ /\ lmemcpy_asserts(4, dst, n) /\ src # 0 /\ Apart(dst, n, src, n)
           /\ Done("lmemcpy", <<dst, src, n>>, lmemcpy(mem, dst, src, n), dst)
        \/ /\ lmemcpy_asserts(8, dst, n) /\ src # 0 /\ Apart(dst, n, src, n)
           /\ Done("llmemcpy", <<dst, src, n>>, llmemcpy(mem, dst, src, n), dst)
  BY DEF Copy
<1>2. PICK n \in 0 .. MemSize - Max({dst, src}) :
        \/ Done("memcpy", <<dst, src, n>>, memcpy(mem, dst, src, n), dst)
        \/ Done("memmove", <<dst, src, n>>, memmove(mem, dst, src, n), dst)
        \/ /\ lmemcpy_asserts(4, dst, n) /\ src # 0 /\ Apart(dst, n, src, n)
           /\ Done("lmemcpy", <<dst, src, n>>, lmemcpy(mem, dst, src, n), dst)
        \/ /\ lmemcpy_asserts(8, dst, n) /\ src # 0 /\ Apart(dst, n, src, n)
           /\ Done("llmemcpy", <<dst, src, n>>, llmemcpy(mem, dst, src, n), dst)
  BY <1>1
<1>3. n \in Nat /\ dst + n <= MemSize /\ src + n <= MemSize /\ dst \in Nat /\ src \in Nat
  BY Room, MemoryAssumption DEF Addr
<1>4. /\ memmove(mem, dst, src, n) = Moved(mem, dst, src, n)
      /\ dst \notin Area(src + 1, n - 1) => memcpy(mem, dst, src, n) = Moved(mem, dst, src, n)
      /\ Aligned(n, 4) /\ Apart(dst, n, src, n) => lmemcpy(mem, dst, src, n) = Moved(mem, dst, src, n)
      /\ Aligned(n, 8) /\ Apart(dst, n, src, n) => llmemcpy(mem, dst, src, n) = Moved(mem, dst, src, n)
  BY <1>3, CopiesMove
<1>5. CASE Done("memcpy", <<dst, src, n>>, memcpy(mem, dst, src, n), dst)
  <2>1. /\ mem' = memcpy(mem, dst, src, n) /\ old' = mem /\ call'.fn = "memcpy"
        /\ call'.dst = dst /\ call'.src = src /\ call'.n = n /\ call'.ret = dst
    BY <1>5, Called
  <2> QED
    BY <1>4, <1>5, <2>1 DEF StringsInv, StringsExact, Copied, Compared
<1>6. CASE Done("memmove", <<dst, src, n>>, memmove(mem, dst, src, n), dst)
  <2>1. /\ mem' = memmove(mem, dst, src, n) /\ old' = mem /\ call'.fn = "memmove"
        /\ call'.dst = dst /\ call'.src = src /\ call'.n = n /\ call'.ret = dst
    BY <1>6, Called
  <2> QED
    BY <1>4, <1>6, <2>1 DEF StringsInv, StringsExact, Copied, Compared
<1>7. CASE /\ lmemcpy_asserts(4, dst, n) /\ Apart(dst, n, src, n)
           /\ Done("lmemcpy", <<dst, src, n>>, lmemcpy(mem, dst, src, n), dst)
  <2>1. /\ mem' = lmemcpy(mem, dst, src, n) /\ old' = mem /\ call'.fn = "lmemcpy"
        /\ call'.dst = dst /\ call'.src = src /\ call'.n = n /\ call'.ret = dst
    BY <1>7, Called
  <2> QED
    BY <1>4, <1>7, <2>1 DEF StringsInv, StringsExact, Copied, Compared, lmemcpy_asserts
<1>8. CASE /\ lmemcpy_asserts(8, dst, n) /\ Apart(dst, n, src, n)
           /\ Done("llmemcpy", <<dst, src, n>>, llmemcpy(mem, dst, src, n), dst)
  <2>1. /\ mem' = llmemcpy(mem, dst, src, n) /\ old' = mem /\ call'.fn = "llmemcpy"
        /\ call'.dst = dst /\ call'.src = src /\ call'.n = n /\ call'.ret = dst
    BY <1>8, Called
  <2> QED
    BY <1>4, <1>8, <2>1 DEF StringsInv, StringsExact, Copied, Compared, lmemcpy_asserts
<1> QED
  BY <1>2, <1>5, <1>6, <1>7, <1>8

\* What a filling call returns and leaves.
LEMMA FillExact ==
  ASSUME Fill
  PROVE  StringsInv'
<1>1. PICK dst \in Addr, c \in {0, 1, 255} : \E n \in 0 .. MemSize - dst :
        \/ Done("memset", <<dst, c, n>>, memset(mem, dst, c, n), memset_result(dst, n))
        \/ /\ lmemcpy_asserts(4, dst, n)
           /\ Done("lmemset", <<dst, c, n>>, lmemset(mem, dst, [i \in 0 .. 3 |-> c], n), 0)
  BY DEF Fill
<1>2. PICK n \in 0 .. MemSize - dst :
        \/ Done("memset", <<dst, c, n>>, memset(mem, dst, c, n), memset_result(dst, n))
        \/ /\ lmemcpy_asserts(4, dst, n)
           /\ Done("lmemset", <<dst, c, n>>, lmemset(mem, dst, [i \in 0 .. 3 |-> c], n), 0)
  BY <1>1
<1>3. n \in Nat
  BY MemoryAssumption DEF Addr
<1>4. ASSUME NEW x \in Addr
      PROVE  /\ memset(mem, dst, c, n)[x] = IF x \in Area(dst, n) THEN c ELSE mem[x]
             /\ lmemset(mem, dst, [i \in 0 .. 3 |-> c], n)[x] = IF x \in Area(dst, n) THEN c ELSE mem[x]
  <2>1. c % 256 = c
    <3>1. c = 0 \/ c = 1 \/ c = 255
      OBVIOUS
    <3> QED
      BY <3>1
  <2>2. (x - dst) % 4 \in 0 .. 3
    BY MemoryAssumption DEF Addr
  <2>3. [i \in 0 .. 3 |-> c][(x - dst) % 4] = c
    BY <2>2
  <2>4. memset(mem, dst, c, n)[x] = IF x \in Area(dst, n) THEN c % 256 ELSE mem[x]
    BY DEF memset
  <2>5. lmemset(mem, dst, [i \in 0 .. 3 |-> c], n)[x] =
          IF x \in Area(dst, n) THEN [i \in 0 .. 3 |-> c][(x - dst) % 4] ELSE mem[x]
    BY DEF lmemset
  <2> QED
    BY <2>1, <2>3, <2>4, <2>5
<1>5. CASE Done("memset", <<dst, c, n>>, memset(mem, dst, c, n), memset_result(dst, n))
  <2>1. /\ mem' = memset(mem, dst, c, n) /\ old' = mem /\ call'.fn = "memset"
        /\ call'.dst = dst /\ call'.src = c /\ call'.n = n /\ call'.ret = memset_result(dst, n)
    BY <1>5, Called
  <2> QED
    BY <1>4, <2>1 DEF StringsInv, StringsExact, Copied, Compared
<1>6. CASE Done("lmemset", <<dst, c, n>>, lmemset(mem, dst, [i \in 0 .. 3 |-> c], n), 0)
  <2>1. /\ mem' = lmemset(mem, dst, [i \in 0 .. 3 |-> c], n) /\ old' = mem /\ call'.fn = "lmemset"
        /\ call'.dst = dst /\ call'.src = c /\ call'.n = n /\ call'.ret = 0
    BY <1>6, Called
  <2> QED
    BY <1>4, <2>1 DEF StringsInv, StringsExact, Copied, Compared
<1> QED
  BY <1>2, <1>5, <1>6

\* What a call that builds a string returns and leaves.
LEMMA BuildExact ==
  ASSUME mem \in Contents, Build
  PROVE  StringsInv'
<1>1. PICK s1 \in Addr, s2 \in Addr :
        /\ IsString(mem, s2)
        /\ LET k == strlen(mem, s2) + 1
           IN  \/ /\ Fits(s1, k) /\ Apart(s1, k, s2, k)
                  /\ Done("strcpy", <<s1, s2, 0>>, strcpy(mem, s1, s2), s1)
               \/ /\ IsString(mem, s1)
                  /\ LET all == strlen(mem, s1) + k
                     IN  /\ Fits(s1, all) /\ Apart(s1, all, s2, k)
                         /\ Done("strcat", <<s1, s2, 0>>, strcat(mem, s1, s2), s1)
  BY DEF Build
<1> DEFINE k == strlen(mem, s2) + 1
           all == strlen(mem, s1) + k
<1>2. \/ /\ Fits(s1, k) /\ Apart(s1, k, s2, k)
         /\ Done("strcpy", <<s1, s2, 0>>, strcpy(mem, s1, s2), s1)
      \/ /\ IsString(mem, s1) /\ Fits(s1, all) /\ Apart(s1, all, s2, k)
         /\ Done("strcat", <<s1, s2, 0>>, strcat(mem, s1, s2), s1)
  BY <1>1
<1>3. k = strlen(mem, s2) + 1 /\ all = strlen(mem, s1) + k
  OBVIOUS
<1> HIDE DEF k, all
<1>4. CASE /\ Fits(s1, k) /\ Apart(s1, k, s2, k)
           /\ Done("strcpy", <<s1, s2, 0>>, strcpy(mem, s1, s2), s1)
  <2>1. /\ Text(strcpy(mem, s1, s2), s1) = Text(mem, s2)
        /\ Text(strcpy(mem, s1, s2), s2) = Text(mem, s2)
    BY <1>1, <1>3, <1>4, StrcpyTexts
  <2>2. /\ mem' = strcpy(mem, s1, s2) /\ old' = mem /\ call'.fn = "strcpy"
        /\ call'.dst = s1 /\ call'.src = s2 /\ call'.n = 0 /\ call'.ret = s1
    BY <1>4, Called
  <2> QED
    BY <2>1, <2>2 DEF StringsInv, StringsExact, Copied, Compared
<1>5. CASE /\ IsString(mem, s1) /\ Fits(s1, all) /\ Apart(s1, all, s2, k)
           /\ Done("strcat", <<s1, s2, 0>>, strcat(mem, s1, s2), s1)
  <2>1. /\ Text(strcat(mem, s1, s2), s1) = Text(mem, s1) \o Text(mem, s2)
        /\ Text(strcat(mem, s1, s2), s2) = Text(mem, s2)
    BY <1>1, <1>3, <1>5, StrcatTexts
  <2>2. /\ mem' = strcat(mem, s1, s2) /\ old' = mem /\ call'.fn = "strcat"
        /\ call'.dst = s1 /\ call'.src = s2 /\ call'.n = 0 /\ call'.ret = s1
    BY <1>5, Called
  <2> QED
    BY <2>1, <2>2 DEF StringsInv, StringsExact, Copied, Compared
<1> QED
  BY <1>2, <1>4, <1>5

\* What a comparing call returns.
LEMMA CompareExact ==
  ASSUME mem \in Contents, Compare
  PROVE  StringsInv'
<1>1. PICK a \in Addr, b \in Addr :
        /\ IsString(mem, a) /\ IsString(mem, b)
        /\ \/ Done("strcmp", <<a, b, 0>>, mem, strcmp(mem, a, b))
           \/ Done("strchr", <<a, mem[b], 0>>, mem, strchr(mem, a, mem[b]))
           \/ LET n == strlen(mem, a) + 1
              IN  Fits(b, n) /\ Done("strncmp", <<a, b, n>>, mem, strncmp(mem, a, b, n))
           \/ \E n \in 0 .. MemSize - Max({a, b}) :
                \/ Done("memcmp", <<a, b, n>>, mem, memcmp(mem, a, b, n))
                \/ Done("memiszero", <<a, b, n>>, mem, IF memiszero(mem, a, n) THEN 1 ELSE 0)
  BY DEF Compare
<1>0. a \in Nat /\ b \in Nat
  BY MemoryAssumption DEF Addr
<1>2. CASE Done("strcmp", <<a, b, 0>>, mem, strcmp(mem, a, b))
  <2>1. strcmp(mem, a, b) = Order(Text(mem, a), Text(mem, b))
    BY <1>1, Strcmps
  <2>2. /\ mem' = mem /\ old' = mem /\ call'.fn = "strcmp"
        /\ call'.dst = a /\ call'.src = b /\ call'.n = 0 /\ call'.ret = strcmp(mem, a, b)
    BY <1>2, Called
  <2> QED
    BY <2>1, <2>2 DEF StringsInv, StringsExact, Copied, Compared
<1>3. CASE Done("strchr", <<a, mem[b], 0>>, mem, strchr(mem, a, mem[b]))
  <2> DEFINE c == mem[b]
  <2> HIDE DEF c
  <2>1. /\ (strchr(mem, a, c) = -1) = (\A i \in 0 .. strlen(mem, a) : mem[a + i] # c)
        /\ strchr(mem, a, c) # -1 => mem[strchr(mem, a, c)] = c
    <3>1. IsString(mem, a)
      BY <1>1
    <3>2. (strchr(mem, a, c) = -1) <=> (\A i \in 0 .. strlen(mem, a) : mem[a + i] # c)
      BY <3>1, Strchrs
    <3>3. strchr(mem, a, c) # -1 => mem[strchr(mem, a, c)] = c
      BY <3>1, Strchrs
    <3> QED
      BY <3>2, <3>3
  <2>2. Done("strchr", <<a, c, 0>>, mem, strchr(mem, a, c))
    BY <1>3 DEF c
  <2>3. /\ mem' = mem /\ old' = mem /\ call'.fn = "strchr"
        /\ call'.dst = a /\ call'.src = c /\ call'.n = 0 /\ call'.ret = strchr(mem, a, c)
    BY <2>2, Called
  <2> QED
    BY <2>1, <2>3 DEF StringsInv, StringsExact, Copied, Compared
<1>4. CASE LET n == strlen(mem, a) + 1
           IN  Fits(b, n) /\ Done("strncmp", <<a, b, n>>, mem, strncmp(mem, a, b, n))
  <2> DEFINE n == strlen(mem, a) + 1
  <2>1. Done("strncmp", <<a, b, n>>, mem, strncmp(mem, a, b, n)) /\ n = strlen(mem, a) + 1
    BY <1>4
  <2> HIDE DEF n
  <2>2. strncmp(mem, a, b, n) = Order(Text(mem, a), Text(mem, b))
    BY <1>1, <2>1, Strncmps
  <2>3. /\ mem' = mem /\ old' = mem /\ call'.fn = "strncmp"
        /\ call'.dst = a /\ call'.src = b /\ call'.n = n /\ call'.ret = strncmp(mem, a, b, n)
    BY <2>1, Called
  <2> QED
    BY <2>2, <2>3 DEF StringsInv, StringsExact, Copied, Compared
<1>5. ASSUME NEW n \in 0 .. MemSize - Max({a, b}),
             Done("memcmp", <<a, b, n>>, mem, memcmp(mem, a, b, n))
      PROVE  StringsInv'
  <2>1. n \in Nat /\ a + n <= MemSize /\ b + n <= MemSize
    BY Room
  <2>2. (memcmp(mem, a, b, n) = 0) = (Moved(mem, a, b, n) = mem)
    BY <1>0, <2>1, Memcmps
  <2>3. /\ mem' = mem /\ old' = mem /\ call'.fn = "memcmp"
        /\ call'.dst = a /\ call'.src = b /\ call'.n = n /\ call'.ret = memcmp(mem, a, b, n)
    BY <1>5, Called
  <2> QED
    BY <2>2, <2>3 DEF StringsInv, StringsExact, Copied, Compared
<1>6. ASSUME NEW n \in 0 .. MemSize - Max({a, b}),
             Done("memiszero", <<a, b, n>>, mem, IF memiszero(mem, a, n) THEN 1 ELSE 0)
      PROVE  StringsInv'
  <2>1. n \in Nat /\ a + n <= MemSize
    BY Room
  <2>2. memiszero(mem, a, n) <=> memset(mem, a, 0, n) = mem
    BY <1>0, <2>1, Memiszeros
  <2> DEFINE r == IF memiszero(mem, a, n) THEN 1 ELSE 0
  <2>3. Done("memiszero", <<a, b, n>>, mem, r) /\ ((r = 1) = (memset(mem, a, 0, n) = mem))
    BY <1>6, <2>2
  <2> HIDE DEF r
  <2>4. /\ mem' = mem /\ old' = mem /\ call'.fn = "memiszero"
        /\ call'.dst = a /\ call'.src = b /\ call'.n = n /\ call'.ret = r
    BY <2>3, Called
  <2> QED
    BY <2>3, <2>4 DEF StringsInv, StringsExact, Copied, Compared
<1> QED
  BY <1>1, <1>2, <1>3, <1>4, <1>5, <1>6

\* Whatever the memory holds, every memory and string function does what its
\* caller expects (StringsExact): memmove.c and memcpy.c copy in the order and in
\* units that never overwrite what is still to be read, strcpy.c, strcat.c,
\* strcmp.c, strncmp.c and strchr.c agree with the strings' texts.
THEOREM StringsAlwaysExact == StringsSpec => []StringsExact
<1>1. StringsInit => StringsInv
  BY MemoryAssumption DEF StringsInit, StringsInv, StringsExact, Copied, Compared, Contents
<1>2. StringsInv /\ [StringsNext]_mvars => StringsInv'
  <2> SUFFICES ASSUME StringsInv, [StringsNext]_mvars PROVE StringsInv'
    OBVIOUS
  <2>1. CASE StringsNext
    <3>1. mem \in Contents
      BY <2>1 DEF StringsNext, StringsInv
    <3> QED
      BY <2>1, <3>1, CopyExact, FillExact, BuildExact, CompareExact DEF StringsNext
  <2>2. CASE UNCHANGED mvars
    BY <2>2 DEF mvars, StringsInv, StringsExact, Copied, Compared
  <2> QED
    BY <2>1, <2>2
<1> QED
  BY <1>1, <1>2, PTL DEF StringsSpec, StringsInv

-----------------------------------------------------------------------------
(* Formatted output.  What a number's digits are read as is proved for the *)
(* digits behind those of another number, for that is what a 64-bit number *)
(* is: the high half is worth UintMax only before a low half that needs    *)
(* all its digits.                                                         *)

\* The characters of numbers.
Digit == {Hexes[k] : k \in 1 .. 16}
Glyphs == Chars \cup Digit \cup {"x", "-", "panic"}

\* Where a digit is among them.
Place(d) == CHOOSE k \in 1 .. 16 : Hexes[k] = d

\* Every digit has one place.
LEMMA DigitsAre ==
  /\ \A k \in 1 .. 16 : Hexes[k] \in Digit
  /\ \A k \in 1 .. 16 : Place(Hexes[k]) = k
<1>2. \A j, k \in 1 .. 16 : Hexes[j] = Hexes[k] => j = k
  BY DEF Hexes
<1>3. \A k \in 1 .. 16 : Hexes[k] \in Digit
  BY DEF Digit
<1>5. ASSUME NEW k \in 1 .. 16 PROVE Place(Hexes[k]) = k
  BY <1>2, Zenon DEF Place
<1> QED
  BY <1>3, <1>5

\* A number is larger than what is left of it after a division.
LEMMA Shrinks ==
  ASSUME NEW b \in {2, 10, 16}, NEW v \in Nat
  PROVE  /\ v \div b \in Nat /\ v % b \in 0 .. b - 1 /\ v = b * (v \div b) + (v % b)
         /\ v \div b # 0 => v \div b < v
         /\ v \div b <= v
<1>1. CASE b = 2
  BY <1>1
<1>2. CASE b = 10
  BY <1>2
<1>3. CASE b = 16
  BY <1>3
<1> QED
  BY <1>1, <1>2, <1>3

\* The function that a recursion over the quotients defines.
IsDivFold(f, b, n, R, H, G) ==
  /\ f \in [0 .. n - 1 -> R]
  /\ \A v \in 0 .. n - 1 : f[v] = IF v \div b = 0 THEN H[v] ELSE G[v][f[v \div b]]

\* Such a function exists.
LEMMA DivFoldExists ==
  ASSUME NEW b \in {2, 10, 16}, NEW k \in Nat, NEW R, NEW H, NEW G,
         \A v \in 0 .. k - 1 : H[v] \in R /\ \A x \in R : G[v][x] \in R
  PROVE  \E f : IsDivFold(f, b, k, R, H, G)
<1> DEFINE T == {n \in Nat : n <= k => \E f : IsDivFold(f, b, n, R, H, G)}
<1>1. 0 \in T
  <2> DEFINE f == [v \in 0 .. 0 - 1 |-> 0]
  <2>1. 0 .. 0 - 1 = {}
    OBVIOUS
  <2>2. f \in [0 .. 0 - 1 -> R]
    BY <2>1
  <2>3. IsDivFold(f, b, 0, R, H, G)
    BY <2>1, <2>2 DEF IsDivFold
  <2> HIDE DEF f
  <2> QED
    BY <2>3
<1>2. ASSUME NEW n \in T PROVE n + 1 \in T
  <2>1. n \in Nat /\ n + 1 \in Nat /\ (n + 1) - 1 = n
    OBVIOUS
  <2>2. ASSUME n + 1 <= k PROVE \E f : IsDivFold(f, b, n + 1, R, H, G)
    <3>1. PICK f : IsDivFold(f, b, n, R, H, G)
      BY <2>1, <2>2
    <3>2. /\ f \in [0 .. n - 1 -> R]
          /\ \A v \in 0 .. n - 1 : f[v] = IF v \div b = 0 THEN H[v] ELSE G[v][f[v \div b]]
      BY <3>1 DEF IsDivFold
    <3> DEFINE B == 0 .. n
               h == IF n \div b = 0 THEN H[n] ELSE G[n][f[n \div b]]
               g == [v \in B |-> IF v = n THEN h ELSE f[v]]
    <3>3. n \in B /\ n \in 0 .. k - 1 /\ \A v \in B : v \in Nat /\ (v # n => v \in 0 .. n - 1)
      BY <2>1, <2>2
    <3>4. ASSUME NEW v \in B, v \div b # 0 PROVE v \div b \in 0 .. n - 1
      <4>1. v \in Nat /\ v <= n
        BY <2>1
      <4>2. v \div b \in Nat /\ v \div b < v
        BY <3>4, <4>1, Shrinks
      <4> QED
        BY <2>1, <4>1, <4>2
    <3>5. h \in R
      BY <3>2, <3>3, <3>4
    <3> HIDE DEF B, h
    <3>6. g \in [B -> R]
      <4>1. ASSUME NEW v \in B PROVE (IF v = n THEN h ELSE f[v]) \in R
        BY <3>2, <3>3, <3>5
      <4> QED
        BY <4>1
    <3>7. \A v \in 0 .. n - 1 : v \in B /\ g[v] = f[v]
      <4> SUFFICES ASSUME NEW v \in 0 .. n - 1 PROVE v \in B /\ g[v] = f[v]
        OBVIOUS
      <4>1. v \in B /\ v # n
        BY <2>1 DEF B
      <4> QED
        BY <4>1
    <3>8. g[n] = h
      BY <3>3
    <3> HIDE DEF g
    <3>9. ASSUME NEW v \in B PROVE g[v] = IF v \div b = 0 THEN H[v] ELSE G[v][g[v \div b]]
      <4>1. v \div b # 0 => g[v \div b] = f[v \div b]
        BY <3>4, <3>7
      <4>2. CASE v = n
        BY <3>8, <4>1, <4>2 DEF h
      <4>3. CASE v # n
        BY <3>2, <3>3, <3>7, <4>1, <4>3
      <4> QED
        BY <4>2, <4>3
    <3>10. IsDivFold(g, b, n + 1, R, H, G)
      BY <2>1, <3>6, <3>9 DEF IsDivFold, B
    <3> QED
      BY <3>10
  <2> QED
    BY <2>1, <2>2
<1>3. T = Nat
  <2>1. T \subseteq Nat
    OBVIOUS
  <2> HIDE DEF T
  <2> QED
    BY <1>1, <1>2, <2>1, Descent
<1> QED
  BY <1>3

\* The powers of 16, of which UintMax is one.
LEMMA Powers ==
  /\ \A n \in 0 .. WordSize : Power16[n] \in Nat /\ Power16[n] > 0
  /\ \A n \in 1 .. WordSize : Power16[n] = 16 * Power16[n - 1]
  /\ Power16[0] = 1
<1> DEFINE n == WordSize + 1
           F == [x \in Nat |-> 16 * x]
           P == Power16
<1>0. WordSize \in Nat /\ n \in Nat /\ n > 0 /\ 0 .. n - 1 = 0 .. WordSize /\ 1 .. n - 1 = 1 .. WordSize
  BY FormatAssumption
<1> HIDE DEF n
<1>1. \A x \in Nat : F[x] \in Nat
  OBVIOUS
<1> HIDE DEF F
<1>2. PICK h : IsIteration(h, n, Nat, F, 1)
  BY <1>0, <1>1, IterationExists
<1>3. h \in [0 .. n - 1 -> Nat] /\ h[0] = 1 /\ \A i \in 1 .. n - 1 : h[i] = F[h[i - 1]]
  BY <1>0, <1>2 DEF IsIteration
<1>4. ASSUME NEW i \in 0 .. n - 1 PROVE h[i] = IF i = 0 THEN 1 ELSE 16 * h[i - 1]
  <2>1. CASE i = 0
    BY <1>3, <2>1
  <2>2. CASE i # 0
    <3>1. i \in 1 .. n - 1 /\ i - 1 \in 0 .. n - 1
      BY <1>0, <2>2
    <3>2. h[i] = F[h[i - 1]] /\ h[i - 1] \in Nat
      BY <1>3, <3>1
    <3> QED
      BY <2>2, <3>2 DEF F
  <2> QED
    BY <2>1, <2>2
<1>5. h = [i \in 0 .. WordSize |-> IF i = 0 THEN 1 ELSE 16 * h[i - 1]]
  BY <1>0, <1>3, <1>4
<1>6. P = CHOOSE f : f = [i \in 0 .. WordSize |-> IF i = 0 THEN 1 ELSE 16 * f[i - 1]]
  BY Zenon DEF Power16
<1> HIDE DEF P
<1>7. P = [i \in 0 .. WordSize |-> IF i = 0 THEN 1 ELSE 16 * P[i - 1]]
  BY <1>5, <1>6, Zenon
<1>8. P[0] = 1 /\ \A i \in 1 .. WordSize : P[i] = 16 * P[i - 1]
  BY <1>0, <1>7
<1>9. \A i \in 0 .. n - 1 : P[i] \in Nat \ {0}
  <2> DEFINE R == Nat \ {0}
  <2>1. n > 0 => P[0] \in R
    BY <1>8
  <2>2. \A i \in 1 .. n - 1 : P[i - 1] \in R => P[i] \in R
    BY <1>0, <1>8
  <2> HIDE DEF R
  <2>3. \A i \in 0 .. n - 1 : P[i] \in R
    BY <1>0, <2>1, <2>2, IterationStays
  <2> QED
    BY <2>3 DEF R
<1>10. \A i \in 0 .. WordSize : P[i] \in Nat \ {0}
  BY <1>0, <1>9
<1> QED
  BY <1>8, <1>10 DEF P

\* The numbers of a word: 16 divides how many there are.
LEMMA UintIs ==
  UintMax \in Nat /\ UintMax > 0 /\ UintMax % 16 = 0 /\ UintMax \div 16 \in Nat
<1>1. PICK n \in 2 .. WordSize : UintMax = Power16[n]
  BY FormatAssumption
<1>2. UintMax = 16 * Power16[n - 1] /\ Power16[n - 1] \in Nat /\ Power16[n - 1] > 0
  <2>1. n \in 1 .. WordSize /\ n - 1 \in 0 .. WordSize
    BY FormatAssumption
  <2> QED
    BY <1>1, <2>1, Powers
<1> QED
  BY <1>2

\* The digits of a number: its last one, then those of the others.
LEMMA DigitsRecur ==
  ASSUME NEW b \in {2, 10, 16}
  PROVE  /\ \A v \in 0 .. UintMax - 1 : emit_digits(b, v) \in Seq(Digit)
         /\ \A v \in 0 .. UintMax - 1 :
              emit_digits(b, v) = <<Hexes[(v % b) + 1]>>
                                  \o (IF v \div b = 0 THEN <<>> ELSE emit_digits(b, v \div b))
<1> DEFINE U == UintMax
           L(v) == <<Hexes[(v % b) + 1]>>
           R == Seq(Digit)
           H == [v \in 0 .. U - 1 |-> L(v) \o <<>>]
           G == [v \in 0 .. U - 1 |-> [x \in R |-> L(v) \o x]]
           D == CHOOSE f : f = [v \in 0 .. U - 1 |->
                                  L(v) \o (IF v \div b = 0 THEN <<>> ELSE f[v \div b])]
<1>0. U \in Nat
  BY UintIs
<1>1. \A v : emit_digits(b, v) = D[v]
  BY Zenon DEF emit_digits
<1> HIDE DEF U
<1>2. ASSUME NEW v \in 0 .. U - 1 PROVE L(v) \in R
  <2>1. v % b \in 0 .. b - 1 /\ b \in 2 .. 16
    BY <1>0, Shrinks
  <2>2. (v % b) + 1 \in 1 .. 16
    <3> DEFINE r == v % b
    <3> HIDE DEF r
    <3>1. r \in 0 .. b - 1
      BY <2>1 DEF r
    <3>2. r + 1 \in 1 .. 16
      BY <2>1, <3>1
    <3> QED
      BY <3>2 DEF r
  <2> QED
    BY <2>2, DigitsAre
<1> HIDE DEF L
<1>3. \A v \in 0 .. U - 1 : H[v] \in R /\ \A x \in R : G[v][x] \in R
  BY <1>2
<1>4. ASSUME NEW v \in 0 .. U - 1, NEW x \in R PROVE H[v] = L(v) \o <<>> /\ G[v][x] = L(v) \o x
  OBVIOUS
<1> HIDE DEF H, G, R
<1>5. PICK f : IsDivFold(f, b, U, R, H, G)
  BY <1>0, <1>3, DivFoldExists
<1>6. /\ f \in [0 .. U - 1 -> R]
      /\ \A v \in 0 .. U - 1 : f[v] = IF v \div b = 0 THEN H[v] ELSE G[v][f[v \div b]]
  BY <1>5 DEF IsDivFold
<1>7. ASSUME NEW v \in 0 .. U - 1 PROVE v \div b \in 0 .. U - 1
  <2>1. v \in Nat /\ v \div b \in Nat /\ v \div b <= v
    BY <1>0, Shrinks
  <2> QED
    BY <1>0, <2>1
<1>8. ASSUME NEW v \in 0 .. U - 1
      PROVE  f[v] = L(v) \o (IF v \div b = 0 THEN <<>> ELSE f[v \div b])
  BY <1>4, <1>6, <1>7
<1>9. f = [v \in 0 .. U - 1 |-> L(v) \o (IF v \div b = 0 THEN <<>> ELSE f[v \div b])]
  BY <1>6, <1>8
<1>10. D = [v \in 0 .. U - 1 |-> L(v) \o (IF v \div b = 0 THEN <<>> ELSE D[v \div b])]
  BY <1>9, Zenon
<1> HIDE DEF D
<1>11. \A v \in 0 .. U - 1 : D[v] = L(v) \o (IF v \div b = 0 THEN <<>> ELSE D[v \div b])
  BY <1>10
<1> DEFINE T == {n \in Nat : \A v \in 0 .. U - 1 : v < n => D[v] \in R}
<1>12. 0 \in T
  OBVIOUS
<1>13. ASSUME NEW n \in T PROVE n + 1 \in T
  <2>1. n \in Nat /\ \A v \in 0 .. U - 1 : v < n => D[v] \in R
    OBVIOUS
  <2>2. ASSUME NEW v \in 0 .. U - 1, v < n + 1 PROVE D[v] \in R
    <3>1. v \in Nat /\ (v \div b # 0 => v \div b < v) /\ v \div b \in Nat
      BY <1>0, Shrinks
    <3>2. v \div b # 0 => D[v \div b] \in R
      BY <1>7, <2>1, <2>2, <3>1
    <3> DEFINE rest == IF v \div b = 0 THEN <<>> ELSE D[v \div b]
    <3>3. rest \in R
      BY <3>2 DEF R
    <3>4. D[v] = L(v) \o rest
      BY <1>11
    <3> HIDE DEF rest
    <3>5. L(v) \o rest \in R
      <4>1. L(v) \in R
        BY <1>2
      <4> QED
        BY <3>3, <4>1 DEF R
    <3> QED
      BY <3>4, <3>5
  <2> QED
    BY <2>1, <2>2
<1>14. T = Nat
  <2>1. T \subseteq Nat
    OBVIOUS
  <2> HIDE DEF T
  <2> QED
    BY <1>12, <1>13, <2>1, Descent
<1>15. \A v \in 0 .. U - 1 : D[v] \in R
  <2> SUFFICES ASSUME NEW v \in 0 .. U - 1 PROVE D[v] \in R
    OBVIOUS
  <2>1. v + 1 \in T
    <3> HIDE DEF T
    <3> QED
      BY <1>0, <1>14
  <2> QED
    BY <1>0, <2>1
<1> QED
  BY <1>1, <1>11, <1>15 DEF U, R, L

\* Reading a number: nothing is 0, and one more digit is worth its value.
DigitValue(d) == Place(d) - 1

\* A digit is worth the number it was printed for.
LEMMA ValueIs ==
  /\ \A k \in 0 .. 15 : DigitValue(Hexes[k + 1]) = k
  /\ \A d \in Digit : DigitValue(d) \in 0 .. 15
<1>1. ASSUME NEW k \in 0 .. 15 PROVE DigitValue(Hexes[k + 1]) = k
  <2>1. k + 1 \in 1 .. 16
    OBVIOUS
  <2>2. Place(Hexes[k + 1]) = k + 1
    BY <2>1, DigitsAre
  <2> QED
    BY <2>2 DEF DigitValue
<1>2. ASSUME NEW d \in Digit PROVE DigitValue(d) \in 0 .. 15
  <2>1. PICK k \in 1 .. 16 : d = Hexes[k]
    BY DEF Digit
  <2>2. k - 1 \in 0 .. 15 /\ (k - 1) + 1 = k
    OBVIOUS
  <2>3. DigitValue(Hexes[(k - 1) + 1]) = k - 1
    BY <1>1, <2>2
  <2> QED
    BY <2>1, <2>2, <2>3
<1> QED
  BY <1>1, <1>2

\* The fold of ReadNumber.
LEMMA ReadFold ==
  ASSUME NEW b \in {2, 10, 16}, NEW s \in Seq(Digit)
  PROVE  \E W : /\ ReadNumber(b, s) = W[1 .. Len(s)]
                /\ W[1 .. 0] = 0
                /\ \A i \in 0 .. Len(s) : W[1 .. i] \in Nat
                /\ \A i \in 1 .. Len(s) : W[1 .. i] = W[1 .. i - 1] * b + DigitValue(s[i])
<1> DEFINE k == Len(s)
           Op(i, x) == x * b + Place(s[i]) - 1
           D == SUBSET (DOMAIN s)
           F == [i \in 1 .. k |-> [x \in Nat |-> Op(i, x)]]
           W == CHOOSE f : f = [t \in D |-> IF t = {} THEN 0 ELSE Op(Max(t), f[t \ {Max(t)}])]
<1>1. ReadNumber(b, s) = W[DOMAIN s]
  BY DEF ReadNumber, FoldLeft, MapThenFoldSet, Place
<1>2. k \in Nat /\ DOMAIN s = 1 .. k /\ D = SUBSET (1 .. k) /\ \A i \in 1 .. k : s[i] \in Digit
  OBVIOUS
<1>3. ASSUME NEW i \in 1 .. k, NEW x \in Nat PROVE Op(i, x) = x * b + DigitValue(s[i]) /\ Op(i, x) \in Nat
  <2>1. DigitValue(s[i]) \in 0 .. 15
    BY <1>2, ValueIs
  <2>2. Place(s[i]) \in 1 .. 16
    BY <1>2, DigitsAre DEF Digit
  <2>3. CASE b = 2
    BY <2>2, <2>3 DEF DigitValue
  <2>4. CASE b = 10
    BY <2>2, <2>4 DEF DigitValue
  <2>5. CASE b = 16
    BY <2>2, <2>5 DEF DigitValue
  <2> QED
    BY <2>3, <2>4, <2>5
<1> HIDE DEF D, k, Op
<1>4. PICK h : IsSeqFold(h, k, Nat, F, 0)
  <2>1. \A i \in 1 .. k, x \in Nat : F[i][x] \in Nat
    BY <1>3
  <2> HIDE DEF F
  <2> QED
    BY <1>2, <2>1, SeqFoldExists
<1>5. /\ h \in [D -> Nat] /\ h[{}] = 0
      /\ \A t \in D : t # {} => h[t] = F[Max(t)][h[t \ {Max(t)}]]
  BY <1>2, <1>4 DEF IsSeqFold
<1>6. h = [t \in D |-> IF t = {} THEN 0 ELSE Op(Max(t), h[t \ {Max(t)}])]
  <2>1. ASSUME NEW t \in D, t # {} PROVE h[t] = Op(Max(t), h[t \ {Max(t)}])
    <3>1. Max(t) \in 1 .. k
      BY <1>2, <2>1, MaxOf
    <3>2. t \ {Max(t)} \in D
      BY <1>2
    <3> QED
      BY <1>5, <2>1, <3>1, <3>2
  <2> HIDE DEF F
  <2> QED
    BY <1>5, <2>1
<1> HIDE DEF F
<1>7. W = [t \in D |-> IF t = {} THEN 0 ELSE Op(Max(t), W[t \ {Max(t)}])]
  BY <1>6, Zenon
<1> HIDE DEF W
<1>8. W[1 .. 0] = 0
  <2>1. 1 .. 0 = {} /\ {} \in D
    BY <1>2
  <2> QED
    BY <1>7, <2>1
<1>9. ASSUME NEW i \in 1 .. k PROVE W[1 .. i] = Op(i, W[1 .. i - 1])
  <2>1. 1 .. i \in D /\ 1 .. i # {}
    BY <1>2, Places
  <2>2. W[1 .. i] = Op(Max(1 .. i), W[(1 .. i) \ {Max(1 .. i)}])
    BY <1>7, <2>1
  <2> QED
    BY <1>2, <2>2, Places
<1>10. \A i \in 0 .. k : W[1 .. i] \in Nat
  <2> DEFINE T == {i \in Nat : i <= k => W[1 .. i] \in Nat}
  <2>1. 0 \in T
    BY <1>8
  <2>2. ASSUME NEW i \in T PROVE i + 1 \in T
    <3>1. i \in Nat /\ i + 1 \in Nat /\ (i + 1) - 1 = i
      OBVIOUS
    <3>2. ASSUME i + 1 <= k PROVE W[1 .. i + 1] \in Nat
      <4>1. i + 1 \in 1 .. k /\ W[1 .. i] \in Nat
        BY <1>2, <3>1, <3>2
      <4> QED
        BY <1>3, <1>9, <3>1, <4>1
    <3> QED
      BY <3>1, <3>2
  <2>3. T = Nat
    <3>1. T \subseteq Nat
      OBVIOUS
    <3> HIDE DEF T
    <3> QED
      BY <2>1, <2>2, <3>1, Descent
  <2> QED
    BY <1>2, <2>3
<1>11. ASSUME NEW i \in 1 .. k PROVE W[1 .. i] = W[1 .. i - 1] * b + DigitValue(s[i])
  <2>1. i - 1 \in 0 .. k
    BY <1>2
  <2> QED
    BY <1>3, <1>9, <1>10, <2>1
<1> QED
  BY <1>1, <1>2, <1>8, <1>10, <1>11 DEF k

\* One more digit behind a number.
LEMMA ReadMore ==
  ASSUME NEW b \in {2, 10, 16}, NEW s \in Seq(Digit), NEW d \in Digit
  PROVE  /\ ReadNumber(b, s) \in Nat
         /\ ReadNumber(b, Append(s, d)) = ReadNumber(b, s) * b + DigitValue(d)
<1> DEFINE k == Len(s)
           z == Append(s, d)
<1>1. k \in Nat /\ z \in Seq(Digit) /\ Len(z) = k + 1 /\ z[k + 1] = d /\ \A i \in 1 .. k : z[i] = s[i]
  OBVIOUS
<1>2. PICK W : /\ ReadNumber(b, s) = W[1 .. Len(s)]
               /\ W[1 .. 0] = 0
               /\ \A i \in 0 .. Len(s) : W[1 .. i] \in Nat
               /\ \A i \in 1 .. Len(s) : W[1 .. i] = W[1 .. i - 1] * b + DigitValue(s[i])
  BY ReadFold
<1> HIDE DEF z
<1>3. PICK V : /\ ReadNumber(b, z) = V[1 .. Len(z)]
               /\ V[1 .. 0] = 0
               /\ \A i \in 0 .. Len(z) : V[1 .. i] \in Nat
               /\ \A i \in 1 .. Len(z) : V[1 .. i] = V[1 .. i - 1] * b + DigitValue(z[i])
  BY <1>1, ReadFold
<1> HIDE DEF k
<1> DEFINE T == {i \in Nat : i <= k => V[1 .. i] = W[1 .. i]}
<1>4. 0 \in T
  BY <1>2, <1>3
<1>5. ASSUME NEW i \in T PROVE i + 1 \in T
  <2>1. i \in Nat /\ i + 1 \in Nat /\ (i + 1) - 1 = i
    OBVIOUS
  <2>2. ASSUME i + 1 <= k PROVE V[1 .. i + 1] = W[1 .. i + 1]
    <3>1. i + 1 \in 1 .. k /\ i + 1 \in 1 .. k + 1 /\ V[1 .. i] = W[1 .. i]
      BY <1>1, <2>1, <2>2
    <3>2. V[1 .. i + 1] = V[1 .. i] * b + DigitValue(z[i + 1])
      BY <1>1, <1>3, <2>1, <3>1
    <3>3. W[1 .. i + 1] = W[1 .. i] * b + DigitValue(s[i + 1])
      BY <1>2, <2>1, <3>1 DEF k
    <3> QED
      BY <1>1, <3>1, <3>2, <3>3
  <2> QED
    BY <2>1, <2>2
<1>6. T = Nat
  <2>1. T \subseteq Nat
    OBVIOUS
  <2> HIDE DEF T
  <2> QED
    BY <1>4, <1>5, <2>1, Descent
<1>7. V[1 .. k] = W[1 .. k]
  BY <1>1, <1>6
<1>8. V[1 .. k + 1] = V[1 .. k] * b + DigitValue(z[k + 1])
  <2>1. k + 1 \in 1 .. k + 1 /\ (k + 1) - 1 = k
    BY <1>1
  <2> QED
    BY <1>1, <1>3, <2>1
<1>9. W[1 .. k] \in Nat
  <2>1. k \in 0 .. Len(s)
    BY <1>1 DEF k
  <2> QED
    BY <1>2, <2>1
<1> QED
  BY <1>1, <1>2, <1>3, <1>7, <1>8, <1>9 DEF k, z

\* Without digits there is 0.
LEMMA ReadNothing == ASSUME NEW b \in {2, 10, 16} PROVE ReadNumber(b, <<>>) = 0
<1> DEFINE s == << >>
<1>1. s \in Seq(Digit) /\ Len(s) = 0
  OBVIOUS
<1> HIDE DEF s
<1>2. PICK W : /\ ReadNumber(b, s) = W[1 .. Len(s)]
               /\ W[1 .. 0] = 0
               /\ \A i \in 0 .. Len(s) : W[1 .. i] \in Nat
               /\ \A i \in 1 .. Len(s) : W[1 .. i] = W[1 .. i - 1] * b + DigitValue(s[i])
  BY <1>1, ReadFold
<1>3. ReadNumber(b, s) = 0
  BY <1>1, <1>2
<1> QED
  BY <1>3 DEF s

\* Two sequences, one behind the other.
LEMMA Joined ==
  ASSUME NEW R, NEW s \in Seq(R), NEW t \in Seq(R)
  PROVE  /\ s \o t \in Seq(R) /\ Len(s \o t) = Len(s) + Len(t)
         /\ Len(s) \in Nat /\ Len(t) \in Nat
         /\ \A i \in 1 .. Len(s) : (s \o t)[i] = s[i]
         /\ \A i \in 1 .. Len(t) : (s \o t)[Len(s) + i] = t[i]
<1> DEFINE l == Len(s)
           k == Len(t)
<1>1. l \in Nat /\ k \in Nat
  OBVIOUS
<1>2. s \o t \in Seq(R) /\ Len(s \o t) = l + k
  OBVIOUS
<1>3. ASSUME NEW i \in 1 .. l PROVE (s \o t)[i] = s[i]
  BY <1>1
<1>4. ASSUME NEW i \in 1 .. k PROVE (s \o t)[l + i] = t[i]
  BY <1>1
<1> QED
  BY <1>1, <1>2, <1>3, <1>4

\* Reversing a sequence leaves its first element last.
LEMMA ReverseFirst ==
  ASSUME NEW R, NEW h \in R, NEW t \in Seq(R), NEW s \in Seq(R)
  PROVE  /\ Reverse(t) \in Seq(R) /\ Reverse(<<>>) = <<>>
         /\ s \o Reverse(<<h>> \o t) = Append(s \o Reverse(t), h)
<1> DEFINE k == Len(t)
           u == <<h>> \o t
           r == Reverse(t)
           q == Reverse(u)
<1>1. k \in Nat /\ u \in Seq(R) /\ Len(u) = k + 1 /\ u[1] = h /\ \A i \in 1 .. k : u[i + 1] = t[i]
  OBVIOUS
<1> HIDE DEF u
<1>2. r = [i \in 1 .. k |-> t[(k - i) + 1]] /\ q = [i \in 1 .. k + 1 |-> u[((k + 1) - i) + 1]]
  BY <1>1 DEF Reverse
<1> HIDE DEF r, q
<1>3. r \in Seq(R) /\ Len(r) = k
  <2>1. \A i \in 1 .. k : t[(k - i) + 1] \in R
    <3>1. \A i \in 1 .. k : (k - i) + 1 \in 1 .. k
      BY <1>1
    <3> QED
      BY <3>1
  <2> HIDE DEF k
  <2> QED
    BY <1>1, <1>2, <2>1
<1> HIDE DEF k
<1>4. q \in Seq(R) /\ Len(q) = k + 1
  <2>1. \A i \in 1 .. k + 1 : ((k + 1) - i) + 1 \in 1 .. k + 1
    BY <1>1
  <2>2. \A i \in 1 .. k + 1 : u[((k + 1) - i) + 1] \in R
    BY <1>1, <2>1
  <2> QED
    BY <1>1, <1>2, <2>2
<1> DEFINE a == s \o q
           x == s \o r
           b == Append(x, h)
           l == Len(s)
<1>5. /\ a \in Seq(R) /\ Len(a) = l + (k + 1)
      /\ \A i \in 1 .. l : a[i] = s[i]
      /\ \A i \in 1 .. k + 1 : a[l + i] = q[i]
  <2>1. s \in Seq(R) /\ q \in Seq(R)
    BY <1>4
  <2>2. /\ s \o q \in Seq(R) /\ Len(s \o q) = Len(s) + Len(q)
        /\ Len(s) \in Nat
        /\ \A i \in 1 .. Len(s) : (s \o q)[i] = s[i]
        /\ \A i \in 1 .. Len(q) : (s \o q)[Len(s) + i] = q[i]
    BY <2>1, Joined
  <2> QED
    BY <1>4, <2>2
<1>6. /\ x \in Seq(R) /\ Len(x) = l + k /\ l \in Nat
      /\ \A i \in 1 .. l : x[i] = s[i]
      /\ \A i \in 1 .. k : x[l + i] = r[i]
  <2>1. s \in Seq(R) /\ r \in Seq(R)
    BY <1>3
  <2>2. /\ s \o r \in Seq(R) /\ Len(s \o r) = Len(s) + Len(r)
        /\ Len(s) \in Nat
        /\ \A i \in 1 .. Len(s) : (s \o r)[i] = s[i]
        /\ \A i \in 1 .. Len(r) : (s \o r)[Len(s) + i] = r[i]
    BY <2>1, Joined
  <2> QED
    BY <1>3, <2>2
<1> HIDE DEF x, l
<1>7. /\ b \in Seq(R) /\ Len(b) = (l + k) + 1 /\ b[(l + k) + 1] = h
      /\ \A i \in 1 .. l + k : b[i] = x[i]
  BY <1>6
<1> HIDE DEF a, b
<1>8. ASSUME NEW i \in 1 .. l + (k + 1) PROVE a[i] = b[i]
  <2>1. CASE i = (l + k) + 1
    <3>1. a[i] = q[k + 1] /\ k + 1 \in 1 .. k + 1 /\ ((k + 1) - (k + 1)) + 1 = 1
      <4>1. k + 1 \in 1 .. k + 1 /\ i = l + (k + 1)
        BY <1>1, <1>6, <2>1
      <4> QED
        BY <1>1, <1>5, <4>1
    <3>2. q[k + 1] = u[1]
      BY <1>2, <3>1
    <3> QED
      BY <1>1, <1>7, <2>1, <3>1, <3>2
  <2>2. CASE i # (l + k) + 1 /\ i <= l
    <3>1. i \in 1 .. l /\ i \in 1 .. l + k
      BY <1>1, <1>6, <2>2
    <3> QED
      BY <1>5, <1>6, <1>7, <3>1
  <2>3. CASE i # (l + k) + 1 /\ i > l
    <3> DEFINE j == i - l
    <3>1. j \in 1 .. k /\ j \in 1 .. k + 1 /\ i \in 1 .. l + k /\ i = l + j
      BY <1>1, <1>6, <2>3
    <3>2. a[i] = q[j] /\ b[i] = r[j]
      BY <1>5, <1>6, <1>7, <3>1
    <3> HIDE DEF j
    <3> DEFINE e == (k - j) + 1
    <3>3. ((k + 1) - j) + 1 = e + 1 /\ e \in 1 .. k
      BY <1>1, <3>1
    <3>4. q[j] = u[((k + 1) - j) + 1] /\ r[j] = t[e]
      BY <1>2, <3>1
    <3> HIDE DEF e
    <3> QED
      BY <1>1, <3>2, <3>3, <3>4
  <2> QED
    BY <1>1, <1>6, <2>1, <2>2, <2>3
<1>9. a = b
  BY <1>1, <1>5, <1>6, <1>7, <1>8, SeqEqual
<1>10. Reverse(<<>>) = <<>>
  BY DEF Reverse
<1> QED
  BY <1>3, <1>9, <1>10 DEF a, b, x, q, r, u

\* What a digit before those of a number is worth, for every number.
IsWorth(w, b) ==
  /\ w \in [0 .. UintMax - 1 -> Nat]
  /\ \A v \in 0 .. UintMax - 1 : w[v] = IF v \div b = 0 THEN b ELSE b * w[v \div b]

\* That, too, exists.
LEMMA WorthExists == ASSUME NEW b \in {2, 10, 16} PROVE \E w : IsWorth(w, b)
<1> DEFINE U == UintMax
           H == [v \in 0 .. U - 1 |-> b]
           G == [v \in 0 .. U - 1 |-> [x \in Nat |-> b * x]]
<1>0. U \in Nat
  BY UintIs
<1> HIDE DEF U
<1>1. b \in Nat /\ \A x \in Nat : b * x \in Nat
  <2>1. b = 2 \/ b = 10 \/ b = 16
    OBVIOUS
  <2> QED
    BY <2>1
<1>2. \A v \in 0 .. U - 1 : H[v] \in Nat /\ \A x \in Nat : G[v][x] \in Nat
  BY <1>1
<1>3. \A v \in 0 .. U - 1 : H[v] = b /\ \A x \in Nat : G[v][x] = b * x
  OBVIOUS
<1> HIDE DEF H, G
<1>4. PICK w : IsDivFold(w, b, U, Nat, H, G)
  BY <1>0, <1>2, DivFoldExists
<1>5. /\ w \in [0 .. U - 1 -> Nat]
      /\ \A v \in 0 .. U - 1 : w[v] = IF v \div b = 0 THEN H[v] ELSE G[v][w[v \div b]]
  BY <1>4 DEF IsDivFold
<1>6. ASSUME NEW v \in 0 .. U - 1 PROVE w[v] = IF v \div b = 0 THEN b ELSE b * w[v \div b]
  <2>1. v \in Nat /\ v \div b \in Nat /\ v \div b <= v
    BY <1>0, Shrinks
  <2>2. v \div b \in 0 .. U - 1
    BY <1>0, <2>1
  <2> QED
    BY <1>3, <1>5, <2>2
<1> QED
  BY <1>5, <1>6 DEF IsWorth, U

\* One more digit, in terms of what is before the number.
LEMMA Scaled ==
  ASSUME NEW b \in {2, 10, 16}, NEW R \in Nat, NEW W \in Nat, NEW q \in Nat, NEW d \in Nat
  PROVE  (R * W + q) * b + d = R * (b * W) + (b * q + d)
<1>1. CASE b = 2
  BY <1>1
<1>2. CASE b = 10
  BY <1>2
<1>3. CASE b = 16
  BY <1>3
<1> QED
  BY <1>1, <1>2, <1>3

\* The digits of a number, read behind others.
LEMMA ReadDigits ==
  ASSUME NEW b \in {2, 10, 16}, NEW w, IsWorth(w, b),
         NEW s \in Seq(Digit), NEW v \in 0 .. UintMax - 1
  PROVE  /\ emit_val(b, v) \in Seq(Digit)
         /\ ReadNumber(b, s \o emit_val(b, v)) = ReadNumber(b, s) * w[v] + v
<1> DEFINE U == UintMax
           Holds(x) == \A y \in Seq(Digit) :
                         /\ y \o emit_val(b, x) \in Seq(Digit)
                         /\ ReadNumber(b, y \o emit_val(b, x)) = ReadNumber(b, y) * w[x] + x
           T == {n \in Nat : \A x \in 0 .. U - 1 : x < n => Holds(x)}
<1>0. U \in Nat
  BY UintIs
<1>1. /\ w \in [0 .. U - 1 -> Nat]
      /\ \A x \in 0 .. U - 1 : w[x] = IF x \div b = 0 THEN b ELSE b * w[x \div b]
  BY DEF IsWorth
<1>2. \A x \in 0 .. U - 1 : emit_digits(b, x) \in Seq(Digit)
  BY DigitsRecur
<1>3. \A x \in 0 .. U - 1 :
        emit_digits(b, x) = <<Hexes[(x % b) + 1]>>
                            \o (IF x \div b = 0 THEN <<>> ELSE emit_digits(b, x \div b))
  BY DigitsRecur
<1> HIDE DEF U
<1>4. ASSUME NEW x \in 0 .. U - 1, x \div b # 0 => Holds(x \div b), NEW y \in Seq(Digit)
      PROVE  /\ y \o emit_val(b, x) \in Seq(Digit)
             /\ ReadNumber(b, y \o emit_val(b, x)) = ReadNumber(b, y) * w[x] + x
  <2> DEFINE q == x \div b
             d == x % b
             h == Hexes[d + 1]
             rest == IF q = 0 THEN <<>> ELSE emit_digits(b, q)
  <2>1. /\ x \in Nat /\ q \in Nat /\ d \in 0 .. b - 1 /\ x = b * q + d /\ q <= x
        /\ q \in 0 .. U - 1 /\ d \in 0 .. 15 /\ d \in Nat
    <3>1. x \in Nat
      BY <1>0
    <3>2. q \in Nat /\ d \in 0 .. b - 1 /\ x = b * q + d /\ q <= x
      BY <3>1, Shrinks
    <3>3. b - 1 \in 0 .. 15
      OBVIOUS
    <3> HIDE DEF q, d
    <3> QED
      BY <1>0, <3>1, <3>2, <3>3
  <2>2. emit_digits(b, x) = <<h>> \o rest
    BY <1>3
  <2>3. rest \in Seq(Digit)
    BY <1>2, <2>1
  <2>4. q # 0 => Holds(q)
    BY <1>4
  <2>5. w[x] = IF q = 0 THEN b ELSE b * w[q]
    BY <1>1
  <2> HIDE DEF q, d
  <2>6. h \in Digit /\ DigitValue(h) = d
    <3>1. d + 1 \in 1 .. 16
      BY <2>1
    <3> QED
      BY <2>1, <3>1, DigitsAre, ValueIs
  <2> HIDE DEF h
  <2>7. y \o emit_val(b, x) = Append(y \o Reverse(rest), h)
    <3>1. y \o Reverse(<<h>> \o rest) = Append(y \o Reverse(rest), h)
      <4> HIDE DEF rest
      <4> QED
        BY <2>3, <2>6, ReverseFirst
    <3> QED
      BY <2>2, <3>1 DEF emit_val
  <2> DEFINE z == y \o Reverse(rest)
  <2>8. CASE q = 0
    <3>1. rest = <<>>
      BY <2>8
    <3>2. Reverse(<<>>) = <<>>
      BY DEF Reverse
    <3>3. z = y
      <4>1. y \o <<>> = y
        OBVIOUS
      <4> QED
        BY <3>1, <3>2, <4>1
    <3> HIDE DEF rest, z
    <3>4. y \o emit_val(b, x) = Append(y, h)
      BY <2>7, <3>3 DEF z
    <3>5. Append(y, h) \in Seq(Digit)
      BY <2>6
    <3>6. ReadNumber(b, Append(y, h)) = ReadNumber(b, y) * b + DigitValue(h)
      BY <2>6, ReadMore
    <3>7. x = d
      BY <2>1, <2>8
    <3> QED
      BY <2>5, <2>6, <2>8, <3>4, <3>5, <3>6, <3>7
  <2>9. CASE q # 0
    <3>1. z = y \o emit_val(b, q)
      BY <2>9 DEF emit_val
    <3>2. z \in Seq(Digit) /\ ReadNumber(b, z) = ReadNumber(b, y) * w[q] + q
      BY <2>4, <2>9, <3>1
    <3> HIDE DEF rest
    <3>3. y \o emit_val(b, x) = Append(z, h)
      BY <2>7
    <3> HIDE DEF z
    <3>4. Append(z, h) \in Seq(Digit)
      BY <2>6, <3>2
    <3>5. ReadNumber(b, Append(z, h)) = ReadNumber(b, z) * b + DigitValue(h)
      BY <2>6, <3>2, ReadMore
    <3>6. ReadNumber(b, y) \in Nat /\ w[q] \in Nat
      <4>1. ReadNumber(b, y) \in Nat
        BY <2>6, ReadMore
      <4> QED
        BY <1>1, <2>1, <4>1
    <3> DEFINE R == ReadNumber(b, y)
               W == w[q]
    <3>7. R \in Nat /\ W \in Nat /\ w[x] = b * W /\ ReadNumber(b, z) = R * W + q
      BY <2>5, <2>9, <3>2, <3>6
    <3> HIDE DEF R, W
    <3>8. (R * W + q) * b + d = R * (b * W) + (b * q + d)
      BY <2>1, <3>7, Scaled
    <3>9. ReadNumber(b, Append(z, h)) = R * w[x] + x
      BY <2>1, <2>6, <3>5, <3>7, <3>8
    <3> QED
      BY <3>3, <3>4, <3>9 DEF R
  <2> QED
    BY <2>8, <2>9
<1> HIDE DEF Holds
<1>5. 0 \in T
  BY <1>0
<1>6. ASSUME NEW n \in T PROVE n + 1 \in T
  <2>1. n \in Nat /\ \A x \in 0 .. U - 1 : x < n => Holds(x)
    OBVIOUS
  <2>2. ASSUME NEW x \in 0 .. U - 1, x < n + 1 PROVE Holds(x)
    <3>1. x \in Nat /\ x \div b \in Nat /\ x \div b <= x /\ (x \div b # 0 => x \div b < x)
      BY <1>0, Shrinks
    <3>2. x \div b \in 0 .. U - 1
      BY <1>0, <3>1
    <3>3. x \div b # 0 => Holds(x \div b)
      BY <2>1, <2>2, <3>1, <3>2
    <3> QED
      BY <1>4, <3>3 DEF Holds
  <2> QED
    BY <2>1, <2>2
<1>7. T = Nat
  <2>1. T \subseteq Nat
    OBVIOUS
  <2> HIDE DEF T
  <2> QED
    BY <1>5, <1>6, <2>1, Descent
<1>8. Holds(v)
  <2>1. v + 1 \in Nat /\ v < v + 1 /\ v \in 0 .. U - 1
    BY <1>0 DEF U
  <2>2. v + 1 \in T
    <3> HIDE DEF T
    <3> QED
      BY <1>7, <2>1
  <2> QED
    BY <2>1, <2>2
<1>9. emit_val(b, v) \in Seq(Digit)
  <2>1. emit_digits(b, v) \in Seq(Digit)
    BY <1>2 DEF U
  <2>2. Hexes[1] \in Digit
    BY DigitsAre
  <2>3. Reverse(emit_digits(b, v)) \in Seq(Digit)
    BY <2>1, <2>2, ReverseFirst
  <2> QED
    BY <2>3 DEF emit_val
<1> QED
  BY <1>8, <1>9 DEF Holds

\* What the number before a half is worth: UintMax exactly if the half needs
\* all its digits.
LEMMA HalfWorth ==
  ASSUME NEW w, IsWorth(w, 16), NEW v \in 0 .. UintMax - 1
  PROVE  /\ w[v] \in Nat
         /\ v < UintMax \div 16 => w[v] < UintMax
         /\ ~(v < UintMax \div 16) => w[v] = UintMax
<1>1. PICK n \in 2 .. WordSize : UintMax = Power16[n]
  BY FormatAssumption
<1> DEFINE P == Power16
           U == UintMax
<1>2. /\ \A i \in 0 .. n : P[i] \in Nat /\ P[i] > 0
      /\ \A i \in 1 .. n : P[i] = 16 * P[i - 1]
      /\ P[0] = 1 /\ n \in Nat /\ n >= 2
  <2>1. n \in Nat /\ n >= 2 /\ 0 .. n \subseteq 0 .. WordSize /\ 1 .. n \subseteq 1 .. WordSize
    BY FormatAssumption
  <2> QED
    BY <2>1, Powers
<1>3. U = P[n] /\ U \in Nat
  BY <1>1, <1>2
<1>4. /\ w \in [0 .. U - 1 -> Nat]
      /\ \A x \in 0 .. U - 1 : w[x] = IF x \div 16 = 0 THEN 16 ELSE 16 * w[x \div 16]
  BY DEF IsWorth
<1> HIDE DEF P, U
<1> DEFINE Below(k, x) == x < P[k] => w[x] <= P[k]
           From(k, x) == x >= P[k - 1] /\ x < P[k] => w[x] = P[k]
           T == {k \in Nat : k + 1 <= n => \A x \in 0 .. U - 1 : Below(k + 1, x) /\ From(k + 1, x)}
<1>5. 0 \in T
  <2>1. P[1] = 16 /\ P[0] = 1
    <3>1. 1 \in 1 .. n /\ 1 - 1 = 0
      BY <1>2
    <3>2. P[1] = 16 * P[1 - 1]
      BY <1>2, <3>1
    <3> QED
      BY <1>2, <3>1, <3>2
  <2>2. ASSUME NEW x \in 0 .. U - 1, x < P[1] PROVE w[x] = P[1]
    <3>1. x \in Nat /\ x < 16
      BY <1>3, <2>1, <2>2
    <3>2. x \div 16 = 0
      BY <3>1
    <3> QED
      BY <1>4, <2>1, <3>2
  <2>3. \A x \in 0 .. U - 1 : Below(1, x) /\ From(1, x)
    BY <2>1, <2>2
  <2> HIDE DEF Below, From
  <2> QED
    BY <2>3
<1>6. ASSUME NEW k \in T PROVE k + 1 \in T
  <2>1. k \in Nat /\ k + 1 \in Nat /\ (k + 1 <= n => \A x \in 0 .. U - 1 : Below(k + 1, x) /\ From(k + 1, x))
    OBVIOUS
  <2> DEFINE j == k + 1
             i == j + 1
  <2>2. j \in Nat /\ i \in Nat /\ j - 1 = k /\ i - 1 = j /\ j > 0
    BY <2>1
  <2>3. ASSUME i <= n, NEW x \in 0 .. U - 1 PROVE Below(i, x) /\ From(i, x)
    <3>1. \A y \in 0 .. U - 1 : Below(j, y) /\ From(j, y)
      BY <2>1, <2>2, <2>3
    <3> HIDE DEF j, i
    <3>2. /\ P[i] = 16 * P[j] /\ P[j] = 16 * P[k] /\ P[k] \in Nat /\ P[k] > 0
          /\ P[j] \in Nat /\ P[i] \in Nat
      <4>1. i \in 1 .. n /\ j \in 1 .. n /\ k \in 0 .. n /\ i \in 0 .. n /\ j \in 0 .. n
        BY <1>2, <2>1, <2>2, <2>3 DEF j, i
      <4> QED
        BY <1>2, <2>2, <4>1
    <3> DEFINE q == x \div 16
    <3>3. x \in Nat /\ q \in Nat /\ q <= x /\ x < 16 * q + 16 /\ x >= 16 * q
      <4>1. x \in Nat
        BY <1>3
      <4> QED
        BY <4>1
    <3>4. w[x] = IF q = 0 THEN 16 ELSE 16 * w[q]
      BY <1>4
    <3> HIDE DEF q
    <3>5. q \in 0 .. U - 1
      BY <1>3, <3>3
    <3>6. w[q] \in Nat
      BY <1>4, <3>5
    <3>7. (q < P[j] => w[q] <= P[j]) /\ (q >= P[k] /\ q < P[j] => w[q] = P[j])
      <4>1. Below(j, q) /\ From(j, q)
        BY <3>1, <3>5
      <4> QED
        BY <2>2, <4>1
    <3>8. Below(i, x)
      BY <3>2, <3>3, <3>4, <3>6, <3>7
    <3>9. From(i, x)
      <4>1. ASSUME x >= P[j], x < P[i] PROVE w[x] = P[i]
        <5>1. q >= P[k] /\ q < P[j] /\ q # 0
          BY <3>2, <3>3, <4>1
        <5> QED
          BY <3>2, <3>4, <3>7, <5>1
      <4> QED
        BY <2>2, <4>1
    <3> QED
      BY <3>8, <3>9
  <2> HIDE DEF Below, From
  <2> QED
    BY <2>2, <2>3
<1>7. T = Nat
  <2>1. T \subseteq Nat
    OBVIOUS
  <2> HIDE DEF T
  <2> QED
    BY <1>5, <1>6, <2>1, Descent
<1>8. \A k \in 1 .. n : Below(k, v) /\ From(k, v)
  <2> SUFFICES ASSUME NEW k \in 1 .. n PROVE Below(k, v) /\ From(k, v)
    OBVIOUS
  <2> DEFINE i == k - 1
  <2>1. i \in Nat /\ i + 1 = k /\ k <= n
    BY <1>2
  <2>2. i \in T
    <3> HIDE DEF T, i
    <3> QED
      BY <1>7, <2>1
  <2>3. v \in 0 .. U - 1
    BY DEF U
  <2> HIDE DEF Below, From, i
  <2> QED
    BY <2>1, <2>2, <2>3
<1>9. n \in 1 .. n /\ n - 1 \in 1 .. n /\ n - 1 \in 0 .. n
  BY <1>2
<1>10. P[n] = 16 * P[n - 1] /\ P[n - 1] \in Nat /\ P[n - 1] > 0
  BY <1>2, <1>9
<1>11. U \div 16 = P[n - 1]
  BY <1>3, <1>10
<1>12. v \in 0 .. U - 1 /\ v \in Nat /\ v < U
  BY <1>3 DEF U
<1>13. w[v] \in Nat
  BY <1>4, <1>12
<1>14. (v < P[n - 1] => w[v] <= P[n - 1]) /\ (v >= P[n - 1] /\ v < P[n] => w[v] = P[n])
  BY <1>8, <1>9
<1>15. /\ v < U \div 16 => w[v] < U
       /\ ~(v < U \div 16) => w[v] = U
  BY <1>3, <1>10, <1>11, <1>12, <1>13, <1>14
<1> QED
  BY <1>13, <1>15 DEF U

\* The text of a number has a digit and reads back as the number.
LEMMA NumberText ==
  ASSUME NEW b \in {2, 10, 16}, NEW v \in 0 .. UintMax - 1
  PROVE  /\ emit_val(b, v) \in Seq(Digit) /\ emit_val(b, v) # <<>>
         /\ ReadNumber(b, emit_val(b, v)) = v
<1>1. PICK w : IsWorth(w, b)
  BY WorthExists
<1> DEFINE s == << >>
           y == emit_val(b, v)
<1>2. s \in Seq(Digit) /\ ReadNumber(b, s) = 0
  BY ReadNothing
<1>3. w[v] \in Nat /\ v \in Nat
  BY <1>1, UintIs DEF IsWorth
<1> HIDE DEF s
<1>4. y \in Seq(Digit) /\ ReadNumber(b, s \o y) = ReadNumber(b, s) * w[v] + v
  BY <1>1, <1>2, ReadDigits
<1>5. y # <<>>
  <2> DEFINE rest == IF v \div b = 0 THEN <<>> ELSE emit_digits(b, v \div b)
             d == emit_digits(b, v)
  <2>1. d = <<Hexes[(v % b) + 1]>> \o rest
    BY DigitsRecur
  <2>2. d \in Seq(Digit)
    BY DigitsRecur
  <2>3. v \div b \in 0 .. UintMax - 1
    <3>1. v \div b \in Nat /\ v \div b <= v
      BY <1>3, Shrinks
    <3> QED
      BY <1>3, <3>1, UintIs
  <2>4. rest \in Seq(Digit)
    BY <2>3, DigitsRecur
  <2>5. Len(d) > 0
    <3> HIDE DEF rest
    <3>1. Len(<<Hexes[(v % b) + 1]>> \o rest) > 0
      BY <2>4
    <3> QED
      BY <2>1, <3>1
  <2>6. y = [i \in 1 .. Len(d) |-> d[(Len(d) - i) + 1]]
    BY DEF emit_val, Reverse
  <2> HIDE DEF d, y
  <2>7. Len(d) \in Nat
    BY <2>2
  <2>8. Len(y) = Len(d)
    BY <2>6, <2>7
  <2> QED
    BY <2>5, <2>7, <2>8
<1> HIDE DEF y
<1>6. s \o y = y
  BY <1>4 DEF s
<1> QED
  BY <1>2, <1>3, <1>4, <1>5, <1>6 DEF y

\* A text behind two characters.
LEMMA TwoOff ==
  ASSUME NEW R, NEW c \in R, NEW d \in R, NEW y \in Seq(R), NEW z \in Seq(R)
  PROVE  /\ <<c, d>> \o y \in Seq(R)
         /\ Tail(Tail(<<c, d>> \o y)) = y
         /\ (<<c, d>> \o y) \o z = <<c, d>> \o (y \o z)
         /\ <<c, d>> \o <<>> = <<c, d>>
<1> DEFINE p == <<c, d>>
           x == p \o y
           t == Tail(x)
           u == Tail(t)
           k == Len(y)
<1>1. /\ k \in Nat /\ x \in Seq(R) /\ Len(x) = k + 2 /\ p \in Seq(R) /\ Len(p) = 2
      /\ x[1] = c /\ x[2] = d /\ \A i \in 1 .. k : x[i + 2] = y[i]
  OBVIOUS
<1> HIDE DEF x, k
<1>2. t \in Seq(R) /\ Len(t) = k + 1 /\ \A i \in 1 .. k + 1 : t[i] = x[i + 1]
  <2>1. x # <<>>
    BY <1>1
  <2> QED
    BY <1>1, <2>1
<1> HIDE DEF t
<1>3. u \in Seq(R) /\ Len(u) = k /\ \A i \in 1 .. k : u[i] = t[i + 1]
  <2>1. t # <<>>
    BY <1>1, <1>2
  <2> QED
    BY <1>1, <1>2, <2>1
<1> HIDE DEF u
<1>4. u = y
  <2>1. ASSUME NEW i \in 1 .. k PROVE u[i] = y[i]
    <3>1. i + 1 \in 1 .. k + 1 /\ (i + 1) + 1 = i + 2
      BY <1>1
    <3> QED
      BY <1>1, <1>2, <1>3, <3>1
  <2>2. Len(y) = k
    BY DEF k
  <2> QED
    BY <1>1, <1>3, <2>1, <2>2, SeqEqual
<1>5. (p \o y) \o z = p \o (y \o z)
  BY <1>1
<1>6. p \o <<>> = p
  BY <1>1
<1> QED
  BY <1>1, <1>4, <1>5, <1>6 DEF x, t, u

\* A high half in front of a short low half is read as less than it is.
LEMMA HighHalf ==
  ASSUME NEW h \in Nat, NEW w \in Nat, NEW l \in Nat, NEW U \in Nat, w < U, h # 0
  PROVE  h * w + l # h * U + l
<1> DEFINE e == U - w
<1>1. e \in Nat /\ e > 0 /\ U = w + e
  OBVIOUS
<1> HIDE DEF e
<1>2. h * U = h * w + h * e
  BY <1>1
<1>3. h * e > 0
  BY <1>1
<1>4. h * w \in Nat /\ h * e \in Nat
  BY <1>1
<1> QED
  BY <1>2, <1>3, <1>4

Numeric == {"b", "u", "x", "p", "d"}

\* The arguments that go with a conversion.
LEMMA ItemShape ==
  ASSUME NEW item \in Items
  PROVE  /\ item.conv \in {"text", "s", "c", "bogus", "llx"} \cup Numeric
         /\ item.conv \in {"text", "s", "c"} => item.str \in Seq(Chars)
         /\ item.conv \in Numeric => item.num \in 0 .. UintMax - 1
         /\ item.conv = "llx" => item.hi \in 0 .. UintMax - 1 /\ item.lo \in 0 .. UintMax - 1
<1> DEFINE U == UintMax
<1> HIDE DEF U
<1>1. \/ item \in [conv : {"text", "s", "c", "bogus"}, str : Seq(Chars)]
      \/ item \in [conv : {"b", "u", "x", "p", "d"}, num : 0 .. U - 1]
      \/ item \in [conv : {"llx"}, hi : 0 .. U - 1, lo : 0 .. U - 1]
  BY DEF Items, U
<1>2. CASE item \in [conv : {"text", "s", "c", "bogus"}, str : Seq(Chars)]
  <2>1. item.conv \in {"text", "s", "c", "bogus"} /\ item.str \in Seq(Chars)
    BY <1>2
  <2> QED
    BY <2>1 DEF Numeric
<1>3. CASE item \in [conv : {"b", "u", "x", "p", "d"}, num : 0 .. U - 1]
  <2>1. item.conv \in {"b", "u", "x", "p", "d"} /\ item.num \in 0 .. U - 1
    BY <1>3
  <2> QED
    BY <2>1 DEF Numeric, U
<1>4. CASE item \in [conv : {"llx"}, hi : 0 .. U - 1, lo : 0 .. U - 1]
  <2>1. item.conv = "llx" /\ item.hi \in 0 .. U - 1 /\ item.lo \in 0 .. U - 1
    BY <1>4
  <2> QED
    BY <2>1 DEF Numeric, U
<1> QED
  BY <1>1, <1>2, <1>3, <1>4

\* Digits and plain text are characters, and no digit is a minus.
LEMMA GlyphSeqs ==
  /\ \A s \in Seq(Digit) : s \in Seq(Glyphs)
  /\ \A s \in Seq(Chars) : s \in Seq(Glyphs)
  /\ "0" \in Glyphs /\ "x" \in Glyphs /\ "-" \in Glyphs /\ "panic" \in Glyphs
  /\ "-" \notin Digit
<1>1. Digit \subseteq Glyphs /\ Chars \subseteq Glyphs
  BY DEF Glyphs
<1>2. "x" \in Glyphs /\ "-" \in Glyphs /\ "panic" \in Glyphs
  BY DEF Glyphs
<1>3. "0" \in Digit
  <2>1. Hexes[1] = "0" /\ 1 \in 1 .. 16
    BY DEF Hexes
  <2> QED
    BY <2>1, DigitsAre
<1>4. "-" \notin Digit
  BY DEF Digit, Hexes
<1> HIDE DEF Glyphs, Digit
<1> QED
  BY <1>1, <1>2, <1>3, <1>4

\* A signed number's text: a minus and the digits of its negative, or its digits.
LEMMA SignedText ==
  ASSUME NEW num \in 0 .. UintMax - 1, IsNegative(num)
  PROVE  Negated(num) \in 0 .. UintMax - 1 /\ UintMax - Negated(num) = num
<1> DEFINE U == UintMax
<1>1. U \in Nat /\ U > 0 /\ U % 16 = 0
  BY UintIs
<1> HIDE DEF U
<1>2. U \div 2 > 0 /\ num \in Nat /\ num < U
  BY <1>1 DEF U
<1>3. num >= U \div 2
  BY DEF IsNegative, U
<1> DEFINE e == U - num
<1>4. e \in Nat /\ e < U /\ U - e = num
  BY <1>1, <1>2, <1>3
<1> HIDE DEF e
<1>5. e % U = e
  BY <1>1, <1>4
<1>6. Negated(num) = e % U
  BY DEF Negated, e, U
<1> QED
  BY <1>1, <1>4, <1>5, <1>6 DEF U

\* Every item puts characters.
LEMMA Expands == ASSUME NEW item \in Items PROVE Expand(item) \in Seq(Glyphs)
<1>1. /\ item.conv \in {"text", "s", "c", "bogus", "llx"} \cup Numeric
      /\ item.conv \in {"text", "s", "c"} => item.str \in Seq(Chars)
      /\ item.conv \in Numeric => item.num \in 0 .. UintMax - 1
      /\ item.conv = "llx" => item.hi \in 0 .. UintMax - 1 /\ item.lo \in 0 .. UintMax - 1
  BY ItemShape
<1> HIDE DEF Items
<1> DEFINE G == Glyphs
<1>2. \A b \in {2, 10, 16}, v \in 0 .. UintMax - 1 : emit_val(b, v) \in Seq(G)
  BY NumberText, GlyphSeqs
<1>3. "0" \in G /\ "x" \in G /\ "-" \in G /\ "panic" \in G
  BY GlyphSeqs
<1> HIDE DEF G
<1>4. CASE item.conv \in {"text", "s", "c"}
  <2>1. Expand(item) = item.str
    BY <1>4 DEF Expand
  <2> QED
    BY <1>1, <1>4, <2>1, GlyphSeqs
<1>5. CASE item.conv = "b"
  <2>1. Expand(item) = emit_val(2, item.num)
    BY <1>5 DEF Expand
  <2> QED
    BY <1>1, <1>2, <1>5, <2>1 DEF Numeric, G
<1>6. CASE item.conv = "u"
  <2>1. Expand(item) = emit_val(10, item.num)
    BY <1>6 DEF Expand
  <2> QED
    BY <1>1, <1>2, <1>6, <2>1 DEF Numeric, G
<1>7. CASE item.conv \in {"x", "p"}
  <2>1. Expand(item) = <<"0", "x">> \o emit_val(16, item.num)
    BY <1>7 DEF Expand
  <2>2. emit_val(16, item.num) \in Seq(G)
    BY <1>1, <1>2, <1>7 DEF Numeric
  <2> DEFINE y == emit_val(16, item.num)
  <2> HIDE DEF y
  <2>3. y \in Seq(G)
    BY <2>2 DEF y
  <2>4. <<"0", "x">> \o y \in Seq(G)
    BY <1>3, <2>3, TwoOff
  <2> QED
    BY <2>1, <2>4 DEF G, y
<1>8. CASE item.conv = "llx"
  <2> DEFINE A == IF item.hi # 0 THEN emit_val(16, item.hi) ELSE <<>>
             B == emit_val(16, item.lo)
  <2>1. Expand(item) = <<"0", "x">> \o A \o B
    BY <1>8 DEF Expand
  <2>2. A \in Seq(G) /\ B \in Seq(G)
    BY <1>1, <1>2, <1>8
  <2> HIDE DEF A, B
  <2>3. <<"0", "x">> \o A \in Seq(G)
    BY <1>3, <2>2, TwoOff
  <2>4. <<"0", "x">> \o A \o B \in Seq(G)
    BY <2>2, <2>3, Joined
  <2> QED
    BY <2>1, <2>4 DEF G
<1>9. CASE item.conv = "d"
  <2>1. item.num \in 0 .. UintMax - 1
    BY <1>1, <1>9 DEF Numeric
  <2>2. CASE IsNegative(item.num)
    <3> DEFINE y == emit_val(10, Negated(item.num))
    <3>1. Expand(item) = <<"-">> \o y
      BY <1>9, <2>2 DEF Expand
    <3>2. y \in Seq(G)
      BY <1>2, <2>1, <2>2, SignedText
    <3> HIDE DEF y
    <3>3. <<"-">> \o y \in Seq(G)
      BY <1>3, <3>2
    <3> QED
      BY <3>1, <3>3 DEF G
  <2>3. CASE ~IsNegative(item.num)
    <3>1. Expand(item) = emit_val(10, item.num)
      BY <1>9, <2>3 DEF Expand
    <3> QED
      BY <1>2, <2>1, <3>1 DEF G
  <2> QED
    BY <2>2, <2>3
<1>10. CASE item.conv = "bogus"
  <2>1. Expand(item) = <<"panic">>
    BY <1>10 DEF Expand
  <2>2. <<"panic">> \in Seq(G)
    BY <1>3
  <2> QED
    BY <2>1, <2>2 DEF G
<1> QED
  BY <1>1, <1>4, <1>5, <1>6, <1>7, <1>8, <1>9, <1>10 DEF Numeric

\* A number's text reads back as the number.
LEMMA ReadsBack ==
  ASSUME NEW item \in Items, item.conv \in Numeric
  PROVE  ReadBack(item) = item.num
<1>1. item.num \in 0 .. UintMax - 1
  BY ItemShape
<1> HIDE DEF Items
<1> DEFINE n == item.num
<1>2. \A b \in {2, 10, 16}, v \in 0 .. UintMax - 1 :
        /\ emit_val(b, v) \in Seq(Digit) /\ emit_val(b, v) # <<>>
        /\ ReadNumber(b, emit_val(b, v)) = v
  BY NumberText
<1>3. CASE item.conv = "b"
  BY <1>1, <1>2, <1>3 DEF ReadBack, Expand
<1>4. CASE item.conv = "u"
  BY <1>1, <1>2, <1>4 DEF ReadBack, Expand
<1>5. CASE item.conv \in {"x", "p"}
  <2> DEFINE y == emit_val(16, n)
             z == << >>
  <2>1. ReadBack(item) = ReadNumber(16, Tail(Tail(<<"0", "x">> \o y)))
    BY <1>5 DEF ReadBack, Expand
  <2>2. y \in Seq(Digit) /\ ReadNumber(16, y) = n
    BY <1>1, <1>2
  <2>3. z \in Seq(Glyphs)
    OBVIOUS
  <2> HIDE DEF y, z
  <2>4. y \in Seq(Glyphs)
    BY <2>2, GlyphSeqs
  <2>5. Tail(Tail(<<"0", "x">> \o y)) = y
    BY <2>3, <2>4, TwoOff, GlyphSeqs
  <2> QED
    BY <2>1, <2>2, <2>5
<1>6. CASE item.conv = "d" /\ IsNegative(n)
  <2> DEFINE m == Negated(n)
             y == emit_val(10, m)
             s == <<"-">> \o y
  <2>1. ReadBack(item) = IF Head(s) = "-" THEN UintMax - ReadNumber(10, Tail(s)) ELSE ReadNumber(10, s)
    BY <1>6 DEF ReadBack, Expand
  <2>2. m \in 0 .. UintMax - 1 /\ UintMax - m = n
    BY <1>1, <1>6, SignedText
  <2> HIDE DEF m
  <2>3. y \in Seq(Digit) /\ ReadNumber(10, y) = m
    BY <1>2, <2>2
  <2> HIDE DEF y
  <2>4. Head(s) = "-" /\ Tail(s) = y
    <3>1. y \in Seq(Glyphs) /\ "-" \in Glyphs
      BY <2>3, GlyphSeqs
    <3>2. s \in Seq(Glyphs) /\ Len(s) = Len(y) + 1 /\ s[1] = "-" /\ s # <<>>
          /\ \A i \in 1 .. Len(y) : s[i + 1] = y[i]
      BY <3>1
    <3>3. Tail(s) \in Seq(Glyphs) /\ Len(Tail(s)) = Len(y)
      BY <3>1, <3>2
    <3>4. \A i \in 1 .. Len(y) : Tail(s)[i] = y[i]
      BY <3>1, <3>2
    <3>5. Len(y) \in Nat
      BY <3>1
    <3> HIDE DEF s
    <3>6. Tail(s) = y
      <4> DEFINE u == Tail(s)
      <4> HIDE DEF u
      <4>1. u \in Seq(Glyphs) /\ Len(u) = Len(y) /\ \A i \in 1 .. Len(y) : u[i] = y[i]
        BY <3>3, <3>4 DEF u
      <4>2. u = y
        BY <3>1, <4>1, SeqEqual
      <4> QED
        BY <4>2 DEF u
    <3>7. Head(s) = s[1]
      BY <3>2
    <3> QED
      BY <3>2, <3>6, <3>7
  <2> QED
    BY <2>1, <2>2, <2>3, <2>4
<1>7. CASE item.conv = "d" /\ ~IsNegative(n)
  <2> DEFINE s == emit_val(10, n)
  <2>1. ReadBack(item) = IF Head(s) = "-" THEN UintMax - ReadNumber(10, Tail(s)) ELSE ReadNumber(10, s)
    BY <1>7 DEF ReadBack, Expand
  <2>2. s \in Seq(Digit) /\ s # <<>> /\ ReadNumber(10, s) = n
    BY <1>1, <1>2
  <2> HIDE DEF s
  <2>3. Head(s) \in Digit
    BY <2>2
  <2>4. Head(s) # "-"
    BY <2>3, GlyphSeqs
  <2> QED
    BY <2>1, <2>2, <2>4
<1> QED
  BY <1>3, <1>4, <1>5, <1>6, <1>7 DEF Numeric

\* A 64-bit number's text reads back as the number exactly if no high half
\* stands before a short low half.
LEMMA HalvesReadBack ==
  ASSUME NEW item \in Items, item.conv = "llx"
  PROVE  ReadBack(item) = item.hi * UintMax + item.lo
           <=> (item.hi = 0 \/ ~(item.lo < UintMax \div 16))
<1> DEFINE U == UintMax
           h == item.hi
           l == item.lo
           A == IF h # 0 THEN emit_val(16, h) ELSE <<>>
           B == emit_val(16, l)
           R == ReadBack(item)
<1>1. h \in 0 .. U - 1 /\ l \in 0 .. U - 1
  BY ItemShape
<1> HIDE DEF Items
<1>2. R = ReadNumber(16, Tail(Tail(<<"0", "x">> \o A \o B)))
  BY DEF ReadBack, Expand
<1> HIDE DEF R
<1>3. PICK w : IsWorth(w, 16)
  BY WorthExists
<1>4. A \in Seq(Digit) /\ ReadNumber(16, A) = h
  <2>1. CASE h = 0
    BY <2>1, ReadNothing
  <2>2. CASE h # 0
    BY <1>1, <2>2, NumberText
  <2> QED
    BY <2>1, <2>2
<1> HIDE DEF A
<1>5. B \in Seq(Digit) /\ ReadNumber(16, A \o B) = ReadNumber(16, A) * w[l] + l
  BY <1>1, <1>3, <1>4, ReadDigits
<1> HIDE DEF B
<1>6. Tail(Tail(<<"0", "x">> \o A \o B)) = A \o B
  <2> DEFINE y == A \o B
             G == Glyphs
  <2>1. A \in Seq(G) /\ B \in Seq(G) /\ "0" \in G /\ "x" \in G
    BY <1>4, <1>5, GlyphSeqs
  <2> HIDE DEF G
  <2>2. y \in Seq(G)
    BY <2>1, Joined
  <2>3. (<<"0", "x">> \o A) \o B = <<"0", "x">> \o (A \o B)
    BY <2>1, TwoOff
  <2> HIDE DEF y
  <2>4. \A z \in Seq(G) : Tail(Tail(<<"0", "x">> \o z)) = z
    <3> SUFFICES ASSUME NEW z \in Seq(G) PROVE Tail(Tail(<<"0", "x">> \o z)) = z
      OBVIOUS
    <3>1. "0" \in G /\ "x" \in G
      BY <2>1
    <3> QED
      BY <3>1, TwoOff
  <2>5. Tail(Tail(<<"0", "x">> \o y)) = y
    BY <2>2, <2>4
  <2> QED
    BY <2>3, <2>5 DEF y
<1>7. R = h * w[l] + l
  BY <1>2, <1>4, <1>5, <1>6
<1>8. /\ w[l] \in Nat
      /\ l < U \div 16 => w[l] < U
      /\ ~(l < U \div 16) => w[l] = U
  BY <1>1, <1>3, HalfWorth
<1>9. U \in Nat /\ h \in Nat /\ l \in Nat
  BY <1>1, UintIs
<1> SUFFICES R = h * U + l <=> (h = 0 \/ ~(l < U \div 16))
  BY DEF R
<1> HIDE DEF U, h, l
<1>10. CASE h = 0
  BY <1>7, <1>8, <1>9, <1>10
<1>11. CASE ~(l < U \div 16)
  BY <1>7, <1>8, <1>11
<1>12. CASE h # 0 /\ l < U \div 16
  <2> DEFINE x == w[l]
  <2>1. x \in Nat /\ x < U
    BY <1>8, <1>12
  <2> HIDE DEF x
  <2>2. h * x + l # h * U + l
    BY <1>9, <1>12, <2>1, HighHalf
  <2> QED
    BY <1>7, <1>12, <2>2 DEF x
<1> QED
  BY <1>10, <1>11, <1>12

\* A format's text is a sequence of characters.
LEMMA TextShape == ASSUME NEW fmt \in Seq(Items) PROVE TextOf(fmt) \in Seq(Glyphs)
<1> DEFINE k == Len(fmt)
           S == Seq(Glyphs)
           Op(i, x) == IF "panic" \in ToSet(x) THEN x ELSE x \o Expand(fmt[i])
           D == SUBSET (DOMAIN fmt)
           F == [i \in 1 .. k |-> [x \in S |-> Op(i, x)]]
           W == CHOOSE f : f = [t \in D |-> IF t = {} THEN <<>> ELSE Op(Max(t), f[t \ {Max(t)}])]
<1>1. TextOf(fmt) = W[DOMAIN fmt]
  BY DEF TextOf, FoldLeft, MapThenFoldSet
<1>2. k \in Nat /\ DOMAIN fmt = 1 .. k /\ D = SUBSET (1 .. k) /\ \A i \in 1 .. k : fmt[i] \in Items
  OBVIOUS
<1>3. ASSUME NEW i \in 1 .. k, NEW x \in S PROVE Op(i, x) \in S
  <2> DEFINE e == Expand(fmt[i])
             G == Glyphs
  <2>1. e \in Seq(G)
    BY <1>2, Expands
  <2> HIDE DEF e, G
  <2>2. x \o e \in Seq(G)
    BY <2>1 DEF G
  <2> QED
    BY <2>2 DEF G, e
<1>4. <<>> \in S
  OBVIOUS
<1> HIDE DEF D, k, Op, S
<1>5. PICK h : IsSeqFold(h, k, S, F, <<>>)
  <2> DEFINE none == << >>
  <2>1. \A i \in 1 .. k, x \in S : F[i][x] \in S
    BY <1>3
  <2>2. none \in S
    BY <1>4
  <2> HIDE DEF F, none
  <2>3. \E h : IsSeqFold(h, k, S, F, none)
    BY <1>2, <2>1, <2>2, SeqFoldExists
  <2> QED
    BY <2>3 DEF none
<1>6. /\ h \in [D -> S] /\ h[{}] = <<>>
      /\ \A t \in D : t # {} => h[t] = F[Max(t)][h[t \ {Max(t)}]]
  BY <1>2, <1>5 DEF IsSeqFold
<1>7. h = [t \in D |-> IF t = {} THEN <<>> ELSE Op(Max(t), h[t \ {Max(t)}])]
  <2>1. ASSUME NEW t \in D, t # {} PROVE h[t] = Op(Max(t), h[t \ {Max(t)}])
    <3>1. Max(t) \in 1 .. k
      BY <1>2, <2>1, MaxOf
    <3>2. t \ {Max(t)} \in D
      BY <1>2
    <3> QED
      BY <1>6, <2>1, <3>1, <3>2
  <2> HIDE DEF F
  <2> QED
    BY <1>6, <2>1
<1> HIDE DEF F
<1>8. W = [t \in D |-> IF t = {} THEN <<>> ELSE Op(Max(t), W[t \ {Max(t)}])]
  BY <1>7, Zenon
<1> HIDE DEF W
<1>9. W[1 .. 0] = <<>>
  <2>1. 1 .. 0 = {} /\ {} \in D
    BY <1>2
  <2> QED
    BY <1>8, <2>1
<1>10. ASSUME NEW i \in 1 .. k PROVE W[1 .. i] = Op(i, W[1 .. i - 1])
  <2>1. 1 .. i \in D /\ 1 .. i # {}
    BY <1>2, Places
  <2>2. W[1 .. i] = Op(Max(1 .. i), W[(1 .. i) \ {Max(1 .. i)}])
    BY <1>8, <2>1
  <2> QED
    BY <1>2, <2>2, Places
<1> DEFINE T == {i \in Nat : i <= k => W[1 .. i] \in S}
<1>11. 0 \in T
  BY <1>4, <1>9
<1>12. ASSUME NEW i \in T PROVE i + 1 \in T
  <2>1. i \in Nat /\ i + 1 \in Nat /\ (i + 1) - 1 = i
    OBVIOUS
  <2>2. ASSUME i + 1 <= k PROVE W[1 .. i + 1] \in S
    <3>1. i + 1 \in 1 .. k /\ W[1 .. i] \in S
      BY <1>2, <2>1, <2>2
    <3> QED
      BY <1>3, <1>10, <2>1, <3>1
  <2> QED
    BY <2>1, <2>2
<1>13. T = Nat
  <2>1. T \subseteq Nat
    OBVIOUS
  <2> HIDE DEF T
  <2> QED
    BY <1>11, <1>12, <2>1, Descent
<1>14. W[1 .. k] \in S
  BY <1>2, <1>13
<1> QED
  BY <1>1, <1>2, <1>14 DEF S

\* Before its first call a thread has no text.
LEMMA NoText == TextOf(<<>>) = <<>>
<1> DEFINE Op(i, x) == IF "panic" \in ToSet(x) THEN x ELSE x \o Expand((<<>>)[i])
           D == SUBSET (DOMAIN <<>>)
           W == CHOOSE f : f = [t \in D |-> IF t = {} THEN <<>> ELSE Op(Max(t), f[t \ {Max(t)}])]
           h == [t \in D |-> <<>>]
<1>1. TextOf(<<>>) = W[DOMAIN <<>>]
  BY DEF TextOf, FoldLeft, MapThenFoldSet
<1>2. DOMAIN <<>> = {}
  OBVIOUS
<1>3. {} \in D /\ \A t \in D : t = {}
  BY <1>2
<1> HIDE DEF D, Op
<1>4. h = [t \in D |-> IF t = {} THEN <<>> ELSE Op(Max(t), h[t \ {Max(t)}])]
  BY <1>3
<1> HIDE DEF h
<1>5. W = [t \in D |-> IF t = {} THEN <<>> ELSE Op(Max(t), W[t \ {Max(t)}])]
  BY <1>4, Zenon
<1> HIDE DEF W
<1>6. W[{}] = <<>>
  BY <1>3, <1>5
<1> QED
  BY <1>1, <1>2, <1>6

-----------------------------------------------------------------------------
(* The buffers lie apart, what is left of a text is known from what was    *)
(* put, and while no two calls of snprintk run at a time the static        *)
(* pointers are those of the call that runs.                               *)

\* Each thread has an index of its own.
LEMMA IndexIs ==
  /\ Cardinality(FmtThreads) \in Nat
  /\ Index \in [FmtThreads -> 1 .. Cardinality(FmtThreads)]
  /\ \A s, t \in FmtThreads : Index[s] = Index[t] => s = t
<1> DEFINE N == Cardinality(FmtThreads)
           Injects(f) == \A s, t \in FmtThreads : f[s] = f[t] => s = t
<1>1. N \in Nat
  BY FormatAssumption, FS_CardinalityType
<1>2. ExistsBijection(1 .. N, FmtThreads)
  BY FormatAssumption, FS_CardinalityType
<1>3. \E f \in [FmtThreads -> 1 .. N] : Injects(f)
  <2>1. ExistsBijection(FmtThreads, 1 .. N)
    BY <1>2, Fun_ExistsBijSymmetric
  <2> QED
    BY <2>1 DEF ExistsBijection, Bijection, Injection, IsInjective
<1> HIDE DEF N
<1>4. Index \in [FmtThreads -> 1 .. N] /\ Injects(Index)
  BY <1>3, Zenon DEF Index, N
<1> QED
  BY <1>1, <1>4 DEF N

\* Rows of w bytes lie behind each other.
LEMMA RowsApart ==
  ASSUME NEW i \in Nat, NEW j \in Nat, i < j, NEW w \in Nat
  PROVE  i * w + w <= j * w /\ i * w \in Nat /\ j * w \in Nat
<1> DEFINE e == j - i - 1
<1>1. e \in Nat /\ j = i + 1 + e
  OBVIOUS
<1> HIDE DEF e
<1>2. (i + 1 + e) * w = (i * w + w) + e * w
  BY <1>1
<1>3. i * w \in Nat /\ e * w \in Nat
  BY <1>1
<1> QED
  BY <1>1, <1>2, <1>3

\* Every buffer lies in memory with the byte behind it, and apart from the others.
LEMMA BuffersApart ==
  /\ MemLen \in Nat
  /\ \A t \in FmtThreads : Start(t) \in Nat /\ Start(t) > 0 /\ Start(t) + BufLen <= MemLen
  /\ \A s, t \in FmtThreads :
       s # t => Start(s) + BufLen < Start(t) \/ Start(t) + BufLen < Start(s)
<1> DEFINE N == Cardinality(FmtThreads)
           w == BufLen + 1
<1>1. N \in Nat /\ w \in Nat /\ BufLen \in Nat /\ w = BufLen + 1
  BY IndexIs, FormatAssumption
<1>2. \A t \in FmtThreads : Index[t] \in 1 .. N
  BY IndexIs
<1>3. \A t \in FmtThreads : Start(t) = (Index[t] - 1) * w + 1
  BY DEF Start
<1>4. MemLen = N * w
  BY DEF MemLen
<1> HIDE DEF N, w
<1>5. MemLen \in Nat
  BY <1>1, <1>4
<1>6. ASSUME NEW t \in FmtThreads
      PROVE  Start(t) \in Nat /\ Start(t) > 0 /\ Start(t) + BufLen <= MemLen
  <2> DEFINE i == Index[t] - 1
  <2>1. i \in Nat /\ i < N
    BY <1>1, <1>2
  <2>2. Start(t) = i * w + 1
    BY <1>3
  <2> HIDE DEF i
  <2>3. i * w + w <= N * w /\ i * w \in Nat
    BY <1>1, <2>1, RowsApart
  <2> DEFINE x == i * w
             y == N * w
  <2>4. x + w <= y /\ x \in Nat /\ Start(t) = x + 1 /\ MemLen = y
    BY <1>4, <2>2, <2>3
  <2> HIDE DEF x, y
  <2> QED
    BY <1>1, <1>5, <2>4
<1>7. ASSUME NEW s \in FmtThreads, NEW t \in FmtThreads, Index[s] < Index[t]
      PROVE  Start(s) + BufLen < Start(t)
  <2> DEFINE i == Index[s] - 1
             j == Index[t] - 1
  <2>1. i \in Nat /\ j \in Nat /\ i < j
    BY <1>1, <1>2, <1>7
  <2>2. Start(s) = i * w + 1 /\ Start(t) = j * w + 1
    BY <1>3
  <2> HIDE DEF i, j
  <2>3. i * w + w <= j * w /\ i * w \in Nat /\ j * w \in Nat
    BY <1>1, <2>1, RowsApart
  <2> DEFINE x == i * w
             y == j * w
  <2>4. x + w <= y /\ x \in Nat /\ y \in Nat /\ Start(s) = x + 1 /\ Start(t) = y + 1
    BY <2>2, <2>3
  <2> HIDE DEF x, y
  <2> QED
    BY <1>1, <2>4
<1>8. ASSUME NEW s \in FmtThreads, NEW t \in FmtThreads, s # t
      PROVE  Start(s) + BufLen < Start(t) \/ Start(t) + BufLen < Start(s)
  <2>1. Index[s] # Index[t]
    BY <1>8, IndexIs
  <2>2. Index[s] < Index[t] \/ Index[t] < Index[s]
    BY <1>1, <1>2, <2>1
  <2> QED
    BY <1>7, <2>2
<1> QED
  BY <1>5, <1>6, <1>8

\* What is left of a text once n of its characters are put.
Rest(text, n) == SubSeq(text, n + 1, Len(text))

\* The head of what is left is the next character; nothing is left at the end.
LEMMA RestIs ==
  ASSUME NEW R, NEW text \in Seq(R), NEW n \in Nat, n <= Len(text)
  PROVE  /\ Len(text) \in Nat
         /\ Rest(text, n) = <<>> <=> n = Len(text)
         /\ n < Len(text) => /\ Head(Rest(text, n)) = text[n + 1]
                             /\ Tail(Rest(text, n)) = Rest(text, n + 1)
         /\ Rest(text, 0) = text
<1> DEFINE k == Len(text)
           y == Rest(text, n)
           z == Rest(text, n + 1)
<1>1. k \in Nat /\ n <= k
  OBVIOUS
<1>2. y \in Seq(R) /\ Len(y) = k - n /\ \A i \in 1 .. k - n : y[i] = text[n + i]
  BY DEF Rest
<1>3. n < k => z \in Seq(R) /\ Len(z) = k - n - 1 /\ \A i \in 1 .. k - n - 1 : z[i] = text[n + 1 + i]
  BY DEF Rest
<1>4. Rest(text, 0) = text
  <2> DEFINE x == Rest(text, 0)
  <2>1. x \in Seq(R) /\ Len(x) = k /\ \A i \in 1 .. k : x[i] = text[i]
    BY DEF Rest
  <2> HIDE DEF x
  <2>2. x = text
    BY <2>1, SeqEqual
  <2> QED
    BY <2>2 DEF x
<1> HIDE DEF k, y, z
<1>5. y = <<>> <=> n = k
  BY <1>1, <1>2
<1>6. ASSUME n < k PROVE Head(y) = text[n + 1] /\ Tail(y) = z
  <2>1. y # <<>> /\ 1 \in 1 .. k - n
    BY <1>1, <1>2, <1>6
  <2>2. Head(y) = text[n + 1]
    BY <1>2, <2>1
  <2> DEFINE u == Tail(y)
  <2>3. u \in Seq(R) /\ Len(u) = k - n - 1 /\ \A i \in 1 .. k - n - 1 : u[i] = y[i + 1]
    BY <1>1, <1>2, <2>1
  <2> HIDE DEF u
  <2>4. ASSUME NEW i \in 1 .. k - n - 1 PROVE u[i] = z[i]
    <3>1. i + 1 \in 1 .. k - n /\ n + (i + 1) = n + 1 + i
      BY <1>1
    <3> QED
      BY <1>2, <1>3, <1>6, <2>3, <3>1
  <2>5. u = z
    BY <1>3, <1>6, <2>3, <2>4, SeqEqual
  <2> QED
    BY <2>2, <2>5 DEF u
<1> QED
  BY <1>1, <1>4, <1>5, <1>6 DEF k, y, z

\* How many of the first i characters on the UART are t's.
Put(u, t, i) == Cardinality({j \in 1 .. i : u[j][1] = t})

\* A thread that has put nothing has put 0.
LEMMA PutIs ==
  ASSUME NEW R, NEW u \in Seq(R), NEW t
  PROVE  /\ \A i \in Nat : Put(u, t, i) \in Nat
         /\ Put(u, t, 0) = 0
         /\ (\A j \in 1 .. Len(u) : u[j][1] # t) => Put(u, t, Len(u)) = 0
<1> DEFINE S(i) == {j \in 1 .. i : u[j][1] = t}
<1>1. \A i \in Nat : IsFiniteSet(S(i))
  <2> SUFFICES ASSUME NEW i \in Nat PROVE IsFiniteSet(S(i))
    OBVIOUS
  <2>1. IsFiniteSet(1 .. i)
    BY FS_Interval
  <2>2. S(i) \subseteq 1 .. i
    OBVIOUS
  <2> HIDE DEF S
  <2> QED
    BY <2>1, <2>2, FS_Subset
<1>2. S(0) = {}
  OBVIOUS
<1>3. (\A j \in 1 .. Len(u) : u[j][1] # t) => S(Len(u)) = {}
  OBVIOUS
<1>4. \A i : Put(u, t, i) = Cardinality(S(i))
  BY DEF Put
<1> HIDE DEF S
<1> QED
  BY <1>1, <1>2, <1>3, <1>4, FS_CardinalityType, FS_EmptySet

\* One more character on the UART counts for the thread that put it.
LEMMA PutMore ==
  ASSUME NEW R, NEW u \in Seq(R), NEW x \in R, NEW t
  PROVE  /\ \A i \in 1 .. Len(u) : Put(Append(u, x), t, i) = Put(u, t, i)
         /\ Put(Append(u, x), t, Len(u) + 1)
              = IF x[1] = t THEN Put(u, t, Len(u)) + 1 ELSE Put(u, t, Len(u))
<1> DEFINE k == Len(u)
           v == Append(u, x)
           S == {j \in 1 .. k : u[j][1] = t}
           V == {j \in 1 .. k + 1 : v[j][1] = t}
<1>1. k \in Nat /\ v[k + 1] = x /\ \A j \in 1 .. k : v[j] = u[j]
  OBVIOUS
<1> HIDE DEF v
<1>2. ASSUME NEW i \in 1 .. k PROVE Put(v, t, i) = Put(u, t, i)
  <2>1. \A j \in 1 .. i : j \in 1 .. k
    BY <1>1
  <2>2. {j \in 1 .. i : v[j][1] = t} = {j \in 1 .. i : u[j][1] = t}
    BY <1>1, <2>1
  <2> QED
    BY <2>2 DEF Put
<1> HIDE DEF k
<1>3. S \subseteq 1 .. k /\ k + 1 \notin S
  BY <1>1
<1>4. IsFiniteSet(S)
  <2>1. IsFiniteSet(1 .. k)
    BY <1>1, FS_Interval
  <2> HIDE DEF S
  <2> QED
    BY <1>3, <2>1, FS_Subset
<1>5. V = IF x[1] = t THEN S \cup {k + 1} ELSE S
  <2>1. \A j \in 1 .. k + 1 : j \in 1 .. k \/ j = k + 1
    BY <1>1
  <2>2. \A j \in 1 .. k : j \in 1 .. k + 1
    BY <1>1
  <2>3. k + 1 \in 1 .. k + 1
    BY <1>1
  <2>4. V \subseteq S \cup {k + 1} /\ S \subseteq V
    BY <1>1, <2>1, <2>2
  <2>5. k + 1 \in V <=> x[1] = t
    BY <1>1, <2>3
  <2> HIDE DEF S, V
  <2>6. CASE x[1] = t
    <3>1. V = S \cup {k + 1}
      BY <2>4, <2>5, <2>6
    <3> QED
      BY <2>6, <3>1
  <2>7. CASE x[1] # t
    <3>1. \A j \in V : j # k + 1
      BY <2>5, <2>7
    <3>2. V = S
      BY <2>4, <3>1
    <3> QED
      BY <2>7, <3>2
  <2> QED
    BY <2>6, <2>7
<1>6. Put(u, t, k) = Cardinality(S) /\ Put(v, t, k + 1) = Cardinality(V)
  BY DEF Put
<1> HIDE DEF S, V
<1>7. Cardinality(S \cup {k + 1}) = Cardinality(S) + 1
  BY <1>3, <1>4, FS_AddElement
<1> QED
  BY <1>2, <1>5, <1>6, <1>7 DEF k, v

-----------------------------------------------------------------------------
(* The inductive invariant, and each step.                                 *)

\* What a thread's own call has: its format and what is left of its text.
CallGood(t) ==
  /\ stage[t] \in {"idle", "ptr", "end", "put", "uart", "panic", "done", "printed"}
  /\ using[t] \in Formats \cup {<<>>}
  /\ todo[t] \in Seq(Glyphs)
  /\ stage[t] \in {"ptr", "end"} => todo[t] = TextOf(using[t])

\* The first n characters of a text are at the start of t's buffer.
Written(t, text, n) == n <= BufLen /\ \A i \in 1 .. n : bytes[Start(t) + i - 1] = text[i]

\* What t's buffer and the static pointers hold while no two calls run at a time.
BufferGood(t) ==
  LET text == TextOf(using[t])
  IN  alone[t] =>
        /\ stage[t] = "end" => buf_ptr = Start(t)
        /\ stage[t] = "put" =>
             \E n \in 0 .. Len(text) : /\ todo[t] = Rest(text, n) /\ Written(t, text, n)
                                       /\ buf_ptr = Start(t) + n /\ buf_end = Start(t) + BufLen
        /\ stage[t] = "done" => /\ Written(t, text, Len(text))
                                /\ bytes[Start(t) + Len(text)] = "NUL"
        /\ stage[t] = "panic" => "panic" \in ToSet(text) \/ Len(text) > BufLen

\* What t has put on the UART, by the number of its characters there.
PrintGood(t) ==
  LET text == TextOf(using[t])
  IN  /\ stage[t] = "idle" => \A i \in 1 .. Len(uart) : uart[i][1] # t
      /\ stage[t] \in {"uart", "printed"} =>
           /\ Put(uart, t, Len(uart)) <= Len(text)
           /\ todo[t] = Rest(text, Put(uart, t, Len(uart)))
           /\ \A i \in 1 .. Len(uart) : uart[i][1] = t => uart[i][2] = text[Put(uart, t, i)]

\* Once a call's flag still stands, no other call runs beside one.
SoloGood ==
  \A t \in FmtThreads : stage[t] \in {"ptr", "end", "put", "done"} /\ alone[t] =>
    \A s \in InCall : alone[s] /\ \A r \in InCall : r = s

FormatTypes ==
  /\ todo \in [FmtThreads -> Seq(Glyphs)] /\ uart \in Seq(FmtThreads \X Glyphs)
  /\ stage = [t \in FmtThreads |-> stage[t]] /\ using = [t \in FmtThreads |-> using[t]]
  /\ alone \in [FmtThreads -> BOOLEAN]
  /\ bytes \in [1 .. MemLen -> Glyphs \cup {"?", "NUL"}]

FormatInv ==
  /\ FormatTypes /\ SoloGood
  /\ \A t \in FmtThreads : CallGood(t) /\ BufferGood(t) /\ PrintGood(t)

\* The texts of the calls.
LEMMA TextsAre ==
  ASSUME NEW fmt \in Formats \cup {<<>>}
  PROVE  TextOf(fmt) \in Seq(Glyphs) /\ Len(TextOf(fmt)) \in Nat
<1>1. fmt \in Seq(Items)
  <2>1. <<>> \in Seq(Items)
    OBVIOUS
  <2> QED
    BY <2>1, FormatAssumption
<1>2. TextOf(fmt) \in Seq(Glyphs)
  BY <1>1, TextShape
<1> QED
  BY <1>2

\* The initial states: no call has begun.
LEMMA FormatInitGood == FormatInit => FormatInv
<1> SUFFICES ASSUME FormatInit PROVE FormatInv
  OBVIOUS
<1> USE DEF FormatInit
<1>1. FormatTypes
  <2>1. todo \in [FmtThreads -> Seq(Glyphs)] /\ uart \in Seq(FmtThreads \X Glyphs)
    OBVIOUS
  <2>2. stage = [t \in FmtThreads |-> stage[t]] /\ using = [t \in FmtThreads |-> using[t]]
    OBVIOUS
  <2>3. bytes \in [1 .. MemLen -> Glyphs \cup {"?", "NUL"}]
    OBVIOUS
  <2>4. alone \in [FmtThreads -> BOOLEAN]
    OBVIOUS
  <2> QED
    BY <2>1, <2>2, <2>3, <2>4 DEF FormatTypes
<1>2. SoloGood
  BY DEF SoloGood, InCall
<1>3. ASSUME NEW t \in FmtThreads PROVE CallGood(t) /\ BufferGood(t) /\ PrintGood(t)
  <2>1. stage[t] = "idle" /\ using[t] = <<>> /\ todo[t] = <<>> /\ uart = <<>>
    OBVIOUS
  <2>2. CallGood(t)
    BY <2>1 DEF CallGood
  <2>3. BufferGood(t)
    BY <2>1 DEF BufferGood
  <2>4. PrintGood(t)
    BY <2>1 DEF PrintGood
  <2> QED
    BY <2>2, <2>3, <2>4
<1> QED
  BY <1>1, <1>2, <1>3 DEF FormatInv

\* A thread that does nothing keeps what it has; of its buffer, as long as the
\* bytes and the pointers it relies on are left alone.
LEMMA OtherThread ==
  ASSUME NEW s \in FmtThreads, stage'[s] = stage[s], using'[s] = using[s], todo'[s] = todo[s],
         Len(TextOf(using[s])) \in Nat
  PROVE  /\ CallGood(s) => CallGood(s)'
         /\ PrintGood(s) /\ uart' = uart => PrintGood(s)'
         /\ /\ BufferGood(s)
            /\ alone'[s] => alone[s]
            /\ alone'[s] /\ stage[s] = "end" => buf_ptr' = buf_ptr
            /\ alone'[s] /\ stage[s] = "put" => UNCHANGED <<buf_ptr, buf_end, bytes>>
            /\ alone'[s] /\ stage[s] = "done" =>
                 \A i \in Start(s) .. Start(s) + BufLen : bytes'[i] = bytes[i]
            => BufferGood(s)'
<1>1. CallGood(s) => CallGood(s)'
  BY DEF CallGood
<1>2. PrintGood(s) /\ uart' = uart => PrintGood(s)'
  BY DEF PrintGood
<1>3. ASSUME BufferGood(s), alone'[s] => alone[s],
             alone'[s] /\ stage[s] = "end" => buf_ptr' = buf_ptr,
             alone'[s] /\ stage[s] = "put" => UNCHANGED <<buf_ptr, buf_end, bytes>>,
             alone'[s] /\ stage[s] = "done" =>
               \A i \in Start(s) .. Start(s) + BufLen : bytes'[i] = bytes[i]
      PROVE  BufferGood(s)'
  <2> DEFINE text == TextOf(using[s])
  <2> SUFFICES ASSUME alone'[s] PROVE
        /\ stage[s] = "end" => buf_ptr' = Start(s)
        /\ stage[s] = "put" =>
             \E n \in 0 .. Len(text) :
                /\ todo[s] = Rest(text, n)
                /\ n <= BufLen /\ \A i \in 1 .. n : bytes'[Start(s) + i - 1] = text[i]
                /\ buf_ptr' = Start(s) + n /\ buf_end' = Start(s) + BufLen
        /\ stage[s] = "done" =>
             /\ Len(text) <= BufLen /\ \A i \in 1 .. Len(text) : bytes'[Start(s) + i - 1] = text[i]
             /\ bytes'[Start(s) + Len(text)] = "NUL"
        /\ stage[s] = "panic" => "panic" \in ToSet(text) \/ Len(text) > BufLen
    BY DEF BufferGood, Written
  <2>1. /\ stage[s] = "end" => buf_ptr = Start(s)
        /\ stage[s] = "put" =>
             \E n \in 0 .. Len(text) :
                /\ todo[s] = Rest(text, n)
                /\ n <= BufLen /\ \A i \in 1 .. n : bytes[Start(s) + i - 1] = text[i]
                /\ buf_ptr = Start(s) + n /\ buf_end = Start(s) + BufLen
        /\ stage[s] = "done" =>
             /\ Len(text) <= BufLen /\ \A i \in 1 .. Len(text) : bytes[Start(s) + i - 1] = text[i]
             /\ bytes[Start(s) + Len(text)] = "NUL"
        /\ stage[s] = "panic" => "panic" \in ToSet(text) \/ Len(text) > BufLen
    BY <1>3 DEF BufferGood, Written
  <2> HIDE DEF text
  <2>2. CASE stage[s] = "done"
    <3>1. Start(s) \in Nat /\ BufLen \in Nat
      BY BuffersApart, FormatAssumption
    <3>2. Len(text) \in Nat
      BY DEF text
    <3>3. \A i \in 1 .. Len(text) : Start(s) + i - 1 \in Start(s) .. Start(s) + BufLen
      BY <2>1, <2>2, <3>1, <3>2
    <3>4. Start(s) + Len(text) \in Start(s) .. Start(s) + BufLen
      BY <2>1, <2>2, <3>1, <3>2
    <3> QED
      BY <1>3, <2>1, <2>2, <3>3, <3>4
  <2> QED
    BY <1>3, <2>1, <2>2
<1> QED
  BY <1>1, <1>2, <1>3

\* Beside a call that runs, no other call whose flag stands has begun.
LEMMA Beside ==
  ASSUME SoloGood, NEW t \in InCall, NEW s \in FmtThreads, alone[s]
  PROVE  /\ stage[s] \in {"end", "put"} => s = t
         /\ stage[s] = "done" => alone[t]
<1>1. CASE stage[s] \in {"end", "put"}
  <2>1. s \in InCall
    BY <1>1 DEF InCall
  <2>2. \A r \in InCall : r = t
    BY <1>1 DEF SoloGood
  <2> QED
    BY <1>1, <2>1, <2>2
<1>2. CASE stage[s] = "done"
  BY <1>2 DEF SoloGood
<1> QED
  BY <1>1, <1>2

\* A step within a call, or out of it, starts no other call.
LEMMA SoloKept ==
  ASSUME SoloGood, NEW t \in FmtThreads, alone' = alone,
         \A s \in FmtThreads : s # t => stage'[s] = stage[s],
         stage'[t] \in {"ptr", "end", "put"} => stage[t] \in {"ptr", "end", "put"},
         stage'[t] = "done" => stage[t] \in {"ptr", "end", "put", "done"}
  PROVE  SoloGood'
<1>1. \A s \in FmtThreads : s \in InCall' => s \in InCall
  BY DEF InCall
<1>2. \A s \in FmtThreads :
        stage'[s] \in {"ptr", "end", "put", "done"} => stage[s] \in {"ptr", "end", "put", "done"}
  OBVIOUS
<1>3. InCall' \subseteq InCall
  BY <1>1 DEF InCall
<1> QED
  BY <1>2, <1>3 DEF SoloGood

\* What the steps below use of the invariant.
LEMMA WhenGood ==
  ASSUME FormatInv
  PROVE  /\ FormatTypes /\ SoloGood
         /\ \A t \in FmtThreads :
              /\ CallGood(t) /\ BufferGood(t) /\ PrintGood(t)
              /\ TextOf(using[t]) \in Seq(Glyphs) /\ Len(TextOf(using[t])) \in Nat
<1>1. \A t \in FmtThreads : using[t] \in Formats \cup {<<>>}
  BY DEF FormatInv, CallGood
<1>2. \A t \in FmtThreads :
        TextOf(using[t]) \in Seq(Glyphs) /\ Len(TextOf(using[t])) \in Nat
  BY <1>1, TextsAre
<1> QED
  BY <1>2 DEF FormatInv

\* One thread enters another stage.
LEMMA Moves ==
  ASSUME FormatTypes, NEW t \in FmtThreads, NEW s, stage' = [stage EXCEPT ![t] = s]
  PROVE  /\ stage'[t] = s /\ stage' = [r \in FmtThreads |-> stage'[r]]
         /\ \A r \in FmtThreads : r # t => stage'[r] = stage[r]
<1> QED
  BY DEF FormatTypes

\* A call that runs alone finds buf_ptr where it set it.
LEMMA SetPtrGood == ASSUME FormatInv, NEW t \in FmtThreads, SetPtr(t) PROVE FormatInv'
<1>1. /\ FormatTypes /\ SoloGood
      /\ \A s \in FmtThreads :
           /\ CallGood(s) /\ BufferGood(s) /\ PrintGood(s)
           /\ TextOf(using[s]) \in Seq(Glyphs) /\ Len(TextOf(using[s])) \in Nat
  BY WhenGood
<1>2. /\ stage[t] = "ptr" /\ stage' = [stage EXCEPT ![t] = "end"] /\ buf_ptr' = Start(t)
      /\ UNCHANGED <<todo, using, bytes, buf_end, uart, alone>>
  BY DEF SetPtr, At, Go
<1>3. /\ stage'[t] = "end" /\ stage' = [r \in FmtThreads |-> stage'[r]]
      /\ \A r \in FmtThreads : r # t => stage'[r] = stage[r]
  BY <1>1, <1>2, Moves
<1>4. FormatTypes'
  BY <1>1, <1>2, <1>3 DEF FormatTypes
<1>5. SoloGood'
  BY <1>1, <1>2, <1>3, SoloKept
<1>6. t \in InCall
  BY <1>2 DEF InCall
<1>7. CallGood(t)' /\ PrintGood(t)'
  <2>1. CallGood(t) /\ PrintGood(t)
    BY <1>1
  <2>2. CallGood(t)'
    BY <1>2, <1>3, <2>1 DEF CallGood
  <2>3. PrintGood(t)'
    BY <1>3 DEF PrintGood
  <2> QED
    BY <2>2, <2>3
<1>8. BufferGood(t)'
  <2>1. stage'[t] = "end" /\ buf_ptr' = Start(t)
    BY <1>2, <1>3
  <2> QED
    BY <2>1 DEF BufferGood
<1>9. ASSUME NEW s \in FmtThreads, s # t PROVE CallGood(s)' /\ BufferGood(s)' /\ PrintGood(s)'
  <2>1. /\ stage'[s] = stage[s] /\ using'[s] = using[s] /\ todo'[s] = todo[s]
        /\ uart' = uart /\ (alone'[s] => alone[s])
        /\ Len(TextOf(using[s])) \in Nat
        /\ CallGood(s) /\ BufferGood(s) /\ PrintGood(s)
    BY <1>1, <1>2, <1>3, <1>9
  <2>2. alone[s] => stage[s] \notin {"end", "put"}
    BY <1>1, <1>6, <1>9, Beside
  <2>3. /\ alone'[s] /\ stage[s] = "end" => buf_ptr' = buf_ptr
        /\ alone'[s] /\ stage[s] = "put" => UNCHANGED <<buf_ptr, buf_end, bytes>>
        /\ alone'[s] /\ stage[s] = "done" =>
             \A i \in Start(s) .. Start(s) + BufLen : bytes'[i] = bytes[i]
    BY <1>2, <2>1, <2>2
  <2> QED
    BY <2>1, <2>3, OtherThread
<1> QED
  BY <1>4, <1>5, <1>7, <1>8, <1>9 DEF FormatInv

\* It has put nothing when both pointers are set.
LEMMA SetEndGood == ASSUME FormatInv, NEW t \in FmtThreads, SetEnd(t) PROVE FormatInv'
<1>1. /\ FormatTypes /\ SoloGood
      /\ \A s \in FmtThreads :
           /\ CallGood(s) /\ BufferGood(s) /\ PrintGood(s)
           /\ TextOf(using[s]) \in Seq(Glyphs) /\ Len(TextOf(using[s])) \in Nat
  BY WhenGood
<1>2. /\ stage[t] = "end" /\ stage' = [stage EXCEPT ![t] = "put"] /\ buf_end' = Start(t) + BufLen
      /\ UNCHANGED <<todo, using, bytes, buf_ptr, uart, alone>>
  BY DEF SetEnd, At, Go
<1>3. /\ stage'[t] = "put" /\ stage' = [r \in FmtThreads |-> stage'[r]]
      /\ \A r \in FmtThreads : r # t => stage'[r] = stage[r]
  BY <1>1, <1>2, Moves
<1>4. FormatTypes'
  BY <1>1, <1>2, <1>3 DEF FormatTypes
<1>5. SoloGood'
  BY <1>1, <1>2, <1>3, SoloKept
<1>6. t \in InCall
  BY <1>2 DEF InCall
<1>7. CallGood(t)' /\ PrintGood(t)'
  <2>1. CallGood(t) /\ PrintGood(t)
    BY <1>1
  <2>2. CallGood(t)'
    BY <1>2, <1>3, <2>1 DEF CallGood
  <2>3. PrintGood(t)'
    BY <1>3 DEF PrintGood
  <2> QED
    BY <2>2, <2>3
<1>8. BufferGood(t)'
  <2> DEFINE text == TextOf(using[t])
  <2>1. stage'[t] = "put" /\ using' = using /\ alone' = alone /\ todo' = todo /\ buf_ptr' = buf_ptr
    BY <1>2, <1>3
  <2>2. text \in Seq(Glyphs) /\ Len(text) \in Nat
    BY <1>1
  <2>3. todo[t] = text /\ (alone[t] => buf_ptr = Start(t))
    BY <1>1, <1>2 DEF CallGood, BufferGood
  <2> HIDE DEF text
  <2>4. Rest(text, 0) = text
    <3>1. 0 \in Nat /\ 0 <= Len(text)
      BY <2>2
    <3> QED
      BY <2>2, <3>1, RestIs
  <2>5. Start(t) \in Nat /\ BufLen \in Nat
    BY BuffersApart, FormatAssumption
  <2>6. ASSUME alone[t]
        PROVE  \E n \in 0 .. Len(text) : /\ todo'[t] = Rest(text, n) /\ Written(t, text, n)'
                                         /\ buf_ptr' = Start(t) + n /\ buf_end' = Start(t) + BufLen
    <3>1. Written(t, text, 0)'
      BY <2>5 DEF Written
    <3>2. buf_ptr' = Start(t) + 0 /\ buf_end' = Start(t) + BufLen
      BY <1>2, <2>3, <2>5, <2>6
    <3>3. 0 \in 0 .. Len(text) /\ todo'[t] = Rest(text, 0)
      BY <2>1, <2>2, <2>3, <2>4
    <3> QED
      BY <3>1, <3>2, <3>3
  <2> QED
    BY <2>1, <2>6 DEF BufferGood, text
<1>9. ASSUME NEW s \in FmtThreads, s # t PROVE CallGood(s)' /\ BufferGood(s)' /\ PrintGood(s)'
  <2>1. /\ stage'[s] = stage[s] /\ using'[s] = using[s] /\ todo'[s] = todo[s]
        /\ uart' = uart /\ (alone'[s] => alone[s])
        /\ Len(TextOf(using[s])) \in Nat
        /\ CallGood(s) /\ BufferGood(s) /\ PrintGood(s)
    BY <1>1, <1>2, <1>3, <1>9
  <2>2. alone[s] => stage[s] \notin {"end", "put"}
    BY <1>1, <1>6, <1>9, Beside
  <2>3. /\ alone'[s] /\ stage[s] = "end" => buf_ptr' = buf_ptr
        /\ alone'[s] /\ stage[s] = "put" => UNCHANGED <<buf_ptr, buf_end, bytes>>
        /\ alone'[s] /\ stage[s] = "done" =>
             \A i \in Start(s) .. Start(s) + BufLen : bytes'[i] = bytes[i]
    BY <1>2, <2>1, <2>2
  <2> QED
    BY <2>1, <2>3, OtherThread
<1> QED
  BY <1>4, <1>5, <1>7, <1>8, <1>9 DEF FormatInv

\* What a call that puts characters has of its text and its buffer.
LEMMA Putting ==
  ASSUME FormatInv, NEW t \in FmtThreads, stage[t] = "put", alone[t]
  PROVE  \E n \in 0 .. Len(TextOf(using[t])) :
           /\ todo[t] = Rest(TextOf(using[t]), n) /\ Written(t, TextOf(using[t]), n)
           /\ buf_ptr = Start(t) + n /\ buf_end = Start(t) + BufLen
<1>1. BufferGood(t)
  BY WhenGood
<1> QED
  BY <1>1 DEF BufferGood

\* Its next character goes behind the ones it has put, or it panics.
LEMMA PutCharGood == ASSUME FormatInv, NEW t \in FmtThreads, PutChar(t) PROVE FormatInv'
<1>1. /\ FormatTypes /\ SoloGood
      /\ \A s \in FmtThreads :
           /\ CallGood(s) /\ BufferGood(s) /\ PrintGood(s)
           /\ TextOf(using[s]) \in Seq(Glyphs) /\ Len(TextOf(using[s])) \in Nat
  BY WhenGood
<1> DEFINE h == Head(todo[t])
           stops == h = "panic" \/ ~(buf_ptr < buf_end)
           text == TextOf(using[t])
<1>2. /\ stage[t] = "put" /\ todo[t] # <<>>
      /\ UNCHANGED <<using, buf_end, uart, alone>>
      /\ stops => stage' = [stage EXCEPT ![t] = "panic"] /\ UNCHANGED <<todo, bytes, buf_ptr>>
      /\ ~stops => /\ bytes' = [bytes EXCEPT ![buf_ptr] = h]
                   /\ buf_ptr' = buf_ptr + 1
                   /\ todo' = [todo EXCEPT ![t] = Tail(todo[t])]
                   /\ stage' = stage
  BY DEF PutChar, At, Go
<1>3. todo[t] \in Seq(Glyphs) /\ h \in Glyphs /\ Tail(todo[t]) \in Seq(Glyphs)
  <2>1. todo[t] \in Seq(Glyphs)
    BY <1>1 DEF FormatTypes
  <2> QED
    BY <1>2, <2>1
<1>4. text \in Seq(Glyphs) /\ Len(text) \in Nat
  BY <1>1
<1>5. t \in InCall
  BY <1>2 DEF InCall
<1>6. Start(t) \in Nat /\ BufLen \in Nat /\ Start(t) > 0 /\ Start(t) + BufLen <= MemLen /\ MemLen \in Nat
  BY BuffersApart, FormatAssumption
<1> HIDE DEF h, text
<1>7. ASSUME alone[t]
      PROVE  \E n \in Nat : /\ n < Len(text) /\ h = text[n + 1] /\ Tail(todo[t]) = Rest(text, n + 1)
                            /\ Written(t, text, n)
                            /\ buf_ptr = Start(t) + n /\ buf_end = Start(t) + BufLen
  <2>1. PICK n \in 0 .. Len(text) :
           /\ todo[t] = Rest(text, n) /\ Written(t, text, n)
           /\ buf_ptr = Start(t) + n /\ buf_end = Start(t) + BufLen
    BY <1>2, <1>7, Putting DEF text
  <2>2. n \in Nat /\ n <= Len(text)
    BY <1>4
  <2>3. /\ Rest(text, n) = <<>> <=> n = Len(text)
        /\ n < Len(text) => Head(Rest(text, n)) = text[n + 1] /\ Tail(Rest(text, n)) = Rest(text, n + 1)
    BY <1>4, <2>2, RestIs
  <2>4. n < Len(text)
    BY <1>2, <1>4, <2>1, <2>2, <2>3
  <2> QED
    BY <2>1, <2>2, <2>3, <2>4 DEF h
<1>8. \A r \in FmtThreads : r # t => stage'[r] = stage[r] /\ todo'[r] = todo[r]
  BY <1>1, <1>2 DEF FormatTypes
<1>9. stage'[t] = (IF stops THEN "panic" ELSE "put") /\ stage' = [r \in FmtThreads |-> stage'[r]]
  BY <1>1, <1>2 DEF FormatTypes
<1>10. FormatTypes'
  <2>1. bytes' \in [1 .. MemLen -> Glyphs \cup {"?", "NUL"}]
    <3>1. bytes \in [1 .. MemLen -> Glyphs \cup {"?", "NUL"}]
      BY <1>1 DEF FormatTypes
    <3> QED
      BY <1>2, <1>3, <3>1
  <2>2. todo' \in [FmtThreads -> Seq(Glyphs)]
    <3>1. todo \in [FmtThreads -> Seq(Glyphs)]
      BY <1>1 DEF FormatTypes
    <3> QED
      BY <1>2, <1>3, <3>1
  <2> QED
    BY <1>1, <1>2, <1>9, <2>1, <2>2 DEF FormatTypes
<1>11. SoloGood'
  BY <1>1, <1>2, <1>8, <1>9, SoloKept
<1>12. CallGood(t)' /\ PrintGood(t)'
  <2>1. todo'[t] \in Seq(Glyphs)
    BY <1>10 DEF FormatTypes
  <2>2. using[t] \in Formats \cup {<<>>}
    BY <1>1 DEF CallGood
  <2>3. stage'[t] \in {"panic", "put"}
    BY <1>9
  <2>4. CallGood(t)'
    BY <1>2, <2>1, <2>2, <2>3 DEF CallGood
  <2>5. PrintGood(t)'
    BY <2>3 DEF PrintGood
  <2> QED
    BY <2>4, <2>5
<1>13. BufferGood(t)'
  <2>1. CASE ~alone[t]
    BY <1>2, <2>1 DEF BufferGood
  <2>2. CASE alone[t]
    <3>1. PICK n \in Nat : /\ n < Len(text) /\ h = text[n + 1] /\ Tail(todo[t]) = Rest(text, n + 1)
                           /\ Written(t, text, n)
                           /\ buf_ptr = Start(t) + n /\ buf_end = Start(t) + BufLen
      BY <1>7, <2>2
    <3>2. CASE stops
      <4>1. h = "panic" => "panic" \in ToSet(text)
        <5>1. n + 1 \in DOMAIN text
          BY <1>4, <3>1
        <5> QED
          BY <3>1, <5>1 DEF ToSet
      <4>2. ~(buf_ptr < buf_end) => Len(text) > BufLen
        BY <1>4, <1>6, <3>1
      <4>3. "panic" \in ToSet(text) \/ Len(text) > BufLen
        BY <3>2, <4>1, <4>2
      <4>4. stage'[t] = "panic" /\ using' = using
        BY <1>2, <1>9, <3>2
      <4> QED
        BY <4>3, <4>4 DEF BufferGood, text
    <3>3. CASE ~stops
      <4> DEFINE m == n + 1
      <4>1. m \in 0 .. Len(text) /\ m <= BufLen /\ m \in Nat
        BY <1>4, <1>6, <3>1, <3>3
      <4>2. todo'[t] = Rest(text, m)
        <5>1. todo'[t] = Tail(todo[t])
          BY <1>1, <1>2, <3>3 DEF FormatTypes
        <5> QED
          BY <3>1, <5>1
      <4>3. buf_ptr' = Start(t) + m /\ buf_end' = Start(t) + BufLen
        BY <1>2, <1>6, <3>1, <3>3
      <4>4. Written(t, text, m)'
        <5>1. buf_ptr \in 1 .. MemLen /\ buf_ptr = Start(t) + n
          BY <1>6, <3>1, <3>3
        <5>2. bytes'[buf_ptr] = h /\ \A i \in 1 .. MemLen : i # buf_ptr => bytes'[i] = bytes[i]
          BY <1>1, <1>2, <3>3, <5>1 DEF FormatTypes
        <5>3. ASSUME NEW i \in 1 .. m PROVE bytes'[Start(t) + i - 1] = text[i]
          <6>1. CASE i = m
            <7>1. Start(t) + i - 1 = buf_ptr
              BY <1>6, <5>1, <6>1
            <7> QED
              BY <3>1, <5>2, <6>1, <7>1
          <6>2. CASE i # m
            <7>1. i \in 1 .. n /\ Start(t) + i - 1 # buf_ptr /\ Start(t) + i - 1 \in 1 .. MemLen
              BY <1>6, <4>1, <5>1, <6>2
            <7>2. bytes[Start(t) + i - 1] = text[i]
              BY <3>1, <7>1 DEF Written
            <7> QED
              BY <5>2, <7>1, <7>2
          <6> QED
            BY <6>1, <6>2
        <5>4. text' = text
          BY <1>2 DEF text
        <5> QED
          BY <4>1, <5>3, <5>4 DEF Written
      <4>5. stage'[t] = "put" /\ using' = using
        BY <1>2, <1>9, <3>3
      <4> HIDE DEF m
      <4>6. \E k \in 0 .. Len(text) : /\ todo'[t] = Rest(text, k) /\ Written(t, text, k)'
                                      /\ buf_ptr' = Start(t) + k /\ buf_end' = Start(t) + BufLen
        BY <4>1, <4>2, <4>3, <4>4
      <4> QED
        BY <4>5, <4>6 DEF BufferGood, text
    <3> QED
      BY <3>2, <3>3
  <2> QED
    BY <2>1, <2>2
<1>14. ASSUME NEW s \in FmtThreads, s # t PROVE CallGood(s)' /\ BufferGood(s)' /\ PrintGood(s)'
  <2>1. /\ stage'[s] = stage[s] /\ using'[s] = using[s] /\ todo'[s] = todo[s]
        /\ uart' = uart /\ (alone'[s] => alone[s])
        /\ Len(TextOf(using[s])) \in Nat
        /\ CallGood(s) /\ BufferGood(s) /\ PrintGood(s)
    BY <1>1, <1>2, <1>8, <1>14
  <2>2. alone[s] => stage[s] \notin {"end", "put"} /\ (stage[s] = "done" => alone[t])
    BY <1>1, <1>5, <1>14, Beside
  <2>3. ASSUME alone[t], NEW i \in Start(s) .. Start(s) + BufLen PROVE bytes'[i] = bytes[i]
    <3>1. PICK n \in Nat : buf_ptr = Start(t) + n /\ buf_end = Start(t) + BufLen
      BY <1>7, <2>3
    <3>2. CASE stops
      BY <1>2, <3>2
    <3>3. CASE ~stops
      <4>1. n < BufLen
        BY <1>6, <3>1, <3>3
      <4>2. Start(s) + BufLen < Start(t) \/ Start(t) + BufLen < Start(s)
        BY <1>14, BuffersApart
      <4>3. Start(s) \in Nat /\ Start(s) > 0 /\ Start(s) + BufLen <= MemLen
        BY BuffersApart
      <4>4. i # buf_ptr /\ i \in 1 .. MemLen
        BY <1>6, <3>1, <4>1, <4>2, <4>3
      <4> QED
        BY <1>1, <1>2, <3>3, <4>4 DEF FormatTypes
    <3> QED
      BY <3>2, <3>3
  <2>4. /\ alone'[s] /\ stage[s] = "end" => buf_ptr' = buf_ptr
        /\ alone'[s] /\ stage[s] = "put" => UNCHANGED <<buf_ptr, buf_end, bytes>>
        /\ alone'[s] /\ stage[s] = "done" =>
             \A i \in Start(s) .. Start(s) + BufLen : bytes'[i] = bytes[i]
    BY <2>1, <2>2, <2>3
  <2> QED
    BY <2>1, <2>4, OtherThread
<1> QED
  BY <1>10, <1>11, <1>12, <1>13, <1>14 DEF FormatInv

\* The terminator goes behind the text, into no other thread's buffer.
LEMMA TerminateGood == ASSUME FormatInv, NEW t \in FmtThreads, Terminate(t) PROVE FormatInv'
<1>1. /\ FormatTypes /\ SoloGood
      /\ \A s \in FmtThreads :
           /\ CallGood(s) /\ BufferGood(s) /\ PrintGood(s)
           /\ TextOf(using[s]) \in Seq(Glyphs) /\ Len(TextOf(using[s])) \in Nat
  BY WhenGood
<1> DEFINE text == TextOf(using[t])
<1>2. /\ stage[t] = "put" /\ todo[t] = <<>> /\ stage' = [stage EXCEPT ![t] = "done"]
      /\ bytes' = [i \in 1 .. MemLen |-> IF i = buf_ptr THEN "NUL" ELSE bytes[i]]
      /\ UNCHANGED <<todo, using, buf_end, uart, alone>>
  BY DEF Terminate, At, Go
<1>3. /\ stage'[t] = "done" /\ stage' = [r \in FmtThreads |-> stage'[r]]
      /\ \A r \in FmtThreads : r # t => stage'[r] = stage[r]
  BY <1>1, <1>2, Moves
<1>4. text \in Seq(Glyphs) /\ Len(text) \in Nat /\ text' = text
  BY <1>1, <1>2
<1>5. t \in InCall
  BY <1>2 DEF InCall
<1>6. Start(t) \in Nat /\ BufLen \in Nat /\ Start(t) > 0 /\ Start(t) + BufLen <= MemLen /\ MemLen \in Nat
  BY BuffersApart, FormatAssumption
<1>7. bytes \in [1 .. MemLen -> Glyphs \cup {"?", "NUL"}]
  BY <1>1 DEF FormatTypes
<1> HIDE DEF text
<1>8. ASSUME alone[t]
      PROVE  Written(t, text, Len(text)) /\ buf_ptr = Start(t) + Len(text) /\ Len(text) <= BufLen
  <2>1. PICK n \in 0 .. Len(text) :
           /\ todo[t] = Rest(text, n) /\ Written(t, text, n)
           /\ buf_ptr = Start(t) + n /\ buf_end = Start(t) + BufLen
    BY <1>2, <1>8, Putting DEF text
  <2>2. n \in Nat /\ n <= Len(text)
    BY <1>4
  <2>3. Rest(text, n) = <<>> <=> n = Len(text)
    BY <1>4, <2>2, RestIs
  <2>4. n = Len(text)
    BY <1>2, <2>1, <2>3
  <2> QED
    BY <2>1, <2>4 DEF Written
<1>9. FormatTypes'
  <2>1. bytes' \in [1 .. MemLen -> Glyphs \cup {"?", "NUL"}]
    BY <1>2, <1>7
  <2> QED
    BY <1>1, <1>2, <1>3, <2>1 DEF FormatTypes
<1>10. SoloGood'
  BY <1>1, <1>2, <1>3, SoloKept
<1>11. CallGood(t)' /\ PrintGood(t)'
  <2>1. CallGood(t)
    BY <1>1
  <2>2. CallGood(t)'
    BY <1>2, <1>3, <2>1 DEF CallGood
  <2>3. PrintGood(t)'
    BY <1>3 DEF PrintGood
  <2> QED
    BY <2>2, <2>3
<1>12. BufferGood(t)'
  <2>1. ASSUME alone[t] PROVE Written(t, text, Len(text))' /\ bytes'[Start(t) + Len(text)] = "NUL"
    <3>1. Written(t, text, Len(text)) /\ buf_ptr = Start(t) + Len(text) /\ Len(text) <= BufLen
      BY <1>8, <2>1
    <3>2. buf_ptr \in 1 .. MemLen
      BY <1>4, <1>6, <3>1
    <3>3. bytes'[Start(t) + Len(text)] = "NUL"
      BY <1>2, <3>1, <3>2
    <3>4. ASSUME NEW i \in 1 .. Len(text) PROVE bytes'[Start(t) + i - 1] = text[i]
      <4>1. Start(t) + i - 1 \in 1 .. MemLen /\ Start(t) + i - 1 # buf_ptr
        BY <1>4, <1>6, <3>1
      <4>2. bytes[Start(t) + i - 1] = text[i]
        BY <3>1 DEF Written
      <4> QED
        BY <1>2, <4>1, <4>2
    <3> QED
      BY <1>4, <3>1, <3>3, <3>4 DEF Written
  <2>2. stage'[t] = "done" /\ alone' = alone
    BY <1>2, <1>3
  <2>3. text' = TextOf(using'[t])
    BY DEF text
  <2> QED
    BY <1>4, <2>1, <2>2, <2>3 DEF BufferGood
<1>13. ASSUME NEW s \in FmtThreads, s # t PROVE CallGood(s)' /\ BufferGood(s)' /\ PrintGood(s)'
  <2>1. /\ stage'[s] = stage[s] /\ using'[s] = using[s] /\ todo'[s] = todo[s]
        /\ uart' = uart /\ (alone'[s] => alone[s])
        /\ Len(TextOf(using[s])) \in Nat
        /\ CallGood(s) /\ BufferGood(s) /\ PrintGood(s)
    BY <1>1, <1>2, <1>3, <1>13
  <2>2. alone[s] => stage[s] \notin {"end", "put"} /\ (stage[s] = "done" => alone[t])
    BY <1>1, <1>5, <1>13, Beside
  <2>3. ASSUME alone[t], NEW i \in Start(s) .. Start(s) + BufLen PROVE bytes'[i] = bytes[i]
    <3>1. buf_ptr = Start(t) + Len(text) /\ Len(text) <= BufLen
      BY <1>8, <2>3
    <3>2. Start(s) + BufLen < Start(t) \/ Start(t) + BufLen < Start(s)
      BY <1>13, BuffersApart
    <3>3. Start(s) \in Nat /\ Start(s) > 0 /\ Start(s) + BufLen <= MemLen
      BY BuffersApart
    <3>4. i # buf_ptr /\ i \in 1 .. MemLen
      BY <1>4, <1>6, <3>1, <3>2, <3>3
    <3> QED
      BY <1>2, <3>4
  <2>4. /\ alone'[s] /\ stage[s] = "end" => buf_ptr' = buf_ptr
        /\ alone'[s] /\ stage[s] = "put" => UNCHANGED <<buf_ptr, buf_end, bytes>>
        /\ alone'[s] /\ stage[s] = "done" =>
             \A i \in Start(s) .. Start(s) + BufLen : bytes'[i] = bytes[i]
    BY <2>1, <2>2, <2>3
  <2> QED
    BY <2>1, <2>4, OtherThread
<1> QED
  BY <1>9, <1>10, <1>11, <1>12, <1>13 DEF FormatInv

\* What the beginning of a call changes.
LEMMA Begins ==
  ASSUME FormatInv, NEW t \in FmtThreads, NEW s, Begin(t, s)
  PROVE  /\ stage[t] = "idle" /\ stage'[t] = s /\ stage' = [r \in FmtThreads |-> stage'[r]]
         /\ using' = [r \in FmtThreads |-> using'[r]] /\ using'[t] \in Formats
         /\ todo' \in [FmtThreads -> Seq(Glyphs)] /\ todo'[t] = TextOf(using'[t])
         /\ \A r \in FmtThreads :
              r # t => stage'[r] = stage[r] /\ using'[r] = using[r] /\ todo'[r] = todo[r]
<1>1. FormatTypes
  BY DEF FormatInv
<1>2. stage[t] = "idle" /\ stage' = [stage EXCEPT ![t] = s]
  BY DEF Begin, At, Go
<1>3. PICK fmt \in Formats : using' = [using EXCEPT ![t] = fmt] /\ todo' = [todo EXCEPT ![t] = TextOf(fmt)]
  BY DEF Begin
<1>4. TextOf(fmt) \in Seq(Glyphs)
  BY TextsAre
<1>5. /\ stage'[t] = s /\ stage' = [r \in FmtThreads |-> stage'[r]]
      /\ \A r \in FmtThreads : r # t => stage'[r] = stage[r]
  BY <1>1, <1>2, Moves
<1>6. /\ using' = [r \in FmtThreads |-> using'[r]] /\ using'[t] = fmt
      /\ \A r \in FmtThreads : r # t => using'[r] = using[r]
  BY <1>1, <1>3 DEF FormatTypes
<1>7. /\ todo' \in [FmtThreads -> Seq(Glyphs)] /\ todo'[t] = TextOf(fmt)
      /\ \A r \in FmtThreads : r # t => todo'[r] = todo[r]
  <2>1. todo \in [FmtThreads -> Seq(Glyphs)]
    BY <1>1 DEF FormatTypes
  <2> QED
    BY <1>3, <1>4, <2>1
<1> QED
  BY <1>2, <1>5, <1>6, <1>7

\* A new call clears the flags of all when another runs.
LEMMA SnprintkGood == ASSUME FormatInv, NEW t \in FmtThreads, Snprintk(t) PROVE FormatInv'
<1>1. /\ FormatTypes /\ SoloGood
      /\ \A s \in FmtThreads :
           /\ CallGood(s) /\ BufferGood(s) /\ PrintGood(s)
           /\ TextOf(using[s]) \in Seq(Glyphs) /\ Len(TextOf(using[s])) \in Nat
  BY WhenGood
<1>2. /\ alone' = [s \in FmtThreads |-> InCall = {} /\ (s = t \/ alone[s])]
      /\ UNCHANGED <<bytes, buf_ptr, buf_end, uart>>
  BY DEF Snprintk
<1>3. Begin(t, "ptr")
  BY DEF Snprintk
<1>4. /\ stage[t] = "idle" /\ stage'[t] = "ptr" /\ stage' = [r \in FmtThreads |-> stage'[r]]
      /\ using' = [r \in FmtThreads |-> using'[r]] /\ using'[t] \in Formats
      /\ todo' \in [FmtThreads -> Seq(Glyphs)] /\ todo'[t] = TextOf(using'[t])
      /\ \A r \in FmtThreads :
           r # t => stage'[r] = stage[r] /\ using'[r] = using[r] /\ todo'[r] = todo[r]
  BY <1>3, Begins
<1>5. FormatTypes'
  <2>1. alone' \in [FmtThreads -> BOOLEAN]
    BY <1>2
  <2> QED
    BY <1>1, <1>2, <1>4, <2>1 DEF FormatTypes
<1>6. \A s \in FmtThreads : alone'[s] => InCall = {} /\ (s = t \/ alone[s])
  BY <1>2
<1>7. SoloGood'
  <2>1. ASSUME InCall = {}, NEW r \in FmtThreads, stage'[r] \in {"ptr", "end", "put"} PROVE r = t
    <3>1. stage[r] \notin {"ptr", "end", "put"}
      BY <2>1 DEF InCall
    <3> QED
      BY <1>4, <2>1, <3>1
  <2>2. InCall = {} => alone'[t]
    BY <1>2
  <2>3. InCall' = {r \in FmtThreads : stage'[r] \in {"ptr", "end", "put"}}
    BY DEF InCall
  <2> QED
    BY <1>6, <2>1, <2>2, <2>3 DEF SoloGood
<1>8. CallGood(t)' /\ BufferGood(t)' /\ PrintGood(t)'
  <2>1. todo'[t] \in Seq(Glyphs)
    BY <1>4
  <2>2. CallGood(t)'
    BY <1>4, <2>1 DEF CallGood
  <2>3. BufferGood(t)'
    BY <1>4 DEF BufferGood
  <2>4. PrintGood(t)'
    BY <1>4 DEF PrintGood
  <2> QED
    BY <2>2, <2>3, <2>4
<1>9. ASSUME NEW s \in FmtThreads, s # t PROVE CallGood(s)' /\ BufferGood(s)' /\ PrintGood(s)'
  <2>1. /\ stage'[s] = stage[s] /\ using'[s] = using[s] /\ todo'[s] = todo[s]
        /\ uart' = uart /\ (alone'[s] => alone[s])
        /\ Len(TextOf(using[s])) \in Nat
        /\ CallGood(s) /\ BufferGood(s) /\ PrintGood(s)
    BY <1>1, <1>2, <1>4, <1>6, <1>9
  <2>2. /\ alone'[s] /\ stage[s] = "end" => buf_ptr' = buf_ptr
        /\ alone'[s] /\ stage[s] = "put" => UNCHANGED <<buf_ptr, buf_end, bytes>>
        /\ alone'[s] /\ stage[s] = "done" =>
             \A i \in Start(s) .. Start(s) + BufLen : bytes'[i] = bytes[i]
    BY <1>2
  <2> QED
    BY <2>1, <2>2, OtherThread
<1> QED
  BY <1>5, <1>7, <1>8, <1>9 DEF FormatInv

\* A thread that begins to print has put nothing.
LEMMA PrintkGood == ASSUME FormatInv, NEW t \in FmtThreads, Printk(t) PROVE FormatInv'
<1>1. /\ FormatTypes /\ SoloGood
      /\ \A s \in FmtThreads :
           /\ CallGood(s) /\ BufferGood(s) /\ PrintGood(s)
           /\ TextOf(using[s]) \in Seq(Glyphs) /\ Len(TextOf(using[s])) \in Nat
  BY WhenGood
<1>2. UNCHANGED <<bytes, buf_ptr, buf_end, uart, alone>>
  BY DEF Printk
<1>3. Begin(t, "uart")
  BY DEF Printk
<1>4. /\ stage[t] = "idle" /\ stage'[t] = "uart" /\ stage' = [r \in FmtThreads |-> stage'[r]]
      /\ using' = [r \in FmtThreads |-> using'[r]] /\ using'[t] \in Formats
      /\ todo' \in [FmtThreads -> Seq(Glyphs)] /\ todo'[t] = TextOf(using'[t])
      /\ \A r \in FmtThreads :
           r # t => stage'[r] = stage[r] /\ using'[r] = using[r] /\ todo'[r] = todo[r]
  BY <1>3, Begins
<1>5. FormatTypes'
  BY <1>1, <1>2, <1>4 DEF FormatTypes
<1>6. SoloGood'
  BY <1>1, <1>2, <1>4, SoloKept
<1>7. CallGood(t)' /\ BufferGood(t)'
  <2>1. todo'[t] \in Seq(Glyphs)
    BY <1>4
  <2>2. CallGood(t)'
    BY <1>4, <2>1 DEF CallGood
  <2>3. BufferGood(t)'
    BY <1>4 DEF BufferGood
  <2> QED
    BY <2>2, <2>3
<1>8. PrintGood(t)'
  <2> DEFINE text == TextOf(using'[t])
             R == FmtThreads \X Glyphs
  <2>1. text \in Seq(Glyphs) /\ Len(text) \in Nat
    <3> DEFINE fmt == using'[t]
    <3>1. fmt \in Formats \cup {<<>>}
      BY <1>4
    <3> HIDE DEF fmt
    <3>2. TextOf(fmt) \in Seq(Glyphs) /\ Len(TextOf(fmt)) \in Nat
      BY <3>1, TextsAre
    <3> QED
      BY <3>2 DEF fmt
  <2>2. uart \in Seq(R)
    BY <1>1 DEF FormatTypes
  <2>3. \A i \in 1 .. Len(uart) : uart[i][1] # t
    BY <1>1, <1>4 DEF PrintGood
  <2> HIDE DEF text, R
  <2>4. Put(uart, t, Len(uart)) = 0
    BY <2>2, <2>3, PutIs
  <2>5. Rest(text, 0) = text
    <3>1. 0 \in Nat /\ 0 <= Len(text)
      BY <2>1
    <3> QED
      BY <2>1, <3>1, RestIs
  <2>6. Put(uart, t, Len(uart)) <= Len(text) /\ todo'[t] = Rest(text, Put(uart, t, Len(uart)))
    BY <1>4, <2>1, <2>4, <2>5 DEF text
  <2>7. stage'[t] = "uart" /\ uart' = uart
    BY <1>2, <1>4
  <2> QED
    BY <2>3, <2>6, <2>7 DEF PrintGood, text
<1>9. ASSUME NEW s \in FmtThreads, s # t PROVE CallGood(s)' /\ BufferGood(s)' /\ PrintGood(s)'
  <2>1. /\ stage'[s] = stage[s] /\ using'[s] = using[s] /\ todo'[s] = todo[s]
        /\ uart' = uart /\ (alone'[s] => alone[s])
        /\ Len(TextOf(using[s])) \in Nat
        /\ CallGood(s) /\ BufferGood(s) /\ PrintGood(s)
    BY <1>1, <1>2, <1>4, <1>9
  <2>2. /\ alone'[s] /\ stage[s] = "end" => buf_ptr' = buf_ptr
        /\ alone'[s] /\ stage[s] = "put" => UNCHANGED <<buf_ptr, buf_end, bytes>>
        /\ alone'[s] /\ stage[s] = "done" =>
             \A i \in Start(s) .. Start(s) + BufLen : bytes'[i] = bytes[i]
    BY <1>2
  <2> QED
    BY <2>1, <2>2, OtherThread
<1> QED
  BY <1>5, <1>6, <1>7, <1>8, <1>9 DEF FormatInv

\* The next character on the UART is the next of its thread's text.
LEMMA RpiPutcharGood == ASSUME FormatInv, NEW t \in FmtThreads, RpiPutchar(t) PROVE FormatInv'
<1>1. /\ FormatTypes /\ SoloGood
      /\ \A s \in FmtThreads :
           /\ CallGood(s) /\ BufferGood(s) /\ PrintGood(s)
           /\ TextOf(using[s]) \in Seq(Glyphs) /\ Len(TextOf(using[s])) \in Nat
  BY WhenGood
<1> DEFINE text == TextOf(using[t])
           R == FmtThreads \X Glyphs
           p == Put(uart, t, Len(uart))
           h == Head(todo[t])
           puts == todo[t] # <<>> /\ h # "panic"
<1>2. /\ stage[t] = "uart" /\ UNCHANGED <<using, bytes, buf_ptr, buf_end, alone>>
      /\ todo[t] = <<>> => stage' = [stage EXCEPT ![t] = "printed"] /\ UNCHANGED <<todo, uart>>
      /\ todo[t] # <<>> /\ h = "panic" =>
           stage' = [stage EXCEPT ![t] = "panic"] /\ UNCHANGED <<todo, uart>>
      /\ puts => /\ uart' = Append(uart, <<t, h>>)
                 /\ todo' = [todo EXCEPT ![t] = Tail(todo[t])]
                 /\ stage' = stage
  BY DEF RpiPutchar, At, Go
<1>3. text \in Seq(Glyphs) /\ Len(text) \in Nat /\ text' = text /\ text = TextOf(using'[t])
  BY <1>1, <1>2
<1>4. todo \in [FmtThreads -> Seq(Glyphs)] /\ uart \in Seq(R) /\ Len(uart) \in Nat
  BY <1>1 DEF FormatTypes
<1>5. p \in Nat
  <2> HIDE DEF R
  <2>1. \A i \in Nat : Put(uart, t, i) \in Nat
    BY <1>4, PutIs
  <2> QED
    BY <1>4, <2>1
<1>6. /\ p <= Len(text) /\ todo[t] = Rest(text, p)
      /\ \A i \in 1 .. Len(uart) : uart[i][1] = t => uart[i][2] = text[Put(uart, t, i)]
  BY <1>1, <1>2 DEF PrintGood
<1> HIDE DEF text, p
<1>7. /\ Rest(text, p) = <<>> <=> p = Len(text)
      /\ p < Len(text) => Head(Rest(text, p)) = text[p + 1] /\ Tail(Rest(text, p)) = Rest(text, p + 1)
  BY <1>3, <1>5, <1>6, RestIs
<1>8. todo[t] # <<>> => p < Len(text) /\ h = text[p + 1] /\ Tail(todo[t]) = Rest(text, p + 1)
  BY <1>3, <1>5, <1>6, <1>7
<1>9. todo[t] # <<>> => h \in Glyphs /\ Tail(todo[t]) \in Seq(Glyphs)
  <2>1. todo[t] \in Seq(Glyphs)
    BY <1>4
  <2> QED
    BY <2>1
<1> HIDE DEF h
<1>10. puts => <<t, h>> \in R
  BY <1>9
<1>11. /\ \A r \in FmtThreads : r # t => stage'[r] = stage[r] /\ todo'[r] = todo[r]
       /\ stage' = [r \in FmtThreads |-> stage'[r]]
       /\ todo[t] = <<>> => stage'[t] = "printed"
       /\ todo[t] # <<>> /\ h = "panic" => stage'[t] = "panic"
       /\ puts => stage'[t] = "uart"
  BY <1>1, <1>2 DEF FormatTypes
<1>12. stage'[t] \in {"uart", "printed", "panic"}
  BY <1>11
<1>13. FormatTypes'
  <2>1. uart' \in Seq(R)
    <3>1. CASE puts
      <4> HIDE DEF R
      <4>1. Append(uart, <<t, h>>) \in Seq(R)
        BY <1>4, <1>10, <3>1
      <4> QED
        BY <1>2, <3>1, <4>1
    <3>2. CASE ~puts
      BY <1>2, <1>4, <3>2
    <3> QED
      BY <3>1, <3>2
  <2>2. todo' \in [FmtThreads -> Seq(Glyphs)]
    BY <1>2, <1>4, <1>9
  <2> QED
    BY <1>1, <1>2, <1>11, <2>1, <2>2 DEF FormatTypes
<1>14. SoloGood'
  BY <1>1, <1>2, <1>11, <1>12, SoloKept
<1>15. CallGood(t)'
  <2>1. todo'[t] \in Seq(Glyphs)
    BY <1>13 DEF FormatTypes
  <2>2. using[t] \in Formats \cup {<<>>}
    BY <1>1 DEF CallGood
  <2> QED
    BY <1>2, <1>12, <2>1, <2>2 DEF CallGood
<1>16. BufferGood(t)'
  <2>1. stage'[t] = "panic" => "panic" \in ToSet(text)
    <3>1. ASSUME stage'[t] = "panic" PROVE "panic" \in ToSet(text)
      <4>1. todo[t] # <<>> /\ h = "panic"
        BY <1>11, <3>1
      <4>2. h = text[p + 1] /\ p + 1 \in DOMAIN text
        BY <1>3, <1>5, <1>8, <4>1
      <4> QED
        BY <4>1, <4>2 DEF ToSet
    <3> QED
      BY <3>1
  <2> QED
    BY <1>3, <1>12, <2>1 DEF BufferGood
<1> DEFINE n == Len(uart)
           v == Append(uart, <<t, h>>)
<1>17. ASSUME puts, NEW s
       PROVE  /\ Len(v) = n + 1 /\ v[n + 1] = <<t, h>>
              /\ \A i \in 1 .. n : v[i] = uart[i] /\ Put(v, s, i) = Put(uart, s, i)
              /\ Put(v, s, n + 1) = IF t = s THEN Put(uart, s, n) + 1 ELSE Put(uart, s, n)
  <2> DEFINE x == <<t, h>>
  <2>1. x \in R /\ x[1] = t
    BY <1>10, <1>17
  <2> HIDE DEF x, R
  <2>2. /\ \A i \in 1 .. Len(uart) : Put(Append(uart, x), s, i) = Put(uart, s, i)
        /\ Put(Append(uart, x), s, Len(uart) + 1)
             = IF x[1] = s THEN Put(uart, s, Len(uart)) + 1 ELSE Put(uart, s, Len(uart))
    BY <1>4, <2>1, PutMore
  <2>3. Len(Append(uart, x)) = n + 1 /\ Append(uart, x)[n + 1] = x /\ \A i \in 1 .. n : Append(uart, x)[i] = uart[i]
    BY <1>4, <2>1
  <2> QED
    BY <2>1, <2>2, <2>3 DEF x
<1> HIDE DEF v, n
<1>18. n \in Nat
  BY <1>4 DEF n
<1>19. PrintGood(t)'
  <2>1. CASE puts
    <3>1. /\ Len(v) = n + 1 /\ v[n + 1] = <<t, h>>
          /\ \A i \in 1 .. n : v[i] = uart[i] /\ Put(v, t, i) = Put(uart, t, i)
          /\ Put(v, t, n + 1) = Put(uart, t, n) + 1
      BY <1>17, <2>1
    <3>2. Put(v, t, Len(v)) = p + 1 /\ p + 1 <= Len(text)
      BY <1>3, <1>5, <1>8, <2>1, <3>1 DEF p, n
    <3>3. todo'[t] = Rest(text, p + 1)
      <4>1. todo'[t] = Tail(todo[t])
        BY <1>2, <1>4, <2>1
      <4> QED
        BY <1>8, <2>1, <4>1
    <3>4. ASSUME NEW i \in 1 .. n + 1, v[i][1] = t PROVE v[i][2] = text[Put(v, t, i)]
      <4>1. CASE i = n + 1
        <5>1. v[i][2] = h /\ Put(v, t, i) = p + 1
          BY <3>1, <4>1 DEF p, n
        <5> QED
          BY <1>8, <2>1, <5>1
      <4>2. CASE i # n + 1
        <5>1. i \in 1 .. n
          BY <1>18, <4>2
        <5>2. v[i] = uart[i] /\ Put(v, t, i) = Put(uart, t, i) /\ i \in 1 .. Len(uart)
          BY <3>1, <5>1 DEF n
        <5> QED
          BY <1>6, <3>4, <5>2
      <4> QED
        BY <4>1, <4>2
    <3>5. stage'[t] = "uart" /\ uart' = v
      BY <1>2, <1>11, <2>1 DEF v
    <3>6. /\ Put(uart', t, Len(uart')) <= Len(text)
          /\ todo'[t] = Rest(text, Put(uart', t, Len(uart')))
          /\ \A i \in 1 .. Len(uart') : uart'[i][1] = t => uart'[i][2] = text[Put(uart', t, i)]
      BY <3>1, <3>2, <3>3, <3>4, <3>5
    <3> QED
      BY <1>3, <3>5, <3>6 DEF PrintGood
  <2>2. CASE ~puts
    <3>1. uart' = uart /\ todo' = todo /\ using' = using /\ stage'[t] # "idle"
      BY <1>2, <1>12, <2>2
    <3>2. /\ Put(uart, t, Len(uart)) <= Len(text)
          /\ todo[t] = Rest(text, Put(uart, t, Len(uart)))
      BY <1>6 DEF p
    <3> QED
      BY <1>3, <1>6, <3>1, <3>2 DEF PrintGood
  <2> QED
    BY <2>1, <2>2
<1>20. ASSUME NEW s \in FmtThreads, s # t PROVE CallGood(s)' /\ BufferGood(s)' /\ PrintGood(s)'
  <2>1. /\ stage'[s] = stage[s] /\ using'[s] = using[s] /\ todo'[s] = todo[s]
        /\ (alone'[s] => alone[s])
        /\ Len(TextOf(using[s])) \in Nat
        /\ CallGood(s) /\ BufferGood(s) /\ PrintGood(s)
    BY <1>1, <1>2, <1>11, <1>20
  <2>2. /\ alone'[s] /\ stage[s] = "end" => buf_ptr' = buf_ptr
        /\ alone'[s] /\ stage[s] = "put" => UNCHANGED <<buf_ptr, buf_end, bytes>>
        /\ alone'[s] /\ stage[s] = "done" =>
             \A i \in Start(s) .. Start(s) + BufLen : bytes'[i] = bytes[i]
    BY <1>2
  <2>3. CallGood(s)' /\ BufferGood(s)' /\ (uart' = uart => PrintGood(s)')
    BY <2>1, <2>2, OtherThread
  <2>4. CASE ~puts
    BY <1>2, <2>3, <2>4
  <2>5. CASE puts
    <3>1. /\ Len(v) = n + 1 /\ v[n + 1] = <<t, h>>
          /\ \A i \in 1 .. n : v[i] = uart[i] /\ Put(v, s, i) = Put(uart, s, i)
          /\ Put(v, s, n + 1) = Put(uart, s, n)
      BY <1>17, <1>20, <2>5
    <3>2. uart' = v /\ Put(v, s, Len(v)) = Put(uart, s, Len(uart))
      BY <1>2, <2>5, <3>1 DEF v, n
    <3>3. ASSUME NEW i \in 1 .. Len(v), v[i][1] = s
          PROVE  i \in 1 .. Len(uart) /\ v[i] = uart[i] /\ Put(v, s, i) = Put(uart, s, i)
      <4>1. i # n + 1
        BY <1>20, <3>1, <3>3
      <4>2. i \in 1 .. n
        BY <1>18, <3>1, <4>1
      <4> QED
        BY <3>1, <4>2 DEF n
    <3> DEFINE its == TextOf(using[s])
    <3>4. /\ stage[s] = "idle" => \A i \in 1 .. Len(uart) : uart[i][1] # s
          /\ stage[s] \in {"uart", "printed"} =>
               /\ Put(uart, s, Len(uart)) <= Len(its)
               /\ todo[s] = Rest(its, Put(uart, s, Len(uart)))
               /\ \A i \in 1 .. Len(uart) : uart[i][1] = s => uart[i][2] = its[Put(uart, s, i)]
      BY <2>1 DEF PrintGood
    <3>5. /\ stage'[s] = "idle" => \A i \in 1 .. Len(uart') : uart'[i][1] # s
          /\ stage'[s] \in {"uart", "printed"} =>
               /\ Put(uart', s, Len(uart')) <= Len(its)
               /\ todo'[s] = Rest(its, Put(uart', s, Len(uart')))
               /\ \A i \in 1 .. Len(uart') : uart'[i][1] = s => uart'[i][2] = its[Put(uart', s, i)]
      <4> HIDE DEF its
      <4>1. stage'[s] = "idle" => \A i \in 1 .. Len(uart') : uart'[i][1] # s
        BY <2>1, <3>2, <3>3, <3>4
      <4>2. ASSUME stage'[s] \in {"uart", "printed"}
            PROVE  /\ Put(uart', s, Len(uart')) <= Len(its)
                   /\ todo'[s] = Rest(its, Put(uart', s, Len(uart')))
        BY <2>1, <3>2, <3>4, <4>2
      <4>3. ASSUME stage'[s] \in {"uart", "printed"}, NEW i \in 1 .. Len(v), v[i][1] = s
            PROVE  v[i][2] = its[Put(v, s, i)]
        <5>1. i \in 1 .. Len(uart) /\ v[i] = uart[i] /\ Put(v, s, i) = Put(uart, s, i)
          BY <3>3, <4>3
        <5> QED
          BY <2>1, <3>4, <4>3, <5>1
      <4> QED
        BY <3>2, <4>1, <4>2, <4>3
    <3>6. its = TextOf(using'[s])
      BY <2>1
    <3>7. PrintGood(s)'
      BY <3>5, <3>6 DEF PrintGood
    <3> QED
      BY <2>3, <3>7
  <2> QED
    BY <2>4, <2>5
<1> QED
  BY <1>13, <1>14, <1>15, <1>16, <1>19, <1>20 DEF FormatInv

\* The invariant is inductive.
LEMMA FormatStep == FormatInv /\ [FormatNext]_fvars => FormatInv'
<1> SUFFICES ASSUME FormatInv, [FormatNext]_fvars PROVE FormatInv'
  OBVIOUS
<1>1. CASE UNCHANGED fvars
  BY <1>1 DEF fvars, FormatInv, FormatTypes, SoloGood, InCall, CallGood, BufferGood, PrintGood, Written
<1>2. CASE FormatNext
  <2>1. PICK t \in FmtThreads : \/ Snprintk(t) \/ SetPtr(t) \/ SetEnd(t) \/ PutChar(t)
                                \/ Terminate(t) \/ Printk(t) \/ RpiPutchar(t)
    BY <1>2 DEF FormatNext
  <2> QED
    BY <2>1, SnprintkGood, SetPtrGood, SetEndGood, PutCharGood, TerminateGood, PrintkGood,
       RpiPutcharGood
<1> QED
  BY <1>1, <1>2

\* The invariant implies the property.
LEMMA FormatGoodIsExact == FormatInv => TextExact
<1> SUFFICES ASSUME FormatInv PROVE TextExact
  OBVIOUS
<1>1. /\ FormatTypes
      /\ \A t \in FmtThreads :
           /\ CallGood(t) /\ BufferGood(t) /\ PrintGood(t)
           /\ TextOf(using[t]) \in Seq(Glyphs) /\ Len(TextOf(using[t])) \in Nat
  BY WhenGood
<1>2. NumbersReadBack
  <2>1. ASSUME NEW t \in FmtThreads, NEW i \in DOMAIN using[t]
        PROVE  using[t][i] \in Items
    <3> DEFINE fmt == using[t]
    <3>1. fmt \in Formats \cup {<<>>}
      BY <1>1 DEF CallGood
    <3>2. fmt \in Seq(Items)
      <4>1. <<>> \in Seq(Items)
        OBVIOUS
      <4> HIDE DEF fmt
      <4> QED
        BY <3>1, <4>1, FormatAssumption
    <3> HIDE DEF fmt
    <3>3. \A j \in DOMAIN fmt : fmt[j] \in Items
      BY <3>2
    <3> QED
      BY <2>1, <3>3 DEF fmt
  <2>2. ASSUME NEW item \in Items
        PROVE  /\ item.conv \in {"b", "u", "x", "p", "d"} => ReadBack(item) = item.num
               /\ item.conv = "llx" =>
                    (ReadBack(item) = item.hi * UintMax + item.lo)
                      = (item.hi = 0 \/ ~(item.lo < UintMax \div 16))
    <3>1. item.conv \in {"b", "u", "x", "p", "d"} => ReadBack(item) = item.num
      BY ReadsBack DEF Numeric
    <3>2. item.conv = "llx" => (ReadBack(item) = item.hi * UintMax + item.lo
                                  <=> (item.hi = 0 \/ ~(item.lo < UintMax \div 16)))
      BY HalvesReadBack
    <3> QED
      BY <3>1, <3>2
  <2> QED
    BY <2>1, <2>2 DEF NumbersReadBack
<1>3. BufferIntact
  <2>1. ASSUME NEW t \in FmtThreads, alone[t], stage[t] = "done"
        PROVE  SubSeq(bytes, Start(t), Start(t) + Len(TextOf(using[t])))
                 = Append(TextOf(using[t]), "NUL")
    <3> DEFINE text == TextOf(using[t])
               k == Len(text)
               C == Glyphs \cup {"?", "NUL"}
               l == SubSeq(bytes, Start(t), Start(t) + k)
               r == Append(text, "NUL")
    <3>1. /\ k <= BufLen /\ (\A i \in 1 .. k : bytes[Start(t) + i - 1] = text[i])
          /\ bytes[Start(t) + k] = "NUL"
      BY <1>1, <2>1 DEF BufferGood, Written
    <3>2. text \in Seq(Glyphs) /\ k \in Nat
      BY <1>1
    <3>3. Start(t) \in Nat /\ BufLen \in Nat /\ Start(t) > 0 /\ Start(t) + BufLen <= MemLen /\ MemLen \in Nat
      BY BuffersApart, FormatAssumption
    <3> HIDE DEF text
    <3>4. r \in Seq(C) /\ Len(r) = k + 1 /\ r[k + 1] = "NUL" /\ \A i \in 1 .. k : r[i] = text[i]
      <4>1. text \in Seq(C) /\ "NUL" \in C
        BY <3>2
      <4> HIDE DEF C
      <4> QED
        BY <3>2, <4>1
    <3>5. bytes \in Seq(C) /\ Len(bytes) = MemLen
      <4>1. bytes \in [1 .. MemLen -> C]
        BY <1>1 DEF FormatTypes
      <4> HIDE DEF C
      <4> QED
        BY <3>3, <4>1
    <3> HIDE DEF C, k
    <3>6. l \in Seq(C) /\ Len(l) = k + 1 /\ \A i \in 1 .. k + 1 : l[i] = bytes[Start(t) + i - 1]
      <4> DEFINE m == Start(t)
                 n == m + k
                 z == SubSeq(bytes, m, n)
      <4>1. m \in 1 .. MemLen /\ n \in m .. MemLen /\ n - m + 1 = k + 1 /\ m \in Nat
        BY <3>1, <3>2, <3>3 DEF k
      <4>0. k \in Nat
        BY <3>2
      <4> HIDE DEF m, n
      <4>2. z \in Seq(C) /\ Len(z) = n - m + 1 /\ \A i \in 1 .. n - m + 1 : z[i] = bytes[m + i - 1]
        BY <3>5, <4>1, <4>0, <3>3
      <4> HIDE DEF z
      <4>3. l = z
        BY DEF z, m, n
      <4> QED
        BY <4>1, <4>2, <4>3 DEF m
    <3>7. ASSUME NEW i \in 1 .. k + 1 PROVE l[i] = r[i]
      <4>1. l[i] = bytes[Start(t) + i - 1]
        BY <3>6
      <4>2. CASE i = k + 1
        <5>1. Start(t) + i - 1 = Start(t) + k
          BY <3>2, <3>3, <4>2
        <5> QED
          BY <3>1, <3>4, <4>1, <4>2, <5>1
      <4>3. CASE i # k + 1
        <5>1. i \in 1 .. k
          BY <3>2, <4>3
        <5> QED
          BY <3>1, <3>4, <4>1, <5>1
      <4> QED
        BY <4>2, <4>3
    <3> HIDE DEF l, r
    <3>8. l = r
      BY <3>4, <3>6, <3>7, SeqEqual
    <3> QED
      BY <3>8 DEF l, r, k, text
  <2>2. ASSUME NEW t \in FmtThreads, alone[t], stage[t] = "panic"
        PROVE  "panic" \in ToSet(TextOf(using[t])) \/ Len(TextOf(using[t])) > BufLen
    BY <1>1, <2>2 DEF BufferGood
  <2> QED
    BY <2>1, <2>2 DEF BufferIntact
<1>4. UartInOrder
  <2>1. DOMAIN uart = 1 .. Len(uart)
    BY <1>1 DEF FormatTypes
  <2>2. ASSUME NEW t \in FmtThreads, stage[t] \in {"uart", "printed"}
        PROVE  /\ todo[t] = Rest(TextOf(using[t]), Put(uart, t, Len(uart)))
               /\ Put(uart, t, Len(uart)) <= Len(TextOf(using[t]))
               /\ \A i \in DOMAIN uart :
                    uart[i][1] = t => uart[i][2] = TextOf(using[t])[Put(uart, t, i)]
    BY <1>1, <2>1, <2>2 DEF PrintGood
  <2> QED
    BY <2>2 DEF UartInOrder, Put, Rest
<1> QED
  BY <1>2, <1>3, <1>4 DEF TextExact

\* For every number of threads, size of their buffers, word size and formats:
\* a number's text reads back as the number (a 64-bit one's exactly if no high
\* half stands before a short low half), a buffer holds its text and the
\* terminator as long as no two calls of snprintk run at a time, and the UART
\* gets each thread's characters in order (printk.c, sprintk.c).
THEOREM TextAlwaysExact == FormatSpec => []TextExact
<1>1. FormatInit => FormatInv
  BY FormatInitGood
<1>2. FormatInv /\ [FormatNext]_fvars => FormatInv'
  BY FormatStep
<1>3. FormatInv => TextExact
  BY FormatGoodIsExact
<1> QED
  BY <1>1, <1>2, <1>3, PTL DEF FormatSpec

-----------------------------------------------------------------------------
(* Checksums.  What crc.c looks up in a table is the division of a byte by   *)
(* the polynomial: division is linear over exclusive or, and the table's     *)
(* words are the divisions of the eight single bits.                         *)

\* Exclusive or of two words.
LEMMA XorIsWord ==
  ASSUME NEW x \in Words, NEW y \in Words
  PROVE  Xor(x, y) \in Words
BY DEF Xor, Words

\* A word shifted right.
LEMMA ShrIsWord ==
  ASSUME NEW x, NEW n
  PROVE  Shr(x, n) \in Words
BY DEF Shr, Words

\* The word that hexadecimal digits write.
LEMMA HexIsWord ==
  ASSUME NEW d
  PROVE  Hex(d) \in Words
BY DEF Hex, Words

\* The bits of a word shifted right.
LEMMA InShr ==
  ASSUME NEW x \in Words, NEW n \in Nat, NEW i \in Nat
  PROVE  i \in Shr(x, n) <=> i + n \in x
<1>1. \A j \in x : j \in 0 .. 31
  BY DEF Words, Bits
<1>2. ASSUME i + n \in x PROVE i \in Shr(x, n)
  <2>1. i + n \in 0 .. 31 /\ i = (i + n) - n
    BY <1>1, <1>2
  <2>2. i \in 0 .. 31
    BY <2>1
  <2> QED
    BY <1>2, <2>1, <2>2 DEF Shr, Bits
<1>3. ASSUME i \in Shr(x, n) PROVE i + n \in x
  <2>1. PICK j \in x : i = j - n
    BY <1>3 DEF Shr
  <2>2. j \in Int /\ i + n = j
    BY <1>1, <2>1
  <2> QED
    BY <2>1, <2>2
<1> QED
  BY <1>2, <1>3

\* Shifting right is linear.
LEMMA ShrXor ==
  ASSUME NEW x \in Words, NEW y \in Words, NEW n \in Nat
  PROVE  Shr(Xor(x, y), n) = Xor(Shr(x, n), Shr(y, n))
<1>0. Xor(x, y) \in Words /\ Shr(x, n) \in Words /\ Shr(y, n) \in Words
  BY XorIsWord, ShrIsWord
<1>1. ASSUME NEW i \in Bits PROVE i \in Shr(Xor(x, y), n) <=> i \in Xor(Shr(x, n), Shr(y, n))
  <2>1. i \in Nat
    BY DEF Bits
  <2>2. (i \in Shr(Xor(x, y), n) <=> i + n \in Xor(x, y)) /\ (i \in Shr(x, n) <=> i + n \in x) /\ (i \in Shr(y, n) <=> i + n \in y)
    BY <1>0, <2>1, InShr
  <2> QED
    BY <2>2 DEF Xor
<1>2. Shr(Xor(x, y), n) \in Words /\ Xor(Shr(x, n), Shr(y, n)) \in Words
  BY <1>0, ShrIsWord, XorIsWord
<1> QED
  BY <1>1, <1>2 DEF Words

\* Dividing by one bit is linear.
LEMMA DivideXor ==
  ASSUME NEW r \in Words, NEW q \in Words
  PROVE  DivideBit(Xor(r, q)) = Xor(DivideBit(r), DivideBit(q))
<1> DEFINE a == Shr(r, 1)
           b == Shr(q, 1)
<1>1. Shr(Xor(r, q), 1) = Xor(a, b)
  BY ShrXor
<1>2. 0 \in Xor(r, q) <=> ~ (0 \in r <=> 0 \in q)
  BY DEF Xor
<1>3. /\ DivideBit(Xor(r, q)) = IF 0 \in Xor(r, q) THEN Xor(Xor(a, b), Polynomial) ELSE Xor(a, b)
      /\ DivideBit(r) = IF 0 \in r THEN Xor(a, Polynomial) ELSE a
      /\ DivideBit(q) = IF 0 \in q THEN Xor(b, Polynomial) ELSE b
  BY <1>1 DEF DivideBit
<1>4. /\ Xor(Xor(a, b), Polynomial) = Xor(Xor(a, Polynomial), b)
      /\ Xor(Xor(a, b), Polynomial) = Xor(a, Xor(b, Polynomial))
      /\ Xor(a, b) = Xor(Xor(a, Polynomial), Xor(b, Polynomial))
  BY DEF Xor
<1> HIDE DEF a, b
<1> QED
  BY <1>2, <1>3, <1>4

\* What a division by one bit leaves is a word.
LEMMA DivideIsWord ==
  ASSUME NEW r \in Words
  PROVE  DivideBit(r) \in Words
<1>1. Polynomial \in Words /\ Shr(r, 1) \in Words
  BY HexIsWord, ShrIsWord DEF Polynomial
<1> QED
  BY <1>1, XorIsWord DEF DivideBit

\* A bit added to the low one
LEMMA DivideStep ==
  ASSUME NEW r \in Words, NEW q \in Words
  PROVE  LET x == IF 0 \in q THEN bit_not(r, 0) ELSE r
         IN  /\ DivideBit(Xor(r, q)) = Xor(DivideBit(x), Shr(q, 1))
             /\ DivideBit(x) \in Words
<1> DEFINE x == IF 0 \in q THEN bit_not(r, 0) ELSE r
           y == q \ {0}
<1>1. {0} \in Words /\ y \in Words
  BY DEF Words, Bits
<1>2. x \in Words
  BY <1>1, XorIsWord DEF bit_not
<1>3. Xor(r, q) = Xor(x, y)
  BY DEF Xor, bit_not
<1>4. DivideBit(y) = Shr(q, 1)
  <2>1. Shr(y, 1) = Shr(q, 1)
    <3>1. ASSUME NEW i \in Bits PROVE i \in Shr(y, 1) <=> i \in Shr(q, 1)
      <4>1. i \in Nat /\ i + 1 # 0 /\ 1 \in Nat
        BY DEF Bits
      <4>2. (i \in Shr(y, 1) <=> i + 1 \in y) /\ (i \in Shr(q, 1) <=> i + 1 \in q)
        BY <1>1, <4>1, InShr
      <4> QED
        BY <4>1, <4>2
    <3>2. Shr(y, 1) \in Words /\ Shr(q, 1) \in Words
      BY ShrIsWord
    <3> HIDE DEF y
    <3> QED
      BY <3>1, <3>2 DEF Words
  <2> QED
    BY <2>1 DEF DivideBit
<1> HIDE DEF x, y
<1>5. DivideBit(Xor(r, q)) = Xor(DivideBit(x), Shr(q, 1))
  BY <1>1, <1>2, <1>3, <1>4, DivideXor
<1> QED
  BY <1>2, <1>5, DivideIsWord DEF x

\* The table's entries of single bits, as positions.
LEMMA BasisBits ==
  /\ TabBasis[1] = {1, 2, 4, 7, 12, 13, 16, 17, 18, 24, 25, 26, 28, 29, 30}
  /\ TabBasis[2] = {2, 3, 5, 8, 13, 14, 17, 18, 19, 25, 26, 27, 29, 30, 31}
  /\ TabBasis[3] = {0, 3, 4, 10, 14, 15, 16, 18, 19, 21, 22, 24, 25, 26}
  /\ TabBasis[4] = {1, 4, 5, 11, 15, 16, 17, 19, 20, 22, 23, 25, 26, 27}
  /\ TabBasis[5] = {2, 5, 6, 12, 16, 17, 18, 20, 21, 23, 24, 26, 27, 28}
  /\ TabBasis[6] = {3, 6, 7, 13, 17, 18, 19, 21, 22, 24, 25, 27, 28, 29}
  /\ TabBasis[7] = {4, 7, 8, 14, 18, 19, 20, 22, 23, 25, 26, 28, 29, 30}
  /\ TabBasis[8] = {5, 8, 9, 15, 19, 20, 21, 23, 24, 26, 27, 29, 30, 31}
BY DEF TabBasis, Hex, Bits

\* Each of them is the next one, divided by one bit more.
LEMMA BasisSteps ==
  /\ DivideBit({0}) = TabBasis[8]
  /\ \A i \in 1 .. 7 : DivideBit({i}) = {i - 1} /\ DivideBit(TabBasis[i + 1]) = TabBasis[i]
<1>0. Polynomial = TabBasis[8]
  BY DEF Polynomial, TabBasis
<1>1. DivideBit({0}) = TabBasis[8]
  <2>1. Shr({0}, 1) = {}
    BY DEF Shr, Bits
  <2> QED
    BY <1>0, <2>1 DEF DivideBit, Xor
<1>2. ASSUME NEW i \in 1 .. 7 PROVE DivideBit({i}) = {i - 1}
  <2>1. Shr({i}, 1) = {i - 1} /\ 0 \notin {i}
    BY DEF Shr, Bits
  <2> QED
    BY <2>1 DEF DivideBit
<1>3. DivideBit(TabBasis[2]) = TabBasis[1]
  <2>1. Shr({2, 3, 5, 8, 13, 14, 17, 18, 19, 25, 26, 27, 29, 30, 31}, 1) =
          {1, 2, 4, 7, 12, 13, 16, 17, 18, 24, 25, 26, 28, 29, 30}
    BY DEF Shr, Bits
  <2> QED
    BY <1>0, <2>1, BasisBits DEF DivideBit
<1>4. DivideBit(TabBasis[3]) = TabBasis[2]
  <2>1. Shr({0, 3, 4, 10, 14, 15, 16, 18, 19, 21, 22, 24, 25, 26}, 1) =
          {2, 3, 9, 13, 14, 15, 17, 18, 20, 21, 23, 24, 25}
    BY DEF Shr, Bits
  <2> QED
    BY <1>0, <2>1, BasisBits DEF DivideBit, Xor
<1>5. DivideBit(TabBasis[4]) = TabBasis[3]
  <2>1. Shr({1, 4, 5, 11, 15, 16, 17, 19, 20, 22, 23, 25, 26, 27}, 1) =
          {0, 3, 4, 10, 14, 15, 16, 18, 19, 21, 22, 24, 25, 26}
    BY DEF Shr, Bits
  <2> QED
    BY <1>0, <2>1, BasisBits DEF DivideBit
<1>6. DivideBit(TabBasis[5]) = TabBasis[4]
  <2>1. Shr({2, 5, 6, 12, 16, 17, 18, 20, 21, 23, 24, 26, 27, 28}, 1) =
          {1, 4, 5, 11, 15, 16, 17, 19, 20, 22, 23, 25, 26, 27}
    BY DEF Shr, Bits
  <2> QED
    BY <1>0, <2>1, BasisBits DEF DivideBit
<1>7. DivideBit(TabBasis[6]) = TabBasis[5]
  <2>1. Shr({3, 6, 7, 13, 17, 18, 19, 21, 22, 24, 25, 27, 28, 29}, 1) =
          {2, 5, 6, 12, 16, 17, 18, 20, 21, 23, 24, 26, 27, 28}
    BY DEF Shr, Bits
  <2> QED
    BY <1>0, <2>1, BasisBits DEF DivideBit
<1>8. DivideBit(TabBasis[7]) = TabBasis[6]
  <2>1. Shr({4, 7, 8, 14, 18, 19, 20, 22, 23, 25, 26, 28, 29, 30}, 1) =
          {3, 6, 7, 13, 17, 18, 19, 21, 22, 24, 25, 27, 28, 29}
    BY DEF Shr, Bits
  <2> QED
    BY <1>0, <2>1, BasisBits DEF DivideBit
<1>9. DivideBit(TabBasis[8]) = TabBasis[7]
  <2>1. Shr({5, 8, 9, 15, 19, 20, 21, 23, 24, 26, 27, 29, 30, 31}, 1) =
          {4, 7, 8, 14, 18, 19, 20, 22, 23, 25, 26, 28, 29, 30}
    BY DEF Shr, Bits
  <2> QED
    BY <1>0, <2>1, BasisBits DEF DivideBit
<1> QED
  BY <1>1, <1>2, <1>3, <1>4, <1>5, <1>6, <1>7, <1>8, <1>9

\* A word divided by two bits, and by four, of zeros.
Twice(r) == DivideBit(DivideBit(r))
FourTimes(r) == Twice(Twice(r))

\* A word divided by a byte of zeros.
Divided(r) == FourTimes(FourTimes(r))

\* Dividing by a byte of zeros is linear.
LEMMA DividedXor ==
  ASSUME NEW r \in Words, NEW q \in Words
  PROVE  Divided(r) \in Words /\ Divided(Xor(r, q)) = Xor(Divided(r), Divided(q))
<1>1. \A x \in Words : DivideBit(x) \in Words
  BY DivideIsWord
<1>2. \A x, y \in Words : DivideBit(Xor(x, y)) = Xor(DivideBit(x), DivideBit(y))
  BY DivideXor
<1>3. \A x \in Words : Twice(x) \in Words
  BY <1>1 DEF Twice
<1>4. \A x, y \in Words : Twice(Xor(x, y)) = Xor(Twice(x), Twice(y))
  BY <1>1, <1>2 DEF Twice
<1>5. \A x \in Words : FourTimes(x) \in Words
  BY <1>3 DEF FourTimes
<1>6. \A x, y \in Words : FourTimes(Xor(x, y)) = Xor(FourTimes(x), FourTimes(y))
  BY <1>3, <1>4 DEF FourTimes
<1> QED
  BY <1>5, <1>6 DEF Divided

\* The entry of a single bit is that bit's byte, divided.
LEMMA DividedBits ==
  ASSUME NEW i \in 0 .. 7
  PROVE  Divided({i}) = TabBasis[i + 1] /\ TabBasis[i + 1] \in Words
<1> DEFINE D(r) == DivideBit(r)
           t(k) == TabBasis[k]
<1>0. Divided({i}) = D(D(D(D(D(D(D(D({i}))))))))
  BY DEF Divided, FourTimes, Twice
<1>1. D({0}) = t(8) /\ D({1}) = {0} /\ D({2}) = {1} /\ D({3}) = {2} /\ D({4}) = {3}
      /\ D({5}) = {4} /\ D({6}) = {5} /\ D({7}) = {6}
  <2>1. \A k \in 1 .. 7 : D({k}) = {k - 1}
    BY BasisSteps
  <2> HIDE DEF D
  <2> QED
    BY <2>1, BasisSteps DEF D
<1>2. D(t(8)) = t(7) /\ D(t(7)) = t(6) /\ D(t(6)) = t(5) /\ D(t(5)) = t(4) /\ D(t(4)) = t(3)
      /\ D(t(3)) = t(2) /\ D(t(2)) = t(1)
  <2>1. \A k \in 1 .. 7 : D(t(k + 1)) = t(k)
    BY BasisSteps
  <2> HIDE DEF D
  <2> QED
    BY <2>1
<1>3. i = 0 \/ i = 1 \/ i = 2 \/ i = 3 \/ i = 4 \/ i = 5 \/ i = 6 \/ i = 7
  OBVIOUS
<1>4. \A k \in 1 .. 8 : t(k) \in Words
  BY HexIsWord DEF TabBasis
<1> HIDE DEF D, t
<1>5. Divided({i}) = t(i + 1)
  <2> USE <1>0, <1>1, <1>2
  <2>1. CASE i = 0
    BY <2>1
  <2>2. CASE i = 1
    BY <2>2
  <2>3. CASE i = 2
    BY <2>3
  <2>4. CASE i = 3
    BY <2>4
  <2>5. CASE i = 4
    BY <2>5
  <2>6. CASE i = 5
    BY <2>6
  <2>7. CASE i = 6
    BY <2>7
  <2>8. CASE i = 7
    BY <2>8
  <2> QED
    BY <1>3, <2>1, <2>2, <2>3, <2>4, <2>5, <2>6, <2>7, <2>8
<1> QED
  BY <1>4, <1>5 DEF t

\* The element FoldSet takes next.
Picked(s) == CHOOSE x \in s : TRUE

\* The fold of a byte's table entry is what dividing it leaves.
LEMMA TabIsDivided ==
  ASSUME NEW a \in SUBSET (0 .. 7)
  PROVE  crc32_tab(a) = Divided(a)
<1> DEFINE Op(i, sum) == Xor(sum, TabBasis[i + 1])
           D == SUBSET a
           W == CHOOSE f : f = [s \in D |-> IF s = {} THEN {} ELSE Op(Picked(s), f[s \ {Picked(s)}])]
           h == [s \in D |-> Divided(s)]
<1>0. Divided({}) = {} /\ IsFiniteSet(a)
  <2>1. Shr({}, 1) = {} /\ {} \in Words
    BY DEF Shr, Words
  <2>2. DivideBit({}) = {}
    BY <2>1 DEF DivideBit
  <2>3. IsFiniteSet(0 .. 7)
    BY 0 \in Int, 7 \in Int, FS_Interval
  <2> QED
    BY <2>2, <2>3, FS_Subset DEF Divided, FourTimes, Twice
<1>1. crc32_tab(a) = W[a]
  BY DEF crc32_tab, FoldSet, MapThenFoldSet, Picked
<1>2. ASSUME NEW s \in D, s # {}
      PROVE  Divided(s) = Op(Picked(s), Divided(s \ {Picked(s)}))
  <2> DEFINE i == Picked(s)
             r == s \ {i}
  <2>1. i \in s
    BY <1>2 DEF Picked
  <2> HIDE DEF i
  <2>2. i \in 0 .. 7 /\ r \in Words /\ {i} \in Words
    BY <2>1 DEF Words, Bits
  <2>3. s = Xor(r, {i})
    BY <2>1 DEF Xor
  <2> HIDE DEF r
  <2>4. Divided(s) = Xor(Divided(r), Divided({i}))
    BY <2>2, <2>3, DividedXor
  <2> QED
    BY <2>2, <2>4, DividedBits DEF i, r
<1>3. h = [s \in D |-> IF s = {} THEN {} ELSE Op(Picked(s), h[s \ {Picked(s)}])]
  <2>1. ASSUME NEW s \in D
        PROVE  h[s] = IF s = {} THEN {} ELSE Op(Picked(s), h[s \ {Picked(s)}])
    <3>1. CASE s = {}
      BY <1>0, <3>1
    <3>2. CASE s # {}
      <4>1. s \ {Picked(s)} \in D
        OBVIOUS
      <4> HIDE DEF Op
      <4> QED
        BY <1>2, <3>2, <4>1
    <3> QED
      BY <3>1, <3>2
  <2> HIDE DEF Op
  <2> QED
    BY <2>1
<1> HIDE DEF h, Op
<1>4. W = [s \in D |-> IF s = {} THEN {} ELSE Op(Picked(s), W[s \ {Picked(s)}])]
  BY <1>3, Zenon
<1> HIDE DEF W
<1> DEFINE T == {k \in Nat : \A s \in D : Cardinality(s) = k => W[s] = Divided(s)}
<1>5. 0 \in T
  <2>1. ASSUME NEW s \in D, Cardinality(s) = 0 PROVE W[s] = Divided(s)
    <3>1. IsFiniteSet(s)
      BY <1>0, FS_Subset
    <3>2. s = {}
      BY <2>1, <3>1, FS_EmptySet
    <3> QED
      BY <1>0, <1>4, <3>2
  <2> QED
    BY <2>1
<1>6. ASSUME NEW k \in T PROVE k + 1 \in T
  <2>1. k \in Nat /\ k + 1 \in Nat
    OBVIOUS
  <2>2. ASSUME NEW s \in D, Cardinality(s) = k + 1 PROVE W[s] = Divided(s)
    <3> DEFINE i == Picked(s)
               r == s \ {i}
    <3>1. s # {}
      <4>1. Cardinality(s) # 0
        BY <2>1, <2>2
      <4> QED
        BY <4>1, FS_EmptySet
    <3>2. IsFiniteSet(s) /\ i \in s
      BY <1>0, <3>1, FS_Subset DEF Picked
    <3>3. W[s] = Op(i, W[r])
      BY <1>4, <3>1
    <3>4. Divided(s) = Op(i, Divided(r))
      BY <1>2, <3>1
    <3> HIDE DEF i
    <3>5. r \in D /\ Cardinality(r) = k
      <4>1. Cardinality(r) = Cardinality(s) - 1
        BY <3>2, FS_RemoveElement
      <4>2. r \in D
        OBVIOUS
      <4> HIDE DEF r, D, T
      <4> QED
        BY <2>1, <2>2, <4>1, <4>2
    <3>6. W[r] = Divided(r)
      BY <3>5
    <3> HIDE DEF r
    <3> QED
      BY <3>3, <3>4, <3>6
  <2> QED
    BY <2>1, <2>2
<1>7. T = Nat
  <2>1. T \subseteq Nat
    OBVIOUS
  <2> HIDE DEF T
  <2> QED
    BY <1>5, <1>6, <2>1, Descent
<1>8. Cardinality(a) \in Nat /\ a \in D
  BY <1>0, FS_CardinalityType
<1> QED
  BY <1>1, <1>7, <1>8

\* The places of a byte's bits, in the order they are divided.
ByteBits == <<0, 1, 2, 3, 4, 5, 6, 7>>

\* One bit of a byte, added and divided.
BitIn(x, p, i) == DivideBit(IF i \in p THEN bit_not(x, 0) ELSE x)

\* A bit added and divided leaves a word.
LEMMA BitIsWord ==
  ASSUME NEW x \in Words, NEW p, NEW i
  PROVE  BitIn(x, p, i) \in Words
<1>1. {0} \in Words
  BY DEF Words, Bits
<1>2. bit_not(x, 0) \in Words
  BY <1>1, XorIsWord DEF bit_not
<1> QED
  BY <1>2, DivideIsWord DEF BitIn

\* The words between the bits of a byte.
LEMMA BitValues ==
  ASSUME NEW g \in Words, NEW p
  PROVE  \E w : /\ w \in [0 .. 8 -> Words] /\ w[0] = g /\ w[8] = DivideByte(g, p)
                /\ \A j \in 1 .. 8 : w[j] = BitIn(w[j - 1], p, ByteBits[j])
<1> DEFINE k == 8
           q == ByteBits
           Op(j, x) == BitIn(x, p, ByteBits[j])
           D == SUBSET (DOMAIN q)
           F == [j \in 1 .. k |-> [x \in Words |-> Op(j, x)]]
           W == CHOOSE f : f = [s \in D |-> IF s = {} THEN g ELSE Op(Max(s), f[s \ {Max(s)}])]
           w == [j \in 0 .. k |-> W[1 .. j]]
<1>1. DivideByte(g, p) = W[DOMAIN q]
  BY DEF DivideByte, FoldLeft, MapThenFoldSet, ByteBits, BitIn
<1>2. k \in Nat /\ DOMAIN q = 1 .. k /\ D = SUBSET (1 .. k)
  BY DEF ByteBits
<1>3. ASSUME NEW j \in 1 .. k, NEW x \in Words PROVE Op(j, x) \in Words
  BY BitIsWord
<1> HIDE DEF q, D, k
<1>4. PICK h : IsSeqFold(h, k, Words, F, g)
  <2> HIDE DEF Op
  <2>1. \A j \in 1 .. k, x \in Words : F[j][x] \in Words
    BY <1>3
  <2> HIDE DEF F
  <2> QED
    BY <1>2, <2>1, SeqFoldExists
<1>5. /\ h \in [D -> Words] /\ h[{}] = g
      /\ \A s \in D : s # {} => h[s] = F[Max(s)][h[s \ {Max(s)}]]
  BY <1>2, <1>4 DEF IsSeqFold
<1> HIDE DEF Op
<1>6. h = [s \in D |-> IF s = {} THEN g ELSE Op(Max(s), h[s \ {Max(s)}])]
  <2>1. ASSUME NEW s \in D, s # {} PROVE h[s] = Op(Max(s), h[s \ {Max(s)}])
    <3>1. Max(s) \in 1 .. k
      BY <1>2, <2>1, MaxOf
    <3>2. s \ {Max(s)} \in D
      BY <1>2
    <3> HIDE DEF D
    <3> QED
      BY <1>5, <2>1, <3>1, <3>2
  <2> HIDE DEF F
  <2> QED
    BY <1>5, <2>1
<1> HIDE DEF F
<1>7. W = [s \in D |-> IF s = {} THEN g ELSE Op(Max(s), W[s \ {Max(s)}])]
  BY <1>6, Zenon
<1> HIDE DEF W
<1>8. ASSUME NEW j \in 1 .. k PROVE w[j] = Op(j, w[j - 1])
  <2>1. 1 .. j \in D /\ 1 .. j # {} /\ Max(1 .. j) = j /\ (1 .. j) \ {Max(1 .. j)} = 1 .. j - 1
    BY <1>2, Places
  <2>2. W[1 .. j] = Op(j, W[1 .. j - 1])
    BY <1>7, <2>1
  <2>3. j \in 0 .. k /\ j - 1 \in 0 .. k
    BY <1>2
  <2> QED
    BY <2>2, <2>3
<1>9. w[0] = g /\ w[k] = W[1 .. k] /\ DOMAIN w = 0 .. k
  <2>1. 1 .. 0 = {} /\ {} \in D
    BY <1>2
  <2>2. 0 \in 0 .. k /\ k \in 0 .. k
    BY <1>2
  <2> QED
    BY <1>7, <2>1, <2>2
<1> HIDE DEF w
<1>10. ASSUME NEW j \in 0 .. k PROVE w[j] \in Words
  <2> DEFINE T == {i \in Nat : i <= k => w[i] \in Words}
  <2>1. 0 \in T
    BY <1>9
  <2>2. ASSUME NEW i \in T PROVE i + 1 \in T
    <3>1. i \in Nat /\ i + 1 \in Nat /\ (i + 1) - 1 = i
      OBVIOUS
    <3>2. ASSUME i + 1 <= k PROVE w[i + 1] \in Words
      <4>1. i + 1 \in 1 .. k /\ w[i] \in Words
        BY <1>2, <3>1, <3>2
      <4>2. w[i + 1] = Op(i + 1, w[i])
        BY <1>8, <3>1, <4>1
      <4> QED
        BY <1>3, <4>1, <4>2
    <3> QED
      BY <3>1, <3>2
  <2>3. T = Nat
    <3>1. T \subseteq Nat
      OBVIOUS
    <3> HIDE DEF T
    <3> QED
      BY <2>1, <2>2, <3>1, Descent
  <2> QED
    BY <1>2, <2>3
<1>11. w \in [0 .. k -> Words]
  <2>1. w = [j \in 0 .. k |-> w[j]]
    BY <1>9 DEF w
  <2> QED
    BY <1>10, <2>1
<1>12. \A j \in 1 .. k : w[j] = BitIn(w[j - 1], p, ByteBits[j])
  BY <1>8 DEF Op, q
<1>13. w[k] = DivideByte(g, p)
  BY <1>1, <1>2, <1>9
<1> QED
  BY <1>9, <1>11, <1>12, <1>13 DEF k

\* A byte, as the set of its one bits.
Bytes == SUBSET (0 .. 7)

\* A byte is a word whose high bits are zero.
LEMMA ByteIsWord ==
  ASSUME NEW p \in Bytes
  PROVE  p \in Words /\ Shr(p, 8) = {}
<1>1. p \in Words
  BY DEF Bytes, Words, Bits
<1>2. ASSUME NEW i \in Bits PROVE i \notin Shr(p, 8)
  <2>1. i \in Nat /\ i + 8 \notin 0 .. 7
    BY DEF Bits
  <2>2. i \in Shr(p, 8) <=> i + 8 \in p
    BY <1>1, <2>1, InShr
  <2> QED
    BY <2>1, <2>2 DEF Bytes
<1>3. Shr(p, 8) \in Words
  BY ShrIsWord
<1> QED
  BY <1>1, <1>2, <1>3 DEF Words

\* Shifts add up.
LEMMA ShrAgain ==
  ASSUME NEW x \in Words, NEW n \in Nat
  PROVE  Shr(Shr(x, n), 1) = Shr(x, n + 1) /\ Shr(x, 0) = x
<1>0. Shr(x, n) \in Words /\ Shr(x, 0) \in Words /\ Shr(Shr(x, n), 1) \in Words /\ Shr(x, n + 1) \in Words
  BY ShrIsWord
<1>1. ASSUME NEW i \in Bits PROVE i \in Shr(Shr(x, n), 1) <=> i \in Shr(x, n + 1)
  <2>1. i \in Nat /\ i + 1 \in Nat /\ n + 1 \in Nat /\ (i + 1) + n = i + (n + 1) /\ 1 \in Nat
    BY DEF Bits
  <2>2. i \in Shr(Shr(x, n), 1) <=> i + 1 \in Shr(x, n)
    BY <1>0, <2>1, InShr
  <2>3. i + 1 \in Shr(x, n) <=> (i + 1) + n \in x
    BY <2>1, InShr
  <2>4. i \in Shr(x, n + 1) <=> i + (n + 1) \in x
    <3> DEFINE m == n + 1
    <3>1. m \in Nat
      BY <2>1
    <3> HIDE DEF m
    <3>2. i \in Shr(x, m) <=> i + m \in x
      BY <2>1, <3>1, InShr
    <3> QED
      BY <3>2 DEF m
  <2> QED
    BY <2>1, <2>2, <2>3, <2>4
<1>2. ASSUME NEW i \in Bits PROVE i \in Shr(x, 0) <=> i \in x
  <2>1. i \in Nat /\ 0 \in Nat /\ i + 0 = i
    BY DEF Bits
  <2>2. i \in Shr(x, 0) <=> i + 0 \in x
    BY <2>1, InShr
  <2> QED
    BY <2>1, <2>2
<1>3. Shr(x, 0) = x
  BY <1>0, <1>2 DEF Words
<1> QED
  BY <1>0, <1>1, <1>3 DEF Words

\* Dividing r + p by a bit is dividing r with the bit of p that is due, before the rest of p.
LEMMA NextBit ==
  ASSUME NEW r \in Words, NEW p \in Words, NEW j \in Nat
  PROVE  /\ DivideBit(Xor(r, Shr(p, j))) = Xor(BitIn(r, p, j), Shr(p, j + 1))
         /\ j \notin p => DivideBit(Shr(p, j)) = Shr(p, j + 1)
<1> DEFINE q == Shr(p, j)
           x == IF 0 \in q THEN bit_not(r, 0) ELSE r
<1>1. q \in Words
  BY ShrIsWord
<1>2. 0 \in q <=> j \in p
  <2>1. 0 \in Nat /\ 0 + j = j
    OBVIOUS
  <2>2. 0 \in q <=> 0 + j \in p
    BY <2>1, InShr
  <2> QED
    BY <2>1, <2>2
<1>3. Shr(q, 1) = Shr(p, j + 1)
  BY ShrAgain
<1>5. j \notin p => DivideBit(q) = Shr(p, j + 1)
  BY <1>2, <1>3 DEF DivideBit
<1> HIDE DEF q
<1>4. DivideBit(Xor(r, q)) = Xor(DivideBit(x), Shr(q, 1))
  BY <1>1, DivideStep
<1> QED
  BY <1>2, <1>3, <1>4, <1>5 DEF BitIn, q

\* Eight bits of nothing are shifted out.
LEMMA DividedHigh ==
  ASSUME NEW h \in Words, h \cap (0 .. 7) = {}
  PROVE  Divided(h) = Shr(h, 8)
<1> DEFINE D(x) == DivideBit(x)
           v(j) == Shr(h, j)
<1>1. \A j \in 0 .. 7 : D(v(j)) = v(j + 1)
  <2>1. ASSUME NEW j \in 0 .. 7 PROVE D(v(j)) = v(j + 1)
    <3>1. j \in Nat /\ j \notin h
      OBVIOUS
    <3>2. {} \in Words
      BY DEF Words
    <3> QED
      BY <3>1, <3>2, NextBit
  <2> QED
    BY <2>1
<1>2. v(0) = h
  BY ShrAgain
<1>3. Divided(h) = D(D(D(D(D(D(D(D(h))))))))
  BY DEF Divided, FourTimes, Twice
<1> HIDE DEF D, v
<1>4. D(v(0)) = v(1)
  BY <1>1, 0 + 1 = 1
<1>5. D(v(1)) = v(2)
  BY <1>1, 1 + 1 = 2
<1>6. D(v(2)) = v(3)
  BY <1>1, 2 + 1 = 3
<1>7. D(v(3)) = v(4)
  BY <1>1, 3 + 1 = 4
<1>8. D(v(4)) = v(5)
  BY <1>1, 4 + 1 = 5
<1>9. D(v(5)) = v(6)
  BY <1>1, 5 + 1 = 6
<1>10. D(v(6)) = v(7)
  BY <1>1, 6 + 1 = 7
<1>11. D(v(7)) = v(8)
  BY <1>1, 7 + 1 = 8
<1>12. Divided(h) = v(8)
  BY <1>2, <1>3, <1>4, <1>5, <1>6, <1>7, <1>8, <1>9, <1>10, <1>11
<1> QED
  BY <1>12 DEF v

\* Adding a byte and dividing eight times is dividing by the byte's bits one after the other.
LEMMA DividedByte ==
  ASSUME NEW r \in Words, NEW p \in Bytes
  PROVE  DivideByte(r, p) = Divided(Xor(r, p))
<1> DEFINE D(x) == DivideBit(x)
<1>0. p \in Words /\ Shr(p, 8) = {} /\ Shr(p, 0) = p
  BY ByteIsWord, ShrAgain
<1>1. PICK w : /\ w \in [0 .. 8 -> Words] /\ w[0] = r /\ w[8] = DivideByte(r, p)
               /\ \A j \in 1 .. 8 : w[j] = BitIn(w[j - 1], p, ByteBits[j])
  BY BitValues
<1> DEFINE v(j) == Xor(w[j], Shr(p, j))
<1>2. \A j \in 0 .. 7 : D(v(j)) = v(j + 1)
  <2>1. ASSUME NEW j \in 0 .. 7 PROVE D(v(j)) = v(j + 1)
    <3>1. j \in Nat /\ j \in 0 .. 8 /\ j + 1 \in 1 .. 8 /\ (j + 1) - 1 = j
      OBVIOUS
    <3>2. ByteBits[j + 1] = j
      BY DEF ByteBits
    <3>3. w[j + 1] = BitIn(w[j], p, j) /\ w[j] \in Words
      BY <1>1, <3>1, <3>2
    <3> DEFINE x == w[j]
    <3>4. x \in Words /\ w[j + 1] = BitIn(x, p, j)
      BY <3>3
    <3> HIDE DEF x
    <3>5. DivideBit(Xor(x, Shr(p, j))) = Xor(BitIn(x, p, j), Shr(p, j + 1))
      BY <1>0, <3>1, <3>4, NextBit
    <3> QED
      BY <3>4, <3>5 DEF x
  <2> QED
    BY <2>1
<1>3. v(0) = Xor(r, p)
  BY <1>0, <1>1
<1>4. v(8) = DivideByte(r, p)
  BY <1>0, <1>1 DEF Xor
<1>5. \A x : Divided(x) = D(D(D(D(D(D(D(D(x))))))))
  BY DEF Divided, FourTimes, Twice
<1> HIDE DEF D, v
<1>6. D(v(0)) = v(1)
  BY <1>2, 0 + 1 = 1
<1>7. D(v(1)) = v(2)
  BY <1>2, 1 + 1 = 2
<1>8. D(v(2)) = v(3)
  BY <1>2, 2 + 1 = 3
<1>9. D(v(3)) = v(4)
  BY <1>2, 3 + 1 = 4
<1>10. D(v(4)) = v(5)
  BY <1>2, 4 + 1 = 5
<1>11. D(v(5)) = v(6)
  BY <1>2, 5 + 1 = 6
<1>12. D(v(6)) = v(7)
  BY <1>2, 6 + 1 = 7
<1>13. D(v(7)) = v(8)
  BY <1>2, 7 + 1 = 8
<1> QED
  BY <1>3, <1>4, <1>5, <1>6, <1>7, <1>8, <1>9, <1>10, <1>11, <1>12, <1>13

\* The loop's body divides by a byte.
LEMMA SumIsDivide ==
  ASSUME NEW r \in Words, NEW p \in Bytes
  PROVE  SumByte(r, p) = DivideByte(r, p) /\ SumByte(r, p) \in Words
<1> DEFINE x == Xor(r, p)
           low == x \cap (0 .. 7)
           high == x \ (0 .. 7)
<1>0. p \in Words /\ x \in Words /\ low \in Words /\ high \in Words /\ low \in SUBSET (0 .. 7)
  BY ByteIsWord, XorIsWord DEF Words
<1>1. x = Xor(low, high) /\ high \cap (0 .. 7) = {}
  BY DEF Xor
<1>2. Shr(x, 8) = Shr(r, 8)
  <2>1. Shr(x, 8) = Xor(Shr(r, 8), Shr(p, 8))
    BY <1>0, ShrXor
  <2> QED
    BY <2>1, ByteIsWord DEF Xor
<1>3. Shr(high, 8) = Shr(x, 8)
  <2>1. Shr(x, 8) = Xor(Shr(low, 8), Shr(high, 8))
    <3> HIDE DEF low, high, x
    <3> QED
      BY <1>0, <1>1, ShrXor
  <2>2. Shr(low, 8) = {}
    <3> HIDE DEF low
    <3> QED
      BY <1>0, ByteIsWord DEF Bytes
  <2> QED
    BY <2>1, <2>2 DEF Xor
<1>4. SumByte(r, p) = Xor(crc32_tab(low), Shr(r, 8))
  <2>1. bits_mask(8) = 0 .. 7
    BY DEF bits_mask
  <2> QED
    BY <2>1 DEF SumByte
<1> HIDE DEF x, low, high
<1>5. crc32_tab(low) = Divided(low) /\ Divided(high) = Shr(high, 8)
  BY <1>0, <1>1, TabIsDivided, DividedHigh
<1>6. Divided(x) = Xor(Divided(low), Divided(high)) /\ Divided(x) \in Words
  BY <1>0, <1>1, DividedXor
<1>7. DivideByte(r, p) = Divided(x)
  BY DividedByte DEF x
<1> QED
  BY <1>2, <1>3, <1>4, <1>5, <1>6, <1>7

-----------------------------------------------------------------------------
(* The sum of a message is the fold of that over its bytes, and pieces of a  *)
(* message join.                                                             *)

\* The words between the bytes a sum is continued over.
LEMMA SumValues ==
  ASSUME NEW g \in Words, NEW msg \in Seq(Bytes)
  PROVE  \E w : /\ w \in [0 .. Len(msg) -> Words] /\ w[0] = g /\ w[Len(msg)] = FoldLeft(SumByte, g, msg)
                /\ \A j \in 1 .. Len(msg) : w[j] = SumByte(w[j - 1], msg[j])
<1> DEFINE k == Len(msg)
           q == msg
           Op(j, x) == SumByte(x, msg[j])
           D == SUBSET (DOMAIN q)
           F == [j \in 1 .. k |-> [x \in Words |-> Op(j, x)]]
           W == CHOOSE f : f = [s \in D |-> IF s = {} THEN g ELSE Op(Max(s), f[s \ {Max(s)}])]
           w == [j \in 0 .. k |-> W[1 .. j]]
<1>1. FoldLeft(SumByte, g, msg) = W[DOMAIN q]
  BY DEF FoldLeft, MapThenFoldSet
<1>2. k \in Nat /\ DOMAIN q = 1 .. k /\ D = SUBSET (1 .. k)
  OBVIOUS
<1>3. ASSUME NEW j \in 1 .. k, NEW x \in Words PROVE Op(j, x) \in Words
  BY SumIsDivide
<1> HIDE DEF q, D, k
<1>4. PICK h : IsSeqFold(h, k, Words, F, g)
  <2> HIDE DEF Op
  <2>1. \A j \in 1 .. k, x \in Words : F[j][x] \in Words
    BY <1>3
  <2> HIDE DEF F
  <2> QED
    BY <1>2, <2>1, SeqFoldExists
<1>5. /\ h \in [D -> Words] /\ h[{}] = g
      /\ \A s \in D : s # {} => h[s] = F[Max(s)][h[s \ {Max(s)}]]
  BY <1>2, <1>4 DEF IsSeqFold
<1> HIDE DEF Op
<1>6. h = [s \in D |-> IF s = {} THEN g ELSE Op(Max(s), h[s \ {Max(s)}])]
  <2>1. ASSUME NEW s \in D, s # {} PROVE h[s] = Op(Max(s), h[s \ {Max(s)}])
    <3>1. Max(s) \in 1 .. k
      BY <1>2, <2>1, MaxOf
    <3>2. s \ {Max(s)} \in D
      BY <1>2
    <3> HIDE DEF D
    <3> QED
      BY <1>5, <2>1, <3>1, <3>2
  <2> HIDE DEF F
  <2> QED
    BY <1>5, <2>1
<1> HIDE DEF F
<1>7. W = [s \in D |-> IF s = {} THEN g ELSE Op(Max(s), W[s \ {Max(s)}])]
  BY <1>6, Zenon
<1> HIDE DEF W
<1>8. ASSUME NEW j \in 1 .. k PROVE w[j] = Op(j, w[j - 1])
  <2>1. 1 .. j \in D /\ 1 .. j # {} /\ Max(1 .. j) = j /\ (1 .. j) \ {Max(1 .. j)} = 1 .. j - 1
    BY <1>2, Places
  <2>2. W[1 .. j] = Op(j, W[1 .. j - 1])
    BY <1>7, <2>1
  <2>3. j \in 0 .. k /\ j - 1 \in 0 .. k
    BY <1>2
  <2> QED
    BY <2>2, <2>3
<1>9. w[0] = g /\ w[k] = W[1 .. k] /\ DOMAIN w = 0 .. k
  <2>1. 1 .. 0 = {} /\ {} \in D
    BY <1>2
  <2>2. 0 \in 0 .. k /\ k \in 0 .. k
    BY <1>2
  <2> QED
    BY <1>7, <2>1, <2>2
<1> HIDE DEF w
<1>10. ASSUME NEW j \in 0 .. k PROVE w[j] \in Words
  <2> DEFINE T == {i \in Nat : i <= k => w[i] \in Words}
  <2>1. 0 \in T
    BY <1>9
  <2>2. ASSUME NEW i \in T PROVE i + 1 \in T
    <3>1. i \in Nat /\ i + 1 \in Nat /\ (i + 1) - 1 = i
      OBVIOUS
    <3>2. ASSUME i + 1 <= k PROVE w[i + 1] \in Words
      <4>1. i + 1 \in 1 .. k /\ w[i] \in Words
        BY <1>2, <3>1, <3>2
      <4>2. w[i + 1] = Op(i + 1, w[i])
        BY <1>8, <3>1, <4>1
      <4> QED
        BY <1>3, <4>1, <4>2
    <3> QED
      BY <3>1, <3>2
  <2>3. T = Nat
    <3>1. T \subseteq Nat
      OBVIOUS
    <3> HIDE DEF T
    <3> QED
      BY <2>1, <2>2, <3>1, Descent
  <2> QED
    BY <1>2, <2>3
<1>11. w \in [0 .. k -> Words]
  <2>1. w = [j \in 0 .. k |-> w[j]]
    BY <1>9 DEF w
  <2> QED
    BY <1>10, <2>1
<1>12. \A j \in 1 .. k : w[j] = SumByte(w[j - 1], msg[j])
  BY <1>8 DEF Op, q
<1>13. w[k] = FoldLeft(SumByte, g, msg)
  BY <1>1, <1>2, <1>9
<1> QED
  BY <1>9, <1>11, <1>12, <1>13 DEF k

\* The words between the bytes of a division.
LEMMA DivideValues ==
  ASSUME NEW g \in Words, NEW msg \in Seq(Bytes)
  PROVE  \E w : /\ w \in [0 .. Len(msg) -> Words] /\ w[0] = g /\ w[Len(msg)] = FoldLeft(DivideByte, g, msg)
                /\ \A j \in 1 .. Len(msg) : w[j] = DivideByte(w[j - 1], msg[j])
<1> DEFINE k == Len(msg)
           q == msg
           Op(j, x) == DivideByte(x, msg[j])
           D == SUBSET (DOMAIN q)
           F == [j \in 1 .. k |-> [x \in Words |-> Op(j, x)]]
           W == CHOOSE f : f = [s \in D |-> IF s = {} THEN g ELSE Op(Max(s), f[s \ {Max(s)}])]
           w == [j \in 0 .. k |-> W[1 .. j]]
<1>1. FoldLeft(DivideByte, g, msg) = W[DOMAIN q]
  BY DEF FoldLeft, MapThenFoldSet
<1>2. k \in Nat /\ DOMAIN q = 1 .. k /\ D = SUBSET (1 .. k)
  OBVIOUS
<1>3. ASSUME NEW j \in 1 .. k, NEW x \in Words PROVE Op(j, x) \in Words
  BY SumIsDivide
<1> HIDE DEF q, D, k
<1>4. PICK h : IsSeqFold(h, k, Words, F, g)
  <2> HIDE DEF Op
  <2>1. \A j \in 1 .. k, x \in Words : F[j][x] \in Words
    BY <1>3
  <2> HIDE DEF F
  <2> QED
    BY <1>2, <2>1, SeqFoldExists
<1>5. /\ h \in [D -> Words] /\ h[{}] = g
      /\ \A s \in D : s # {} => h[s] = F[Max(s)][h[s \ {Max(s)}]]
  BY <1>2, <1>4 DEF IsSeqFold
<1> HIDE DEF Op
<1>6. h = [s \in D |-> IF s = {} THEN g ELSE Op(Max(s), h[s \ {Max(s)}])]
  <2>1. ASSUME NEW s \in D, s # {} PROVE h[s] = Op(Max(s), h[s \ {Max(s)}])
    <3>1. Max(s) \in 1 .. k
      BY <1>2, <2>1, MaxOf
    <3>2. s \ {Max(s)} \in D
      BY <1>2
    <3> HIDE DEF D
    <3> QED
      BY <1>5, <2>1, <3>1, <3>2
  <2> HIDE DEF F
  <2> QED
    BY <1>5, <2>1
<1> HIDE DEF F
<1>7. W = [s \in D |-> IF s = {} THEN g ELSE Op(Max(s), W[s \ {Max(s)}])]
  BY <1>6, Zenon
<1> HIDE DEF W
<1>8. ASSUME NEW j \in 1 .. k PROVE w[j] = Op(j, w[j - 1])
  <2>1. 1 .. j \in D /\ 1 .. j # {} /\ Max(1 .. j) = j /\ (1 .. j) \ {Max(1 .. j)} = 1 .. j - 1
    BY <1>2, Places
  <2>2. W[1 .. j] = Op(j, W[1 .. j - 1])
    BY <1>7, <2>1
  <2>3. j \in 0 .. k /\ j - 1 \in 0 .. k
    BY <1>2
  <2> QED
    BY <2>2, <2>3
<1>9. w[0] = g /\ w[k] = W[1 .. k] /\ DOMAIN w = 0 .. k
  <2>1. 1 .. 0 = {} /\ {} \in D
    BY <1>2
  <2>2. 0 \in 0 .. k /\ k \in 0 .. k
    BY <1>2
  <2> QED
    BY <1>7, <2>1, <2>2
<1> HIDE DEF w
<1>10. ASSUME NEW j \in 0 .. k PROVE w[j] \in Words
  <2> DEFINE T == {i \in Nat : i <= k => w[i] \in Words}
  <2>1. 0 \in T
    BY <1>9
  <2>2. ASSUME NEW i \in T PROVE i + 1 \in T
    <3>1. i \in Nat /\ i + 1 \in Nat /\ (i + 1) - 1 = i
      OBVIOUS
    <3>2. ASSUME i + 1 <= k PROVE w[i + 1] \in Words
      <4>1. i + 1 \in 1 .. k /\ w[i] \in Words
        BY <1>2, <3>1, <3>2
      <4>2. w[i + 1] = Op(i + 1, w[i])
        BY <1>8, <3>1, <4>1
      <4> QED
        BY <1>3, <4>1, <4>2
    <3> QED
      BY <3>1, <3>2
  <2>3. T = Nat
    <3>1. T \subseteq Nat
      OBVIOUS
    <3> HIDE DEF T
    <3> QED
      BY <2>1, <2>2, <3>1, Descent
  <2> QED
    BY <1>2, <2>3
<1>11. w \in [0 .. k -> Words]
  <2>1. w = [j \in 0 .. k |-> w[j]]
    BY <1>9 DEF w
  <2> QED
    BY <1>10, <2>1
<1>12. \A j \in 1 .. k : w[j] = DivideByte(w[j - 1], msg[j])
  BY <1>8 DEF Op, q
<1>13. w[k] = FoldLeft(DivideByte, g, msg)
  BY <1>1, <1>2, <1>9
<1> QED
  BY <1>9, <1>11, <1>12, <1>13 DEF k

\* The table-driven sum is the division bit by bit.
LEMMA SumsAlike ==
  ASSUME NEW g \in Words, NEW msg \in Seq(Bytes)
  PROVE  /\ FoldLeft(SumByte, g, msg) = FoldLeft(DivideByte, g, msg)
         /\ FoldLeft(SumByte, g, msg) \in Words
<1> DEFINE k == Len(msg)
<1>0. k \in Nat /\ \A j \in 1 .. k : msg[j] \in Bytes
  OBVIOUS
<1>1. PICK w : /\ w \in [0 .. k -> Words] /\ w[0] = g /\ w[k] = FoldLeft(SumByte, g, msg)
               /\ \A j \in 1 .. k : w[j] = SumByte(w[j - 1], msg[j])
  BY SumValues
<1>2. PICK v : /\ v \in [0 .. k -> Words] /\ v[0] = g /\ v[k] = FoldLeft(DivideByte, g, msg)
               /\ \A j \in 1 .. k : v[j] = DivideByte(v[j - 1], msg[j])
  BY DivideValues
<1> DEFINE T == {j \in Nat : j <= k => w[j] = v[j]}
<1>3. 0 \in T
  BY <1>1, <1>2
<1> HIDE DEF k
<1>4. ASSUME NEW j \in T PROVE j + 1 \in T
  <2>1. j \in Nat /\ j + 1 \in Nat /\ (j + 1) - 1 = j
    OBVIOUS
  <2>2. ASSUME j + 1 <= k PROVE w[j + 1] = v[j + 1]
    <3>1. j + 1 \in 1 .. k /\ j \in 0 .. k /\ w[j] = v[j]
      BY <1>0, <2>1, <2>2
    <3>2. w[j] \in Words /\ msg[j + 1] \in Bytes
      BY <1>0, <1>1, <3>1
    <3>3. w[j + 1] = SumByte(w[j], msg[j + 1]) /\ v[j + 1] = DivideByte(w[j], msg[j + 1])
      <4>1. w[j + 1] = SumByte(w[(j + 1) - 1], msg[j + 1])
        BY <1>1, <3>1
      <4>2. v[j + 1] = DivideByte(v[(j + 1) - 1], msg[j + 1])
        BY <1>2, <3>1
      <4> QED
        BY <2>1, <3>1, <4>1, <4>2
    <3> QED
      BY <3>2, <3>3, SumIsDivide
  <2> QED
    BY <2>1, <2>2
<1>5. T = Nat
  <2>1. T \subseteq Nat
    OBVIOUS
  <2> HIDE DEF T
  <2> QED
    BY <1>3, <1>4, <2>1, Descent
<1>6. w[k] = v[k] /\ w[k] \in Words
  BY <1>0, <1>1, <1>5
<1> QED
  BY <1>1, <1>2, <1>6

\* A sum continued over t is the sum over s and t.
LEMMA SumJoined ==
  ASSUME NEW g \in Words, NEW s \in Seq(Bytes), NEW t \in Seq(Bytes)
  PROVE  FoldLeft(SumByte, FoldLeft(SumByte, g, s), t) = FoldLeft(SumByte, g, s \o t)
<1> DEFINE m == Len(s)
           n == Len(t)
           st == s \o t
           h == FoldLeft(SumByte, g, s)
<1>0. /\ m \in Nat /\ n \in Nat /\ st \in Seq(Bytes) /\ Len(st) = m + n
      /\ (\A j \in 1 .. m : st[j] = s[j]) /\ (\A j \in 1 .. n : st[m + j] = t[j])
  OBVIOUS
<1>1. PICK w : /\ w \in [0 .. m -> Words] /\ w[0] = g /\ w[m] = h
               /\ \A j \in 1 .. m : w[j] = SumByte(w[j - 1], s[j])
  BY SumValues
<1>2. h \in Words
  BY <1>0, <1>1
<1> HIDE DEF h, m, n, st
<1>3. PICK v : /\ v \in [0 .. n -> Words] /\ v[0] = h /\ v[n] = FoldLeft(SumByte, h, t)
               /\ \A j \in 1 .. n : v[j] = SumByte(v[j - 1], t[j])
  BY <1>2, SumValues DEF n
<1>4. PICK z : /\ z \in [0 .. Len(st) -> Words] /\ z[0] = g /\ z[Len(st)] = FoldLeft(SumByte, g, st)
               /\ \A j \in 1 .. Len(st) : z[j] = SumByte(z[j - 1], st[j])
  BY <1>0, SumValues
<1> DEFINE T == {j \in Nat : j <= m => z[j] = w[j]}
           U == {j \in Nat : j <= n => z[m + j] = v[j]}
<1>5. 0 \in T
  BY <1>1, <1>4
<1>6. ASSUME NEW j \in T PROVE j + 1 \in T
  <2>1. j \in Nat /\ j + 1 \in Nat /\ (j + 1) - 1 = j
    OBVIOUS
  <2>2. ASSUME j + 1 <= m PROVE z[j + 1] = w[j + 1]
    <3>1. j + 1 \in 1 .. m /\ j + 1 \in 1 .. Len(st) /\ z[j] = w[j]
      BY <1>0, <2>1, <2>2
    <3>2. z[j + 1] = SumByte(z[j], st[j + 1])
      BY <1>4, <2>1, <3>1
    <3>3. w[j + 1] = SumByte(w[j], s[j + 1])
      BY <1>1, <2>1, <3>1
    <3> QED
      BY <1>0, <3>1, <3>2, <3>3
  <2> QED
    BY <2>1, <2>2
<1>7. T = Nat
  <2>1. T \subseteq Nat
    OBVIOUS
  <2> HIDE DEF T
  <2> QED
    BY <1>5, <1>6, <2>1, Descent
<1>8. z[m] = h
  BY <1>0, <1>1, <1>7
<1>9. 0 \in U
  BY <1>0, <1>3, <1>8
<1> HIDE DEF T
<1>10. ASSUME NEW j \in U PROVE j + 1 \in U
  <2>1. j \in Nat /\ j + 1 \in Nat /\ (j + 1) - 1 = j
    OBVIOUS
  <2>2. ASSUME j + 1 <= n PROVE z[m + (j + 1)] = v[j + 1]
    <3> DEFINE i == m + (j + 1)
    <3>1. j + 1 \in 1 .. n /\ i \in 1 .. Len(st) /\ i - 1 = m + j /\ z[m + j] = v[j]
      BY <1>0, <2>1, <2>2
    <3>2. st[i] = t[j + 1]
      BY <1>0, <3>1
    <3> HIDE DEF i
    <3>3. z[i] = SumByte(z[i - 1], st[i])
      BY <1>4, <3>1
    <3>4. v[j + 1] = SumByte(v[j], t[j + 1])
      BY <1>3, <2>1, <3>1
    <3>5. z[i] = v[j + 1]
      BY <3>1, <3>2, <3>3, <3>4
    <3> QED
      BY <3>5 DEF i
  <2> QED
    BY <2>1, <2>2
<1>11. U = Nat
  <2>1. U \subseteq Nat
    OBVIOUS
  <2> HIDE DEF U
  <2> QED
    BY <1>9, <1>10, <2>1, Descent
<1>12. z[m + n] = v[n]
  BY <1>0, <1>11
<1> QED
  BY <1>0, <1>3, <1>4, <1>12 DEF h, st

\* Inverting twice changes nothing.
LEMMA OnesCancel ==
  ASSUME NEW x \in Words
  PROVE  Xor(AllOnes, x) \in Words /\ Xor(Xor(AllOnes, x), AllOnes) = x
<1>1. AllOnes \in Words
  BY DEF AllOnes, Words
<1> QED
  BY <1>1, XorIsWord DEF Xor

\* What has been summed is summed exactly.
CrcInv ==
  /\ data \in Seq(Bytes)
  /\ cut \in 0 .. Len(data)
  /\ CrcExact

\* The inversion at the end of one call cancels against the one at the start of
\* the next, so a sum continued over t is the sum of both pieces.
LEMMA SumContinued ==
  ASSUME NEW s \in Seq(Bytes), NEW t \in Seq(Bytes)
  PROVE  our_crc32_inc(t, Remainder(s)) = Remainder(s \o t)
<1> DEFINE x == FoldLeft(SumByte, AllOnes, s)
           y == FoldLeft(SumByte, AllOnes, s \o t)
<1>0. AllOnes \in Words /\ s \o t \in Seq(Bytes)
  BY DEF AllOnes, Words
<1>1. x \in Words /\ Remainder(s) = Xor(AllOnes, x) /\ Remainder(s \o t) = Xor(AllOnes, y)
  BY <1>0, SumsAlike DEF Remainder
<1>2. FoldLeft(SumByte, x, t) = y
  BY <1>0, SumJoined
<1> HIDE DEF x, y
<1>3. Xor(Remainder(s), AllOnes) = x
  BY <1>1, OnesCancel
<1> QED
  BY <1>1, <1>2, <1>3 DEF our_crc32_inc

\* The sum of no bytes.
LEMMA NothingSummed == Remainder(<<>>) = {} /\ our_crc32(<<>>) = {}
<1> DEFINE e == <<>>
<1>0. AllOnes \in Words /\ e \in Seq(Bytes) /\ Len(e) = 0
  BY DEF AllOnes, Words
<1>2. FoldLeft(SumByte, AllOnes, e) = AllOnes
  <2> HIDE DEF e
  <2>1. PICK w : /\ w \in [0 .. Len(e) -> Words] /\ w[0] = AllOnes /\ w[Len(e)] = FoldLeft(SumByte, AllOnes, e)
                 /\ \A j \in 1 .. Len(e) : w[j] = SumByte(w[j - 1], e[j])
    BY <1>0, SumValues
  <2> QED
    BY <1>0, <2>1
<1>3. Remainder(<<>>) = {}
  BY <1>0, <1>2, SumsAlike DEF Remainder, Xor
<1>4. our_crc32(<<>>) = {}
  <2>1. Xor({}, AllOnes) = AllOnes
    BY DEF Xor
  <2> QED
    BY <1>2, <2>1 DEF our_crc32, our_crc32_inc, Xor
<1> QED
  BY <1>3, <1>4

\* Two pieces that follow each other are one.
LEMMA SubSeqJoins ==
  ASSUME NEW S, NEW d \in Seq(S), NEW m \in 0 .. Len(d), NEW n \in 1 .. Len(d) - m
  PROVE  /\ SubSeq(d, 1, m) \in Seq(S) /\ SubSeq(d, m + 1, m + n) \in Seq(S)
         /\ SubSeq(d, 1, m) \o SubSeq(d, m + 1, m + n) = SubSeq(d, 1, m + n)
<1> DEFINE a == SubSeq(d, 1, m)
           b == SubSeq(d, m + 1, m + n)
           c == SubSeq(d, 1, m + n)
<1>0. m \in Nat /\ n \in Nat /\ m + n <= Len(d) /\ Len(d) \in Nat
  OBVIOUS
<1>1. a \in Seq(S) /\ Len(a) = m /\ \A i \in 1 .. m : a[i] = d[i]
  BY <1>0
<1>2. b \in Seq(S) /\ Len(b) = n /\ \A i \in 1 .. n : b[i] = d[m + i]
  BY <1>0
<1>3. c \in Seq(S) /\ Len(c) = m + n /\ \A i \in 1 .. m + n : c[i] = d[i]
  BY <1>0
<1> HIDE DEF a, b, c
<1>4. ASSUME NEW i \in 1 .. m + n PROVE (a \o b)[i] = c[i]
  <2>1. CASE i <= m
    BY <1>0, <1>1, <1>2, <1>3, <2>1
  <2>2. CASE i > m
    <3>1. i - m \in 1 .. n /\ m + (i - m) = i
      BY <1>0, <2>2
    <3>2. (a \o b)[i] = b[i - m]
      <4>1. a \in Seq(S) /\ b \in Seq(S) /\ i \in 1 .. Len(a) + Len(b) /\ ~ (i <= Len(a))
        BY <1>0, <1>1, <1>2, <2>2
      <4>2. (a \o b)[i] = IF i <= Len(a) THEN a[i] ELSE b[i - Len(a)]
        BY <4>1, ConcatProperties
      <4> QED
        BY <1>1, <4>1, <4>2
    <3> QED
      BY <1>2, <1>3, <3>1, <3>2
  <2>3. i <= m \/ i > m
    BY <1>0
  <2> QED
    BY <2>1, <2>2, <2>3, Zenon
<1>5. a \o b \in Seq(S) /\ Len(a \o b) = m + n
  <2>1. a \in Seq(S) /\ b \in Seq(S) /\ Len(a) = m /\ Len(b) = n
    BY <1>1, <1>2
  <2> QED
    BY <2>1
<1>6. a \o b = c
  BY <1>3, <1>4, <1>5, SeqEqual
<1> QED
  BY <1>1, <1>2, <1>6 DEF a, b, c

\* Before a message is chosen its sum is the sum of nothing.
LEMMA CrcInit == SumsInit => CrcInv
<1> SUFFICES ASSUME SumsInit PROVE CrcInv
  OBVIOUS
<1>1. data = <<>> /\ cut = 0 /\ crc = {}
  BY DEF SumsInit
<1>2. SubSeq(data, 1, cut) = <<>>
  BY <1>1
<1>3. data \in Seq(Bytes) /\ cut \in 0 .. Len(data)
  BY <1>1
<1>4. crc = Remainder(SubSeq(data, 1, cut))
  BY <1>1, <1>2, NothingSummed
<1> QED
  BY <1>3, <1>4 DEF CrcInv, CrcExact

\* Every step of a client keeps the sum exact.
LEMMA CrcStep == CrcInv /\ [SumsNext]_hvars => CrcInv'
<1> SUFFICES ASSUME CrcInv, [SumsNext]_hvars PROVE CrcInv'
  OBVIOUS
<1>0. data \in Seq(Bytes) /\ cut \in 0 .. Len(data) /\ crc = Remainder(SubSeq(data, 1, cut))
  BY DEF CrcInv, CrcExact
<1>1. CASE UNCHANGED hvars
  <2>1. data' = data /\ cut' = cut /\ crc' = crc
    BY <1>1 DEF hvars
  <2> QED
    BY <1>0, <2>1 DEF CrcInv, CrcExact
<1>2. CASE BeginSums
  <2>1. data = <<>> /\ data' \in Messages /\ crc' = our_crc32(<<>>) /\ cut' = cut
    BY <1>2 DEF BeginSums
  <2>2. data' \in Seq(Bytes) /\ cut = 0
    BY <1>0, <2>1, MessagesAssumption DEF Bytes
  <2>3. cut' \in 0 .. Len(data') /\ SubSeq(data', 1, cut') = <<>>
    BY <2>1, <2>2
  <2> QED
    BY <2>1, <2>2, <2>3, NothingSummed DEF CrcInv, CrcExact
<1>3. CASE SumPiece
  <2>1. PICK n \in 1 .. Len(data) - cut :
          cut' = cut + n /\ crc' = our_crc32_inc(SubSeq(data, cut + 1, cut + n), crc)
    BY <1>3 DEF SumPiece
  <2>2. data' = data
    BY <1>3 DEF SumPiece
  <2> DEFINE s == SubSeq(data, 1, cut)
             t == SubSeq(data, cut + 1, cut + n)
  <2>3. s \in Seq(Bytes) /\ t \in Seq(Bytes) /\ s \o t = SubSeq(data, 1, cut + n)
    BY <1>0, SubSeqJoins
  <2>4. cut + n \in 0 .. Len(data)
    BY <1>0
  <2> HIDE DEF s, t
  <2>5. our_crc32_inc(t, Remainder(s)) = Remainder(s \o t)
    BY <2>3, SumContinued
  <2>6. crc' = Remainder(SubSeq(data, 1, cut + n))
    BY <1>0, <2>1, <2>3, <2>5 DEF s, t
  <2> QED
    BY <1>0, <2>1, <2>2, <2>4, <2>6 DEF CrcInv, CrcExact
<1>4. CASE HashData
  <2>1. data' = data /\ cut' = cut /\ crc' = crc
    BY <1>4 DEF HashData
  <2> QED
    BY <1>0, <2>1 DEF CrcInv, CrcExact
<1> QED
  BY <1>1, <1>2, <1>3, <1>4 DEF SumsNext

\* However a message is cut into pieces, what our_crc32_inc (crc.c:54-61) has
\* summed is the CRC of its bytes so far, divided bit by bit, for messages of
\* any length.
THEOREM CrcAlwaysExact == SumsSpec => []CrcExact
<1>1. CrcInv => CrcExact
  BY DEF CrcInv
<1> QED
  BY <1>1, CrcInit, CrcStep, PTL DEF SumsSpec

-----------------------------------------------------------------------------
(* Division loses nothing, so two messages that differ within four bytes     *)
(* cannot have one sum.                                                      *)

\* No bit is lost: only nothing divides to nothing.
LEMMA NothingDivides ==
  ASSUME NEW x \in Words, DivideBit(x) = {}
  PROVE  x = {}
<1>1. 31 \in Polynomial
  BY DEF Polynomial, Hex, Bits
<1>2. \A j \in Nat : j \in Shr(x, 1) <=> j + 1 \in x
  BY InShr
<1>3. \A j \in x : j \in 0 .. 31
  BY DEF Words, Bits
<1>4. 0 \notin x
  <2>1. SUFFICES ASSUME 0 \in x PROVE FALSE
    OBVIOUS
  <2>2. 31 \notin Shr(x, 1)
    <3>1. 31 \in Shr(x, 1) <=> 32 \in x
      BY <1>2, 31 + 1 = 32
    <3> QED
      BY <1>3, <3>1
  <2>3. DivideBit(x) = Xor(Shr(x, 1), Polynomial)
    BY <2>1 DEF DivideBit
  <2> QED
    BY <1>1, <2>2, <2>3 DEF Xor
<1>5. Shr(x, 1) = {}
  BY <1>4 DEF DivideBit
<1>6. ASSUME NEW j \in x PROVE FALSE
  <2>1. j \in 0 .. 31 /\ j # 0
    BY <1>3, <1>4
  <2>2. j - 1 \in Nat /\ (j - 1) + 1 = j
    BY <2>1
  <2>3. j - 1 \in Shr(x, 1)
    BY <1>2, <2>2
  <2> QED
    BY <1>5, <2>3
<1> QED
  BY <1>6

\* Words that differ still differ after eight divisions.
LEMMA DividedOnce ==
  ASSUME NEW r \in Words, NEW q \in Words, Divided(r) = Divided(q)
  PROVE  r = q
<1> DEFINE x == Xor(r, q)
<1>1. x \in Words
  BY XorIsWord
<1>2. Divided(x) = {}
  <2>1. Divided(x) = Xor(Divided(r), Divided(q))
    BY DividedXor
  <2> QED
    BY <2>1 DEF Xor
<1>3. \A y \in Words : DivideBit(y) \in Words /\ (DivideBit(y) = {} => y = {})
  BY DivideIsWord, NothingDivides
<1>4. \A y \in Words : Twice(y) \in Words /\ (Twice(y) = {} => y = {})
  BY <1>3 DEF Twice
<1>5. \A y \in Words : FourTimes(y) \in Words /\ (FourTimes(y) = {} => y = {})
  BY <1>4 DEF FourTimes
<1>6. x = {}
  <2> HIDE DEF x
  <2> QED
    BY <1>1, <1>2, <1>5 DEF Divided
<1> QED
  BY <1>6 DEF Xor

\* Two sums that differ by a word behind two bytes differed by it and the bytes before them.
LEMMA ByteBack ==
  ASSUME NEW r \in Words, NEW q \in Words, NEW p \in Bytes, NEW o \in Bytes,
         NEW x \in Words, x \cap (0 .. 7) = {}, Xor(SumByte(r, p), SumByte(q, o)) = Shr(x, 8)
  PROVE  Xor(r, q) = Xor(Xor(p, o), x)
<1> DEFINE a == Xor(r, p)
           b == Xor(q, o)
<1>1. a \in Words /\ b \in Words /\ Xor(a, b) \in Words
  BY ByteIsWord, XorIsWord
<1>2. SumByte(r, p) = Divided(a) /\ SumByte(q, o) = Divided(b)
  BY SumIsDivide, DividedByte
<1>3. Divided(Xor(a, b)) = Xor(Divided(a), Divided(b))
  <2> HIDE DEF a, b
  <2> QED
    BY <1>1, DividedXor
<1>4. Divided(x) = Shr(x, 8)
  BY DividedHigh
<1>5. Xor(a, b) = x
  <2> HIDE DEF a, b
  <2> DEFINE y == Xor(a, b)
  <2>1. y \in Words /\ Divided(y) = Divided(x)
    BY <1>1, <1>2, <1>3, <1>4
  <2> HIDE DEF y
  <2>2. y = x
    BY <2>1, DividedOnce
  <2> QED
    BY <2>2 DEF y
<1> QED
  BY <1>5 DEF Xor

\* The four bytes d(j + 1), ... d(j + 4) as a word, low byte first.
WordOf(d, j) == {b \in Bits : b % 8 \in d[j + 1 + (b \div 8)]}
Above(d, j) == {b \in Bits : b >= 8 /\ b % 8 \in d[j + (b \div 8)]}

\* The word four bytes back, from the one that is reached.
LEMMA WordShifts ==
  ASSUME NEW d, NEW j \in Nat, \A k \in Nat : d[k] \in Bytes
  PROVE  /\ WordOf(d, j) \in Words /\ Above(d, j) \in Words /\ Above(d, j) \cap (0 .. 7) = {}
         /\ d[j + 4] = {} => Shr(Above(d, j), 8) = WordOf(d, j)
         /\ j > 0 => Xor(d[j], Above(d, j)) = WordOf(d, j - 1)
         /\ WordOf(d, j) = {} => d[j + 1] = {} /\ d[j + 2] = {} /\ d[j + 3] = {} /\ d[j + 4] = {}
<1> DEFINE x == Above(d, j)
<1>1. WordOf(d, j) \in Words /\ x \in Words /\ x \cap (0 .. 7) = {}
  BY DEF WordOf, Above, Words, Bits
<1>2. ASSUME d[j + 4] = {} PROVE Shr(x, 8) = WordOf(d, j)
  <2>1. ASSUME NEW b \in Bits PROVE b \in Shr(x, 8) <=> b \in WordOf(d, j)
    <3>1. b \in Nat /\ b <= 31 /\ b \in 0 .. 31
      BY DEF Bits
    <3>2. b \in Shr(x, 8) <=> b + 8 \in x
      <4> HIDE DEF x
      <4> QED
        BY <1>1, <3>1, InShr
    <3>3. CASE b >= 24
      <4>1. b \div 8 = 3 /\ j + 1 + (b \div 8) = j + 4
        BY <3>1, <3>3
      <4>2. b \notin WordOf(d, j)
        BY <1>2, <4>1 DEF WordOf
      <4>3. b + 8 \notin x
        BY <3>1, <3>3 DEF Above, Bits
      <4> QED
        BY <3>2, <4>2, <4>3
    <3>4. CASE b < 24
      <4>1. b + 8 \in Bits /\ (b + 8) % 8 = b % 8 /\ (b + 8) \div 8 = 1 + (b \div 8) /\ b + 8 >= 8
        BY <3>1, <3>4 DEF Bits
      <4>2. j + ((b + 8) \div 8) = j + 1 + (b \div 8)
        BY <3>1, <4>1
      <4>3. b + 8 \in x <=> (b + 8) % 8 \in d[j + ((b + 8) \div 8)]
        BY <4>1 DEF Above
      <4>4. b + 8 \in x <=> b % 8 \in d[j + 1 + (b \div 8)]
        BY <4>1, <4>2, <4>3
      <4> QED
        BY <3>2, <4>4 DEF WordOf
    <3> QED
      BY <3>1, <3>3, <3>4
  <2>2. Shr(x, 8) \in Words
    BY ShrIsWord
  <2> QED
    BY <1>1, <2>1, <2>2 DEF Words
<1>3. ASSUME j > 0 PROVE Xor(d[j], x) = WordOf(d, j - 1)
  <2>0. d[j] \in Bytes
    OBVIOUS
  <2>1. ASSUME NEW b \in Bits PROVE b \in Xor(d[j], x) <=> b \in WordOf(d, j - 1)
    <3>1. b \in Nat /\ b <= 31 /\ b \in 0 .. 31 /\ (j - 1) + 1 + (b \div 8) = j + (b \div 8)
      BY DEF Bits
    <3>2. b \in WordOf(d, j - 1) <=> b % 8 \in d[j + (b \div 8)]
      BY <3>1 DEF WordOf
    <3>3. CASE b < 8
      <4>1. b \div 8 = 0 /\ b % 8 = b /\ j + (b \div 8) = j
        BY <3>1, <3>3
      <4>2. b \notin x
        BY <3>1, <3>3 DEF Above
      <4> HIDE DEF x
      <4> QED
        BY <3>2, <4>1, <4>2 DEF Xor
    <3>4. CASE b >= 8
      <4>1. b \notin d[j]
        BY <2>0, <3>4 DEF Bytes
      <4>2. b \in x <=> b % 8 \in d[j + (b \div 8)]
        BY <3>4 DEF Above
      <4> HIDE DEF x
      <4> QED
        BY <3>2, <4>1, <4>2 DEF Xor
    <3> QED
      BY <3>1, <3>3, <3>4
  <2>2. Xor(d[j], x) \in Words
    BY <1>1, <2>0, ByteIsWord, XorIsWord
  <2>3. WordOf(d, j - 1) \in Words
    BY DEF WordOf, Words
  <2> QED
    BY <2>1, <2>2, <2>3 DEF Words
<1>4. ASSUME WordOf(d, j) = {}, NEW k \in 0 .. 3 PROVE d[j + 1 + k] = {}
  <2>1. ASSUME NEW e \in d[j + 1 + k] PROVE FALSE
    <3>1. e \in 0 .. 7
      <4>1. j + 1 + k \in Nat
        OBVIOUS
      <4> QED
        BY <4>1 DEF Bytes
    <3> DEFINE b == 8 * k + e
    <3>2. b \in Bits /\ b % 8 = e /\ b \div 8 = k
      <4>1. k = 0 \/ k = 1 \/ k = 2 \/ k = 3
        OBVIOUS
      <4> QED
        BY <3>1, <4>1 DEF Bits
    <3> HIDE DEF b
    <3>3. b \in WordOf(d, j)
      BY <2>1, <3>2 DEF WordOf
    <3> QED
      BY <1>4, <3>3
  <2> QED
    BY <2>1
<1>5. ASSUME WordOf(d, j) = {} PROVE d[j + 1] = {} /\ d[j + 2] = {} /\ d[j + 3] = {} /\ d[j + 4] = {}
  <2>1. d[j + 1 + 0] = {} /\ d[j + 1 + 1] = {} /\ d[j + 1 + 2] = {} /\ d[j + 1 + 3] = {}
    BY <1>4, <1>5
  <2>2. j + 1 + 0 = j + 1 /\ j + 1 + 1 = j + 2 /\ j + 1 + 2 = j + 3 /\ j + 1 + 3 = j + 4
    OBVIOUS
  <2> QED
    BY <2>1, <2>2
<1> QED
  BY <1>1, <1>2, <1>3, <1>5

\* Messages that differ, and only within four bytes of each other, have
\* different sums, whatever both are continued from (our_crc32_inc, crc.c:54-61).
THEOREM BurstShows ==
  ASSUME NEW c \in Words, NEW s \in Seq(Bytes), NEW t \in Seq(Bytes), Len(s) = Len(t), s # t,
         NEW i \in 1 .. Len(s), \A j \in 1 .. Len(s) : s[j] # t[j] => j \in i .. i + 3
  PROVE  our_crc32_inc(s, c) # our_crc32_inc(t, c)
<1> SUFFICES ASSUME our_crc32_inc(s, c) = our_crc32_inc(t, c) PROVE FALSE
  OBVIOUS
<1> DEFINE g == Xor(c, AllOnes)
           n == Len(s)
           x == FoldLeft(SumByte, g, s)
           y == FoldLeft(SumByte, g, t)
           d == [j \in Nat |-> IF j \in 1 .. n THEN Xor(s[j], t[j]) ELSE {}]
<1>0. g \in Words
  <2>1. AllOnes \in Words
    BY DEF AllOnes, Words
  <2> QED
    BY <2>1, XorIsWord
<1>1. n \in Nat /\ i \in 1 .. n /\ (\A j \in 1 .. n : s[j] \in Bytes /\ t[j] \in Bytes)
      /\ (\A j \in 1 .. n : s[j] # t[j] => j \in i .. i + 3) /\ n = Len(t)
  OBVIOUS
<1>2. \A k \in Nat : d[k] \in Bytes
  <2>1. ASSUME NEW j \in 1 .. n PROVE Xor(s[j], t[j]) \in Bytes
    <3>1. s[j] \in Bytes /\ t[j] \in Bytes
      BY <1>1
    <3> QED
      BY <3>1 DEF Xor, Bytes
  <2>2. {} \in Bytes
    BY DEF Bytes
  <2> QED
    BY <2>1, <2>2
<1>3. \A k \in Nat : k \notin i .. i + 3 => d[k] = {}
  <2>1. ASSUME NEW k \in Nat, k \notin i .. i + 3 PROVE d[k] = {}
    <3>1. CASE k \in 1 .. n
      <4>1. s[k] = t[k]
        BY <1>1, <2>1, <3>1
      <4> QED
        BY <4>1 DEF Xor
    <3>2. CASE k \notin 1 .. n
      BY <3>2
    <3> QED
      BY <3>1, <3>2
  <2> QED
    BY <2>1
<1>4. \A j \in 1 .. n : d[j] = Xor(s[j], t[j])
  BY <1>1
<1>5. \A j \in Nat : j > n => d[j] = {}
  BY <1>1
<1>6. x = y
  <2>0. x \in Words /\ y \in Words
    <3> HIDE DEF g
    <3> QED
      BY <1>0, SumsAlike
  <2>1. Xor(AllOnes, x) = Xor(AllOnes, y)
    BY DEF our_crc32_inc
  <2> HIDE DEF x, y
  <2>2. Xor(Xor(AllOnes, x), AllOnes) = x /\ Xor(Xor(AllOnes, y), AllOnes) = y
    BY <2>0, OnesCancel
  <2> QED
    BY <2>1, <2>2
<1> HIDE DEF g, d, n
<1>7. PICK w : /\ w \in [0 .. n -> Words] /\ w[0] = g /\ w[n] = x
               /\ \A j \in 1 .. n : w[j] = SumByte(w[j - 1], s[j])
  BY <1>0, SumValues DEF n
<1>8. PICK v : /\ v \in [0 .. n -> Words] /\ v[0] = g /\ v[n] = y
               /\ \A j \in 1 .. n : v[j] = SumByte(v[j - 1], t[j])
  <2>1. PICK v : /\ v \in [0 .. Len(t) -> Words] /\ v[0] = g /\ v[Len(t)] = FoldLeft(SumByte, g, t)
                 /\ \A j \in 1 .. Len(t) : v[j] = SumByte(v[j - 1], t[j])
    BY <1>0, SumValues
  <2> QED
    BY <1>1, <2>1
<1> HIDE DEF x, y
<1> DEFINE T == {j \in Nat : j <= i - 1 => w[j] = v[j]}
           U == {m \in Nat : n - m >= i - 1 => Xor(w[n - m], v[n - m]) = WordOf(d, n - m)}
<1>9. 0 \in T
  BY <1>7, <1>8
<1>10. ASSUME NEW j \in T PROVE j + 1 \in T
  <2>1. j \in Nat /\ j + 1 \in Nat /\ (j + 1) - 1 = j
    OBVIOUS
  <2>2. ASSUME j + 1 <= i - 1 PROVE w[j + 1] = v[j + 1]
    <3>1. j + 1 \in 1 .. n /\ j + 1 \notin i .. i + 3 /\ w[j] = v[j]
      BY <1>1, <2>1, <2>2
    <3>2. s[j + 1] = t[j + 1]
      BY <1>1, <3>1
    <3>3. w[j + 1] = SumByte(w[j], s[j + 1])
      BY <1>7, <2>1, <3>1
    <3>4. v[j + 1] = SumByte(v[j], t[j + 1])
      BY <1>8, <2>1, <3>1
    <3> QED
      BY <3>1, <3>2, <3>3, <3>4
  <2> QED
    BY <2>1, <2>2
<1>11. T = Nat
  <2>1. T \subseteq Nat
    OBVIOUS
  <2> HIDE DEF T
  <2> QED
    BY <1>9, <1>10, <2>1, Descent
<1>12. w[i - 1] = v[i - 1] /\ i - 1 \in 0 .. n
  BY <1>1, <1>11
<1>13. 0 \in U
  <2>1. Xor(w[n], v[n]) = {}
    BY <1>6, <1>7, <1>8 DEF Xor
  <2>2. WordOf(d, n) = {}
    <3>1. ASSUME NEW b \in Bits PROVE d[n + 1 + (b \div 8)] = {}
      <4>1. n + 1 + (b \div 8) \in Nat /\ n + 1 + (b \div 8) > n
        BY <1>1 DEF Bits
      <4> QED
        BY <1>5, <4>1
    <3> QED
      BY <3>1 DEF WordOf
  <2>3. n - 0 = n
    BY <1>1
  <2> QED
    BY <2>1, <2>2, <2>3
<1> HIDE DEF T
<1>14. ASSUME NEW m \in U PROVE m + 1 \in U
  <2>1. m \in Nat /\ m + 1 \in Nat
    OBVIOUS
  <2>2. ASSUME n - (m + 1) >= i - 1
        PROVE  Xor(w[n - (m + 1)], v[n - (m + 1)]) = WordOf(d, n - (m + 1))
    <3> DEFINE j == n - m
    <3>1. j \in 1 .. n /\ j \in Nat /\ j > 0 /\ n - (m + 1) = j - 1 /\ j - 1 \in 0 .. n /\ j >= i /\ n - m >= i - 1
      BY <1>1, <2>1, <2>2
    <3>2. Xor(w[j], v[j]) = WordOf(d, j)
      BY <3>1
    <3> HIDE DEF j, U
    <3>3. d[j + 4] = {}
      <4>1. j + 4 \in Nat /\ j + 4 \notin i .. i + 3
        BY <1>1, <3>1
      <4> QED
        BY <1>3, <4>1
    <3>4. /\ Above(d, j) \in Words /\ Above(d, j) \cap (0 .. 7) = {} /\ Shr(Above(d, j), 8) = WordOf(d, j)
          /\ Xor(d[j], Above(d, j)) = WordOf(d, j - 1)
      BY <1>2, <3>1, <3>3, WordShifts
    <3>5. w[j] = SumByte(w[j - 1], s[j]) /\ v[j] = SumByte(v[j - 1], t[j])
      BY <1>7, <1>8, <3>1
    <3> DEFINE r == w[j - 1]
               q == v[j - 1]
               p == s[j]
               o == t[j]
               a == Above(d, j)
    <3>6. r \in Words /\ q \in Words /\ p \in Bytes /\ o \in Bytes /\ a \in Words /\ a \cap (0 .. 7) = {}
          /\ Xor(SumByte(r, p), SumByte(q, o)) = Shr(a, 8)
      BY <1>1, <1>7, <1>8, <3>1, <3>2, <3>4, <3>5
    <3>7. Xor(p, o) = d[j]
      BY <1>4, <3>1
    <3> HIDE DEF r, q, p, o, a
    <3>8. Xor(r, q) = Xor(Xor(p, o), a)
      BY <3>6, ByteBack
    <3>9. Xor(w[j - 1], v[j - 1]) = WordOf(d, j - 1)
      BY <3>4, <3>7, <3>8 DEF r, q, a
    <3> QED
      BY <3>1, <3>9
  <2> QED
    BY <2>1, <2>2
<1>15. U = Nat
  <2>1. U \subseteq Nat
    OBVIOUS
  <2> HIDE DEF U
  <2> QED
    BY <1>13, <1>14, <2>1, Descent
<1>16. WordOf(d, i - 1) = {}
  <2>1. n - (i - 1) \in Nat /\ n - (n - (i - 1)) = i - 1 /\ i - 1 >= i - 1
    BY <1>1
  <2>2. Xor(w[i - 1], v[i - 1]) = WordOf(d, i - 1)
    BY <1>15, <2>1
  <2> QED
    BY <1>12, <2>2 DEF Xor
<1>17. \A k \in Nat : d[k] = {}
  <2> DEFINE j == i - 1
  <2>1. j \in Nat /\ j + 1 = i /\ j + 2 = i + 1 /\ j + 3 = i + 2 /\ j + 4 = i + 3
    BY <1>1
  <2>2. WordOf(d, j) = {}
    BY <1>16
  <2> HIDE DEF j
  <2>3. d[j + 1] = {} /\ d[j + 2] = {} /\ d[j + 3] = {} /\ d[j + 4] = {}
    BY <1>2, <2>1, <2>2, WordShifts
  <2>4. d[i] = {} /\ d[i + 1] = {} /\ d[i + 2] = {} /\ d[i + 3] = {}
    BY <2>1, <2>3
  <2>5. \A k \in i .. i + 3 : k = i \/ k = i + 1 \/ k = i + 2 \/ k = i + 3
    BY <1>1
  <2> QED
    BY <1>3, <2>4, <2>5
<1>18. \A j \in 1 .. n : s[j] = t[j]
  <2>1. ASSUME NEW j \in 1 .. n PROVE s[j] = t[j]
    <3>1. Xor(s[j], t[j]) = {}
      BY <1>1, <1>4, <1>17
    <3> QED
      BY <3>1 DEF Xor
  <2> QED
    BY <2>1
<1> QED
  BY <1>1, <1>18, SeqEqual DEF n

-----------------------------------------------------------------------------
(* Words as numbers: addition bit by bit is the addition of C.               *)

\* The numbers of the words made of the n low bits.
IsLow(v, x) ==
  /\ v \in [0 .. 32 -> Nat] /\ v[0] = 0 /\ v[32] = Value(x)
  /\ \A n \in 1 .. 32 : v[n] = v[n - 1] + BitOf(x, n - 1) * 2^(n - 1)

\* The powers of two a word has room for.
LEMMA PowersDouble ==
  ASSUME NEW n \in 1 .. 32
  PROVE  2^(n - 1) \in Nat /\ 2^n = 2 * 2^(n - 1)
<1> DEFINE P(k) == 2^k
<1>1. P(0) = 1
  BY SMT
<1>2. /\ P(0) = 1 /\ P(1) = 2 /\ P(2) = 4 /\ P(3) = 8 /\ P(4) = 16 /\ P(5) = 32
      /\ P(6) = 64 /\ P(7) = 128 /\ P(8) = 256 /\ P(9) = 512 /\ P(10) = 1024
      /\ P(11) = 2048 /\ P(12) = 4096 /\ P(13) = 8192 /\ P(14) = 16384 /\ P(15) = 32768
      /\ P(16) = 65536 /\ P(17) = 131072 /\ P(18) = 262144 /\ P(19) = 524288 /\ P(20) = 1048576
      /\ P(21) = 2097152 /\ P(22) = 4194304 /\ P(23) = 8388608 /\ P(24) = 16777216 /\ P(25) = 33554432
      /\ P(26) = 67108864 /\ P(27) = 134217728 /\ P(28) = 268435456 /\ P(29) = 536870912 /\ P(30) = 1073741824
      /\ P(31) = 2147483648 /\ P(32) = 4294967296
  BY SMT
<1> HIDE DEF P
<1>3. P(n - 1) \in Nat /\ P(n) = 2 * P(n - 1)
  BY <1>2, SMT
<1> QED
  BY <1>3 DEF P

\* They exist for every word.
LEMMA LowExists ==
  ASSUME NEW x
  PROVE  \E v : IsLow(v, x)
<1> DEFINE A(n) == BitOf(x, n - 1) * 2^(n - 1)
           F == [n \in 1 .. 32 |-> [m \in Nat |-> m + A(n)]]
           W == CHOOSE f : f = [n \in 0 .. 32 |-> IF n = 0 THEN 0 ELSE f[n - 1] + A(n)]
<1>1. Value(x) = W[32]
  BY DEF Value
<1>2. ASSUME NEW n \in 1 .. 32 PROVE A(n) \in Nat
  <2> DEFINE p == 2^(n - 1)
  <2>1. p \in Nat
    BY PowersDouble
  <2> HIDE DEF p
  <2>2. BitOf(x, n - 1) * p \in Nat
    BY <2>1 DEF BitOf
  <2> QED
    BY <2>2 DEF p
<1> HIDE DEF A
<1>3. PICK h : IsSeqFold(h, 32, Nat, F, 0)
  <2>1. \A n \in 1 .. 32, m \in Nat : F[n][m] \in Nat
    <3>1. ASSUME NEW n \in 1 .. 32, NEW m \in Nat PROVE m + A(n) \in Nat
      <4>1. A(n) \in Nat
        BY <1>2
      <4> QED
        BY <4>1
    <3> QED
      BY <3>1
  <2> HIDE DEF F
  <2>2. 32 \in Nat /\ 0 \in Nat
    OBVIOUS
  <2> QED
    BY <2>1, <2>2, SeqFoldExists
<1> DEFINE v == [n \in 0 .. 32 |-> h[1 .. n]]
<1>4. /\ h \in [SUBSET (1 .. 32) -> Nat] /\ h[{}] = 0
      /\ \A s \in SUBSET (1 .. 32) : s # {} => h[s] = F[Max(s)][h[s \ {Max(s)}]]
  BY <1>3 DEF IsSeqFold
<1>5. ASSUME NEW n \in 1 .. 32 PROVE h[1 .. n] = h[1 .. n - 1] + A(n)
  <2>1. /\ 1 .. n \in SUBSET (1 .. 32) /\ 1 .. n - 1 \in SUBSET (1 .. 32) /\ 1 .. n # {}
        /\ Max(1 .. n) = n /\ (1 .. n) \ {Max(1 .. n)} = 1 .. n - 1
    BY 32 \in Nat, Places
  <2>2. h[1 .. n] = F[n][h[1 .. n - 1]] /\ h[1 .. n - 1] \in Nat
    BY <1>4, <2>1
  <2> QED
    BY <2>2
<1>6. ASSUME NEW n \in 0 .. 32 PROVE h[1 .. n] \in Nat
  <2>1. 1 .. n \in SUBSET (1 .. 32)
    OBVIOUS
  <2> QED
    BY <1>4, <2>1
<1>7. h[1 .. 0] = 0
  BY <1>4, 1 .. 0 = {}
<1>8. v \in [0 .. 32 -> Nat] /\ v[0] = 0 /\ \A n \in 1 .. 32 : v[n] = v[n - 1] + A(n)
  BY <1>5, <1>6, <1>7
<1> HIDE DEF F
<1>9. v = [n \in 0 .. 32 |-> IF n = 0 THEN 0 ELSE v[n - 1] + A(n)]
  <2>1. ASSUME NEW n \in 0 .. 32 PROVE v[n] = IF n = 0 THEN 0 ELSE v[n - 1] + A(n)
    <3>1. n # 0 => n \in 1 .. 32
      OBVIOUS
    <3> HIDE DEF v
    <3> QED
      BY <1>8, <3>1
  <2> QED
    BY <2>1
<1> HIDE DEF v
<1>10. W = [n \in 0 .. 32 |-> IF n = 0 THEN 0 ELSE W[n - 1] + A(n)]
  BY <1>9, Zenon
<1> HIDE DEF W
<1>11. W[0] = 0 /\ \A n \in 1 .. 32 : W[n] = W[n - 1] + A(n)
  BY <1>10
<1> DEFINE T == {n \in Nat : n <= 32 => W[n] = v[n]}
<1>12. T = Nat
  <2>1. 0 \in T
    BY <1>8, <1>11
  <2>2. ASSUME NEW n \in T PROVE n + 1 \in T
    <3>1. n \in Nat /\ n + 1 \in Nat /\ (n + 1) - 1 = n
      OBVIOUS
    <3>2. ASSUME n + 1 <= 32 PROVE W[n + 1] = v[n + 1]
      <4>1. n + 1 \in 1 .. 32 /\ W[n] = v[n]
        BY <3>1, <3>2
      <4>2. W[n + 1] = W[n] + A(n + 1) /\ v[n + 1] = v[n] + A(n + 1)
        BY <1>8, <1>11, <3>1, <4>1
      <4> QED
        BY <4>1, <4>2
    <3> QED
      BY <3>1, <3>2
  <2>3. T \subseteq Nat
    OBVIOUS
  <2> HIDE DEF T
  <2> QED
    BY <2>1, <2>2, <2>3, Descent
<1>13. W[32] = v[32]
  BY <1>12
<1>14. IsLow(v, x)
  BY <1>1, <1>8, <1>13 DEF IsLow, A
<1> QED
  BY <1>14

\* The carries of an addition.
IsCarry(c, x, y) ==
  /\ c \in [0 .. 32 -> {0, 1}] /\ c[0] = 0
  /\ \A n \in 1 .. 32 : c[n] = (BitOf(x, n - 1) + BitOf(y, n - 1) + c[n - 1]) \div 2
  /\ Plus(x, y) = {i \in Bits : (BitOf(x, i) + BitOf(y, i) + c[i]) % 2 = 1}

\* They exist for every two words.
LEMMA CarryExists ==
  ASSUME NEW x, NEW y
  PROVE  \E c : IsCarry(c, x, y)
<1> DEFINE A(n, m) == (BitOf(x, n - 1) + BitOf(y, n - 1) + m) \div 2
           F == [n \in 1 .. 32 |-> [m \in {0, 1} |-> A(n, m)]]
           W == CHOOSE f : f = [n \in 0 .. 32 |-> IF n = 0 THEN 0 ELSE A(n, f[n - 1])]
<1>1. Plus(x, y) = {i \in Bits : (BitOf(x, i) + BitOf(y, i) + W[i]) % 2 = 1}
  BY DEF Plus
<1>2. ASSUME NEW n \in 1 .. 32, NEW m \in {0, 1} PROVE A(n, m) \in {0, 1}
  BY DEF BitOf
<1> HIDE DEF A
<1>3. PICK h : IsSeqFold(h, 32, {0, 1}, F, 0)
  <2>1. \A n \in 1 .. 32, m \in {0, 1} : F[n][m] \in {0, 1}
    BY <1>2
  <2> HIDE DEF F
  <2> DEFINE R == {0, 1}
  <2>2. 32 \in Nat /\ 0 \in R /\ \A n \in 1 .. 32, m \in R : F[n][m] \in R
    BY <2>1
  <2> HIDE DEF R
  <2>3. \E h : IsSeqFold(h, 32, R, F, 0)
    BY <2>2, SeqFoldExists
  <2> QED
    BY <2>3 DEF R
<1> DEFINE v == [n \in 0 .. 32 |-> h[1 .. n]]
<1>4. /\ h \in [SUBSET (1 .. 32) -> {0, 1}] /\ h[{}] = 0
      /\ \A s \in SUBSET (1 .. 32) : s # {} => h[s] = F[Max(s)][h[s \ {Max(s)}]]
  BY <1>3 DEF IsSeqFold
<1>5. ASSUME NEW n \in 1 .. 32 PROVE h[1 .. n] = A(n, h[1 .. n - 1])
  <2>1. /\ 1 .. n \in SUBSET (1 .. 32) /\ 1 .. n - 1 \in SUBSET (1 .. 32) /\ 1 .. n # {}
        /\ Max(1 .. n) = n /\ (1 .. n) \ {Max(1 .. n)} = 1 .. n - 1
    BY 32 \in Nat, Places
  <2>2. h[1 .. n] = F[n][h[1 .. n - 1]] /\ h[1 .. n - 1] \in {0, 1}
    BY <1>4, <2>1
  <2> QED
    BY <2>2
<1>6. ASSUME NEW n \in 0 .. 32 PROVE h[1 .. n] \in {0, 1}
  <2>1. 1 .. n \in SUBSET (1 .. 32)
    OBVIOUS
  <2> QED
    BY <1>4, <2>1
<1>7. h[1 .. 0] = 0
  BY <1>4, 1 .. 0 = {}
<1>8. v \in [0 .. 32 -> {0, 1}] /\ v[0] = 0 /\ \A n \in 1 .. 32 : v[n] = A(n, v[n - 1])
  BY <1>5, <1>6, <1>7
<1> HIDE DEF F
<1>9. v = [n \in 0 .. 32 |-> IF n = 0 THEN 0 ELSE A(n, v[n - 1])]
  <2>1. ASSUME NEW n \in 0 .. 32 PROVE v[n] = IF n = 0 THEN 0 ELSE A(n, v[n - 1])
    <3>1. n # 0 => n \in 1 .. 32
      OBVIOUS
    <3> HIDE DEF v
    <3> QED
      BY <1>8, <3>1
  <2> QED
    BY <2>1
<1> HIDE DEF v
<1>10. W = [n \in 0 .. 32 |-> IF n = 0 THEN 0 ELSE A(n, W[n - 1])]
  BY <1>9, Zenon
<1> HIDE DEF W
<1>11. W[0] = 0 /\ DOMAIN W = 0 .. 32 /\ \A n \in 1 .. 32 : W[n] = A(n, W[n - 1])
  BY <1>10
<1> DEFINE T == {n \in Nat : n <= 32 => W[n] \in {0, 1}}
<1>12. T = Nat
  <2>1. 0 \in T
    BY <1>11
  <2>2. ASSUME NEW n \in T PROVE n + 1 \in T
    <3>1. n \in Nat /\ n + 1 \in Nat /\ (n + 1) - 1 = n
      OBVIOUS
    <3>2. ASSUME n + 1 <= 32 PROVE W[n + 1] \in {0, 1}
      <4>1. n + 1 \in 1 .. 32 /\ W[n] \in {0, 1}
        BY <3>1, <3>2
      <4>2. W[n + 1] = A(n + 1, W[n])
        BY <1>11, <3>1, <4>1
      <4> QED
        BY <1>2, <4>1, <4>2
    <3> QED
      BY <3>1, <3>2
  <2>3. T \subseteq Nat
    OBVIOUS
  <2> HIDE DEF T
  <2> QED
    BY <2>1, <2>2, <2>3, Descent
<1>13. W \in [0 .. 32 -> {0, 1}]
  <2>1. \A n \in 0 .. 32 : W[n] \in {0, 1}
    BY <1>12
  <2>2. W = [n \in 0 .. 32 |-> W[n]]
    BY <1>10
  <2> QED
    BY <2>1, <2>2
<1>14. IsCarry(W, x, y)
  BY <1>1, <1>11, <1>13 DEF IsCarry, A
<1> QED
  BY <1>14

\* One bit of an addition.
LEMMA AddBit ==
  ASSUME NEW x, NEW y, NEW c, IsCarry(c, x, y), NEW n \in 0 .. 31
  PROVE  BitOf(x, n) + BitOf(y, n) + c[n] = 2 * c[n + 1] + BitOf(Plus(x, y), n)
<1> DEFINE s == BitOf(x, n) + BitOf(y, n) + c[n]
<1>1. c[n] \in {0, 1} /\ n + 1 \in 1 .. 32 /\ (n + 1) - 1 = n
  BY DEF IsCarry
<1>2. s \in 0 .. 3
  BY <1>1 DEF BitOf
<1>3. c[n + 1] = s \div 2
  <2>1. c[n + 1] = (BitOf(x, (n + 1) - 1) + BitOf(y, (n + 1) - 1) + c[(n + 1) - 1]) \div 2
    BY <1>1 DEF IsCarry
  <2> QED
    BY <1>1, <2>1
<1>4. (n \in Plus(x, y)) <=> ((s % 2) = 1)
  BY DEF IsCarry, Bits
<1> HIDE DEF s
<1>5. s = 2 * (s \div 2) + (s % 2) /\ (s % 2) \in {0, 1}
  <2>1. s = 0 \/ s = 1 \/ s = 2 \/ s = 3
    BY <1>2
  <2> QED
    BY <2>1
<1>6. BitOf(Plus(x, y), n) = s % 2
  BY <1>4, <1>5 DEF BitOf
<1> QED
  BY <1>3, <1>5, <1>6 DEF s

\* The model's addition of words is the addition of C's unsigned numbers, of
\* which fast-hash32.h is made: the carries between the positions are those of
\* the numbers, and what leaves the word is a multiple of 2^32.
THEOREM PlusExact ==
  ASSUME NEW x \in Words, NEW y \in Words
  PROVE  Value(Plus(x, y)) = (Value(x) + Value(y)) % 4294967296
<1> DEFINE z == Plus(x, y)
<1>1. PICK u : IsLow(u, x)
  BY LowExists
<1>2. PICK v : IsLow(v, y)
  BY LowExists
<1>3. PICK w : IsLow(w, z)
  <2> HIDE DEF z
  <2> QED
    BY LowExists
<1>4. PICK c : IsCarry(c, x, y)
  BY CarryExists
<1> DEFINE T == {n \in Nat : n <= 32 => u[n] + v[n] = w[n] + c[n] * 2^n /\ w[n] < 2^n}
<1>5. 0 \in T
  <2>1. 2^0 = 1
    BY SMT
  <2>2. u[0] = 0 /\ v[0] = 0 /\ w[0] = 0 /\ c[0] = 0
    BY <1>1, <1>2, <1>3, <1>4 DEF IsLow, IsCarry
  <2> HIDE DEF z
  <2> QED
    BY <2>1, <2>2
<1>6. ASSUME NEW n \in T PROVE n + 1 \in T
  <2>1. n \in Nat /\ n + 1 \in Nat /\ (n + 1) - 1 = n
    OBVIOUS
  <2>2. ASSUME n + 1 <= 32
        PROVE  u[n + 1] + v[n + 1] = w[n + 1] + c[n + 1] * 2^(n + 1) /\ w[n + 1] < 2^(n + 1)
    <3> DEFINE p == 2^n
               q == 2^(n + 1)
               a == BitOf(x, n)
               b == BitOf(y, n)
               e == BitOf(z, n)
    <3>1. n + 1 \in 1 .. 32 /\ n \in 0 .. 32 /\ n \in 0 .. 31
      BY <2>1, <2>2
    <3>2. p \in Nat /\ q = 2 * p
      <4> DEFINE k == n + 1
      <4>1. k \in 1 .. 32 /\ k - 1 = n
        BY <2>1, <3>1
      <4> HIDE DEF k
      <4>2. 2^(k - 1) \in Nat /\ 2^k = 2 * 2^(k - 1)
        BY <4>1, PowersDouble
      <4>3. 2^n \in Nat /\ 2^k = 2 * 2^n
        BY <4>1, <4>2
      <4> QED
        BY <4>3 DEF k
    <3>3. u[n] + v[n] = w[n] + c[n] * p /\ w[n] < p
      BY <3>1
    <3> HIDE DEF T, z, p, q
    <3>4. u[n + 1] = u[n] + a * p /\ v[n + 1] = v[n] + b * p /\ w[n + 1] = w[n] + e * p
      <4>1. /\ u[n + 1] = u[(n + 1) - 1] + BitOf(x, (n + 1) - 1) * 2^((n + 1) - 1)
            /\ v[n + 1] = v[(n + 1) - 1] + BitOf(y, (n + 1) - 1) * 2^((n + 1) - 1)
            /\ w[n + 1] = w[(n + 1) - 1] + BitOf(z, (n + 1) - 1) * 2^((n + 1) - 1)
        BY <1>1, <1>2, <1>3, <3>1 DEF IsLow
      <4> QED
        BY <2>1, <4>1, Zenon DEF p
    <3>5. u[n] \in Nat /\ v[n] \in Nat /\ w[n] \in Nat /\ c[n] \in {0, 1} /\ c[n + 1] \in {0, 1}
      BY <1>1, <1>2, <1>3, <1>4, <3>1 DEF IsLow, IsCarry
    <3>6. a \in {0, 1} /\ b \in {0, 1} /\ e \in {0, 1}
      BY DEF BitOf
    <3>7. a + b + c[n] = 2 * c[n + 1] + e
      BY <1>4, <3>1, AddBit DEF z
    <3> HIDE DEF a, b, e
    <3>8. u[n + 1] + v[n + 1] = w[n + 1] + c[n + 1] * q
      <4>1. c[n] * p \in Nat /\ a * p \in Nat /\ b * p \in Nat /\ e * p \in Nat
        BY <3>2, <3>5, <3>6
      <4>2. a * p + b * p + c[n] * p = c[n + 1] * q + e * p
        <5>1. c[n] = 0 \/ c[n] = 1
          BY <3>5
        <5>2. c[n + 1] = 0 \/ c[n + 1] = 1
          BY <3>5
        <5>3. (a = 0 \/ a = 1) /\ (b = 0 \/ b = 1) /\ (e = 0 \/ e = 1)
          BY <3>6
        <5> QED
          BY <3>2, <3>7, <5>1, <5>2, <5>3
      <4> QED
        BY <3>2, <3>3, <3>4, <3>5, <4>1, <4>2
    <3>9. w[n + 1] < q
      <4>1. e = 0 \/ e = 1
        BY <3>6
      <4> QED
        BY <3>2, <3>3, <3>4, <3>5, <4>1
    <3> QED
      BY <3>8, <3>9 DEF q
  <2> QED
    BY <2>1, <2>2
<1>7. T = Nat
  <2>1. T \subseteq Nat
    OBVIOUS
  <2> HIDE DEF T
  <2> QED
    BY <1>5, <1>6, <2>1, Descent
<1>8. u[32] + v[32] = w[32] + c[32] * 2^32 /\ w[32] < 2^32
  <2>1. 32 \in Nat /\ 32 <= 32
    OBVIOUS
  <2>2. 32 \in T
    <3> HIDE DEF T
    <3> QED
      BY <1>7, <2>1
  <2> HIDE DEF z
  <2>3. 32 <= 32 => u[32] + v[32] = w[32] + c[32] * 2^32 /\ w[32] < 2^32
    BY <2>2, Zenon
  <2> QED
    BY <2>1, <2>3, Zenon
<1>9. 2^32 = 4294967296
  BY SMT
<1> HIDE DEF z, T
<1>10. u[32] = Value(x) /\ v[32] = Value(y) /\ w[32] = Value(z) /\ w[32] \in Nat /\ c[32] \in {0, 1}
  <2>1. 32 \in 0 .. 32
    OBVIOUS
  <2>2. u[32] = Value(x)
    BY <1>1 DEF IsLow
  <2>3. v[32] = Value(y)
    BY <1>2 DEF IsLow
  <2>4. w[32] = Value(z) /\ w[32] \in Nat
    BY <1>3, <2>1 DEF IsLow
  <2>5. c[32] \in {0, 1}
    BY <1>4, <2>1 DEF IsCarry
  <2> QED
    BY <2>2, <2>3, <2>4, <2>5
<1> DEFINE r == Value(z)
           t == Value(x) + Value(y)
<1>11. t = r + c[32] * 4294967296 /\ r < 4294967296 /\ r \in Nat /\ (c[32] = 0 \/ c[32] = 1)
  BY <1>8, <1>9, <1>10
<1> HIDE DEF r, t
<1>12. t % 4294967296 = r
  BY <1>11
<1> QED
  BY <1>12 DEF r, t, z
=============================================================================
