------------------------------ MODULE QueueLemmas ------------------------------
(***************************************************************************)
(* What adding an element to a sequence and taking its first do to the     *)
(* elements it holds, to their being distinct and in order of priority,    *)
(* and to the links of a singly linked list that holds them; and the       *)
(* arithmetic of indices that go round an array.                           *)
(***************************************************************************)
EXTENDS Integers, Sequences, SequencesExt, SequenceTheorems, FiniteSetTheorems, TLAPS

\* InsertAt, element by element.
LEMMA InsertAtProps ==
  ASSUME NEW S, NEW q \in Seq(S), NEW e \in S, NEW k \in 1..Len(q)+1
  PROVE  /\ InsertAt(q, k, e) \in Seq(S)
         /\ Len(InsertAt(q, k, e)) = Len(q) + 1
         /\ \A i \in 1..Len(q)+1 :
              InsertAt(q, k, e)[i] = IF i < k THEN q[i]
                                     ELSE IF i = k THEN e ELSE q[i-1]
<1> DEFINE a == SubSeq(q, 1, k-1)
           b == SubSeq(q, k, Len(q))
<1>1. a \in Seq(S) /\ Len(a) = k-1 /\ \A i \in 1..k-1 : a[i] = q[i]
  OBVIOUS
<1>2. b \in Seq(S) /\ Len(b) = Len(q)-k+1 /\ \A i \in 1..Len(q)-k+1 : b[i] = q[k+i-1]
  OBVIOUS
<1>3. InsertAt(q, k, e) = a \o <<e>> \o b
  BY DEF InsertAt
<1> DEFINE c == a \o <<e>>
<1> HIDE DEF a, b
<1>4. /\ c \in Seq(S) /\ Len(c) = k
      /\ \A i \in 1..k : c[i] = IF i < k THEN q[i] ELSE e
  BY <1>1
<1>5. InsertAt(q, k, e) = c \o b
  BY <1>3
<1> HIDE DEF c
<1>6. /\ c \o b \in Seq(S) /\ Len(c \o b) = Len(q) + 1
      /\ \A i \in 1..Len(q)+1 : (c \o b)[i] = IF i <= k THEN c[i] ELSE b[i-k]
  <2>1. c \o b \in Seq(S) /\ Len(c \o b) = Len(c) + Len(b)
    BY <1>2, <1>4, ConcatProperties
  <2>2. \A i \in 1..Len(c)+Len(b) :
          (c \o b)[i] = IF i <= Len(c) THEN c[i] ELSE b[i-Len(c)]
    BY <1>2, <1>4, ConcatProperties
  <2>3. Len(c) + Len(b) = Len(q) + 1
    BY <1>2, <1>4
  <2>4. QED
    BY <2>1, <2>2, <2>3, <1>4
<1>7. ASSUME NEW i \in 1..Len(q)+1
      PROVE  InsertAt(q, k, e)[i] = IF i < k THEN q[i]
                                     ELSE IF i = k THEN e ELSE q[i-1]
  <2>1. CASE i <= k
    BY <2>1, <1>4, <1>5, <1>6
  <2>2. CASE i > k
    <3>1. i-k \in 1..Len(q)-k+1 /\ k+(i-k)-1 = i-1
      BY <2>2
    <3>2. b[i-k] = q[i-1]
      BY <3>1, <1>2
    <3>3. QED
      BY <2>2, <3>2, <1>5, <1>6
  <2>3. QED
    BY <2>1, <2>2
<1>8. QED
  BY <1>5, <1>6, <1>7

\* InsertAt adds one element, and a new one keeps distinct elements distinct.
LEMMA InsertAtSet ==
  ASSUME NEW S, NEW q \in Seq(S), NEW e \in S, NEW k \in 1..Len(q)+1
  PROVE  /\ ToSet(InsertAt(q, k, e)) = ToSet(q) \cup {e}
         /\ IsInjective(q) /\ e \notin ToSet(q) => IsInjective(InsertAt(q, k, e))
<1> DEFINE p == InsertAt(q, k, e)
           n == Len(q)
<1>2. /\ p \in Seq(S) /\ Len(p) = n + 1
      /\ \A i \in 1..n+1 : p[i] = IF i < k THEN q[i] ELSE IF i = k THEN e ELSE q[i-1]
  BY InsertAtProps
<1> HIDE DEF p
<1>3. n \in Nat /\ DOMAIN q = 1..n /\ DOMAIN p = 1..n+1
  BY <1>2
<1>4. \A i \in 1..n : \E j \in 1..n+1 : j # k /\ p[j] = q[i]
  <2> TAKE i \in 1..n
  <2>1. CASE i < k
    BY <2>1, <1>2, <1>3
  <2>2. CASE i >= k
    <3>1. i+1 \in 1..n+1 /\ i+1 > k /\ (i+1)-1 = i
      BY <2>2
    <3>2. p[i+1] = q[(i+1)-1]
      BY <3>1, <1>2
    <3>3. QED
      BY <3>1, <3>2
  <2>3. QED
    BY <2>1, <2>2
<1>5. \A j \in 1..n+1 : j # k => p[j] \in ToSet(q)
  <2> SUFFICES ASSUME NEW j \in 1..n+1, j # k
               PROVE  p[j] \in ToSet(q)
    OBVIOUS
  <2>1. CASE j < k
    <3>1. j \in DOMAIN q /\ p[j] = q[j]
      BY <2>1, <1>2, <1>3
    <3>2. QED
      BY <3>1 DEF ToSet
  <2>2. CASE j > k
    <3>1. j-1 \in DOMAIN q /\ p[j] = q[j-1]
      BY <2>2, <1>2, <1>3
    <3>2. QED
      BY <3>1 DEF ToSet
  <2>3. QED
    BY <2>1, <2>2
<1>6. p[k] = e
  BY <1>2
<1>7. ToSet(p) = ToSet(q) \cup {e}
  <2>1. ToSet(p) \subseteq ToSet(q) \cup {e}
    BY <1>3, <1>5, <1>6 DEF ToSet
  <2>2. ToSet(q) \cup {e} \subseteq ToSet(p)
    BY <1>3, <1>4, <1>6 DEF ToSet
  <2>3. QED
    BY <2>1, <2>2
<1>8. ASSUME IsInjective(q), e \notin ToSet(q)
      PROVE  IsInjective(p)
  <2>1. SUFFICES ASSUME NEW i \in 1..n+1, NEW j \in 1..n+1,
                        i < j, p[i] = p[j]
                 PROVE  FALSE
    BY <1>3 DEF IsInjective
  <2>2. i # k /\ j # k
    BY <2>1, <1>5, <1>6, <1>8
  <2> DEFINE f(x) == IF x < k THEN x ELSE x-1
  <2>3. f(i) \in 1..n /\ f(j) \in 1..n /\ f(i) # f(j)
    BY <2>1, <2>2, <1>3
  <2>4. p[i] = q[f(i)] /\ p[j] = q[f(j)]
    BY <2>2, <1>2, <1>3
  <2>5. QED
    BY <2>1, <2>3, <2>4, <1>3, <1>8 DEF IsInjective
<1>9. QED
  BY <1>7, <1>8 DEF p

\* Append and prefixing are insertions at either end.
LEMMA EndsAreInsertAt ==
  ASSUME NEW S, NEW q \in Seq(S), NEW e \in S
  PROVE  Append(q, e) = InsertAt(q, Len(q)+1, e) /\ <<e>> \o q = InsertAt(q, 1, e)
<1>1. /\ InsertAt(q, Len(q)+1, e) \in Seq(S) /\ Len(InsertAt(q, Len(q)+1, e)) = Len(q) + 1
      /\ \A i \in 1..Len(q)+1 :
           InsertAt(q, Len(q)+1, e)[i] = IF i < Len(q)+1 THEN q[i] ELSE e
  BY InsertAtProps
<1>2. /\ InsertAt(q, 1, e) \in Seq(S) /\ Len(InsertAt(q, 1, e)) = Len(q) + 1
      /\ \A i \in 1..Len(q)+1 :
           InsertAt(q, 1, e)[i] = IF i = 1 THEN e ELSE q[i-1]
  BY InsertAtProps
<1>3. Append(q, e) = InsertAt(q, Len(q)+1, e)
  <2>1. /\ Append(q, e) \in Seq(S) /\ Len(Append(q, e)) = Len(q) + 1
        /\ \A i \in 1..Len(q)+1 : Append(q, e)[i] = IF i < Len(q)+1 THEN q[i] ELSE e
    OBVIOUS
  <2>2. QED
    BY <1>1, <2>1, SeqEqual
<1>4. <<e>> \o q = InsertAt(q, 1, e)
  <2>1. <<e>> \in Seq(S) /\ Len(<<e>>) = 1 /\ <<e>>[1] = e
    OBVIOUS
  <2> DEFINE s == <<e>>
  <2> HIDE DEF s
  <2>2. /\ s \o q \in Seq(S) /\ Len(s \o q) = Len(q) + 1
        /\ \A i \in 1..Len(q)+1 : (s \o q)[i] = IF i = 1 THEN e ELSE q[i-1]
    BY <2>1, ConcatProperties DEF s
  <2>3. QED
    BY <1>2, <2>2, SeqEqual DEF s
<1>5. QED
  BY <1>3, <1>4

\* Tail drops the first element.
LEMMA TailSet ==
  ASSUME NEW S, NEW q \in Seq(S), q # <<>>, IsInjective(q)
  PROVE  ToSet(Tail(q)) = ToSet(q) \ {Head(q)} /\ IsInjective(Tail(q))
<1>1. /\ Len(q) \in Nat \ {0} /\ DOMAIN q = 1..Len(q)
      /\ Head(q) = q[1] /\ Tail(q) \in Seq(S)
      /\ Len(Tail(q)) = Len(q)-1 /\ DOMAIN Tail(q) = 1..Len(q)-1
      /\ \A i \in 1..Len(q)-1 : Tail(q)[i] = q[i+1]
  OBVIOUS
<1>2. \A i \in 1..Len(q) : i # 1 => q[i] # q[1] /\ i-1 \in 1..Len(q)-1
  BY <1>1 DEF IsInjective
<1>3. ToSet(Tail(q)) \subseteq ToSet(q) \ {Head(q)}
  BY <1>2, <1>1 DEF ToSet
<1>4. \A i \in 1..Len(q) : q[i] # Head(q) => q[i] \in ToSet(Tail(q))
  <2> SUFFICES ASSUME NEW i \in 1..Len(q), q[i] # Head(q)
               PROVE  q[i] \in ToSet(Tail(q))
    OBVIOUS
  <2>1. i-1 \in 1..Len(q)-1 /\ (i-1)+1 = i
    BY <1>1
  <2>2. QED
    BY <2>1, <1>1 DEF ToSet
<1>5. ToSet(q) \ {Head(q)} \subseteq ToSet(Tail(q))
  BY <1>4, <1>1 DEF ToSet
<1>6. IsInjective(Tail(q))
  <2>1. SUFFICES ASSUME NEW i \in 1..Len(q)-1, NEW j \in 1..Len(q)-1,
                        Tail(q)[i] = Tail(q)[j]
                 PROVE  i = j
    BY <1>1 DEF IsInjective
  <2>2. q[i+1] = q[j+1] /\ i+1 \in DOMAIN q /\ j+1 \in DOMAIN q
    BY <2>1, <1>1
  <2>3. i+1 = j+1
    BY <2>2 DEF IsInjective
  <2>4. QED
    BY <2>3
<1>7. QED
  BY <1>3, <1>5, <1>6
-----------------------------------------------------------------------------
(* Order of priority. *)

Descending(q, rank) ==
  \A i, j \in 1..Len(q) : i < j => rank[q[i]] >= rank[q[j]]

\* An element inserted behind those it does not outrank, in front of one it
\* does, keeps the order, and all that come after it rank below it.
LEMMA DescendingInsert ==
  ASSUME NEW S, NEW rank \in [S -> Nat], NEW q \in Seq(S), NEW e \in S,
         NEW k \in 1..Len(q)+1, Descending(q, rank),
         \A i \in 1..k-1 : rank[q[i]] >= rank[e],
         k <= Len(q) => rank[q[k]] < rank[e]
  PROVE  /\ Descending(InsertAt(q, k, e), rank)
         /\ \A j \in 1..Len(q)+1 : k < j => rank[InsertAt(q, k, e)[j]] < rank[e]
<1> DEFINE n == Len(q)
           p == InsertAt(q, k, e)
<1>1. /\ p \in Seq(S) /\ Len(p) = n + 1
      /\ \A i \in 1..n+1 : p[i] = IF i < k THEN q[i] ELSE IF i = k THEN e ELSE q[i-1]
  BY InsertAtProps
<1>2. /\ n \in Nat /\ \A i \in 1..n : rank[q[i]] \in Nat
      /\ rank[e] \in Nat
      /\ \A i, j \in 1..n : i < j => rank[q[i]] >= rank[q[j]]
  BY DEF Descending
<1> HIDE DEF p
<1>3. ASSUME NEW j \in 1..n+1, k < j
      PROVE  p[j] = q[j-1] /\ j-1 \in 1..n /\ rank[q[j-1]] < rank[e]
  <2>1. p[j] = q[j-1] /\ j-1 \in 1..n /\ k \in 1..n
    BY <1>1, <1>3
  <2>2. k < j-1 \/ k = j-1
    BY <1>3
  <2>3. rank[q[k]] >= rank[q[j-1]]
    BY <2>1, <2>2, <1>2
  <2>4. QED
    BY <2>1, <2>3, <1>2
<1>4. ASSUME NEW i \in 1..n+1, NEW j \in 1..n+1, i < j
      PROVE  rank[p[i]] >= rank[p[j]]
  <2>1. CASE j < k
    <3>1. i < k /\ i \in 1..n /\ j \in 1..n
      BY <2>1, <1>2, <1>4
    <3>2. p[i] = q[i] /\ p[j] = q[j]
      BY <3>1, <2>1, <1>1
    <3>3. QED
      BY <3>1, <3>2, <1>2, <1>4
  <2>2. CASE j = k
    <3>1. p[i] = q[i] /\ p[j] = e /\ i \in 1..k-1
      BY <2>2, <1>1, <1>4
    <3>2. QED
      BY <3>1
  <2>3. CASE j > k
    <3>1. p[j] = q[j-1] /\ j-1 \in 1..n /\ rank[q[j-1]] < rank[e]
      BY <2>3, <1>3
    <3>2. CASE i < k
      <4>1. p[i] = q[i] /\ i \in 1..n /\ i < j-1
        BY <3>2, <2>3, <1>1, <1>2
      <4>2. QED
        BY <4>1, <3>1, <1>2
    <3>3. CASE i = k
      BY <3>3, <3>1, <1>1, <1>2
    <3>4. CASE i > k
      <4>1. p[i] = q[i-1] /\ i-1 \in 1..n /\ i-1 < j-1
        BY <3>4, <1>1, <1>2, <1>4
      <4>2. QED
        BY <4>1, <3>1, <1>2
    <3>5. QED
      BY <3>2, <3>3, <3>4
  <2>4. QED
    BY <2>1, <2>2, <2>3
<1>5. QED
  BY <1>1, <1>3, <1>4 DEF Descending, p

\* The first is one of the highest, and the rest stays in order.
LEMMA DescendingTail ==
  ASSUME NEW S, NEW rank \in [S -> Nat], NEW q \in Seq(S), q # <<>>,
         Descending(q, rank)
  PROVE  /\ Descending(Tail(q), rank)
         /\ \A x \in ToSet(q) : rank[x] <= rank[Head(q)]
<1>1. /\ Len(q) \in Nat \ {0} /\ DOMAIN q = 1..Len(q) /\ Head(q) = q[1]
      /\ Len(Tail(q)) = Len(q)-1
      /\ \A i \in 1..Len(q)-1 : Tail(q)[i] = q[i+1]
  OBVIOUS
<1>2. \A i, j \in 1..Len(q) : i < j => rank[q[i]] >= rank[q[j]]
  BY DEF Descending
<1>3. Descending(Tail(q), rank)
  <2>1. SUFFICES ASSUME NEW i \in 1..Len(q)-1, NEW j \in 1..Len(q)-1, i < j
                 PROVE  rank[Tail(q)[i]] >= rank[Tail(q)[j]]
    BY <1>1 DEF Descending
  <2>2. i+1 \in 1..Len(q) /\ j+1 \in 1..Len(q) /\ i+1 < j+1
    BY <2>1, <1>1
  <2>3. QED
    BY <2>2, <1>1, <1>2
<1>4. \A i \in 1..Len(q) : rank[q[i]] <= rank[q[1]]
  <2> TAKE i \in 1..Len(q)
  <2>1. rank[q[i]] \in Nat /\ rank[q[1]] \in Nat /\ 1 \in 1..Len(q)
    BY <1>1
  <2>2. CASE i = 1
    BY <2>1, <2>2
  <2>3. CASE i > 1
    BY <2>1, <2>3, <1>2
  <2>4. QED
    BY <2>2, <2>3
<1>5. QED
  BY <1>1, <1>3, <1>4 DEF ToSet

-----------------------------------------------------------------------------
(* Linked lists. *)

\* From first to last, along the links, the list spells q; null ends it.
Spells(first, last, link, q, null) ==
  /\ IF q = <<>> THEN first = null /\ last = null
                 ELSE first = q[1] /\ last = q[Len(q)]
  /\ \A i \in 1..Len(q) : link[q[i]] = IF i = Len(q) THEN null ELSE q[i+1]

\* The two stores that insert e at position k, and the stores to the ends.
LEMMA SpellsInsert ==
  ASSUME NEW S, NEW null, NEW q \in Seq(S), IsInjective(q), NEW e \in S, e \notin ToSet(q),
         NEW k \in 1..Len(q)+1,
         NEW first, NEW last, NEW link, Spells(first, last, link, q, null),
         NEW first2, NEW last2, NEW link2,
         k = 1 => first2 = e, k > 1 => first2 = first,
         k = Len(q)+1 => last2 = e, k <= Len(q) => last2 = last,
         link2[e] = IF k = Len(q)+1 THEN null ELSE q[k],
         k > 1 => link2[q[k-1]] = e,
         \A x \in S : x # e /\ (k > 1 => x # q[k-1]) => link2[x] = link[x]
  PROVE  Spells(first2, last2, link2, InsertAt(q, k, e), null)
<1> DEFINE n == Len(q)
           p == InsertAt(q, k, e)
<1>1. /\ n \in Nat
      /\ \A i \in 1..n : q[i] \in S /\ q[i] # e
      /\ \A i, j \in 1..n : q[i] = q[j] => i = j
  <2>1. n \in Nat /\ DOMAIN q = 1..n /\ \A i \in 1..n : q[i] \in S
    OBVIOUS
  <2>2. QED
    BY <2>1 DEF ToSet, IsInjective
<1>2. /\ p \in Seq(S) /\ Len(p) = n + 1
      /\ \A i \in 1..n+1 : p[i] = IF i < k THEN q[i] ELSE IF i = k THEN e ELSE q[i-1]
  BY InsertAtProps
<1> HIDE DEF p
<1>3. /\ q # <<>> => first = q[1] /\ last = q[n] /\ n \in 1..n /\ 1 \in 1..n
      /\ \A i \in 1..n : link[q[i]] = IF i = n THEN null ELSE q[i+1]
      /\ q = <<>> => n = 0
  <2>1. q # <<>> => n # 0
    OBVIOUS
  <2>2. QED
    BY <1>1, <2>1 DEF Spells
<1>4. p # <<>>
  BY <1>1, <1>2
<1>5. first2 = p[1] /\ last2 = p[n+1]
  <2>1. CASE k = 1
    <3>1. first2 = p[1]
      BY <2>1, <1>1, <1>2
    <3>2. k = n+1 => last2 = p[n+1]
      BY <1>1, <1>2
    <3>3. k # n+1 => last2 = last /\ p[n+1] = q[n] /\ q # <<>>
      BY <2>1, <1>1, <1>2, <1>3
    <3>4. QED
      BY <3>1, <3>2, <3>3, <1>3
  <2>2. CASE k > 1
    <3>1. q # <<>> /\ 1 \in 1..n
      BY <2>2, <1>1, <1>3
    <3>2. first2 = first /\ p[1] = q[1]
      BY <2>2, <1>1, <1>2
    <3>3. k = n+1 => last2 = p[n+1]
      BY <1>1, <1>2
    <3>4. k # n+1 => last2 = last /\ p[n+1] = q[n]
      BY <1>1, <1>2
    <3>5. QED
      BY <3>1, <3>2, <3>3, <3>4, <1>3
  <2>3. QED
    BY <2>1, <2>2, <1>1
<1>6. ASSUME NEW i \in 1..n+1
      PROVE  link2[p[i]] = IF i = n+1 THEN null ELSE p[i+1]
  <2>1. CASE i = k
    <3>1. p[i] = e /\ link2[e] = IF k = n+1 THEN null ELSE q[k]
      BY <2>1, <1>2
    <3>2. k # n+1 => p[k+1] = q[(k+1)-1] /\ (k+1)-1 = k
      BY <1>1, <1>2
    <3>3. QED
      BY <2>1, <3>1, <3>2
  <2>2. CASE i < k-1
    <3>1. i < k /\ i+1 < k /\ i+1 \in 1..n+1 /\ i \in 1..n /\ i # n /\ k-1 \in 1..n /\ i # k-1
          /\ i # n+1
      BY <2>2, <1>1
    <3>2. p[i] = q[i] /\ p[i+1] = q[i+1]
      BY <3>1, <1>2
    <3>3. link2[q[i]] = link[q[i]]
      BY <3>1, <1>1
    <3>4. QED
      BY <3>1, <3>2, <3>3, <1>3
  <2>3. CASE i = k-1
    <3>1. p[i] = q[k-1] /\ p[i+1] = e /\ k > 1 /\ i # n+1
      BY <2>3, <1>1, <1>2
    <3>2. QED
      BY <3>1
  <2>4. CASE i > k
    <3>1. p[i] = q[i-1] /\ i-1 \in 1..n /\ i-1 # k-1 /\ (k > 1 => k-1 \in 1..n)
      BY <2>4, <1>1, <1>2
    <3>2. link2[q[i-1]] = link[q[i-1]]
      BY <3>1, <1>1
    <3>3. link[q[i-1]] = IF i-1 = n THEN null ELSE q[(i-1)+1]
      BY <3>1, <1>3
    <3>4. i # n+1 => i+1 \in 1..n+1 /\ i+1 > k /\ (i+1)-1 = (i-1)+1
      BY <2>4, <1>1
    <3>5. i # n+1 => p[i+1] = q[(i-1)+1]
      BY <3>4, <1>2
    <3>6. i-1 = n <=> i = n+1
      <4>1. n \in Nat /\ i \in 1..n+1
        BY <1>1
      <4> HIDE DEF n
      <4>2. QED
        BY <4>1
    <3>7. QED
      BY <3>1, <3>2, <3>3, <3>5, <3>6
  <2>5. QED
    BY <2>1, <2>2, <2>3, <2>4, <1>1
<1>7. QED
  BY <1>2, <1>4, <1>5, <1>6 DEF Spells, p

\* What the ends and the links of a list say of its elements.
LEMMA SpellsProps ==
  ASSUME NEW S, NEW null, null \notin S, NEW q \in Seq(S),
         NEW first, NEW last, NEW link, Spells(first, last, link, q, null)
  PROVE  /\ Len(q) \in Nat /\ DOMAIN q = 1..Len(q)
         /\ \A i \in 1..Len(q) : q[i] \in S /\ q[i] # null /\ q[i] \in ToSet(q)
         /\ first = null <=> q = <<>>
         /\ last = null <=> q = <<>>
         /\ q # <<>> => /\ 1 \in 1..Len(q) /\ Len(q) \in 1..Len(q)
                        /\ first = q[1] /\ last = q[Len(q)] /\ first = Head(q)
         /\ \A i \in 1..Len(q) : link[q[i]] = IF i = Len(q) THEN null ELSE q[i+1]
<1>1. /\ Len(q) \in Nat /\ DOMAIN q = 1..Len(q)
      /\ \A i \in 1..Len(q) : q[i] \in S
      /\ q # <<>> => 1 \in 1..Len(q) /\ Len(q) \in 1..Len(q) /\ Head(q) = q[1]
  OBVIOUS
<1>2. \A i \in 1..Len(q) : q[i] \in ToSet(q) /\ q[i] # null
  BY <1>1 DEF ToSet
<1>3. QED
  BY <1>1, <1>2 DEF Spells

\* Taking the head of a list leaves its rest: the end is reset with the last.
LEMMA SpellsTail ==
  ASSUME NEW S, NEW null, null \notin S, NEW q \in Seq(S), q # <<>>,
         NEW first, NEW last, NEW link, Spells(first, last, link, q, null)
  PROVE  /\ link[first] = null <=> Tail(q) = <<>>
         /\ Spells(link[first], IF link[first] = null THEN null ELSE last, link, Tail(q), null)
<1> DEFINE n == Len(q)
           rest == Tail(q)
<1>1. /\ n \in Nat /\ \A i \in 1..n : q[i] # null
      /\ 1 \in 1..n /\ first = q[1] /\ last = q[n]
      /\ \A i \in 1..n : link[q[i]] = IF i = n THEN null ELSE q[i+1]
  BY SpellsProps
<1>2. /\ rest \in Seq(S) /\ Len(rest) = n-1 /\ \A i \in 1..n-1 : rest[i] = q[i+1]
  BY <1>1
<1> HIDE DEF rest, n
<1>3. link[first] = IF n = 1 THEN null ELSE q[2]
  BY <1>1
<1>4. rest = <<>> <=> n = 1
  <2>1. rest = <<>> <=> Len(rest) = 0
    BY <1>2, EmptySeq
  <2>2. QED
    BY <2>1, <1>1, <1>2
<1>5. n # 1 => 2 \in 1..n /\ 1 \in 1..n-1 /\ n-1 \in 1..n-1 /\ (n-1)+1 = n
  BY <1>1
<1>6. link[first] = null <=> rest = <<>>
  BY <1>1, <1>3, <1>4, <1>5
<1>7. n # 1 => link[first] = rest[1] /\ last = rest[n-1]
  <2>1. n # 1 => rest[1] = q[1+1] /\ rest[n-1] = q[(n-1)+1]
    BY <1>2, <1>5
  <2>2. QED
    BY <2>1, <1>1, <1>3, <1>5
<1>8. ASSUME NEW i \in 1..n-1
      PROVE  link[rest[i]] = IF i = n-1 THEN null ELSE rest[i+1]
  <2>1. i+1 \in 1..n /\ (i # n-1 => i+1 \in 1..n-1) /\ (i+1 = n <=> i = n-1)
    BY <1>1
  <2>2. rest[i] = q[i+1] /\ link[q[i+1]] = IF i+1 = n THEN null ELSE q[(i+1)+1]
    BY <2>1, <1>1, <1>2
  <2>3. i # n-1 => rest[i+1] = q[(i+1)+1]
    BY <2>1, <1>2
  <2>4. QED
    BY <2>1, <2>2, <2>3
<1>9. Spells(link[first], IF link[first] = null THEN null ELSE last, link, rest, null)
  BY <1>2, <1>4, <1>6, <1>7, <1>8 DEF Spells
<1>10. QED
  BY <1>6, <1>9 DEF rest

-----------------------------------------------------------------------------
(* Counting. *)

\* A set of numbers that is not empty has a least one: the step from one case
\* to the next, where an argument goes through a list.
LEMMA LeastNumber ==
  ASSUME NEW S, S \subseteq Nat, S # {}
  PROVE  \E m \in S : \A j \in S : m <= j
<1>1. PICK m \in S : \A j \in S : <<j, m>> \notin OpToRel(<, Nat)
  BY NatLessThanWellFounded, WFMin
<1>2. \A j \in S : ~(j < m)
  BY <1>1 DEF OpToRel
<1>3. QED
  BY <1>2, SMT

\* A sequence of distinct elements is as long as the set of them is large.
LEMMA DistinctCount ==
  ASSUME NEW S, NEW q \in Seq(S), IsInjective(q)
  PROVE  /\ IsFiniteSet(ToSet(q)) /\ Cardinality(ToSet(q)) = Len(q)
         /\ q \in [1..Len(q) -> ToSet(q)]
<1>1. Len(q) \in Nat /\ DOMAIN q = 1..Len(q) /\ q \in [1..Len(q) -> S]
  OBVIOUS
<1>2. q \in [1..Len(q) -> ToSet(q)]
  BY <1>1 DEF ToSet
<1>3. \A t \in ToSet(q) : \E i \in 1..Len(q) : q[i] = t
  BY <1>1 DEF ToSet
<1>4. q \in Bijection(1..Len(q), ToSet(q))
  BY <1>2, <1>3 DEF Bijection, Injection, Surjection
<1>5. IsFiniteSet(1..Len(q)) /\ Cardinality(1..Len(q)) = Len(q)
  BY <1>1, FS_Interval
<1>6. IsFiniteSet(ToSet(q)) /\ Cardinality(ToSet(q)) = Len(q)
  BY <1>4, <1>5, FS_Bijection DEF ExistsBijection
<1>7. QED
  BY <1>2, <1>6

-----------------------------------------------------------------------------
(* Indices that go round, and words that wrap around. *)

\* The remainder is the one number below n that differs from x by a multiple of
\* it.
LEMMA ModIs ==
  ASSUME NEW n \in Nat \ {0}, NEW x \in Int, NEW k \in Int, NEW r \in 0 .. n - 1, x = r + k * n
  PROVE  x % n = r
BY SMT

\* Every number is its remainder and a multiple of n.
LEMMA ModParts ==
  ASSUME NEW n \in Nat \ {0}, NEW x \in Int
  PROVE  x % n \in 0 .. n - 1 /\ \E k \in Int : x = (x % n) + k * n
<1>1. x % n \in 0 .. n - 1 /\ x \div n \in Int
  BY SMT
<1>2. x = (x % n) + (x \div n) * n
  BY SMT
<1> QED
  BY <1>1, <1>2

\* A remainder may be taken at once or in the end.
LEMMA ModAdd ==
  ASSUME NEW n \in Nat \ {0}, NEW x \in Int, NEW y \in Int
  PROVE  ((x % n) + y) % n = (x + y) % n
<1>1. PICK k \in Int : x = (x % n) + k * n
  BY ModParts
<1>2. (x % n) + y \in Int /\ x % n \in Int
  BY ModParts
<1>3. PICK j \in Int : (x % n) + y = (((x % n) + y) % n) + j * n
  BY <1>2, ModParts
<1> DEFINE r == ((x % n) + y) % n
<1>4. r \in 0 .. n - 1
  BY <1>2, ModParts
<1>5. x + y = r + (j + k) * n
  <2> DEFINE m == x % n
  <2>0. m \in Int /\ x = m + k * n /\ m + y = r + j * n /\ r \in Int
    BY <1>1, <1>2, <1>3, <1>4
  <2> HIDE DEF m, r
  <2> QED
    BY <2>0, SMT
<1> HIDE DEF r
<1>6. (x + y) % n = r
  <2>1. x + y \in Int /\ j + k \in Int
    OBVIOUS
  <2> QED
    BY <1>4, <1>5, <2>1, ModIs
<1> QED
  BY <1>6 DEF r

\* Less than n apart, two numbers have different remainders.
LEMMA ModDistinct ==
  ASSUME NEW n \in Nat \ {0}, NEW x \in Int, NEW y \in Int, x <= y, y - x < n, x % n = y % n
  PROVE  x = y
<1>1. PICK k \in Int : x = (x % n) + k * n
  BY ModParts
<1>2. PICK j \in Int : y = (y % n) + j * n
  BY ModParts
<1> DEFINE m == x % n
<1>3. x = m + k * n /\ y = m + j * n /\ m \in Int
  BY <1>1, <1>2, ModParts
<1> HIDE DEF m
<1>4. y - x = (j - k) * n
  BY <1>3, SMT
<1> DEFINE i == j - k
<1>5. i \in Int /\ 0 <= i * n /\ i * n < n
  BY <1>4, SMT
<1> HIDE DEF i
<1>6. i = 0
  BY <1>5, SMT
<1> QED
  BY <1>4, <1>6, SMT DEF i

\* A word whose number of values is a multiple of n may wrap around first.
LEMMA ModOfWord ==
  ASSUME NEW n \in Nat \ {0}, NEW w \in Nat \ {0}, NEW x \in Int, w % n = 0
  PROVE  (x % w) % n = x % n
<1>1. PICK k \in Int : x = (x % w) + k * w
  BY ModParts
<1>2. PICK j \in Int : w = j * n
  BY ModParts
<1> DEFINE m == x % w
<1>3. m \in Int /\ x = m + k * w
  BY <1>1, ModParts
<1>4. PICK i \in Int : m = (m % n) + i * n
  BY <1>3, ModParts
<1> DEFINE r == m % n
<1>5. r \in 0 .. n - 1 /\ m = r + i * n
  BY <1>3, <1>4, ModParts
<1> HIDE DEF m, r
<1>6. x = r + (i + k * j) * n
  BY <1>2, <1>3, <1>5, SMT
<1>7. i + k * j \in Int
  BY SMT
<1>8. x % n = r
  BY <1>5, <1>6, <1>7, ModIs
<1> QED
  BY <1>8 DEF m, r

\* The difference of two remainders.
LEMMA ModDifference ==
  ASSUME NEW n \in Nat \ {0}, NEW x \in Int, NEW y \in Int
  PROVE  ((x % n) - (y % n)) % n = (x - y) % n
<1>1. PICK k \in Int : y = (y % n) + k * n
  BY ModParts
<1>2. y % n \in Int /\ x % n \in Int /\ -(y % n) \in Int
  BY ModParts
<1>3. ((x % n) + (-(y % n))) % n = (x + (-(y % n))) % n
  BY <1>2, ModAdd
<1> DEFINE m == y % n
<1>4. m \in Int /\ y = m + k * n /\ -m \in Int
  BY <1>1, <1>2
<1> HIDE DEF m
<1>0. x - y \in Int
  OBVIOUS
<1>5. PICK j \in Int : x - y = ((x - y) % n) + j * n
  BY <1>0, ModParts
<1> DEFINE r == (x - y) % n
<1>6. r \in 0 .. n - 1 /\ x - y = r + j * n
  BY <1>0, <1>5, ModParts
<1> HIDE DEF r
<1>7. x + (-m) = r + (j + k) * n
  BY <1>4, <1>6, SMT
<1>8. (x + (-m)) % n = r
  <2>1. x + (-m) \in Int /\ j + k \in Int
    BY <1>4
  <2> QED
    BY <1>6, <1>7, <2>1, ModIs
<1>9. ((x % n) + (-m)) % n = (x + (-m)) % n
  BY <1>3 DEF m
<1>10. (x % n) + (-m) = (x % n) - m
  BY <1>2, <1>4
<1>11. ((x % n) - m) % n = r
  BY <1>8, <1>9, <1>10
<1> QED
  BY <1>11 DEF m, r

\* A word without the wraps it may have made, and one that has made none.
LEMMA ModAtMost ==
  ASSUME NEW n \in Nat \ {0}, NEW x \in Nat
  PROVE  x % n <= x /\ x % n \in Nat /\ (x < n => x % n = x)
<1>1. x \in Int /\ x % n \in 0 .. n - 1
  BY ModParts
<1>2. PICK k \in Int : x = (x % n) + k * n
  BY <1>1, ModParts
<1> DEFINE m == x % n
<1>3. m \in 0 .. n - 1 /\ x = m + k * n
  BY <1>1, <1>2
<1> HIDE DEF m
<1>4. k >= 0
  BY <1>3, SMT
<1>5. k * n >= 0 /\ k * n \in Int
  BY <1>4, SMT
<1>6. x < n => k = 0
  BY <1>3, <1>4, SMT
<1>7. m <= x /\ m \in Nat /\ (x < n => m = x)
  BY <1>3, <1>5, <1>6
<1> QED
  BY <1>7 DEF m

\* Rounding down to a multiple of n takes off less than n.
LEMMA RoundedDown ==
  ASSUME NEW n \in Nat \ {0}, NEW x \in Nat
  PROVE  /\ x \div n \in Nat /\ (x \div n) * n \in Nat
         /\ (x \div n) * n <= x /\ (x \div n) * n > x - n
         /\ \A w \in Nat : x < w * n => x \div n < w
<1> DEFINE d == x \div n
<1>1. d \in Int /\ x = (x % n) + d * n /\ x % n \in 0 .. n - 1
  BY SMT
<1> HIDE DEF d
<1>2. PICK m \in 0 .. n - 1 : x = m + d * n
  BY <1>1
<1>3. d >= 0
  BY <1>1, <1>2, SMT
<1>4. d * n <= x /\ d * n > x - n /\ d * n \in Nat
  BY <1>1, <1>2, <1>3, SMT
<1>5. ASSUME NEW w \in Nat, x < w * n PROVE d < w
  <2>1. d * n < w * n
    BY <1>1, <1>4, <1>5, SMT
  <2> QED
    BY <1>1, <2>1, SMT
<1>6. d \in Nat
  BY <1>1, <1>3
<1> QED
  BY <1>4, <1>5, <1>6 DEF d

-----------------------------------------------------------------------------
(* Bytes that go through a queue.                                         *)

\* A byte that moves from the front of one sequence to the end of another.
LEMMA HeadMoves ==
  ASSUME NEW S, NEW s \in Seq(S), NEW t \in Seq(S), t # <<>>
  PROVE  Append(s, Head(t)) \o Tail(t) = s \o t
<1> DEFINE l == Append(s, Head(t)) \o Tail(t)
           r == s \o t
<1>1. /\ Head(t) \in S /\ Tail(t) \in Seq(S) /\ Len(Tail(t)) = Len(t) - 1 /\ Len(t) >= 1
      /\ Append(s, Head(t)) \in Seq(S) /\ Len(Append(s, Head(t))) = Len(s) + 1
      /\ \A i \in 1 .. Len(t) - 1 : Tail(t)[i] = t[i + 1]
      /\ Head(t) = t[1]
      /\ \A i \in 1 .. Len(s) : Append(s, Head(t))[i] = s[i]
      /\ Append(s, Head(t))[Len(s) + 1] = Head(t)
  OBVIOUS
<1>2. l \in Seq(S) /\ r \in Seq(S) /\ Len(l) = Len(s) + Len(t) /\ Len(r) = Len(s) + Len(t)
  BY <1>1
<1>3. ASSUME NEW i \in 1 .. Len(s) + Len(t) PROVE l[i] = r[i]
  <2>1. CASE i <= Len(s)
    BY <1>1, <2>1
  <2>2. CASE i = Len(s) + 1
    BY <1>1, <2>2
  <2>3. CASE i > Len(s) + 1
    <3>1. l[i] = Tail(t)[i - (Len(s) + 1)]
      BY <1>1, <2>3
    <3>2. r[i] = t[i - Len(s)]
      BY <2>3
    <3>3. i - (Len(s) + 1) \in 1 .. Len(t) - 1 /\ (i - (Len(s) + 1)) + 1 = i - Len(s)
      BY <2>3
    <3> QED
      BY <1>1, <3>1, <3>2, <3>3
  <2> QED
    BY <2>1, <2>2, <2>3
<1> HIDE DEF l, r
<1>4. l = r
  BY <1>2, <1>3, SeqEqual
<1> QED
  BY <1>4 DEF l, r

\* One that is put at the end of two sequences.
LEMMA AppendMoves ==
  ASSUME NEW S, NEW s \in Seq(S), NEW t \in Seq(S), NEW e \in S
  PROVE  Append(s \o t, e) = s \o Append(t, e)
<1> DEFINE l == Append(s \o t, e)
           r == s \o Append(t, e)
<1>1. l \in Seq(S) /\ r \in Seq(S) /\ Len(l) = Len(s) + Len(t) + 1 /\ Len(r) = Len(s) + Len(t) + 1
  OBVIOUS
<1>2. \A i \in 1 .. Len(l) : l[i] = r[i]
  BY <1>1
<1> HIDE DEF l, r
<1>3. l = r
  BY <1>1, <1>2, SeqEqual
<1> QED
  BY <1>3 DEF l, r

\* A sequence that is as long as its beginning is that.
LEMMA NothingBehind ==
  ASSUME NEW S, NEW s \in Seq(S), NEW t \in Seq(S), NEW u \in Seq(S), s = t \o u, Len(s) = Len(t)
  PROVE  u = <<>> /\ s = t
<1>1. Len(t \o u) = Len(t) + Len(u) /\ Len(u) \in Nat /\ Len(t) \in Nat
  OBVIOUS
<1>2. Len(u) = 0
  BY <1>1
<1>3. u = <<>>
  BY <1>2
<1> QED
  BY <1>3
=============================================================================
