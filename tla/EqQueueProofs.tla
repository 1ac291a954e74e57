----------------------------- MODULE EqQueueProofs -----------------------------
(***************************************************************************)
(* The linked list of EqQueue is always the sequence its operations        *)
(* promise, for every set of elements and every priority, so the queue     *)
(* implements PriorityQueue.                                               *)
(*                                                                         *)
(* QueueInv is inductive: ListIntact alone is not, since an insertion      *)
(* links where its local variables point; ScanInOrder says where that is.  *)
(***************************************************************************)
EXTENDS EqQueue, QueueLemmas

\* The links after e is inserted at position k of order.
Linked(k, e) ==
  /\ head' = IF k = 1 THEN e ELSE head
  /\ tail' = IF k = Len(order)+1 THEN e ELSE tail
  /\ next' \in [Elem -> Pointer]
  /\ next'[e] = IF k = Len(order)+1 THEN Null ELSE order[k]
  /\ k > 1 => next'[order[k-1]] = e
  /\ \A x \in Elem : x # e /\ (k > 1 => x # order[k-1]) => next'[x] = next[x]
  /\ order' = InsertAt(order, k, e)

\* What the elements and the positions of an intact list satisfy.
LEMMA ListProps ==
  ASSUME TypeOK, ListIntact
  PROVE  /\ Spells(head, tail, next, order, Null)
         /\ Len(order) \in Nat /\ DOMAIN order = 1..Len(order)
         /\ \A i \in 1..Len(order) : order[i] \in Elem /\ order[i] \in ToSet(order)
         /\ \A i, j \in 1..Len(order) : order[i] = order[j] => i = j
         /\ head = Null <=> order = <<>>
         /\ tail = Null <=> order = <<>>
         /\ order # <<>> => /\ Len(order) \in 1..Len(order)
                            /\ head = order[1] /\ tail = order[Len(order)]
<1>1. order \in Seq(Elem) /\ IsInjective(order) /\ Spells(head, tail, next, order, Null)
  BY DEF TypeOK, ListIntact, Represents, Spells
<1>2. /\ Len(order) \in Nat /\ DOMAIN order = 1..Len(order)
      /\ \A i \in 1..Len(order) : order[i] \in Elem /\ order[i] \in ToSet(order)
      /\ head = Null <=> order = <<>>
      /\ tail = Null <=> order = <<>>
      /\ order # <<>> => /\ Len(order) \in 1..Len(order)
                         /\ head = order[1] /\ tail = order[Len(order)]
  BY <1>1, NullAssumption, SpellsProps
<1>3. \A i, j \in 1..Len(order) : order[i] = order[j] => i = j
  BY <1>1, <1>2 DEF IsInjective
<1>4. QED
  BY <1>1, <1>2, <1>3

\* An insertion of a new element leaves an intact list.
LEMMA LinkedIntact ==
  ASSUME TypeOK, ListIntact, NEW e \in Elem, e \notin ToSet(order),
         NEW k \in 1..Len(order)+1, Linked(k, e)
  PROVE  ListIntact' /\ order' \in Seq(Elem) /\ ToSet(order') = ToSet(order) \cup {e}
<1>1. order \in Seq(Elem) /\ IsInjective(order) /\ Spells(head, tail, next, order, Null)
  BY ListProps DEF TypeOK, ListIntact, Represents
<1>2. order' = InsertAt(order, k, e)
  BY DEF Linked
<1>3. order' \in Seq(Elem)
  BY <1>1, <1>2, InsertAtProps
<1>4. ToSet(order') = ToSet(order) \cup {e} /\ IsInjective(order')
  BY <1>1, <1>2, InsertAtSet
<1>5. Spells(head', tail', next', InsertAt(order, k, e), Null)
  <2>1. /\ (k = 1 => head' = e) /\ (k > 1 => head' = head)
        /\ (k = Len(order)+1 => tail' = e) /\ (k <= Len(order) => tail' = tail)
        /\ next'[e] = IF k = Len(order)+1 THEN Null ELSE order[k]
        /\ k > 1 => next'[order[k-1]] = e
        /\ \A x \in Elem : x # e /\ (k > 1 => x # order[k-1]) => next'[x] = next[x]
    BY DEF Linked
  <2>2. QED
    BY <1>1, <2>1, SpellsInsert
<1>6. ListIntact'
  BY <1>2, <1>4, <1>5 DEF ListIntact, Represents, Spells
<1>7. QED
  BY <1>3, <1>4, <1>6

\* Appending, and pushing, link an element at either end.
LEMMA AppendLinks ==
  ASSUME TypeOK, ListIntact, NEW e \in Elem, e \notin ToSet(order),
         LinkLast(e), order' = Append(order, e)
  PROVE  Linked(Len(order)+1, e)
<1> DEFINE n == Len(order)
<1>1. /\ n \in Nat /\ order \in Seq(Elem)
      /\ \A i \in 1..n : order[i] \in Elem /\ order[i] # e
  BY ListProps DEF TypeOK
<1>2. order' = InsertAt(order, n+1, e)
  BY <1>1, EndsAreInsertAt
<1>3. next' = [x \in Elem |-> IF x = e THEN Null ELSE IF x = tail THEN e ELSE next[x]]
      /\ head' = (IF tail = Null THEN e ELSE head) /\ tail' = e
  BY DEF LinkLast
<1>4. next' \in [Elem -> Pointer] /\ next'[e] = Null
  BY <1>3 DEF TypeOK, Pointer
<1>5. CASE order = <<>>
  <2>1. n = 0 /\ tail = Null
    BY <1>5, ListProps
  <2>2. \A x \in Elem : x # e => next'[x] = next[x]
    BY <1>3, <2>1, NullAssumption
  <2>3. QED
    BY <1>2, <1>3, <1>4, <2>1, <2>2 DEF Linked
<1>6. CASE order # <<>>
  <2>1. n > 0 /\ n+1 # 1 /\ tail = order[n] /\ tail # Null /\ (n+1)-1 = n /\ n \in 1..n
    BY <1>1, <1>6, ListProps
  <2>2. next'[order[n]] = e /\ \A x \in Elem : x # e /\ x # order[n] => next'[x] = next[x]
    BY <1>1, <1>3, <2>1
  <2>3. QED
    BY <1>2, <1>3, <1>4, <2>1, <2>2 DEF Linked
<1>7. QED
  BY <1>5, <1>6

\* What an insertion at the front links.
LEMMA PushLinks ==
  ASSUME TypeOK, ListIntact, NEW e \in Elem, Push(e)
  PROVE  Linked(1, e)
<1> DEFINE n == Len(order)
<1>1. order \in Seq(Elem) /\ n \in Nat
  BY ListProps DEF TypeOK
<1>2. order' = InsertAt(order, 1, e)
  BY <1>1, EndsAreInsertAt DEF Push
<1>3. next' = [next EXCEPT ![e] = head] /\ head' = e
      /\ tail' = (IF tail = Null THEN e ELSE tail)
  BY DEF Push
<1>4. next' \in [Elem -> Pointer] /\ next'[e] = head
  BY <1>3 DEF TypeOK
<1>5. CASE order = <<>>
  <2>1. n = 0 /\ tail = Null /\ head = Null
    BY <1>5, ListProps
  <2>2. QED
    BY <1>2, <1>3, <1>4, <2>1 DEF Linked, TypeOK
<1>6. CASE order # <<>>
  <2>1. n > 0 /\ 1 # n+1 /\ tail # Null /\ head = order[1]
    BY <1>1, <1>6, ListProps
  <2>2. QED
    BY <1>2, <1>3, <1>4, <2>1 DEF Linked, TypeOK
<1>7. QED
  BY <1>5, <1>6

-----------------------------------------------------------------------------
\* What the scan's position means at its end.
LEMMA ScanProps ==
  ASSUME QueueInv, ~Idle
  PROVE  /\ new \in Elem /\ new \notin ToSet(order)
         /\ cur = Null => ScanAt(Len(order)+1) /\ order # <<>>
         /\ \A k \in 1..Len(order) : order[k] = cur => ScanAt(k)
<1> USE DEF QueueInv
<1>1. new \in Elem
  BY DEF TypeOK, Pointer, Idle
<1>2. PICK j \in 1..Len(order)+1 : ScanAt(j)
  BY DEF ScanInOrder
<1>3. new \notin ToSet(order) /\ order # <<>>
  BY DEF ScanInOrder
<1>4. /\ Len(order) \in Nat /\ \A i \in 1..Len(order) : order[i] \in Elem /\ order[i] # Null
      /\ \A i, k \in 1..Len(order) : order[i] = order[k] => i = k
  BY ListProps, NullAssumption
<1>5. ASSUME cur = Null PROVE ScanAt(Len(order)+1)
  <2>1. j = Len(order)+1
    BY <1>2, <1>4, <1>5 DEF ScanAt
  <2>2. QED
    BY <1>2, <2>1
<1>6. ASSUME NEW k \in 1..Len(order), order[k] = cur PROVE ScanAt(k)
  <2>1. j # Len(order)+1
    BY <1>2, <1>4, <1>6 DEF ScanAt
  <2>2. j \in 1..Len(order) /\ cur = order[j]
    BY <1>2, <1>4, <2>1 DEF ScanAt
  <2>3. j = k
    BY <1>4, <1>6, <2>2
  <2>4. QED
    BY <1>2, <2>3
<1>7. QED
  BY <1>1, <1>3, <1>5, <1>6

\* insert_with_priority links its element where the queue promises.
LEMMA InsertLinks ==
  ASSUME QueueInv, InsertHere \/ InsertLast
  PROVE  \E k \in 1..Len(order)+1 :
           /\ Linked(k, new)
           /\ \A i \in 1..k-1 : Priority[order[i]] >= Priority[new]
           /\ k <= Len(order) => Priority[order[k]] < Priority[new]
<1> USE DEF QueueInv
<1>1. /\ Len(order) \in Nat /\ \A i \in 1..Len(order) : order[i] \in Elem /\ order[i] # Null
      /\ ~Idle
  BY ListProps, NullAssumption DEF InsertHere, InsertLast
<1>2. CASE InsertHere
  <2>1. PICK k \in 1..Len(order) : order[k] = cur /\ order' = InsertAt(order, k, new)
    BY <1>2 DEF InsertHere
  <2>2. ScanAt(k) /\ new \in Elem
    BY <1>1, <2>1, ScanProps
  <2>3. /\ prev = IF k = 1 THEN Null ELSE order[k-1]
        /\ \A i \in 1..k-1 : Priority[order[i]] >= Priority[new]
    BY <2>2 DEF ScanAt
  <2>4. /\ next' = [x \in Elem |-> IF x = new THEN cur ELSE IF x = prev THEN new ELSE next[x]]
        /\ head' = (IF prev = Null THEN new ELSE head) /\ tail' = tail
        /\ Priority[new] > Priority[cur]
    BY <1>2 DEF InsertHere, LinkInFront
  <2>5. k-1 \in Nat /\ (k > 1 => k-1 \in 1..Len(order)) /\ k # Len(order)+1
    BY <1>1
  <2>6. head' = IF k = 1 THEN new ELSE head
    <3>1. k # 1 => order[k-1] # Null
      BY <2>5, <1>1
    <3>2. QED
      BY <2>3, <2>4, <3>1
  <2>7. next' \in [Elem -> Pointer] /\ next'[new] = order[k]
    BY <2>1, <2>2, <2>4 DEF TypeOK, Pointer
  <2>8. k > 1 => next'[order[k-1]] = new
    <3> SUFFICES ASSUME k > 1 PROVE next'[order[k-1]] = new
      OBVIOUS
    <3>1. order[k-1] \in Elem /\ prev = order[k-1] /\ order[k-1] \in ToSet(order)
      BY <2>3, <2>5, <1>1, ListProps
    <3>2. order[k-1] # new
      BY <1>1, <3>1, ScanProps
    <3>3. QED
      BY <2>4, <3>1, <3>2
  <2>9. ASSUME NEW x \in Elem, x # new, k > 1 => x # order[k-1]
        PROVE  next'[x] = next[x]
    <3>1. x # prev
      BY <2>3, <2>9, NullAssumption
    <3>2. QED
      BY <2>4, <2>9, <3>1
  <2>10. Linked(k, new)
    BY <2>1, <2>4, <2>5, <2>6, <2>7, <2>8, <2>9 DEF Linked
  <2>11. Priority[order[k]] < Priority[new]
    BY <2>1, <2>2, <2>4, <1>1, PriorityAssumption
  <2>12. QED
    BY <2>3, <2>10, <2>11
<1>3. CASE InsertLast
  <2>1. ScanAt(Len(order)+1) /\ new \in Elem /\ new \notin ToSet(order)
    BY <1>1, <1>3, ScanProps DEF InsertLast
  <2>2. Linked(Len(order)+1, new)
    BY <1>3, <2>1, AppendLinks DEF InsertLast
  <2>3. /\ Len(order)+1 \in 1..Len(order)+1 /\ ~(Len(order)+1 <= Len(order))
        /\ \A i \in 1..(Len(order)+1)-1 : Priority[order[i]] >= Priority[new]
    BY <1>1, <2>1 DEF ScanAt
  <2>4. QED
    BY <2>2, <2>3
<1>4. QED
  BY <1>2, <1>3

\* pop leaves the rest of the list intact.
LEMMA PopIntact ==
  ASSUME TypeOK, ListIntact, Pop
  PROVE  ListIntact' /\ order' = Tail(order) /\ order # <<>> /\ order' \in Seq(Elem)
<1>1. order # <<>> /\ order \in Seq(Elem) /\ order' = Tail(order)
      /\ Spells(head, tail, next, order, Null)
  BY ListProps DEF Pop, TypeOK
<1>2. head' = next[head] /\ tail' = (IF next[head] = Null THEN Null ELSE tail)
      /\ next' = next
  BY DEF Pop
<1>3. Spells(head', tail', next', Tail(order), Null)
  BY <1>1, <1>2, NullAssumption, SpellsTail
<1>4. IsInjective(Tail(order)) /\ Tail(order) \in Seq(Elem)
  BY <1>1, TailSet DEF ListIntact, Represents
<1>5. ListIntact'
  BY <1>1, <1>3, <1>4 DEF ListIntact, Represents, Spells
<1>6. QED
  BY <1>1, <1>4, <1>5

\* The loop of insert_with_priority moves to the next element.
LEMMA ScanMoves ==
  ASSUME QueueInv, InsertScan
  PROVE  QueueInv' /\ \E k \in 1..Len(order) : ScanAt(k) /\ ScanAt(k+1)'
<1> USE DEF QueueInv
<1>1. /\ Len(order) \in Nat /\ \A i \in 1..Len(order) : order[i] \in Elem /\ order[i] # Null
      /\ ~Idle /\ cur # Null /\ UNCHANGED <<head, tail, next, new, order, last>>
  BY ListProps, NullAssumption DEF InsertScan
<1>2. PICK k \in 1..Len(order)+1 : ScanAt(k)
  BY <1>1 DEF ScanInOrder
<1>3. k \in 1..Len(order) /\ cur = order[k]
  BY <1>1, <1>2 DEF ScanAt
<1>4. cur' = (IF k = Len(order) THEN Null ELSE order[k+1]) /\ prev' = order[k]
  BY <1>1, <1>3 DEF InsertScan, ListIntact, Represents
<1>5. /\ k+1 \in 1..Len(order)+1 /\ (k+1)-1 = k /\ k+1 # 1
      /\ k+1 = Len(order)+1 <=> k = Len(order)
  BY <1>1, <1>3
<1>6. \A i \in 1..k : Priority[order[i]] >= Priority[new]
  <2>1. Priority[new] <= Priority[order[k]] /\ new \in Elem
    BY <1>1, <1>3, ScanProps DEF InsertScan
  <2>2. \A i \in 1..k-1 : Priority[order[i]] >= Priority[new]
    BY <1>2 DEF ScanAt
  <2>3. Priority[order[k]] >= Priority[new]
    BY <2>1, <1>1, <1>3, PriorityAssumption
  <2>4. \A i \in 1..k : i \in 1..k-1 \/ i = k
    BY <1>3
  <2>5. QED
    BY <2>2, <2>3, <2>4
<1>7. ScanAt(k+1)'
  BY <1>1, <1>4, <1>5, <1>6 DEF ScanAt
<1>8. ScanInOrder'
  BY <1>1, <1>5, <1>7 DEF ScanInOrder
<1>9. TypeOK'
  <2>1. cur' \in Pointer /\ prev' \in Pointer
    <3>1. k # Len(order) => k+1 \in 1..Len(order)
      BY <1>1, <1>3
    <3>2. QED
      BY <1>1, <1>3, <1>4, <3>1 DEF Pointer
  <2>2. QED
    BY <1>1, <2>1 DEF TypeOK
<1>10. ListIntact'
  BY <1>1 DEF ListIntact, Represents
<1>11. QED
  BY <1>2, <1>3, <1>7, <1>8, <1>9, <1>10

\* The step that adds e, wherever it does.
LEMMA AddStep ==
  ASSUME QueueInv, NEW e \in Elem, e \notin ToSet(order),
         NEW k \in 1..Len(order)+1, Linked(k, e),
         Idle', prev' = prev, cur' = cur, last' \in QueueCalls
  PROVE  QueueInv'
<1> USE DEF QueueInv
<1>1. ListIntact' /\ order' \in Seq(Elem)
  BY LinkedIntact
<1>2. TypeOK'
  BY <1>1 DEF Linked, TypeOK, Pointer, Idle
<1>3. ScanInOrder'
  BY DEF ScanInOrder
<1>4. QED
  BY <1>1, <1>2, <1>3

\* Every step keeps the invariant and is one of the queue, or a stutter.
LEMMA QueueStep ==
  ASSUME QueueInv, [Next]_vars
  PROVE  QueueInv' /\ [Queue!QueueNext]_<<order, last>>
<1> USE DEF QueueInv
<1>1. Len(order) \in Nat /\ Len(order)+1 \in 1..Len(order)+1 /\ 1 \in 1..Len(order)+1
      /\ order \in Seq(Elem)
  BY ListProps DEF TypeOK
<1>2. ASSUME NEW e \in Elem, AppendLast(e)
      PROVE  QueueInv' /\ Queue!QueueNext
  <2>1. Linked(Len(order)+1, e) /\ e \notin ToSet(order)
    BY <1>2, AppendLinks DEF AppendLast, Fresh
  <2>2. QueueInv'
    BY <1>1, <1>2, <2>1, AddStep DEF AppendLast, Fresh, Idle, QueueCalls
  <2>3. Queue!AddLast(e) /\ last' = <<"append", e>>
    BY <1>2 DEF AppendLast, Fresh, Queue!AddLast, Queue!ToSet, ToSet
  <2>4. QED
    BY <2>2, <2>3 DEF Queue!QueueNext, Queue!Operation
<1>3. ASSUME NEW e \in Elem, Push(e)
      PROVE  QueueInv' /\ Queue!QueueNext
  <2>1. Linked(1, e) /\ e \notin ToSet(order)
    BY <1>3, PushLinks DEF Push, Fresh
  <2>2. QueueInv'
    BY <1>1, <1>3, <2>1, AddStep DEF Push, Fresh, Idle, QueueCalls
  <2>3. Queue!AddFirst(e) /\ last' = <<"push", e>>
    BY <1>3 DEF Push, Fresh, Queue!AddFirst, Queue!ToSet, ToSet
  <2>4. QED
    BY <2>2, <2>3 DEF Queue!QueueNext, Queue!Operation
<1>4. ASSUME NEW e \in Elem, InsertBegin(e), head = Null
      PROVE  QueueInv' /\ Queue!QueueNext
  <2>1. LinkLast(e) /\ order' = Append(order, e) /\ e \notin ToSet(order)
        /\ UNCHANGED <<new, prev, cur>> /\ Idle /\ last' = <<"insert_with_priority", e>>
    BY <1>4 DEF InsertBegin, Fresh
  <2>2. Linked(Len(order)+1, e)
    BY <2>1, AppendLinks
  <2>3. QueueInv'
    BY <1>1, <2>1, <2>2, AddStep DEF Idle, QueueCalls
  <2>4. order = <<>> /\ Len(order) = 0
    BY <1>4, <1>1, ListProps
  <2>5. order' = InsertAt(order, Len(order)+1, e)
    BY <2>2 DEF Linked
  <2>6. Queue!AddByPriority(e)
    BY <1>1, <2>1, <2>4, <2>5 DEF Queue!AddByPriority, Queue!ToSet, ToSet, Queue!InsertAt, InsertAt
  <2>7. QED
    BY <2>1, <2>3, <2>6 DEF Queue!QueueNext, Queue!Operation
<1>5. ASSUME NEW e \in Elem, InsertBegin(e), head # Null
      PROVE  QueueInv' /\ UNCHANGED <<order, last>>
  <2>1. /\ new' = e /\ prev' = Null /\ cur' = head /\ UNCHANGED <<head, tail, next, order, last>>
        /\ e \notin ToSet(order)
    BY <1>5 DEF InsertBegin, Fresh
  <2>2. order # <<>> /\ head = order[1] /\ 1 # Len(order)+1
    BY <1>5, <1>1, ListProps
  <2>3. ScanAt(1)'
    <3>1. \A i \in 1..1-1 : FALSE
      OBVIOUS
    <3>2. QED
      BY <2>1, <2>2, <3>1 DEF ScanAt
  <2>4. ScanInOrder'
    BY <1>1, <2>1, <2>2, <2>3 DEF ScanInOrder
  <2>5. TypeOK' /\ ListIntact'
    BY <2>1 DEF TypeOK, Pointer, ListIntact, Represents
  <2>6. QED
    BY <2>1, <2>4, <2>5
<1>6. CASE InsertScan
  BY <1>6, ScanMoves DEF InsertScan
<1>7. CASE InsertHere \/ InsertLast
  <2>1. PICK k \in 1..Len(order)+1 :
          /\ Linked(k, new)
          /\ \A i \in 1..k-1 : Priority[order[i]] >= Priority[new]
          /\ k <= Len(order) => Priority[order[k]] < Priority[new]
    BY <1>7, InsertLinks
  <2>2. new \in Elem /\ new \notin ToSet(order)
    BY <1>7, ScanProps DEF InsertHere, InsertLast
  <2>3. Idle' /\ prev' = prev /\ cur' = cur /\ last' = <<"insert_with_priority", new>>
    BY <1>7 DEF InsertHere, InsertLast, Idle
  <2>4. QueueInv'
    BY <2>1, <2>2, <2>3, AddStep DEF QueueCalls
  <2>5. Queue!AddByPriority(new)
    BY <2>1, <2>2 DEF Queue!AddByPriority, Queue!ToSet, ToSet,
                         Queue!InsertAt, InsertAt, Linked
  <2>6. QED
    BY <2>2, <2>3, <2>4, <2>5 DEF Queue!QueueNext, Queue!Operation
<1>8. CASE Pop
  <2>1. ListIntact' /\ order' = Tail(order) /\ order # <<>> /\ order' \in Seq(Elem)
    BY <1>8, PopIntact
  <2>2. head = order[1] /\ head \in Elem
    BY <2>1, ListProps
  <2>3. head = Head(order)
    BY <1>1, <2>1, <2>2
  <2>4. last' = <<"pop", head>>
    BY <1>8 DEF Pop
  <2>5. TypeOK' /\ ScanInOrder'
    BY <1>8, <2>1, <2>2, <2>4 DEF Pop, TypeOK, Pointer, ScanInOrder, Idle, QueueCalls
  <2>6. QED
    BY <2>1, <2>2, <2>3, <2>4, <2>5 DEF Queue!QueueNext, Queue!Operation, Queue!TakeFirst
<1>9. CASE UNCHANGED vars
  BY <1>9 DEF vars, TypeOK, ListIntact, Represents, ScanInOrder, ScanAt, Idle
<1>10. QED
  BY <1>2, <1>3, <1>4, <1>5, <1>6, <1>7, <1>8, <1>9 DEF Next, Scan

\* The inductive invariant of the linked list holds in every reachable state.
THEOREM QueueInvariant == Spec => []QueueInv
<1>1. Init => QueueInv
  <2>1. <<>> \in Seq(Elem) /\ Len(<<>>) = 0 /\ DOMAIN <<>> = {}
    BY EmptySeq
  <2>2. QED
    BY <2>1 DEF Init, QueueInv, TypeOK, Pointer, ListIntact, Represents, IsInjective,
                ScanInOrder, Idle
<1>2. QueueInv /\ [Next]_vars => QueueInv'
  BY QueueStep
<1>3. QED
  BY <1>1, <1>2, PTL DEF Spec

\* The list holds the elements added and not yet taken, whatever order the
\* operations of queue-ext-T.h were called in.
THEOREM ListStaysIntact == Spec => []ListIntact
<1>1. QueueInv => ListIntact
  BY DEF QueueInv
<1>2. QED
  BY <1>1, QueueInvariant, PTL

\* The intrusive list implements the abstract priority queue.
THEOREM QueueRefinement == Spec => ImplementsQueue
<1>1. Init => Queue!QueueInit
  BY DEF Init, Queue!QueueInit
<1>2. QueueInv /\ [Next]_vars => [Queue!QueueNext]_<<order, last>>
  BY QueueStep
<1>3. QED
  BY <1>1, <1>2, QueueInvariant, PTL DEF Spec, ImplementsQueue, Queue!QueueSpec

\* Every turn of the loop of insert_with_priority moves its scan by exactly one
\* element of a list no turn changes: the loop comes to the place of the new
\* element after at most as many turns as the queue has elements.
THEOREM ScanAdvances ==
  Spec => [][~Idle /\ ~Idle' => /\ \E k \in 1..Len(order) : ScanAt(k) /\ ScanAt(k+1)'
                                /\ order' = order]_vars
<1> DEFINE Advance == ~Idle /\ ~Idle' => /\ \E k \in 1..Len(order) : ScanAt(k) /\ ScanAt(k+1)'
                                         /\ order' = order
<1>1. QueueInv /\ [Next]_vars => [Advance]_vars
  <2> SUFFICES ASSUME QueueInv, Next, ~Idle, ~Idle'
               PROVE  Advance
    OBVIOUS
  <2>1. InsertScan
    BY DEF Next, Pop, AppendLast, Push, InsertBegin, Fresh, Scan, InsertHere, InsertLast, Idle
  <2>2. \E k \in 1..Len(order) : ScanAt(k) /\ ScanAt(k+1)'
    BY <2>1, ScanMoves
  <2>3. order' = order
    BY <2>1 DEF InsertScan
  <2> QED
    BY <2>2, <2>3
<1> HIDE DEF Advance
<1>2. Spec => [][Advance]_vars
  BY <1>1, QueueInvariant, PTL DEF Spec
<1> QED
  BY <1>2 DEF Advance
=============================================================================
