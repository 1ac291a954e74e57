-------------------------- MODULE CircularQueueProofs --------------------------
(***************************************************************************)
(* The circular queue, for any number of slots that divides the range of   *)
(* an unsigned, any elements and any interleaving of the two sides.        *)
(***************************************************************************)
EXTENDS CircularQueue, SequenceTheorems, TLAPS

(* The slots from t up to h, going round. *)
Dist(h, t) == IF t <= h THEN h - t ELSE h - t + N

\* A number below the modulus is its own remainder.
LEMMA ModSmall == ASSUME NEW n \in Nat, n > 1, NEW x \in 0 .. n - 1 PROVE x % n = x
  BY SMT

\* Whole rounds leave the remainder.
LEMMA ModRound ==
  ASSUME NEW n \in Nat, n > 1, NEW x \in 0 .. n - 1, NEW k \in Nat
  PROVE  (x + k * n) % n = x
  BY SMT

\* A word that the size divides is the size and whole rounds.
LEMMA Multiple ==
  ASSUME NEW n \in Nat, n > 1, NEW w \in Nat, w % n = 0, w >= n
  PROVE  \E k \in Nat : w = n + k * n
<1>1. PICK j \in Nat : w = j * n
  BY SMT
<1>2. j >= 1
  BY <1>1, SMT
<1>3. j - 1 \in Nat /\ j * n = n + (j - 1) * n
  BY <1>2, SMT
<1> QED
  BY <1>1, <1>3

(* A difference below zero wraps at CountWord, and modulo N that is once round. *)
LEMMA ModWrapped ==
  ASSUME NEW n \in Nat, n > 1, NEW w \in Nat, w % n = 0, w >= n, NEW x \in 1 .. n - 1
  PROVE  ((-x) % w) % n = n - x
<1>1. (-x) % w = w - x
  BY SMT
<1>2. PICK k \in Nat : w = n + k * n
  BY Multiple
<1>3. k * n \in Int
  BY SMT
<1>4. w - x = (n - x) + k * n
  BY <1>2, <1>3, SMT
<1>5. n - x \in 0 .. n - 1
  BY SMT
<1>6. ((n - x) + k * n) % n = n - x
  BY <1>5, ModRound
<1> QED
  BY <1>1, <1>4, <1>6

\* The code's two reductions of head - tail are the way round from one to the other.
LEMMA Distance ==
  ASSUME NEW h \in Slots, NEW t \in Slots
  PROVE  /\ ((h - t) % CountWord) % N = Dist(h, t)
         /\ Dist(h, t) \in Slots
<1> USE QueueAssumptionHolds DEF QueueAssumption, Slots
<1>1. Dist(h, t) \in Slots
  BY SMT DEF Dist
<1>2. CASE t <= h
  <2>1. h - t \in 0 .. N - 1 /\ h - t \in 0 .. CountWord - 1 /\ CountWord > 1
    BY <1>2, SMT
  <2>2. (h - t) % CountWord = h - t /\ (h - t) % N = h - t
    BY <2>1, ModSmall
  <2> QED
    BY <1>1, <1>2, <2>2 DEF Dist
<1>3. CASE h < t
  <2>1. t - h \in 1 .. N - 1 /\ h - t = -(t - h)
    BY <1>3, SMT
  <2>2. ((-(t - h)) % CountWord) % N = N - (t - h)
    BY <2>1, ModWrapped
  <2>3. N - (t - h) = Dist(h, t)
    BY <1>3, SMT DEF Dist
  <2> QED
    BY <1>1, <2>1, <2>2, <2>3
<1> QED
  BY <1>2, <1>3, SMT

\* One reduction takes a number below two rounds back.
LEMMA Around ==
  ASSUME NEW x \in 0 .. 2 * N - 1
  PROVE  x % N = IF x < N THEN x ELSE x - N
<1> USE QueueAssumptionHolds DEF QueueAssumption
<1>1. CASE x < N
  BY <1>1, ModSmall
<1>2. CASE x >= N
  <2>1. x - N \in 0 .. N - 1 /\ x = (x - N) + 1 * N
    BY <1>2, SMT
  <2>2. ((x - N) + 1 * N) % N = x - N
    BY <2>1, ModRound
  <2> QED
    BY <1>2, <2>1, <2>2, SMT
<1> QED
  BY <1>1, <1>2, SMT

\* The slot behind a slot, as the code computes it.
LEMMA NextSlot ==
  ASSUME NEW i \in Slots
  PROVE  /\ Next1(i) \in Slots
         /\ Next1(i) = IF i = N - 1 THEN 0 ELSE i + 1
<1>1. i + 1 \in 0 .. 2 * N - 1 /\ i \in 0 .. N - 1
  BY QueueAssumptionHolds, SMT DEF QueueAssumption, Slots
<1>2. (i + 1) % N = IF i + 1 < N THEN i + 1 ELSE i + 1 - N
  <2> DEFINE x == i + 1
  <2>1. x \in 0 .. 2 * N - 1
    BY <1>1
  <2> HIDE DEF x
  <2>2. x % N = IF x < N THEN x ELSE x - N
    BY <2>1, Around
  <2> QED
    BY <1>1, <2>2, QueueAssumptionHolds, SMT DEF x, QueueAssumption
<1> QED
  BY <1>1, <1>2, QueueAssumptionHolds, SMT DEF Next1, QueueAssumption, Slots

-----------------------------------------------------------------------------
(* Types, and the count of a call in progress, which never runs below one. *)

TypeInv ==
  /\ TypeOK
  /\ producer.pc \in {"full", "space", "store", "publish"} => producer.left >= 1
  /\ consumer.pc \in {"recount", "empty", "load", "retire", "look"} => consumer.left >= 1
  /\ consumer.pc \in {"recount", "look", "restore", "recheck"} => consumer.call = "peek"

\* The initial states are well typed.
LEMMA TypeInit == Init => TypeInv
<1> SUFFICES ASSUME Init PROVE TypeInv
  OBVIOUS
<1> USE QueueAssumptionHolds DEF QueueAssumption, Slots
<1>1. <<>> \in Seq(Elem)
  BY EmptySeq
<1>2. buf \in [Slots -> Elem]
  BY DEF Init
<1> QED
  BY <1>1, <1>2, SMT DEF Init, TypeInv, TypeOK, ProducerCalls, ConsumerCalls

\* The producer keeps the types.
LEMMA TypeProducer == TypeInv /\ Producer => TypeInv'
<1> SUFFICES ASSUME TypeInv, Producer PROVE TypeInv'
  OBVIOUS
<1> USE QueueAssumptionHolds DEF QueueAssumption, TypeInv, TypeOK
<1> USE DEF ProducerFrom, ProducerAt, ProducerGoes, ProducerReturns, ProducerCalls, ConsumerCalls, queue, locals
<1>1. CASE Push
  BY <1>1, SMT DEF Push
<1>2. ASSUME NEW n \in Sizes, PushN(n) PROVE TypeInv'
  BY <1>2, SMT DEF PushN
<1>3. CASE PushNext
  BY <1>3, SMT DEF PushNext
<1>4. CASE AssertSpace
  BY <1>4, SMT DEF AssertSpace
<1>5. ASSUME NEW x \in Elem, Store(x) PROVE TypeInv'
  BY <1>5, SMT DEF Store
<1>6. CASE Publish
  BY <1>6, NextSlot, SMT DEF Publish
<1> QED
  BY <1>1, <1>2, <1>3, <1>4, <1>5, <1>6 DEF Producer, ProducerCall, ProducerStep

\* The consumer keeps the types.
LEMMA TypeConsumer == TypeInv /\ Consumer => TypeInv'
<1> SUFFICES ASSUME TypeInv, Consumer PROVE TypeInv'
  OBVIOUS
<1> USE DEF TypeInv, TypeOK
<1> USE DEF ProducerCalls, ConsumerCalls, ConsumerAt, ConsumerGoes, ConsumerReturns, ConsumerStarts, ConsumerRefuses, Entered, queue, locals
<1>a. NElem \in Slots
  BY Distance DEF NElem
<1>b. <<>> \in Seq(Elem)
  BY EmptySeq
<1>c. buf[tail] \in Elem
  OBVIOUS
<1>d. Append(read, buf[tail]) \in Seq(Elem)
  BY <1>c
<1>e. Sizes \subseteq Nat \ {0}
  BY QueueAssumptionHolds DEF QueueAssumption
<1>f. tail \in Slots /\ consumer.left \in Nat
  OBVIOUS
<1>1. CASE SetInts
  BY <1>1, SMT DEF SetInts
<1>2. CASE PopNonblock
  BY <1>2, <1>a, <1>b, <1>e, SMT DEF PopNonblock
<1>3. ASSUME NEW n \in Sizes \cup {1}, PopN(n) PROVE TypeInv'
  BY <1>3, <1>a, <1>b, <1>e, SMT DEF PopN
<1>4. ASSUME NEW n \in Sizes, PopNNoblk(n) PROVE TypeInv'
  BY <1>4, <1>a, <1>b, <1>e, SMT DEF PopNNoblk
<1>5. CASE Peek
  BY <1>5, <1>a, <1>b, <1>e, SMT DEF Peek
<1>6. ASSUME NEW n \in Sizes, PeekN(n) PROVE TypeInv'
  BY <1>6, <1>a, <1>b, <1>e, SMT DEF PeekN
<1>7. CASE Recount
  BY <1>7, SMT DEF Recount
<1>8. CASE PopTest
  BY <1>8, SMT DEF PopTest
<1>9. CASE Load
  BY <1>9, <1>d, SMT DEF Load
<1>10. CASE Retire
  BY <1>10, NextSlot, SMT DEF Retire
<1>11. CASE Look
  BY <1>11, <1>d, SMT DEF Look
<1>12. CASE Restore
  BY <1>12, SMT DEF Restore
<1>13. CASE AssertCount
  BY <1>13, SMT DEF AssertCount
<1> QED
  BY <1>1, <1>2, <1>3, <1>4, <1>5, <1>6, <1>7, <1>8, <1>9, <1>10, <1>11, <1>12, <1>13
     DEF Consumer, ConsumerCall, ConsumerStep

\* Every step keeps the types.
LEMMA TypeStep == TypeInv /\ [Next]_vars => TypeInv'
<1>1. TypeInv /\ UNCHANGED vars => TypeInv'
  BY SMT DEF TypeInv, TypeOK, vars, queue, locals
<1> QED
  BY <1>1, TypeProducer, TypeConsumer DEF Next

\* Every value stays in its type: above all the indices stay inside the buffer.
THEOREM TypeCorrect == Spec => []TypeOK
<1>1. TypeInv => TypeOK
  BY DEF TypeInv
<1> QED
  BY <1>1, TypeInit, TypeStep, PTL DEF Spec

-----------------------------------------------------------------------------
(* The assertions, for clients that disable interrupts around cq_peek_n.  From is   *)
(* where the elements of the queue begin, also while a peek has moved the tail.     *)

PeekingN ==
  consumer.call = "peek" /\ consumer.pc \in {"recount", "empty", "load", "retire",
                                             "restore", "recheck"}

\* The elements a call has still to put have their room, whatever the consumer does.
RoomReserved ==
  producer.pc \in {"full", "space", "store", "publish"}
    => Dist(head, From) + producer.left <= N - 1

\* During cq_peek_n the producer stands still, and the tail runs from mark to head.
PeekUndisturbed ==
  PeekingN =>
    /\ ~ints
    /\ sz = Dist(head, mark)
    /\ consumer.pc \in {"recount", "recheck"} => tail = mark
    /\ consumer.pc \in {"recount", "empty", "load", "retire"}
         => Dist(tail, mark) + consumer.left <= sz

\* The elements a call has still to get are there.
ElementsReserved ==
  /\ consumer.call = "pop" /\ consumer.pc \in {"empty", "load", "retire"}
       => consumer.left <= Dist(head, tail)
  /\ consumer.pc \in {"load", "retire", "look"} => head # tail

QueueInv ==
  /\ RoomReserved
  /\ PeekUndisturbed
  /\ ElementsReserved
  /\ NothingBreaks

\* How the distance changes when one end moves on by a slot.
LEMMA DistanceNext ==
  ASSUME NEW h \in Slots, NEW t \in Slots
  PROVE  /\ Dist(h, t) \in 0 .. N - 1
         /\ Dist(h, t) = 0 <=> h = t
         /\ Next1(h) = t <=> Dist(h, t) = N - 1
         /\ Dist(h, t) < N - 1 => Dist(Next1(h), t) = Dist(h, t) + 1
         /\ h # t => Dist(h, Next1(t)) = Dist(h, t) - 1
  BY NextSlot, QueueAssumptionHolds, SMT DEF Dist, QueueAssumption, Slots

\* From m past t to h: the parts add up.
LEMMA DistanceParts ==
  ASSUME NEW h \in Slots, NEW t \in Slots, NEW m \in Slots, Dist(t, m) <= Dist(h, m)
  PROVE  Dist(h, m) = Dist(t, m) + Dist(h, t)
  BY QueueAssumptionHolds, SMT DEF Dist, QueueAssumption, Slots

\* cq_nelem, cq_full and cq_empty in terms of the distance.
LEMMA Counts ==
  ASSUME head \in Slots, tail \in Slots
  PROVE  /\ NElem = Dist(head, tail)
         /\ Dist(head, tail) \in 0 .. N - 1
         /\ IsFull <=> Dist(head, tail) = N - 1
         /\ IsEmpty <=> Dist(head, tail) = 0
<1>1. NElem = Dist(head, tail)
  BY Distance DEF NElem
<1> QED
  BY <1>1, DistanceNext DEF IsFull, IsEmpty

\* Nothing is reserved at the start.
LEMMA QueueInit == Init => QueueInv
  BY SMT DEF Init, QueueInv, RoomReserved, PeekUndisturbed, PeekingN, ElementsReserved, NothingBreaks

\* The producer only adds elements, so it takes nothing the consumer has counted.
LEMMA QueueProducer == TypeInv /\ QueueInv /\ Producer => QueueInv'
<1> SUFFICES ASSUME TypeInv, QueueInv, Producer PROVE QueueInv'
  OBVIOUS
<1> USE DEF QueueInv, RoomReserved, PeekUndisturbed, PeekingN, ElementsReserved, NothingBreaks,
            ProducerAt, ProducerGoes, ProducerReturns, queue, locals
<1>1. /\ head \in Slots /\ tail \in Slots /\ N \in Nat
      /\ producer.left \in Nat
      /\ Sizes \subseteq Nat \ {0}
  BY QueueAssumptionHolds DEF QueueAssumption, TypeInv, TypeOK, ProducerCalls
<1>2. producer.pc \in {"full", "space", "store", "publish"} => producer.left >= 1
  BY DEF TypeInv
<1>3. /\ NElem = Dist(head, tail) /\ Dist(head, tail) \in 0 .. N - 1
      /\ IsFull <=> Dist(head, tail) = N - 1
  BY <1>1, Counts
<1>4. ints /\ ~PeekingN /\ From = tail
  BY DEF Producer, ProducerCall, ProducerStep, Push, PushN, PushNext, AssertSpace, Store, Publish,
     ProducerFrom, From, Passing
<1>5. CASE ProducerCall \/ PushNext \/ AssertSpace \/ \E x \in Elem : Store(x)
  <2>0. UNCHANGED <<head, tail, ints, consumer, locals>>
    BY <1>5 DEF ProducerCall, Push, PushN, PushNext, AssertSpace, Store
  <2>1. /\ From' = From
        /\ Dist(head', From') = Dist(head, tail) /\ Dist(head', tail') = Dist(head, tail)
    BY <1>4, <2>0 DEF From, Passing, Dist
  <2>2. PeekUndisturbed' /\ ElementsReserved'
    BY <2>0, <2>1, <1>4
  <2>3. CASE Push
    BY <2>1, <2>2, <2>3, <1>1, <1>3, <1>4, SMT DEF Push
  <2>4. ASSUME NEW n \in Sizes, PushN(n) PROVE QueueInv'
    BY <2>1, <2>2, <2>4, <1>1, <1>3, <1>4, SMT DEF PushN, NSpace
  <2>5. CASE PushNext
    BY <2>1, <2>2, <2>5, <1>1, <1>2, <1>3, <1>4, SMT DEF PushNext, ProducerFrom
  <2>6. CASE AssertSpace
    BY <2>1, <2>2, <2>6, <1>1, <1>2, <1>3, <1>4, SMT DEF AssertSpace, NSpace, ProducerFrom
  <2>7. ASSUME NEW x \in Elem, Store(x) PROVE QueueInv'
    BY <2>1, <2>2, <2>7, <1>1, <1>2, <1>3, <1>4, SMT DEF Store, ProducerFrom
  <2> QED
    BY <1>5, <2>3, <2>4, <2>5, <2>6, <2>7 DEF ProducerCall
<1>6. CASE Publish
  <2>1. head' = Next1(head) /\ tail' = tail /\ From' = tail
    BY <1>4, <1>6 DEF Publish, From, Passing
  <2>2. Dist(head, tail) + producer.left <= N - 1
    BY <1>4, <1>6 DEF Publish, ProducerFrom
  <2>3. Dist(head', tail') = Dist(head, tail) + 1 /\ head' # tail'
    <3>1. Dist(head, tail) < N - 1
      BY <1>1, <1>2, <1>3, <1>6, <2>2, SMT DEF Publish, ProducerFrom
    <3>2. Dist(Next1(head), tail) = Dist(head, tail) + 1 /\ Next1(head) # tail
      BY <3>1, <1>1, DistanceNext, SMT
    <3> QED
      BY <2>1, <3>2
  <2>4. PeekUndisturbed'
    BY <1>4, <1>6 DEF Publish
  <2>5. ElementsReserved'
    BY <2>3, <1>1, <1>3, <1>6, SMTT(20) DEF Publish, TypeInv, TypeOK, ConsumerCalls
  <2>6. RoomReserved' /\ NothingBreaks'
    BY <2>1, <2>2, <2>3, <1>1, <1>3, <1>6, SMT DEF Publish, ProducerFrom
  <2> QED
    BY <2>4, <2>5, <2>6
<1> QED
  BY <1>5, <1>6 DEF Producer, ProducerStep

\* A call that does not block has the elements it counted.
LEMMA NeverWaits == TypeInv /\ QueueInv => NonblockingNeverWaits
<1> SUFFICES ASSUME TypeInv, QueueInv, consumer.pc = "empty", IsEmpty
             PROVE  consumer.call = "wait"
  BY DEF NonblockingNeverWaits
<1>1. /\ head \in Slots /\ tail \in Slots /\ consumer.left \in Nat /\ consumer.left >= 1
      /\ mark \in Slots /\ consumer.call \in {"pop", "wait", "peek"}
  BY DEF TypeInv, TypeOK, ConsumerCalls
<1>2. Dist(head, tail) = 0 /\ Dist(tail, mark) = Dist(head, mark) /\ Dist(head, mark) \in Nat
  BY <1>1, Counts, DistanceNext DEF IsEmpty
<1>3. consumer.call # "pop"
  BY <1>1, <1>2, SMT DEF QueueInv, ElementsReserved
<1>4. consumer.call # "peek"
  BY <1>1, <1>2, SMT DEF QueueInv, PeekUndisturbed, PeekingN
<1> QED
  BY <1>1, <1>3, <1>4

\* The consumer only makes room, so it takes none the producer has tested for.
LEMMA QueueConsumer == ASSUME Masked PROVE TypeInv /\ QueueInv /\ Consumer => QueueInv'
<1> SUFFICES ASSUME TypeInv, QueueInv, Consumer PROVE QueueInv'
  OBVIOUS
<1> USE DEF QueueInv, RoomReserved, PeekUndisturbed, PeekingN, ElementsReserved, NothingBreaks,
            From, Passing, ConsumerAt, ConsumerGoes, ConsumerReturns, ConsumerStarts,
            ConsumerRefuses, Entered, queue, locals
<1>1. /\ head \in Slots /\ tail \in Slots /\ mark \in Slots /\ sz \in Nat /\ N \in Nat
      /\ consumer.left \in Nat /\ producer.left \in Nat
      /\ Sizes \subseteq Nat \ {0}
  BY QueueAssumptionHolds DEF QueueAssumption, TypeInv, TypeOK, ConsumerCalls, ProducerCalls, Slots
<1>2. consumer.pc \in {"recount", "empty", "load", "retire", "look"} => consumer.left >= 1
  BY DEF TypeInv
<1>3. /\ NElem = Dist(head, tail) /\ Dist(head, tail) \in 0 .. N - 1
      /\ IsEmpty <=> Dist(head, tail) = 0
  BY <1>1, Counts
<1>4. Dist(tail, tail) = 0 /\ Dist(tail, mark) \in 0 .. N - 1
  BY <1>1, DistanceNext
<1>5. ASSUME tail' = tail, head' = head, mark' = mark
      PROVE  /\ Dist(head', tail') = Dist(head, tail) /\ Dist(tail', mark') = Dist(tail, mark)
             /\ Dist(head', mark') = Dist(head, mark)
  BY <1>5
<1>6. CASE SetInts
  BY <1>6, <1>5 DEF SetInts
<1>7. ASSUME Entered, UNCHANGED <<queue, producer>>, consumer.pc = "idle"
      PROVE  /\ Dist(head', tail') = Dist(head, tail) /\ Dist(tail', mark') = 0
             /\ Dist(head', mark') = Dist(head, tail) /\ sz' = Dist(head, tail)
             /\ mark' = tail'
  BY <1>7, <1>3, <1>4
<1>8. CASE PopNonblock
  BY <1>8, <1>7, <1>3, SMT DEF PopNonblock, IsEmpty
<1>9. ASSUME NEW n \in Sizes \cup {1}, PopN(n) PROVE QueueInv'
  BY <1>9, <1>7, <1>3, SMT DEF PopN
<1>10. ASSUME NEW n \in Sizes, PopNNoblk(n) PROVE QueueInv'
  BY <1>10, <1>7, <1>3, <1>1, SMT DEF PopNNoblk
<1>11. CASE Peek
  BY <1>11, <1>7, <1>3, SMT DEF Peek, IsEmpty
<1>12. ASSUME NEW n \in Sizes, PeekN(n) PROVE QueueInv'
  BY <1>12, <1>7, <1>3, <1>1, SMT DEF PeekN
<1>13. CASE Recount
  <2>1. UNCHANGED <<head, tail, mark, sz, ints, producer>>
    BY <1>13 DEF Recount
  <2>2. /\ Dist(head', tail') = Dist(head, tail) /\ Dist(tail', mark') = Dist(tail, mark)
        /\ Dist(head', mark') = Dist(head, mark)
    BY <2>1
  <2>3. consumer.call = "peek"
    BY <1>13 DEF Recount, TypeInv
  <2> QED
    BY <1>13, <1>1, <1>3, <1>4, <2>1, <2>2, <2>3, SMT DEF Recount
<1>14. CASE PopTest
  <2>1. UNCHANGED <<head, tail, mark, sz, ints, producer>>
    BY <1>14 DEF PopTest
  <2>2. /\ Dist(head', tail') = Dist(head, tail) /\ Dist(tail', mark') = Dist(tail, mark)
        /\ Dist(head', mark') = Dist(head, mark)
    BY <2>1
  <2>3. CASE ~IsEmpty
    BY <1>14, <2>1, <2>2, <2>3, SMT DEF PopTest, IsEmpty
  <2>4. CASE IsEmpty
    <3>1. consumer.pc = "empty" /\ consumer.call = "wait"
      BY <1>14, <2>4, NeverWaits DEF PopTest, NonblockingNeverWaits, TypeInv, TypeOK, ConsumerCalls
    <3>2. consumer'.pc = "stopped" /\ From = tail /\ From' = tail
      BY <1>14, <2>1, <2>4, <3>1, SMT DEF PopTest
    <3> QED
      BY <2>1, <2>2, <3>1, <3>2
  <2> QED
    BY <2>3, <2>4
<1>15. CASE Load
  <2>1. UNCHANGED <<head, tail, mark, sz, ints, producer>>
    BY <1>15 DEF Load
  <2>2. /\ Dist(head', tail') = Dist(head, tail) /\ Dist(tail', mark') = Dist(tail, mark)
        /\ Dist(head', mark') = Dist(head, mark)
    BY <2>1
  <2> QED
    BY <1>15, <2>1, <2>2, SMT DEF Load
<1>16. CASE Retire
  <2>1. Dist(head, Next1(tail)) = Dist(head, tail) - 1
    BY <1>16, <1>1, DistanceNext DEF Retire
  <2>2. CASE consumer.call = "peek"
    <3>1. Dist(Next1(tail), mark) = Dist(tail, mark) + 1
      <4>1. Dist(tail, mark) < N - 1
        BY <1>16, <1>1, <1>2, <1>4, <2>2, DistanceNext, SMT DEF Retire
      <4> QED
        BY <1>1, <4>1, DistanceNext
    <3>2. /\ head' = head /\ mark' = mark /\ sz' = sz /\ ints' = ints /\ tail' = Next1(tail)
          /\ producer' = producer
      BY <1>16 DEF Retire
    <3>3. /\ From = mark /\ From' = mark /\ ~ints
          /\ consumer'.pc \in {"empty", "restore"} /\ consumer'.call = "peek"
          /\ consumer'.pc = "empty" => consumer'.left = consumer.left - 1
      BY <1>16, <2>2, SMT DEF Retire
    <3>4. RoomReserved'
      BY <3>2, <3>3
    <3>5. PeekUndisturbed'
      BY <1>1, <1>4, <1>16, <2>2, <3>1, <3>2, <3>3, SMT DEF Retire
    <3>6. ElementsReserved' /\ NothingBreaks'
      BY <3>2, <3>3
    <3> QED
      BY <3>4, <3>5, <3>6
  <2>3. CASE consumer.call # "peek"
    BY <1>16, <1>1, <1>2, <1>3, <2>1, <2>3, SMT DEF Retire
  <2> QED
    BY <2>2, <2>3
<1>17. CASE Look
  BY <1>17, <1>5, <1>3, SMT DEF Look
<1>18. CASE Restore
  <2>1. /\ UNCHANGED <<head, mark, sz, ints, producer>> /\ tail' = mark
        /\ consumer.pc = "restore" /\ consumer'.pc = "recheck" /\ consumer'.call = consumer.call
    BY <1>18 DEF Restore
  <2>2. consumer.call = "peek"
    BY <2>1 DEF TypeInv
  <2>3. From = mark /\ From' = mark
    BY <2>1, <2>2
  <2>4. RoomReserved'
    BY <2>1, <2>3
  <2>5. PeekUndisturbed'
    BY <2>1, <2>2
  <2> QED
    BY <2>1, <2>4, <2>5 
<1>19. CASE AssertCount
  <2>1. UNCHANGED <<head, tail, mark, sz, ints, producer>>
    BY <1>19 DEF AssertCount
  <2>2. /\ Dist(head', tail') = Dist(head, tail) /\ Dist(tail', mark') = Dist(tail, mark)
        /\ Dist(head', mark') = Dist(head, mark)
    BY <2>1
  <2>3. sz = NElem
    BY <1>19, <1>3 DEF AssertCount, TypeInv
  <2> QED
    BY <1>19, <2>1, <2>2, <2>3, SMT DEF AssertCount
<1> QED
  BY <1>6, <1>8, <1>9, <1>10, <1>11, <1>12, <1>13, <1>14, <1>15, <1>16, <1>17, <1>18, <1>19
     DEF Consumer, ConsumerCall, ConsumerStep

\* Both sides keep what the other has reserved.
LEMMA QueueStep == ASSUME Masked PROVE TypeInv /\ QueueInv /\ [Next]_vars => QueueInv'
<1>1. ASSUME QueueInv, UNCHANGED vars PROVE QueueInv'
  BY <1>1 DEF QueueInv, RoomReserved, PeekUndisturbed, PeekingN, ElementsReserved, NothingBreaks,
              From, Passing, vars, queue, locals, Dist
<1> QED
  BY <1>1, QueueProducer, QueueConsumer DEF Next

\* No assertion of circular.h fails and no call that is not to block comes to wait,
\* if cq_peek_n is called with interrupts disabled (circular.h:107, 155, 171).
THEOREM AssertionsHold ==
  ASSUME Masked PROVE Spec => []AssertsHold
<1>1. TypeInv /\ QueueInv => AssertsHold
  BY NeverWaits DEF QueueInv, AssertsHold
<1> QED
  BY <1>1, TypeInit, TypeStep, QueueInit, QueueStep, PTL DEF Spec

-----------------------------------------------------------------------------
(* The elements in k slots of a buffer b, going round from slot m. *)

Slice(b, m, k) == [i \in 1 .. k |-> b[(m + i - 1) % N]]

\* The slot j places behind m.
LEMMA SlotOf ==
  ASSUME NEW m \in Slots, NEW j \in 0 .. N - 1
  PROVE  /\ (m + j) % N \in Slots
         /\ (m + j) % N = IF m + j < N THEN m + j ELSE m + j - N
<1>1. m + j \in 0 .. 2 * N - 1 /\ N \in Nat /\ N > 1 /\ m \in 0 .. N - 1
  BY QueueAssumptionHolds, SMT DEF QueueAssumption, Slots
<1>2. \A x \in 0 .. 2 * N - 1 : x % N = IF x < N THEN x ELSE x - N
  BY Around
<1>3. (m + j) % N = IF m + j < N THEN m + j ELSE m + j - N
  BY <1>1, <1>2
<1> QED
  BY <1>1, <1>3, SMT DEF Slots

\* The distance leads from one end to the other.
LEMMA Reached ==
  ASSUME NEW h \in Slots, NEW m \in Slots
  PROVE  (m + Dist(h, m)) % N = h
<1>1. Dist(h, m) \in 0 .. N - 1
  BY DistanceNext
<1>2. (m + Dist(h, m)) % N
        = IF m + Dist(h, m) < N THEN m + Dist(h, m) ELSE m + Dist(h, m) - N
  BY <1>1, SlotOf
<1> QED
  BY <1>2, QueueAssumptionHolds, SMT DEF QueueAssumption, Slots, Dist

\* A slice of the buffer as a sequence.
LEMMA SliceSeq ==
  ASSUME NEW b \in [Slots -> Elem], NEW m \in Slots, NEW k \in 0 .. N - 1
  PROVE  /\ Slice(b, m, k) \in Seq(Elem)
         /\ Len(Slice(b, m, k)) = k
         /\ \A i \in 1 .. k : Slice(b, m, k)[i] = b[(m + i - 1) % N]
<1>1. N \in Nat
  BY QueueAssumptionHolds DEF QueueAssumption
<1>2. ASSUME NEW i \in 1 .. k PROVE b[(m + i - 1) % N] \in Elem
  <2>1. i - 1 \in 0 .. N - 1 /\ m + (i - 1) = m + i - 1
    BY <1>1, QueueAssumptionHolds, SMT DEF QueueAssumption, Slots
  <2>2. (m + (i - 1)) % N \in Slots
    BY <2>1, SlotOf
  <2> QED
    BY <2>1, <2>2
<1>3. Slice(b, m, k) \in [1 .. k -> Elem]
  BY <1>2 DEF Slice
<1> QED
  BY <1>1, <1>3, SMT DEF Slice

\* A slice that grows by the slot of head.
LEMMA SliceAppend ==
  ASSUME NEW b \in [Slots -> Elem], NEW m \in Slots, NEW h \in Slots, Dist(h, m) < N - 1
  PROVE  Slice(b, m, Dist(h, m) + 1) = Append(Slice(b, m, Dist(h, m)), b[h])
<1> DEFINE k == Dist(h, m)
<1>1. k \in 0 .. N - 1 /\ k + 1 \in 0 .. N - 1 /\ N \in Nat
  BY DistanceNext, QueueAssumptionHolds, SMT DEF QueueAssumption
<1>2. (m + k) % N = h
  BY <1>1, Reached
<1> HIDE DEF k
<1>3. /\ Slice(b, m, k + 1) \in Seq(Elem) /\ Len(Slice(b, m, k + 1)) = k + 1
      /\ \A i \in 1 .. k + 1 : Slice(b, m, k + 1)[i] = b[(m + i - 1) % N]
  BY <1>1, SliceSeq
<1>4. /\ Slice(b, m, k) \in Seq(Elem) /\ Len(Slice(b, m, k)) = k
      /\ \A i \in 1 .. k : Slice(b, m, k)[i] = b[(m + i - 1) % N]
  BY <1>1, SliceSeq
<1>5. m + (k + 1) - 1 = m + k
  BY <1>1, SMT DEF Slots
<1>6. Slice(b, m, k + 1)[k + 1] = b[h]
  BY <1>1, <1>2, <1>3, <1>5, SMT
<1>7. b[h] \in Elem
  OBVIOUS
<1> DEFINE s == Slice(b, m, k + 1)  r == Slice(b, m, k)
<1>8. /\ s \in Seq(Elem) /\ Len(s) = k + 1 /\ s[k + 1] = b[h]
      /\ r \in Seq(Elem) /\ Len(r) = k
      /\ \A i \in 1 .. k + 1 : s[i] = b[(m + i - 1) % N]
      /\ \A i \in 1 .. k : r[i] = b[(m + i - 1) % N]
  BY <1>3, <1>4, <1>6
<1> HIDE DEF s, r
<1>9. s = Append(r, b[h])
  <2>1. \A i \in 1 .. k : s[i] = r[i]
    <3> SUFFICES ASSUME NEW i \in 1 .. k PROVE s[i] = r[i]
      OBVIOUS
    <3>1. i \in 1 .. k + 1
      BY <1>1, SMT
    <3> QED
      BY <3>1, <1>8
  <2> QED
    BY <1>1, <1>7, <1>8, <2>1, SMT
<1> QED
  BY <1>9 DEF s, r, k

\* A slice that loses its first slot.
LEMMA SliceTail ==
  ASSUME NEW b \in [Slots -> Elem], NEW m \in Slots, NEW k \in 1 .. N - 1
  PROVE  /\ Slice(b, m, k) # <<>>
         /\ Head(Slice(b, m, k)) = b[m]
         /\ Slice(b, Next1(m), k - 1) = Tail(Slice(b, m, k))
<1>1. k \in 0 .. N - 1 /\ k - 1 \in 0 .. N - 1 /\ N \in Nat /\ m \in 0 .. N - 1 /\ N > 1
  BY QueueAssumptionHolds, SMT DEF QueueAssumption, Slots
<1> DEFINE s == Slice(b, m, k)  r == Slice(b, Next1(m), k - 1)
<1>2. /\ s \in Seq(Elem) /\ Len(s) = k
      /\ \A i \in 1 .. k : s[i] = b[(m + i - 1) % N]
  BY <1>1, SliceSeq
<1>3. /\ r \in Seq(Elem) /\ Len(r) = k - 1
      /\ \A i \in 1 .. k - 1 : r[i] = b[(Next1(m) + i - 1) % N]
  BY <1>1, NextSlot, SliceSeq
<1>4. ASSUME NEW i \in 1 .. k - 1 PROVE r[i] = s[i + 1]
  <2>1. i \in 0 .. N - 1 /\ i - 1 \in 0 .. N - 1 /\ i + 1 \in 1 .. k
    BY <1>1, SMT
  <2>2. (m + i) % N = IF m + i < N THEN m + i ELSE m + i - N
    BY <2>1, SlotOf
  <2>3. (Next1(m) + (i - 1)) % N
          = IF Next1(m) + (i - 1) < N THEN Next1(m) + (i - 1) ELSE Next1(m) + (i - 1) - N
    BY <2>1, NextSlot, SlotOf
  <2>4. Next1(m) = (IF m = N - 1 THEN 0 ELSE m + 1) /\ Next1(m) \in Int
    BY <1>1, NextSlot, SMT
  <2>5. (Next1(m) + (i - 1)) % N = (m + i) % N
    BY <1>1, <2>1, <2>2, <2>3, <2>4, SMT
  <2>6. Next1(m) + (i - 1) = Next1(m) + i - 1 /\ m + i = m + (i + 1) - 1
    BY <1>1, <2>1, <2>4, SMT
  <2> QED
    BY <1>2, <1>3, <2>1, <2>5, <2>6
<1>5. m % N = m /\ m + 1 - 1 = m
  BY <1>1, ModSmall
<1>6. s[1] = b[m]
  BY <1>1, <1>2, <1>5, SMT
<1> HIDE DEF s, r
<1>7. s # <<>> /\ Head(s) = b[m] /\ r = Tail(s)
  <2>1. s # <<>> /\ Head(s) = b[m]
    BY <1>1, <1>2, <1>6, SMT
  <2>2. /\ Tail(s) \in Seq(Elem) /\ Len(Tail(s)) = k - 1
        /\ \A i \in 1 .. Len(Tail(s)) : Tail(s)[i] = s[i + 1]
    BY <1>2, <2>1, HeadTailProperties
  <2>3. r = Tail(s)
    BY <1>3, <1>4, <2>2, SeqEqual
  <2> QED
    BY <2>1, <2>3
<1> QED
  BY <1>7 DEF s, r

\* The slot of head is none of those in use.
LEMMA SliceStore ==
  ASSUME NEW b \in [Slots -> Elem], NEW m \in Slots, NEW h \in Slots, NEW x \in Elem
  PROVE  Slice([b EXCEPT ![h] = x], m, Dist(h, m)) = Slice(b, m, Dist(h, m))
<1>1. N \in Nat /\ Dist(h, m) \in 0 .. N - 1
  BY DistanceNext, QueueAssumptionHolds DEF QueueAssumption
<1>2. ASSUME NEW i \in 1 .. Dist(h, m)
      PROVE  (m + i - 1) % N \in Slots /\ (m + i - 1) % N # h
  <2>1. i - 1 \in 0 .. N - 1 /\ m + (i - 1) = m + i - 1
    BY <1>1, SMT DEF Slots
  <2>2. /\ (m + (i - 1)) % N \in Slots
        /\ (m + (i - 1)) % N = IF m + (i - 1) < N THEN m + (i - 1) ELSE m + (i - 1) - N
    BY <2>1, SlotOf
  <2>3. (m + (i - 1)) % N # h
    BY <1>1, <2>1, <2>2, SMT DEF Dist, Slots
  <2> QED
    BY <2>1, <2>2, <2>3
<1>3. \A i \in 1 .. Dist(h, m) : [b EXCEPT ![h] = x][(m + i - 1) % N] = b[(m + i - 1) % N]
  BY <1>2
<1> QED
  BY <1>3 DEF Slice

\* What a peek has come to is in its place among the elements.
LEMMA SliceAt ==
  ASSUME NEW b \in [Slots -> Elem], NEW m \in Slots, NEW t \in Slots, NEW k \in 0 .. N - 1,
         Dist(t, m) < k
  PROVE  Slice(b, m, k)[Dist(t, m) + 1] = b[t]
<1> DEFINE j == Dist(t, m)
<1>1. j \in 0 .. N - 1 /\ N \in Nat
  BY DistanceNext, QueueAssumptionHolds DEF QueueAssumption
<1>2. (m + j) % N = t
  BY <1>1, Reached
<1>3. j < k
  OBVIOUS
<1> HIDE DEF j
<1>4. j + 1 \in 1 .. k /\ m + (j + 1) - 1 = m + j
  BY <1>1, <1>3, SMT DEF Slots
<1>5. Slice(b, m, k)[j + 1] = b[(m + (j + 1) - 1) % N]
  BY <1>4, SliceSeq
<1> QED
  BY <1>2, <1>4, <1>5 DEF j

-----------------------------------------------------------------------------
(* The queue implements the bounded FIFO.  What the answers and the elements got so *)
(* far are at each point of a call:                                                 *)

CallInv ==
  /\ producer.pc \in {"full", "space", "store", "publish"} => producer.answer = "busy"
  /\ producer.pc = "idle" => producer.answer # "busy"
  /\ consumer.pc = "idle" => consumer.answer \notin {"busy", "stopped"}
  /\ consumer.pc \in {"recount", "empty", "load", "retire", "look", "restore", "recheck"}
       => consumer.answer = "busy"
  /\ consumer.pc \in {"restore", "recheck"} => consumer.left = 0
  /\ consumer.pc = "look" => consumer.left = 1
  /\ consumer.pc \in {"recount", "look"} => read = <<>>
  /\ consumer.pc = "retire" => read # <<>> /\ read[Len(read)] = buf[tail]
  /\ consumer.call = "peek" /\ consumer.pc \in {"empty", "load", "retire"}
       => Len(Taking.out) = Dist(tail, mark)

\* No call has read anything at the start.
LEMMA CallInit == Init => CallInv
  BY SMT DEF Init, CallInv

\* Taking the last element off what a Load appended to leaves what there was.
LEMMA FrontOfAppend ==
  ASSUME NEW s \in Seq(Elem), NEW x \in Elem
  PROVE  /\ SubSeq(Append(s, x), 1, Len(Append(s, x)) - 1) = s
         /\ Append(s, x) # <<>>
         /\ Append(s, x)[Len(Append(s, x))] = x
<1>1. /\ Append(s, x) \in Seq(Elem) /\ Append(s, x) # <<>> /\ Len(Append(s, x)) = Len(s) + 1
      /\ \A i \in 1 .. Len(s) : Append(s, x)[i] = s[i]
      /\ Append(s, x)[Len(s) + 1] = x
  BY AppendProperties
<1> QED
  BY <1>1, SMT

\* A sequence is its front and its last element.
LEMMA AppendToFront ==
  ASSUME NEW s \in Seq(Elem), s # <<>>
  PROVE  /\ SubSeq(s, 1, Len(s) - 1) \in Seq(Elem)
         /\ Len(SubSeq(s, 1, Len(s) - 1)) = Len(s) - 1
         /\ s = Append(SubSeq(s, 1, Len(s) - 1), s[Len(s)])
<1> DEFINE n == Len(s)  f == SubSeq(s, 1, n - 1)  a == Append(f, s[n])
<1>1. n \in Nat /\ n >= 1 /\ n \in 1 .. n /\ \A i \in 1 .. n : s[i] \in Elem
  BY ElementOfSeq, SMT
<1> HIDE DEF n
<1>2. f \in Seq(Elem) /\ Len(f) = n - 1 /\ \A i \in 1 .. n - 1 : f[i] = s[i]
  <2>1. \A i \in 1 .. n - 1 : s[i] \in Elem
    BY <1>1, SMT
  <2>2. /\ f \in Seq(Elem) /\ Len(f) = IF 1 <= n - 1 THEN (n - 1) - 1 + 1 ELSE 0
        /\ \A i \in 1 .. (n - 1) - 1 + 1 : f[i] = s[1 + i - 1]
    BY <1>1, <2>1, SubSeqProperties
  <2> HIDE DEF f
  <2> QED
    BY <1>1, <2>2, SMT
<1> HIDE DEF f
<1>3. /\ a \in Seq(Elem) /\ Len(a) = Len(f) + 1
      /\ \A i \in 1 .. Len(f) : a[i] = f[i]
      /\ a[Len(f) + 1] = s[n]
  BY <1>1, <1>2, AppendProperties
<1> HIDE DEF a
<1>4. Len(a) = n /\ \A i \in 1 .. n : a[i] = s[i]
  BY <1>1, <1>2, <1>3, SMT
<1>5. a = s
  BY <1>3, <1>4, SeqEqual DEF n
<1> QED
  BY <1>2, <1>5 DEF n, f, a

\* The producer changes no slot of those the consumer has read.
LEMMA CallProducer == TypeInv /\ QueueInv /\ CallInv /\ Producer => CallInv'
<1> SUFFICES ASSUME TypeInv, QueueInv, CallInv, Producer PROVE CallInv'
  OBVIOUS
<1> USE DEF CallInv, ProducerAt, ProducerGoes, ProducerReturns, queue, locals
<1>1. UNCHANGED <<tail, consumer, locals>>
  BY DEF Producer, ProducerCall, ProducerStep, Push, PushN, PushNext, AssertSpace, Store, Publish
<1>2. Taking' = Taking /\ Dist(tail', mark') = Dist(tail, mark)
  BY <1>1 DEF Taking, Dist
<1>3. consumer.pc = "retire" => buf'[tail'] = buf[tail]
  <2>1. CASE UNCHANGED buf
    BY <1>1, <2>1
  <2>2. ASSUME NEW x \in Elem, Store(x), consumer.pc = "retire" PROVE buf'[tail'] = buf[tail]
    <3>1. head # tail
      BY <2>2 DEF QueueInv, ElementsReserved
    <3> QED
      BY <1>1, <2>2, <3>1 DEF Store, TypeInv, TypeOK
  <2> QED
    BY <2>1, <2>2 DEF Producer, ProducerCall, ProducerStep, Push, PushN, PushNext, AssertSpace, Publish
<1>4. /\ producer'.pc \in {"full", "space", "store", "publish"} => producer'.answer = "busy"
      /\ producer'.pc = "idle" => producer'.answer # "busy"
  <2>1. CASE ProducerCall
    BY <2>1, SMT DEF ProducerCall, Push, PushN
  <2>2. CASE ProducerStep
    BY <2>2, SMT DEF ProducerStep, PushNext, AssertSpace, Store, Publish
  <2> QED
    BY <2>1, <2>2 DEF Producer
<1> QED
  BY <1>1, <1>2, <1>3, <1>4

\* What the consumer has read grows by the slot of tail.
LEMMA CallConsumer == TypeInv /\ QueueInv /\ CallInv /\ Consumer => CallInv'
<1> SUFFICES ASSUME TypeInv, QueueInv, CallInv, Consumer PROVE CallInv'
  OBVIOUS
<1> USE DEF CallInv, ConsumerAt, ConsumerGoes, ConsumerReturns, ConsumerStarts,
            ConsumerRefuses, Entered, queue, locals
<1>1. /\ tail \in Slots /\ mark \in Slots /\ read \in Seq(Elem) /\ buf \in [Slots -> Elem]
      /\ consumer \in ConsumerCalls /\ Dist(tail, tail) = 0
  BY DistanceNext DEF TypeInv, TypeOK
<1>2. Taking.out = IF consumer.pc = "retire" THEN SubSeq(read, 1, Len(read) - 1) ELSE read
  BY DEF Taking
<1>3. Taking.out' = IF consumer'.pc = "retire" THEN SubSeq(read', 1, Len(read') - 1) ELSE read'
  BY DEF Taking
<1>4. CASE SetInts
  BY <1>4, <1>2, <1>3 DEF SetInts, Dist
<1>5. CASE ConsumerCall /\ ~SetInts
  <2>1. read' = <<>> /\ tail' = tail /\ mark' = tail
    BY <1>5 DEF ConsumerCall, PopNonblock, PopN, PopNNoblk, Peek, PeekN
  <2>2. CASE PopNonblock
    BY <1>1, <1>3, <2>1, <2>2, SMT DEF PopNonblock
  <2>3. ASSUME NEW n \in Sizes \cup {1}, PopN(n) PROVE CallInv'
    BY <1>1, <1>3, <2>1, <2>3, SMT DEF PopN
  <2>4. ASSUME NEW n \in Sizes, PopNNoblk(n) PROVE CallInv'
    BY <1>1, <1>3, <2>1, <2>4, SMT DEF PopNNoblk
  <2>5. CASE Peek
    BY <1>1, <1>3, <2>1, <2>5, SMT DEF Peek
  <2>6. ASSUME NEW n \in Sizes, PeekN(n) PROVE CallInv'
    BY <1>1, <1>3, <2>1, <2>6, SMT DEF PeekN
  <2> QED
    BY <1>5, <2>2, <2>3, <2>4, <2>5, <2>6 DEF ConsumerCall
<1>6. CASE Recount
  <2>1. mark = tail /\ read = <<>> /\ UNCHANGED <<tail, mark, read, producer>>
    BY <1>6 DEF Recount, QueueInv, PeekUndisturbed, PeekingN, TypeInv
  <2>2. Len(<<>>) = Dist(tail', mark')
    BY <1>1, <2>1
  <2> QED
    BY <1>6, <1>3, <2>1, <2>2, SMT DEF Recount
<1>7. CASE PopTest
  <2>1. UNCHANGED <<tail, mark, read, producer>> /\ consumer'.call = consumer.call
    BY <1>7, SMT DEF PopTest
  <2>2. Taking.out = read /\ Taking.out' = read
    BY <1>7, <1>2, <1>3, <2>1, SMT DEF PopTest
  <2> QED
    BY <1>7, <2>1, <2>2, SMT DEF PopTest, Dist
<1>8. CASE Load
  <2>1. /\ buf[tail] \in Elem /\ UNCHANGED <<buf, tail, mark, producer>>
        /\ read' = Append(read, buf[tail])
    BY <1>1, <1>8 DEF Load
  <2>2. SubSeq(read', 1, Len(read') - 1) = read /\ read' # <<>> /\ read'[Len(read')] = buf[tail]
    BY <1>1, <2>1, FrontOfAppend
  <2>3. Taking.out' = Taking.out
    BY <1>2, <1>3, <1>8, <2>2 DEF Load
  <2> QED
    BY <1>8, <2>1, <2>2, <2>3 DEF Load, Dist
<1>9. CASE Retire
  <2>1. UNCHANGED <<buf, mark, read, producer>> /\ tail' = Next1(tail) /\ consumer.pc = "retire"
    BY <1>9 DEF Retire
  <2>2. Len(SubSeq(read, 1, Len(read) - 1)) = Len(read) - 1
    BY <1>1, <2>1, AppendToFront
  <2>3. consumer.call = "peek" => Dist(tail', mark') = Len(read)
    <3> HAVE consumer.call = "peek"
    <3>1. Dist(tail, mark) = Len(read) - 1
      BY <1>2, <2>1, <2>2
    <3>2. Dist(tail, mark) < N - 1
      <4>1. /\ Dist(tail, mark) + consumer.left <= sz /\ sz \in Slots
            /\ consumer.left >= 1 /\ consumer.left \in Nat
        BY <2>1 DEF QueueInv, PeekUndisturbed, PeekingN, TypeInv, TypeOK, ConsumerCalls
      <4>2. Dist(tail, mark) \in 0 .. N - 1 /\ N \in Nat
        BY <1>1, DistanceNext, QueueAssumptionHolds DEF QueueAssumption
      <4> QED
        BY <4>1, <4>2, SMT DEF Slots
    <3> QED
      BY <1>1, <2>1, <3>1, <3>2, DistanceNext, SMT
  <2>4. Taking.out' = read
    BY <1>3, <1>9, <2>1, SMT DEF Retire
  <2> QED
    BY <1>9, <2>1, <2>3, <2>4, SMT DEF Retire
<1>10. CASE Look
  BY <1>10, SMT DEF Look
<1>11. CASE Restore
  BY <1>11 DEF Restore
<1>12. CASE AssertCount
  BY <1>12, SMT DEF AssertCount
<1> QED
  BY <1>4, <1>5, <1>6, <1>7, <1>8, <1>9, <1>10, <1>11, <1>12 DEF Consumer, ConsumerStep

\* Every step keeps what a call has read so far.
LEMMA CallStep == ASSUME Masked PROVE TypeInv /\ QueueInv /\ CallInv /\ [Next]_vars => CallInv'
<1>1. ASSUME CallInv, UNCHANGED vars PROVE CallInv'
  BY <1>1 DEF CallInv, Taking, vars, queue, locals, Dist
<1> QED
  BY <1>1, CallProducer, CallConsumer DEF Next

\* The abstract contents are a slice of the buffer.
LEMMA ItemsAre ==
  ASSUME NEW b, NEW h \in Slots, NEW m \in Slots
  PROVE  [i \in 1 .. ((h - m) % CountWord) % N |-> b[(m + i - 1) % N]] = Slice(b, m, Dist(h, m))
  BY Distance DEF Slice

IInv == TypeInv /\ QueueInv /\ CallInv

\* The queue starts as an empty FIFO.
LEMMA FifoInit == Init => Fifo!Init
<1> SUFFICES ASSUME Init PROVE Fifo!Init
  OBVIOUS
<1>1. 0 \in Slots
  BY QueueAssumptionHolds, SMT DEF QueueAssumption, Slots
<1>2. From = 0 /\ Dist(0, 0) = 0
  BY <1>1, DistanceNext DEF Init, From, Passing
<1>3. Contents = Slice(buf, 0, 0)
  <2>1. Contents = [i \in 1 .. ((0 - 0) % CountWord) % N |-> buf[(0 + i - 1) % N]]
    BY <1>2 DEF Contents, Init
  <2>2. [i \in 1 .. ((0 - 0) % CountWord) % N |-> buf[(0 + i - 1) % N]] = Slice(buf, 0, Dist(0, 0))
    BY <1>1, ItemsAre
  <2> QED
    BY <1>2, <2>1, <2>2
<1>4. Contents = <<>>
  BY <1>3, SMT DEF Slice
<1> QED
  BY <1>4 DEF Init, Fifo!Init, Putting, Taking

\* A step of the producer is a step of the FIFO's producer, or none.
LEMMA FifoProducer == IInv /\ IInv' /\ Producer => Fifo!Next \/ UNCHANGED Fifo!vars
<1> SUFFICES ASSUME IInv, IInv', Producer PROVE Fifo!Next \/ UNCHANGED Fifo!vars
  OBVIOUS
<1> USE DEF ProducerAt, ProducerGoes, ProducerReturns, Putting, queue, locals
<1>1. /\ head \in Slots /\ tail \in Slots /\ mark \in Slots /\ buf \in [Slots -> Elem]
      /\ head' \in Slots /\ From \in Slots /\ producer.left \in Nat /\ N \in Nat
      /\ Sizes \subseteq Nat \ {0}
  BY QueueAssumptionHolds DEF IInv, TypeInv, TypeOK, From, ProducerCalls, QueueAssumption
<1>2. ints /\ From = tail /\ From' = From /\ Taking' = Taking
      /\ UNCHANGED <<tail, consumer, locals>>
  <2>1. ints /\ UNCHANGED <<tail, consumer, locals>>
    BY DEF Producer, ProducerCall, ProducerStep, Push, PushN, PushNext, AssertSpace, Store,
           Publish, ProducerFrom
  <2>2. ~Passing
    BY <2>1 DEF IInv, QueueInv, PeekUndisturbed, PeekingN, Passing
  <2> QED
    BY <2>1, <2>2 DEF From, Passing, Taking
<1>3. Contents = Slice(buf, tail, Dist(head, tail)) /\ Contents' = Slice(buf', tail, Dist(head', tail))
  <2>1. Contents = [i \in 1 .. ((head - tail) % CountWord) % N |-> buf[(tail + i - 1) % N]]
    BY <1>2 DEF Contents
  <2>2. Contents' = [i \in 1 .. ((head' - tail) % CountWord) % N |-> buf'[(tail + i - 1) % N]]
    BY <1>2 DEF Contents
  <2>3. \A b, h, m : h \in Slots /\ m \in Slots
          => [i \in 1 .. ((h - m) % CountWord) % N |-> b[(m + i - 1) % N]] = Slice(b, m, Dist(h, m))
    BY ItemsAre
  <2> QED
    BY <1>1, <2>1, <2>2, <2>3
<1>4. /\ Dist(head, tail) \in 0 .. N - 1 /\ NElem = Dist(head, tail)
      /\ IsFull <=> Dist(head, tail) = N - 1
      /\ Len(Contents) = Dist(head, tail)
  BY <1>1, <1>3, Counts, SliceSeq
<1>5. ASSUME UNCHANGED <<buf, head>> PROVE Contents' = Contents
  BY <1>3, <1>5
<1>6. CASE Push
  <2>1. Contents' = Contents /\ producer.answer # "busy"
    BY <1>5, <1>6 DEF Push, ProducerFrom, IInv, CallInv
  <2>2. Putting' = IF Fifo!Refuses(1) THEN [left |-> 0, answer |-> "no"]
                   ELSE [left |-> 1, answer |-> "busy"]
    BY <1>1, <1>4, <1>6, SMT DEF Push, Fifo!Refuses
  <2>3. Fifo!StartPut(1)
    BY <1>2, <2>1, <2>2 DEF Fifo!StartPut
  <2> QED
    BY <2>3 DEF Fifo!Next
<1>7. ASSUME NEW n \in Sizes, PushN(n) PROVE Fifo!Next
  <2>1. Contents' = Contents /\ producer.answer # "busy"
    BY <1>5, <1>7 DEF PushN, ProducerFrom, IInv, CallInv
  <2>2. Putting' = IF Fifo!Refuses(n) THEN [left |-> 0, answer |-> "no"]
                   ELSE [left |-> n, answer |-> "busy"]
    BY <1>1, <1>4, <1>7, SMT DEF PushN, NSpace, Fifo!Refuses
  <2>3. Fifo!StartPut(n)
    BY <1>2, <2>1, <2>2 DEF Fifo!StartPut
  <2> QED
    BY <2>3 DEF Fifo!Next
<1>8. CASE PushNext \/ AssertSpace
  <2>1. Putting' = Putting
    BY <1>8 DEF PushNext, AssertSpace, ProducerFrom, IInv, CallInv
  <2> QED
    BY <1>2, <1>5, <1>8, <2>1 DEF PushNext, AssertSpace, Fifo!vars
<1>9. ASSUME NEW x \in Elem, Store(x) PROVE UNCHANGED Fifo!vars
  <2>1. Contents' = Contents
    BY <1>1, <1>3, <1>9, SliceStore DEF Store
  <2>2. Putting' = Putting
    BY <1>9 DEF Store, ProducerFrom, IInv, CallInv
  <2> QED
    BY <1>2, <2>1, <2>2 DEF Fifo!vars
<1>10. CASE Publish
  <2>1. producer.pc = "publish" /\ producer.left >= 1 /\ producer.answer = "busy"
    BY <1>10 DEF Publish, ProducerFrom, IInv, TypeInv, CallInv
  <2>2. Dist(head, tail) + producer.left <= N - 1
    BY <1>2, <2>1 DEF IInv, QueueInv, RoomReserved
  <2>3. Dist(head, tail) < N - 1
    BY <1>1, <1>4, <2>1, <2>2, SMT
  <2>4. Dist(head', tail) = Dist(head, tail) + 1 /\ buf' = buf
    BY <1>1, <1>10, <2>3, DistanceNext DEF Publish
  <2>5. Contents' = Append(Contents, buf[head])
    BY <1>1, <1>3, <2>3, <2>4, SliceAppend
  <2>6. Putting' = [left |-> producer.left - 1,
                    answer |-> IF producer.left = 1 THEN "yes" ELSE "busy"]
    BY <1>10, <2>1, SMT DEF Publish
  <2>7. Fifo!Put(buf[head])
    BY <1>2, <1>4, <2>1, <2>3, <2>5, <2>6 DEF Fifo!Put
  <2>8. buf[head] \in Elem
    BY <1>1
  <2> QED
    BY <2>7, <2>8 DEF Fifo!Next
<1> QED
  BY <1>6, <1>7, <1>8, <1>9, <1>10 DEF Producer, ProducerCall, ProducerStep

\* A step of the consumer is a step of the FIFO's consumer, or none.
LEMMA FifoConsumer ==
  ASSUME Masked PROVE IInv /\ IInv' /\ Consumer => Fifo!Next \/ UNCHANGED Fifo!vars
<1> SUFFICES ASSUME IInv, IInv', Consumer PROVE Fifo!Next \/ UNCHANGED Fifo!vars
  OBVIOUS
<1> USE DEF ConsumerAt, ConsumerGoes, ConsumerReturns, ConsumerStarts, ConsumerRefuses,
            Entered, queue, locals
<1>1. /\ head \in Slots /\ tail \in Slots /\ mark \in Slots /\ buf \in [Slots -> Elem]
      /\ tail' \in Slots /\ mark' \in Slots /\ read \in Seq(Elem) /\ sz \in Nat
      /\ From \in Slots /\ From' \in Slots
      /\ consumer.left \in Nat /\ N \in Nat /\ Sizes \subseteq Nat \ {0}
  BY QueueAssumptionHolds DEF IInv, TypeInv, TypeOK, From, ConsumerCalls, QueueAssumption, Slots
<1>2. UNCHANGED <<buf, head, producer>> /\ Putting' = Putting
  BY DEF Consumer, ConsumerCall, ConsumerStep, SetInts, PopNonblock, PopN, PopNNoblk, Peek,
         PeekN, Recount, PopTest, Load, Retire, Look, Restore, AssertCount, Putting
<1>3. Contents = Slice(buf, From, Dist(head, From)) /\ Contents' = Slice(buf, From', Dist(head, From'))
  <2>1. Contents = [i \in 1 .. ((head - From) % CountWord) % N |-> buf[(From + i - 1) % N]]
    BY DEF Contents
  <2>2. Contents' = [i \in 1 .. ((head - From') % CountWord) % N |-> buf[(From' + i - 1) % N]]
    BY <1>2 DEF Contents
  <2>3. \A b, h, m : h \in Slots /\ m \in Slots
          => [i \in 1 .. ((h - m) % CountWord) % N |-> b[(m + i - 1) % N]] = Slice(b, m, Dist(h, m))
    BY ItemsAre
  <2> QED
    BY <1>1, <2>1, <2>2, <2>3
<1>4. /\ Dist(head, From) \in 0 .. N - 1 /\ Len(Contents) = Dist(head, From)
      /\ Dist(head, mark) \in 0 .. N - 1 /\ Dist(tail, mark) \in 0 .. N - 1
      /\ NElem = Dist(head, tail) /\ Dist(head, tail) \in 0 .. N - 1
      /\ IsEmpty <=> Dist(head, tail) = 0
  <2>1. /\ Dist(head, From) \in 0 .. N - 1 /\ Dist(head, mark) \in 0 .. N - 1
        /\ Dist(tail, mark) \in 0 .. N - 1
    BY <1>1, DistanceNext
  <2>2. Len(Contents) = Dist(head, From)
    BY <1>1, <1>3, <2>1, SliceSeq
  <2>3. /\ NElem = Dist(head, tail) /\ Dist(head, tail) \in 0 .. N - 1
        /\ IsEmpty <=> Dist(head, tail) = 0
    BY <1>1, Counts
  <2> QED
    BY <2>1, <2>2, <2>3
<1>5. ASSUME From' = From PROVE Contents' = Contents
  BY <1>3, <1>5
<1>6. /\ Taking.kind = consumer.call /\ Taking.left = consumer.left
      /\ Taking.out = IF consumer.pc = "retire" THEN SubSeq(read, 1, Len(read) - 1) ELSE read
      /\ Taking.answer = IF consumer.pc \in {"restore", "recheck"} THEN "yes" ELSE consumer.answer
  BY DEF Taking
<1>7. Taking' = [kind |-> consumer'.call, left |-> consumer'.left,
                 out |-> IF consumer'.pc = "retire" THEN SubSeq(read', 1, Len(read') - 1) ELSE read',
                 answer |-> IF consumer'.pc \in {"restore", "recheck"} THEN "yes"
                            ELSE consumer'.answer]
  BY DEF Taking
<1>8. CASE SetInts
  BY <1>2, <1>5, <1>8 DEF SetInts, From, Passing, Taking, Fifo!vars
<1>9. ASSUME consumer.pc = "idle", UNCHANGED <<queue, producer>>, Entered,
             NEW kind \in {"pop", "wait", "peek"}, NEW n \in Sizes \cup {1},
             NEW pc \in {"empty", "load", "look", "recount"},
             consumer' = IF kind # "wait" /\ Dist(head, tail) < n
                         THEN [call |-> kind, pc |-> "idle", left |-> 0, answer |-> "no"]
                         ELSE [call |-> kind, pc |-> pc, left |-> n, answer |-> "busy"]
      PROVE  Fifo!Next
  <2>1. From = tail /\ From' = tail
    BY <1>9 DEF From, Passing
  <2>2. Contents' = Contents /\ Len(Contents) = Dist(head, tail)
    BY <1>4, <1>5, <2>1
  <2>3. Taking.answer \notin {"busy", "stopped"}
    BY <1>6, <1>9 DEF IInv, CallInv
  <2>4. Taking' = IF kind # "wait" /\ Fifo!Lacks(n)
                  THEN [kind |-> kind, left |-> 0, out |-> <<>>, answer |-> "no"]
                  ELSE [kind |-> kind, left |-> n, out |-> <<>>, answer |-> "busy"]
    <3>1. CASE kind # "wait" /\ Dist(head, tail) < n
      <4>1. Taking' = [kind |-> kind, left |-> 0, out |-> <<>>, answer |-> "no"]
        BY <1>7, <1>9, <3>1
      <4> QED
        BY <2>2, <3>1, <4>1 DEF Fifo!Lacks
    <3>2. CASE ~(kind # "wait" /\ Dist(head, tail) < n)
      <4>1. Taking' = [kind |-> kind, left |-> n, out |-> <<>>, answer |-> "busy"]
        BY <1>7, <1>9, <3>2
      <4> QED
        BY <2>2, <3>2, <4>1 DEF Fifo!Lacks
    <3> QED
      BY <3>1, <3>2
  <2>5. Fifo!StartTake(kind, n)
    BY <1>2, <2>2, <2>3, <2>4 DEF Fifo!StartTake
  <2> QED
    BY <2>5 DEF Fifo!Next
<1>10. CASE PopNonblock
  <2>1. IsEmpty <=> Dist(head, tail) < 1
    BY <1>1, <1>4, SMT
  <2> QED
    BY <1>9, <1>10, <2>1 DEF PopNonblock
<1>11. ASSUME NEW n \in Sizes \cup {1}, PopN(n) PROVE Fifo!Next
  BY <1>9, <1>11 DEF PopN
<1>12. ASSUME NEW n \in Sizes, PopNNoblk(n) PROVE Fifo!Next
  BY <1>4, <1>9, <1>12 DEF PopNNoblk
<1>13. CASE Peek
  <2>1. IsEmpty <=> Dist(head, tail) < 1
    BY <1>1, <1>4, SMT
  <2> QED
    BY <1>9, <1>13, <2>1 DEF Peek
<1>14. ASSUME NEW n \in Sizes, PeekN(n) PROVE Fifo!Next
  <2>1. n > NElem <=> Dist(head, tail) < n
    BY <1>1, <1>4, SMT
  <2> QED
    BY <1>9, <1>14, <2>1 DEF PeekN
<1>15. CASE Recount
  <2>1. consumer.pc = "recount" /\ consumer.call = "peek" /\ consumer.left <= NElem /\ mark = tail
    <3>1. /\ consumer.pc = "recount" /\ consumer.call = "peek" /\ mark = tail
          /\ Dist(tail, mark) + consumer.left <= sz /\ sz = Dist(head, mark)
      BY <1>15 DEF Recount, IInv, TypeInv, QueueInv, PeekUndisturbed, PeekingN
    <3> QED
      BY <1>1, <1>4, <3>1, SMT
  <2>2. consumer' = [call |-> "peek", pc |-> "empty", left |-> consumer.left, answer |-> "busy"]
        /\ UNCHANGED <<queue, producer, locals>>
    BY <1>1, <1>4, <1>15, <2>1, SMT DEF Recount
  <2>3. From = tail /\ From' = tail
    BY <2>1, <2>2 DEF From, Passing
  <2>4. Taking' = Taking
    BY <2>1, <2>2 DEF Taking, IInv, CallInv
  <2> QED
    BY <1>2, <1>5, <2>3, <2>4 DEF Fifo!vars
<1>16. CASE PopTest
  <2>1. consumer.pc = "empty" /\ consumer.answer = "busy" /\ UNCHANGED <<queue, producer, locals>>
    BY <1>16 DEF PopTest, IInv, CallInv
  <2>2. CASE ~IsEmpty
    <3>1. consumer' = [call |-> consumer.call, pc |-> "load", left |-> consumer.left,
                       answer |-> "busy"]
      BY <1>16, <2>2 DEF PopTest
    <3>2. From' = From /\ Taking' = Taking
      BY <2>1, <3>1 DEF From, Passing, Taking
    <3> QED
      BY <1>2, <1>5, <3>2 DEF Fifo!vars
  <2>3. CASE IsEmpty
    <3>1. consumer.call = "wait"
      BY <2>1, <2>3, NeverWaits DEF IInv, NonblockingNeverWaits
    <3>2. consumer' = [call |-> "wait", pc |-> "stopped", left |-> consumer.left,
                       answer |-> "stopped"]
      BY <1>16, <2>3, <3>1 DEF PopTest
    <3>3. From = tail /\ From' = tail
      BY <2>1, <3>1, <3>2 DEF From, Passing
    <3>4. Contents = <<>> /\ Contents' = Contents
      BY <1>3, <1>4, <1>5, <2>3, <3>3, SMT DEF Slice
    <3>5. Taking' = [Taking EXCEPT !.answer = "stopped"]
      BY <2>1, <3>1, <3>2 DEF Taking
    <3>6. Fifo!GiveUp
      BY <1>2, <1>6, <2>1, <3>1, <3>4, <3>5 DEF Fifo!GiveUp
    <3> QED
      BY <3>6 DEF Fifo!Next
  <2> QED
    BY <2>2, <2>3
<1>17. CASE Load
  <2>1. /\ consumer.pc = "load" /\ consumer.answer = "busy" /\ UNCHANGED <<queue, producer, mark>>
        /\ read' = Append(read, buf[tail]) /\ buf[tail] \in Elem
        /\ consumer' = [call |-> consumer.call, pc |-> "retire", left |-> consumer.left,
                        answer |-> "busy"]
    BY <1>1, <1>17 DEF Load, IInv, CallInv
  <2>2. SubSeq(read', 1, Len(read') - 1) = read
    BY <1>1, <2>1, FrontOfAppend
  <2>3. From' = From /\ Taking' = Taking
    BY <2>1, <2>2 DEF From, Passing, Taking
  <2> QED
    BY <1>2, <1>5, <2>3 DEF Fifo!vars
<1>18. CASE Retire
  <2>1. /\ consumer.pc = "retire" /\ consumer.answer = "busy" /\ consumer.left >= 1
        /\ tail' = Next1(tail) /\ UNCHANGED <<locals, producer>>
        /\ read # <<>> /\ read[Len(read)] = buf[tail] /\ head # tail
    BY <1>18 DEF Retire, IInv, CallInv, TypeInv, QueueInv, ElementsReserved
  <2>2. read = Append(Taking.out, buf[tail]) /\ Len(Taking.out) = Len(read) - 1
    BY <1>1, <1>6, <2>1, AppendToFront
  <2>3. Taking' = [kind |-> Taking.kind, left |-> Taking.left - 1,
                    out |-> Append(Taking.out, buf[tail]),
                    answer |-> IF Taking.left = 1 THEN "yes" ELSE "busy"]
    <3>1. Taking' = [kind |-> consumer.call, left |-> consumer.left - 1, out |-> read,
                     answer |-> IF consumer.left = 1 THEN "yes" ELSE "busy"]
      BY <1>1, <1>7, <1>18, <2>1, SMT DEF Retire
    <3> QED
      BY <1>6, <2>2, <3>1
  <2>4. CASE consumer.call # "peek"
    <3>1. From = tail /\ From' = Next1(tail)
      BY <1>18, <2>1, <2>4, SMT DEF From, Passing, Retire
    <3>2. Dist(head, tail) \in 1 .. N - 1 /\ Dist(head, Next1(tail)) = Dist(head, tail) - 1
      <4>1. Dist(head, tail) \in 1 .. N - 1
        BY <1>1, <1>4, <2>1, SMT DEF IsEmpty
      <4>2. Dist(head, Next1(tail)) = Dist(head, tail) - 1
        BY <1>1, <2>1, DistanceNext
      <4> QED
        BY <4>1, <4>2
    <3>3. Contents # <<>> /\ Head(Contents) = buf[tail] /\ Contents' = Tail(Contents)
      <4>1. tail \in Slots /\ buf \in [Slots -> Elem]
        BY <1>1
      <4>2. /\ Slice(buf, tail, Dist(head, tail)) # <<>>
            /\ Head(Slice(buf, tail, Dist(head, tail))) = buf[tail]
            /\ Slice(buf, Next1(tail), Dist(head, tail) - 1)
                 = Tail(Slice(buf, tail, Dist(head, tail)))
        BY <3>2, <4>1, SliceTail
      <4> QED
        BY <1>3, <3>1, <3>2, <4>1, <4>2
    <3>4. Taking.kind \in {"pop", "wait"} /\ Taking.answer = "busy"
      BY <1>6, <2>1, <2>4 DEF IInv, TypeInv, TypeOK, ConsumerCalls
    <3>5. Fifo!Take
      BY <1>2, <2>3, <3>3, <3>4 DEF Fifo!Take, Fifo!Got
    <3> QED
      BY <3>5 DEF Fifo!Next
  <2>5. CASE consumer.call = "peek"
    <3>1. From = mark /\ From' = mark
      BY <1>18, <2>1, <2>5, SMT DEF From, Passing, Retire
    <3>2. Len(Taking.out) = Dist(tail, mark) /\ Dist(tail, mark) + consumer.left <= Dist(head, mark)
      BY <2>1, <2>5 DEF IInv, CallInv, QueueInv, PeekUndisturbed, PeekingN
    <3>3. Dist(tail, mark) < Dist(head, mark) /\ Dist(head, mark) \in 0 .. N - 1
      BY <1>1, <1>4, <2>1, <3>2, SMT
    <3>4. Contents[Len(Taking.out) + 1] = buf[tail] /\ Len(Taking.out) < Len(Contents) /\ Contents' = Contents
      BY <1>1, <1>3, <1>4, <1>5, <3>1, <3>2, <3>3, SliceAt
    <3>5. Taking.kind = "peek" /\ Taking.answer = "busy"
      BY <1>6, <2>1, <2>5
    <3>6. Fifo!Look
      BY <1>2, <2>3, <3>4, <3>5 DEF Fifo!Look, Fifo!Got
    <3> QED
      BY <3>6 DEF Fifo!Next
  <2> QED
    BY <2>4, <2>5
<1>19. CASE Look
  <2>1. /\ consumer.pc = "look" /\ consumer.answer = "busy" /\ consumer.left = 1 /\ read = <<>>
        /\ consumer.call = "peek" /\ head # tail
        /\ UNCHANGED <<queue, producer>> /\ read' = Append(read, buf[tail])
        /\ consumer' = [call |-> "peek", pc |-> "idle", left |-> 0, answer |-> "yes"]
    BY <1>19 DEF Look, IInv, CallInv, TypeInv, QueueInv, ElementsReserved
  <2>2. From = tail /\ From' = tail
    BY <2>1 DEF From, Passing
  <2>3. Dist(head, tail) \in 1 .. N - 1
    BY <1>1, <1>4, <2>1, SMT DEF IsEmpty
  <2>4. Contents # <<>> /\ Head(Contents) = buf[tail] /\ Contents' = Contents /\ Len(Contents) >= 1
    BY <1>3, <1>4, <1>1, <1>5, <2>2, <2>3, SliceTail, SMT
  <2>5. Contents \in Seq(Elem)
    BY <1>1, <1>3, <1>4, SliceSeq
  <2>6. Taking.out = <<>> /\ Len(<<>>) = 0 /\ Contents[0 + 1] = buf[tail]
    BY <1>6, <2>1, <2>4, <2>5, SMT
  <2>7. Taking' = [kind |-> Taking.kind, left |-> Taking.left - 1,
                    out |-> Append(Taking.out, buf[tail]),
                    answer |-> IF Taking.left = 1 THEN "yes" ELSE "busy"]
    <3>1. Taking' = [kind |-> "peek", left |-> 0, out |-> read', answer |-> "yes"]
      BY <1>7, <2>1
    <3>2. Taking = [kind |-> "peek", left |-> 1, out |-> read, answer |-> "busy"]
      BY <2>1 DEF Taking
    <3> QED
      BY <2>1, <3>1, <3>2
  <2>8. Fifo!Look
    BY <1>2, <1>6, <2>1, <2>4, <2>6, <2>7, SMT DEF Fifo!Look, Fifo!Got
  <2> QED
    BY <2>8 DEF Fifo!Next
<1>20. CASE Restore
  <2>1. /\ consumer.pc = "restore" /\ consumer.call = "peek" /\ tail' = mark
        /\ UNCHANGED <<buf, head, ints, producer, locals>>
        /\ consumer' = [call |-> "peek", pc |-> "recheck", left |-> consumer.left, answer |-> "busy"]
    BY <1>20 DEF Restore, IInv, TypeInv
  <2>2. From = mark /\ From' = mark /\ Taking' = Taking
    BY <2>1 DEF From, Passing, Taking
  <2> QED
    BY <1>2, <1>5, <2>2 DEF Fifo!vars
<1>21. CASE AssertCount
  <2>1. consumer.pc = "recheck" /\ consumer.call = "peek" /\ consumer.left = 0 /\ sz = NElem
    BY <1>4, <1>21 DEF AssertCount, IInv, TypeInv, CallInv, QueueInv, PeekUndisturbed, PeekingN
  <2>2. /\ consumer' = [call |-> "peek", pc |-> "idle", left |-> 0, answer |-> "yes"]
        /\ UNCHANGED <<queue, producer, locals>>
    BY <1>21, <2>1 DEF AssertCount
  <2>3. From = tail /\ From' = tail /\ Taking' = Taking
    BY <2>1, <2>2 DEF From, Passing, Taking
  <2> QED
    BY <1>2, <1>5, <2>3 DEF Fifo!vars
<1> QED
  BY <1>8, <1>10, <1>11, <1>12, <1>13, <1>14, <1>15, <1>16, <1>17, <1>18, <1>19, <1>20, <1>21
     DEF Consumer, ConsumerCall, ConsumerStep

\* Elements come out of the queue once, in order and undamaged, whatever the
\* interleaving, and calls are refused for lack of space or elements only, if
\* cq_peek_n is called with interrupts disabled (circular.h:74-157).
THEOREM QueueImplementsFifo == ASSUME Masked PROVE Spec => ImplementsFifo
<1>1. Init => IInv
  BY TypeInit, QueueInit, CallInit DEF IInv
<1>2. IInv /\ [Next]_vars => IInv'
  BY TypeStep, QueueStep, CallStep DEF IInv
<1>3. IInv /\ IInv' /\ [Next]_vars => [Fifo!Next]_(Fifo!vars)
  <2>1. ASSUME UNCHANGED vars PROVE UNCHANGED Fifo!vars
    BY <2>1 DEF vars, queue, locals, Fifo!vars, Contents, Putting, Taking, From, Passing
  <2> QED
    BY <2>1, FifoProducer, FifoConsumer DEF Next
<1> QED
  BY <1>1, <1>2, <1>3, FifoInit, PTL DEF Spec, ImplementsFifo, Fifo!Spec
=============================================================================
