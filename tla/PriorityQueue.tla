----------------------------- MODULE PriorityQueue -----------------------------
(***************************************************************************)
(* What a queue of libpi/libc/queue-ext-T.h promises: a sequence of        *)
(* distinct elements, taken from the front, that can be added to at either *)
(* end or by priority, behind every element at the front of the queue that *)
(* does not rank below the new one.                                        *)
(*                                                                         *)
(* last names the operation that changed the queue and its element, so     *)
(* that an operation may add only where it promises to, and not where      *)
(* another one would.                                                      *)
(***************************************************************************)
EXTENDS Naturals, Sequences, SequencesExt

CONSTANTS Elem, Priority

VARIABLES queue, last

QueueInit == queue = <<>> /\ last = <<>>

TakeFirst(e) == queue # <<>> /\ e = Head(queue) /\ queue' = Tail(queue)

AddLast(e) == e \notin ToSet(queue) /\ queue' = Append(queue, e)

AddFirst(e) == e \notin ToSet(queue) /\ queue' = <<e>> \o queue

AddByPriority(e) ==
  /\ e \notin ToSet(queue)
  /\ \E k \in 1..Len(queue)+1 :
       /\ \A i \in 1..k-1 : Priority[queue[i]] >= Priority[e]
       /\ k <= Len(queue) => Priority[queue[k]] < Priority[e]
       /\ queue' = InsertAt(queue, k, e)

Operation(e) ==
  \/ last' = <<"pop", e>> /\ TakeFirst(e)
  \/ last' = <<"append", e>> /\ AddLast(e)
  \/ last' = <<"push", e>> /\ AddFirst(e)
  \/ last' = <<"insert_with_priority", e>> /\ AddByPriority(e)

QueueNext == \E e \in Elem : Operation(e)

QueueSpec == QueueInit /\ [][QueueNext]_<<queue, last>>
=============================================================================
