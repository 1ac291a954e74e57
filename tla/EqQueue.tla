-------------------------------- MODULE EqQueue --------------------------------
(***************************************************************************)
(* The intrusive singly linked queue of libpi/libc/queue-ext-T.h, pointer  *)
(* by pointer, as one caller at a time uses it: gen_priority_queue_T, of   *)
(* which gen_queue_T is the part without insert_with_priority.  Its loop   *)
(* over the list is one action per element.                                *)
(*                                                                         *)
(* The history variables record the elements in the order the operations   *)
(* should leave them, and the last operation that changed the queue with   *)
(* its element; no operation reads them.                                   *)
(***************************************************************************)
EXTENDS Naturals, Sequences, SequencesExt

CONSTANTS
  Elem,      \* the elements
  Null,      \* the null pointer
  Priority   \* Priority[e]: the field e->priority

ASSUME NullAssumption == Null \notin Elem
ASSUME PriorityAssumption == Priority \in [Elem -> Nat]

VARIABLES
  head, tail,  \* the two fields of the queue
  next,        \* next[e]: the link of e, meaningful or stale
  new,         \* the element insert_with_priority places, Null outside it
  prev, cur,   \* its local variables
  order,       \* history: the contents, first element first
  last         \* history: the last operation and its element

vars == <<head, tail, next, new, prev, cur, order, last>>

Pointer == Elem \cup {Null}
Idle == new = Null

\* init, on elements whose links are zero.
Init ==
  /\ head = Null
  /\ tail = Null
  /\ next = [e \in Elem |-> Null]
  /\ new = Null
  /\ prev = Null
  /\ cur = Null
  /\ order = <<>>
  /\ last = <<>>

\* The caller passes an element that is in no queue.
Fresh(e) == Idle /\ e \notin ToSet(order)

\* The links of an append; the list is not empty when tail is set.
LinkLast(e) ==
  /\ next' = [x \in Elem |-> IF x = e THEN Null ELSE IF x = tail THEN e ELSE next[x]]
  /\ head' = IF tail = Null THEN e ELSE head
  /\ tail' = e

\* pop on a queue that is not empty; the link of the element stays as it is.
PopKeepsTail ==
  /\ Idle
  /\ head # Null
  /\ head' = next[head]
  /\ order' = Tail(order)
  /\ last' = <<"pop", head>>
  /\ UNCHANGED <<tail, next, new, prev, cur>>
Pop ==
  /\ Idle
  /\ head # Null
  /\ head' = next[head]
  /\ tail' = IF head' = Null THEN Null ELSE tail
  /\ order' = Tail(order)
  /\ last' = <<"pop", head>>
  /\ UNCHANGED <<next, new, prev, cur>>

\* append.
AppendLast(e) ==
  /\ Fresh(e)
  /\ LinkLast(e)
  /\ order' = Append(order, e)
  /\ last' = <<"append", e>>
  /\ UNCHANGED <<new, prev, cur>>

\* push.
Push(e) ==
  /\ Fresh(e)
  /\ next' = [next EXCEPT ![e] = head]
  /\ head' = e
  /\ tail' = IF tail = Null THEN e ELSE tail
  /\ order' = <<e>> \o order
  /\ last' = <<"push", e>>
  /\ UNCHANGED <<new, prev, cur>>

\* Wrong: every element is appended, whatever its priority.
InsertAppends(e) ==
  /\ Fresh(e)
  /\ LinkLast(e)
  /\ order' = Append(order, e)
  /\ last' = <<"insert_with_priority", e>>
  /\ UNCHANGED <<new, prev, cur>>

\* insert_with_priority: an empty queue is appended to, otherwise the scan
\* starts at the head.
InsertBegin(e) ==
  /\ Fresh(e)
  /\ IF head = Null
       THEN /\ LinkLast(e)
            /\ order' = Append(order, e)
            /\ last' = <<"insert_with_priority", e>>
            /\ UNCHANGED <<new, prev, cur>>
       ELSE /\ new' = e
            /\ prev' = Null
            /\ cur' = head
            /\ UNCHANGED <<head, tail, next, order, last>>

ScanStandsStill ==
  /\ ~Idle
  /\ cur # Null
  /\ Priority[new] <= Priority[cur]
  /\ prev' = cur
  /\ UNCHANGED <<head, tail, next, new, cur, order, last>>
\* The scan passes an element the new one does not outrank.
InsertScan ==
  /\ ~Idle
  /\ cur # Null
  /\ Priority[new] <= Priority[cur]
  /\ prev' = cur
  /\ cur' = next[cur]
  /\ UNCHANGED <<head, tail, next, new, order, last>>

\* The links of an insertion in front of cur.
LinkInFront ==
  next' = [x \in Elem |-> IF x = new THEN cur ELSE IF x = prev THEN new ELSE next[x]]

\* The scan finds one it outranks: link it in front.
InsertHere ==
  /\ ~Idle
  /\ cur # Null
  /\ Priority[new] > Priority[cur]
  /\ head' = IF prev = Null THEN new ELSE head
  /\ LinkInFront
  /\ \E k \in 1..Len(order) : order[k] = cur /\ order' = InsertAt(order, k, new)
  /\ last' = <<"insert_with_priority", new>>
  /\ new' = Null
  /\ UNCHANGED <<tail, prev, cur>>

\* It reaches the end of the list: append.
InsertLast ==
  /\ ~Idle
  /\ cur = Null
  /\ LinkLast(new)
  /\ order' = Append(order, new)
  /\ last' = <<"insert_with_priority", new>>
  /\ new' = Null
  /\ UNCHANGED <<prev, cur>>

Scan == InsertScan \/ InsertHere \/ InsertLast

Next ==
  \/ Pop
  \/ \E e \in Elem : AppendLast(e) \/ Push(e) \/ InsertBegin(e)
  \/ Scan

Spec == Init /\ [][Next]_vars

\* The loop of insert_with_priority runs: nothing in it waits.
FairSpec == Spec /\ WF_vars(Scan)

-----------------------------------------------------------------------------
QueueCalls == {"pop", "append", "push", "insert_with_priority"} \X Elem

TypeOK ==
  /\ {head, tail, new, prev, cur} \subseteq Pointer
  /\ next \in [Elem -> Pointer]
  /\ order \in Seq(Elem)
  /\ last \in QueueCalls \cup {<<>>}

\* The links spell q: from head to tail, in order, ending in a null pointer.
Represents(q) ==
  /\ IsInjective(q)
  /\ IF q = <<>> THEN head = Null /\ tail = Null
                 ELSE head = q[1] /\ tail = q[Len(q)]
  /\ \A i \in 1..Len(q) : next[q[i]] = IF i = Len(q) THEN Null ELSE q[i+1]

\* Whatever operations ran before, and with the stale links they left in the
\* elements, the list is the contents of the queue: no element is lost, no
\* cycle appears, and head is null exactly when tail is, which the demand of
\* empty asks for (queue-ext-T.h:76).
ListIntact == Represents(order)

\* The scan is at the k-th element, with prev the one before it, and has
\* passed no element the new one outranks.
ScanAt(k) ==
  /\ cur = IF k = Len(order) + 1 THEN Null ELSE order[k]
  /\ prev = IF k = 1 THEN Null ELSE order[k-1]
  /\ \A i \in 1..k-1 : Priority[order[i]] >= Priority[new]

\* What insert_with_priority's local variables say of the list, at every
\* turn of its loop.
ScanInOrder ==
  ~Idle => /\ order # <<>>
           /\ new \notin ToSet(order)
           /\ \E k \in 1..Len(order)+1 : ScanAt(k)

\* The inductive invariant: see EqQueueProofs.
QueueInv == TypeOK /\ ListIntact /\ ScanInOrder

\* The linked list implements the abstract queue: each operation takes or
\* adds its element at the place this operation promises, in one indivisible
\* step, so that insert_with_priority puts it behind all that do not rank
\* below it and in front of the rest (queue-ext-T.h:112-134).
Queue == INSTANCE PriorityQueue WITH queue <- order
ImplementsQueue == Queue!QueueSpec

\* insert_with_priority returns: its loop meets no cycle.
InsertReturns == ~Idle ~> Idle
=============================================================================
