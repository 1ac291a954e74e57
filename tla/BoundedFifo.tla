------------------------------ MODULE BoundedFifo ------------------------------
(***************************************************************************)
(* What a queue of bounded capacity promises one producer and one consumer *)
(* (libpi/libc/circular.h): elements come out in the order they went in,   *)
(* a call for several elements is granted whole or not at all, and a call  *)
(* is refused only when there is no room for it or too little to take.     *)
(***************************************************************************)
EXTENDS Naturals, Sequences

CONSTANTS Capacity, Elem, Sizes

VARIABLES
  items,     \* the elements in the queue, oldest first
  putting,   \* the producer's call: elements still to put, and its answer
  taking     \* the consumer's call: its kind, elements still to get, those
             \* it got, and its answer

vars == <<items, putting, taking>>

Init ==
  /\ items = <<>>
  /\ putting = [left |-> 0, answer |-> "none"]
  /\ taking = [kind |-> "pop", left |-> 0, out |-> <<>>, answer |-> "none"]

Refuses(n) == Len(items) + n > Capacity
Lacks(n) == Len(items) < n

\* A call to put n elements, refused or granted at once.
StartPut(n) ==
  /\ putting.answer # "busy"
  /\ putting' = IF Refuses(n) THEN [left |-> 0, answer |-> "no"]
                ELSE [left |-> n, answer |-> "busy"]
  /\ UNCHANGED <<items, taking>>

Put(x) ==
  /\ putting.answer = "busy"
  /\ Len(items) < Capacity
  /\ items' = Append(items, x)
  /\ putting' = [left |-> putting.left - 1,
                 answer |-> IF putting.left = 1 THEN "yes" ELSE "busy"]
  /\ UNCHANGED taking

\* A call to pop or to peek at n elements is refused or granted at once, one that
\* waits is always granted.
StartTake(kind, n) ==
  /\ taking.answer \notin {"busy", "stopped"}
  /\ taking' = IF kind # "wait" /\ Lacks(n)
               THEN [kind |-> kind, left |-> 0, out |-> <<>>, answer |-> "no"]
               ELSE [kind |-> kind, left |-> n, out |-> <<>>, answer |-> "busy"]
  /\ UNCHANGED <<items, putting>>

Got(x) ==
  taking' = [kind |-> taking.kind, left |-> taking.left - 1, out |-> Append(taking.out, x),
             answer |-> IF taking.left = 1 THEN "yes" ELSE "busy"]

Take ==
  /\ taking.answer = "busy" /\ taking.kind \in {"pop", "wait"}
  /\ items # <<>>
  /\ Got(Head(items))
  /\ items' = Tail(items)
  /\ UNCHANGED putting

\* Peeking leaves the elements where they are.
Look ==
  /\ taking.answer = "busy" /\ taking.kind = "peek"
  /\ Len(taking.out) < Len(items)
  /\ Got(items[Len(taking.out) + 1])
  /\ UNCHANGED <<items, putting>>

\* A wait that nobody can end stops the program instead.
GiveUp ==
  /\ taking.answer = "busy" /\ taking.kind = "wait"
  /\ items = <<>>
  /\ taking' = [taking EXCEPT !.answer = "stopped"]
  /\ UNCHANGED <<items, putting>>

Next ==
  \/ \E n \in Sizes : StartPut(n)
  \/ \E x \in Elem : Put(x)
  \/ \E kind \in {"pop", "wait", "peek"}, n \in Sizes : StartTake(kind, n)
  \/ Take
  \/ Look
  \/ GiveUp

Spec == Init /\ [][Next]_vars
=============================================================================
