------------------------------ MODULE DropQueue ------------------------------
(***************************************************************************)
(* circular-T.h: the generic lock-free circular queue.  The producer is an *)
(* interrupt handler, which runs to its end; the consumer is interrupted   *)
(* between any two accesses.  pfx_push_w_drop moves the tail, which is the *)
(* consumer's, from the producer's side, as often as the producer runs     *)
(* between two accesses of a pop.                                          *)
(***************************************************************************)
EXTENDS Integers, Sequences

CONSTANTS QN,     \* N: the slots of the queue, of which N - 1 are used
          QWord,  \* the number of values of an unsigned
          PushMax \* bound on the elements pushed: 1, 2, 3, ...

\* Nothing checks a client's N; unless it divides 2^32, cnt is wrong once the
\* head is below the tail.
ASSUME SlotsDivideWord == QN \in Nat /\ QN > 1 /\ QWord \in Nat \ {0} /\ QWord % QN = 0

VARIABLES slot, chead, ctail,  \* CQ_T: c_buf, head, tail
          popper,              \* the consumer: how far its pop is
          loaded,              \* its local variables: tail, then *e
          given,               \* the elements pops returned, in this order
          pushed,              \* how many elements were pushed
          drops,               \* drops since the consumer loaded the tail
          lost,                \* the last element that the store of an overtaken
                               \* pop left behind the tail without returning it
          paniced              \* an assertion or panic was reached

qvars == <<slot, chead, ctail, popper, loaded, given, pushed, drops, lost, paniced>>

DropSlots == 0 .. QN - 1
Empty == chead = ctail
Full == (chead + 1) % QN = ctail
Cnt == ((chead - ctail) % QWord) % QN

DropInit ==
  /\ slot = [i \in DropSlots |-> 0] /\ chead = 0 /\ ctail = 0
  /\ popper = "idle" /\ loaded = <<0, 0>>
  /\ given = <<>> /\ pushed = 0 /\ drops = 0 /\ lost = 0
  /\ paniced = (~Empty \/ Full \/ Cnt # 0)      \* the assertions of pfx_mk

-----------------------------------------------------------------------------
(* The consumer.                                                           *)

\* pfx_pop_nonblk on a queue that is not empty; on an empty one it returns 0.
\* pfx_pop panics on an empty queue; its caller has looked before.
PopBegin == /\ popper = "idle" /\ ~Empty
            /\ popper' = "nonempty"
            /\ UNCHANGED <<slot, chead, ctail, loaded, given, pushed, drops, lost, paniced>>

PopTail == /\ popper = "nonempty"
           /\ popper' = "tail"
           /\ loaded' = <<ctail, 0>>
           /\ UNCHANGED <<slot, chead, ctail, given, pushed, drops, lost, paniced>>

\* 1
PopLoad == /\ popper = "tail"
           /\ popper' = "elem"
           /\ loaded' = <<loaded[1], slot[loaded[1]]>>
           /\ UNCHANGED <<slot, chead, ctail, given, pushed, drops, lost, paniced>>

\* Wrong: the tail is read again.
PopStoreAgain == /\ popper = "elem"
                 /\ popper' = "idle"
                 /\ ctail' = (ctail + 1) % QN
                 /\ given' = Append(given, loaded[2])
                 /\ drops' = 0
                 /\ UNCHANGED <<slot, chead, loaded, pushed, lost, paniced>>

\* 2.  Two drops since the load have moved the tail past the place it is given
\* here, so that the head is at it: the queue looks empty.  Each further drop
\* has pushed one element more.
PopStore == /\ popper = "elem"
            /\ popper' = "idle"
            /\ ctail' = (loaded[1] + 1) % QN
            /\ given' = Append(given, loaded[2])
            /\ drops' = 0
            /\ lost' = IF drops > 1 THEN pushed - ((drops - 2) % QN) ELSE lost
            /\ UNCHANGED <<slot, chead, loaded, pushed, paniced>>

\* pfx_get with interrupts disabled: the i-th element, or 0 (no element).
Get(i) == IF i >= Cnt THEN 0 ELSE slot[(ctail + i) % QN]

-----------------------------------------------------------------------------
(* The producer.                                                           *)

Pushed(x) == /\ slot' = [slot EXCEPT ![chead] = x]
             /\ chead' = (chead + 1) % QN

\* pfx_push: refused if the queue is full.
PushIfRoom == /\ pushed < PushMax /\ ~Full
              /\ Pushed(pushed + 1)
              /\ pushed' = pushed + 1
              /\ UNCHANGED <<ctail, popper, loaded, given, drops, lost, paniced>>

\* pfx_push_w_drop: pfx_pop discards the oldest element of a full queue, and
\* the push that follows cannot fail.
PushWDrop ==
  /\ pushed < PushMax
  /\ Pushed(pushed + 1)
  /\ pushed' = pushed + 1
  /\ ctail' = IF Full THEN (ctail + 1) % QN ELSE ctail
  /\ paniced' = (Full /\ (Empty \/ (chead + 1) % QN = ctail'))
  /\ drops' = IF Full /\ popper \in {"tail", "elem"} THEN drops + 1 ELSE drops
  /\ UNCHANGED <<popper, loaded, given, lost>>

DropNext == PopBegin \/ PopTail \/ PopLoad \/ PopStore \/ PushIfRoom \/ PushWDrop

DropSpec == DropInit /\ [][DropNext]_qvars
-----------------------------------------------------------------------------
\* The elements in the queue, oldest first.
Held == [i \in 1 .. Cnt |-> Get(i - 1)]

LastGiven == IF given = <<>> THEN 0 ELSE given[Len(given)]
Latest(m, n) == IF m > n THEN m ELSE n

\* The last element that need not be in the queue: a pop has returned it or a
\* newer one, or QN - 1 newer ones were pushed.
Gone == Latest(LastGiven, pushed - (QN - 1))

HoldsAfter(m) == Held = [i \in 1 .. pushed - m |-> m + i]

\* What circular-T.h says of the queue: it "should be thread safe for interrupt
\* handler producer / non-interrupt consumer" (circular-T.h:1-3), so it holds
\* the newest elements, all that were pushed after the last one a pop returned
\* or as many of them as fit.  But the tail has two mutators, and a pop that
\* two drops overtake between its load and its store moves it back
\* (circular-T.h:60-64, 103-107).
NewestKept == HoldsAfter(Gone)

\* However often drops overtake a pop, elements leave in the order of the
\* pushes, none twice, nothing panics, and the queue holds the newest elements,
\* in order: each that fits and was pushed after the last one returned, up to
\* those an overtaken pop has lost.  A pop loses some only when at least two
\* drops overtake it, and then all but one for each drop beyond the second,
\* counted modulo N.
NewestInOrder ==
  /\ ~paniced
  /\ \A i \in 1 .. Len(given) - 1 : given[i] < given[i + 1]
  /\ HoldsAfter(Latest(Gone, lost))
=============================================================================
