----------------------------- MODULE CircularQueue -----------------------------
(***************************************************************************)
(* The lock-free circular queue of libpi/libc/circular.h, with one         *)
(* producer (an interrupt handler, or another thread) and one consumer     *)
(* that may be interrupted between any two accesses to memory.             *)
(*                                                                         *)
(* A step makes at most one access to what the other side writes: the      *)
(* consumer reads head and elements, the producer reads tail.  head is     *)
(* written by the producer only and tail by the consumer only, so each     *)
(* side knows its own.                                                     *)
(***************************************************************************)
EXTENDS Integers, Sequences

CONSTANTS
  N,         \* CQ_N, the number of slots
  CountWord, \* the number of values of an unsigned
  Elem,      \* the elements, cqe_t
  Zero,      \* what cq_init's memset leaves in a slot
  Sizes,     \* the sizes the clients ask for in the calls for n elements
  Masked     \* the client calls cq_peek_n with interrupts disabled only

\* With one slot the queue is empty and full at once, and cq_init asserts.  The
\* difference head - tail wraps at CountWord before it is reduced modulo N.
QueueAssumption ==
  /\ N \in Nat /\ N > 1
  /\ CountWord \in Nat /\ CountWord % N = 0 /\ CountWord >= N
  /\ Zero \in Elem
  /\ Sizes \subseteq Nat \ {0}
  /\ Masked \in BOOLEAN
ASSUME QueueAssumptionHolds == QueueAssumption

VARIABLES
  buf, head, tail,   \* c_buf, head, tail
  ints,              \* interrupts are enabled in the consumer
  producer,          \* the producer's call
  consumer,          \* the consumer's call,
  read,              \* the elements it has read,
  mark, sz           \* and the locals tail and sz of cq_peek_n

queue == <<buf, head, tail, ints>>
locals == <<read, mark, sz>>
vars == <<queue, producer, consumer, locals>>

Slots == 0 .. N - 1
Next1(i) == (i + 1) % N

IsEmpty == head = tail
IsFull == Next1(head) = tail
\* unsigned arithmetic: a negative difference wraps
NElem == ((head - tail) % CountWord) % N
NSpaceOfN == N - NElem
\* one slot stays empty, or a full queue would look empty
NSpace == (N - 1) - NElem

Init ==
  /\ buf = [i \in Slots |-> Zero]
  /\ head = 0 /\ tail = 0
  /\ ints = TRUE
  /\ producer = [pc |-> "idle", left |-> 0, answer |-> "none"]
  /\ consumer = [pc |-> "idle", call |-> "pop", left |-> 0, answer |-> "none"]
  /\ read = <<>> /\ mark = 0 /\ sz = 0

-----------------------------------------------------------------------------
(* The producer. *)

ProducerAt(pc, left, answer) ==
  producer' = [pc |-> pc, left |-> left, answer |-> answer]
ProducerGoes(pc) == ProducerAt(pc, producer.left, "busy")
ProducerReturns(answer) == ProducerAt("idle", 0, answer)

ProducerFrom(pc) == ints /\ producer.pc = pc

\* cq_push, up to its first test
Push ==
  /\ ProducerFrom("idle")
  /\ IF IsFull THEN ProducerReturns("no") ELSE ProducerAt("space", 1, "busy")
  /\ UNCHANGED <<queue, consumer, locals>>

\* cq_push_n, up to its test of the space
PushN(n) ==
  /\ ProducerFrom("idle")
  /\ IF NSpace < n THEN ProducerReturns("no") ELSE ProducerAt("full", n, "busy")
  /\ UNCHANGED <<queue, consumer, locals>>

\* the test in cq_push, called by cq_push_n, which panics if it fails
PushNext ==
  /\ ProducerFrom("full")
  /\ ProducerGoes(IF IsFull THEN "stopped" ELSE "space")
  /\ UNCHANGED <<queue, consumer, locals>>

\* assert(cq_nspace(c) > 0)
AssertSpace ==
  /\ ProducerFrom("space")
  /\ ProducerGoes(IF NSpace > 0 THEN "store" ELSE "stopped")
  /\ UNCHANGED <<queue, consumer, locals>>

Store(x) ==
  /\ ProducerFrom("store")
  /\ buf' = [buf EXCEPT ![head] = x]
  /\ ProducerGoes("publish")
  /\ UNCHANGED <<head, tail, ints, consumer, locals>>

Publish ==
  /\ ProducerFrom("publish")
  /\ head' = Next1(head)
  /\ IF producer.left = 1 THEN ProducerReturns("yes")
     ELSE ProducerAt("full", producer.left - 1, "busy")
  /\ UNCHANGED <<buf, tail, ints, consumer, locals>>

-----------------------------------------------------------------------------
(* The consumer. *)

ConsumerAt(call, pc, left, answer) ==
  consumer' = [call |-> call, pc |-> pc, left |-> left, answer |-> answer]
ConsumerGoes(pc) == ConsumerAt(consumer.call, pc, consumer.left, "busy")
ConsumerReturns(answer) == ConsumerAt(consumer.call, "idle", 0, answer)
ConsumerStarts(call, pc, n) == ConsumerAt(call, pc, n, "busy")
ConsumerRefuses(call) == ConsumerAt(call, "idle", 0, "no")
Entered == read' = <<>> /\ mark' = tail /\ sz' = NElem

\* The mainline disables and enables interrupts between calls.
SetInts ==
  /\ consumer.pc = "idle"
  /\ ints' = ~ints
  /\ UNCHANGED <<buf, head, tail, producer, consumer, locals>>

\* cq_pop_nonblock, up to its test
PopNonblock ==
  /\ consumer.pc = "idle"
  /\ IF IsEmpty THEN ConsumerRefuses("pop") ELSE ConsumerStarts("pop", "load", 1)
  /\ Entered
  /\ UNCHANGED <<queue, producer>>

\* cq_pop (n = 1) and cq_pop_n
PopN(n) ==
  /\ consumer.pc = "idle"
  /\ ConsumerStarts("wait", "empty", n)
  /\ Entered
  /\ UNCHANGED <<queue, producer>>

\* cq_pop_n_noblk, up to its test
PopNNoblk(n) ==
  /\ consumer.pc = "idle"
  /\ IF NElem < n THEN ConsumerRefuses("pop") ELSE ConsumerStarts("pop", "empty", n)
  /\ Entered
  /\ UNCHANGED <<queue, producer>>

\* cq_peek, up to its test
Peek ==
  /\ consumer.pc = "idle"
  /\ IF IsEmpty THEN ConsumerRefuses("peek") ELSE ConsumerStarts("peek", "look", 1)
  /\ Entered
  /\ UNCHANGED <<queue, producer>>

\* cq_peek_n, up to its own test: sz and the tail are kept
PeekN(n) ==
  /\ consumer.pc = "idle"
  /\ Masked => ~ints
  /\ IF n > NElem THEN ConsumerRefuses("peek") ELSE ConsumerStarts("peek", "recount", n)
  /\ Entered
  /\ UNCHANGED <<queue, producer>>

\* the test of cq_pop_n_noblk, called by cq_peek_n
Recount ==
  /\ consumer.pc = "recount"
  /\ IF NElem < consumer.left THEN ConsumerReturns("no") ELSE ConsumerGoes("empty")
  /\ UNCHANGED <<queue, producer, locals>>

PopTestForever ==
  /\ consumer.pc = "empty"
  /\ ~IsEmpty /\ ConsumerGoes("load")
  /\ UNCHANGED <<queue, producer, locals>>
\* The loop of cq_pop ends when there is an element, panics when none can come,
\* and otherwise tests again, which changes nothing.
PopTest ==
  /\ consumer.pc = "empty"
  /\ \/ ~IsEmpty /\ ConsumerGoes("load")
     \/ IsEmpty /\ ~ints
        /\ ConsumerAt(consumer.call, "stopped", consumer.left, "stopped")
  /\ UNCHANGED <<queue, producer, locals>>

Load ==
  /\ consumer.pc = "load"
  /\ read' = Append(read, buf[tail])
  /\ ConsumerGoes("retire")
  /\ UNCHANGED <<queue, producer, mark, sz>>

Retire ==
  /\ consumer.pc = "retire"
  /\ tail' = Next1(tail)
  /\ \/ consumer.left > 1
        /\ ConsumerAt(consumer.call, "empty", consumer.left - 1, "busy")
     \/ consumer.left = 1 /\ consumer.call # "peek" /\ ConsumerReturns("yes")
     \/ consumer.left = 1 /\ consumer.call = "peek"
        /\ ConsumerAt("peek", "restore", 0, "busy")
  /\ UNCHANGED <<buf, head, ints, producer, locals>>

\* cq_peek, after its test
Look ==
  /\ consumer.pc = "look"
  /\ read' = Append(read, buf[tail])
  /\ ConsumerReturns("yes")
  /\ UNCHANGED <<queue, producer, mark, sz>>

RestoreForgotten ==
  /\ consumer.pc = "restore"
  /\ ConsumerGoes("recheck")
  /\ UNCHANGED <<queue, producer, locals>>
\* cq_peek_n: the tail is moved back
Restore ==
  /\ consumer.pc = "restore"
  /\ tail' = mark
  /\ ConsumerGoes("recheck")
  /\ UNCHANGED <<buf, head, ints, producer, locals>>

\* assert(sz == cq_nelem(c))
AssertCount ==
  /\ consumer.pc = "recheck"
  /\ IF sz = NElem THEN ConsumerReturns("yes") ELSE ConsumerGoes("broken")
  /\ UNCHANGED <<queue, producer, locals>>

-----------------------------------------------------------------------------
\* A panic of either side reboots the machine.
NoPanic == producer.pc # "stopped" /\ consumer.pc \notin {"stopped", "broken"}

ProducerCall == Push \/ \E n \in Sizes : PushN(n)
ProducerStep == PushNext \/ AssertSpace \/ (\E x \in Elem : Store(x)) \/ Publish

ConsumerCall ==
  \/ SetInts
  \/ PopNonblock
  \/ \E n \in Sizes \cup {1} : PopN(n)
  \/ \E n \in Sizes : PopNNoblk(n)
  \/ Peek
  \/ \E n \in Sizes : PeekN(n)
ConsumerStep ==
  \/ Recount \/ PopTest \/ Load \/ Retire
  \/ Look \/ Restore \/ AssertCount

Producer == NoPanic /\ (ProducerCall \/ ProducerStep)
Consumer == NoPanic /\ (ConsumerCall \/ ConsumerStep)

Next == Producer \/ Consumer

Spec == Init /\ [][Next]_vars

\* Each side gets the processor, and the device goes on producing.
FairSpec == Spec /\ WF_vars(Producer) /\ WF_vars(NoPanic /\ ConsumerStep)

-----------------------------------------------------------------------------
ProducerCalls ==
  [pc : {"idle", "full", "space", "store", "publish", "stopped"}, left : Nat,
   answer : {"none", "busy", "yes", "no"}]
ConsumerCalls ==
  [call : {"pop", "wait", "peek"},
   pc : {"idle", "recount", "empty", "load", "retire", "look", "restore",
         "recheck", "stopped", "broken"},
   left : Nat, answer : {"none", "busy", "yes", "no", "stopped"}]

TypeOK ==
  /\ buf \in [Slots -> Elem]
  /\ head \in Slots /\ tail \in Slots
  /\ ints \in BOOLEAN
  /\ producer \in ProducerCalls
  /\ consumer \in ConsumerCalls
  /\ read \in Seq(Elem)
  /\ mark \in Slots /\ sz \in Slots

NothingBreaks == producer.pc # "stopped" /\ consumer.pc # "broken"
NonblockingNeverWaits ==
  consumer.pc = "empty" /\ consumer.call # "wait" => ~IsEmpty

\* Wherever the two sides interrupt each other, neither an assertion of the code
\* nor a panic("impossible") is reached (circular.h:107, 155, 171), and a call that is
\* not to block (cq_pop_n_noblk, cq_peek_n) goes on to cq_pop, which would wait, only
\* for elements that are there: none of those it counted can go away.
AssertsHold == NothingBreaks /\ NonblockingNeverWaits

\* cq_peek_n "non-destructively peek[s] ahead" (circular.h:142): the elements it
\* counted first are there afterwards, no more and no fewer (circular.h:155).
PeekKeepsCount == consumer.pc # "broken"

\* A blocking pop comes back, or panics because interrupts are disabled: it never
\* waits for an element that cannot come (circular.h:91-96).
PopReturns == (consumer.answer = "busy") ~> (consumer.answer # "busy")

(* What the queue is to its clients.  The elements a peek has passed are still in   *)
(* it, and an element leaves it when the tail moves, not when it is read.           *)
Passing == consumer.call = "peek" /\ consumer.pc \in {"empty", "load", "retire", "restore"}
From == IF Passing THEN mark ELSE tail
Contents == [i \in 1 .. ((head - From) % CountWord) % N |-> buf[(From + i - 1) % N]]
Putting == [left |-> producer.left, answer |-> producer.answer]
Taking ==
  [kind |-> consumer.call, left |-> consumer.left,
   out |-> IF consumer.pc = "retire"
           THEN SubSeq(read, 1, Len(read) - 1) ELSE read,
   answer |-> IF consumer.pc \in {"restore", "recheck"} THEN "yes" ELSE consumer.answer]

Fifo == INSTANCE BoundedFifo WITH
  Capacity <- N - 1, Sizes <- Sizes \cup {1},
  items <- Contents, putting <- Putting, taking <- Taking

\* Whatever the interleaving, elements come out once, in order and undamaged, a peek
\* removes none, and calls are refused only for lack of space or of elements.
ImplementsFifo == Fifo!Spec
=============================================================================
