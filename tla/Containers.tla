------------------------------ MODULE Containers ------------------------------
(***************************************************************************)
(* Q.h, list-T.h, stack-T.h and vector-T.h: a queue and a list of elements *)
(* linked through one next field, and two arrays of fixed size.            *)
(*                                                                         *)
(* The stack's count lies right behind its array, so that the word after   *)
(* the last element is the count itself.                                   *)
(***************************************************************************)
EXTENDS Integers, Sequences, FiniteSets, SequencesExt

CONSTANTS LElems,     \* the elements a client links
          LNull,      \* the null pointer
          StackN,     \* N of the stack and of the vector
          StackWords  \* the words a client pushes

ASSUME ElementsAssumption ==
  IsFiniteSet(LElems) /\ LNull \notin LElems /\ StackN \in Nat

VARIABLES qhead, qtail, qcnt,  \* Q_t
          llist,               \* the client's E_T * of a list
          lnext,               \* the elements' next fields
          qseq, lseq,          \* the elements the client knows to be in the queue and in the list
          smem,                \* gen_stack_T's struct: 0 .. StackN - 1 is the array, StackN the count
          sseq,                \* what the client pushed and has not popped
          vec, vcnt,           \* gen_vector_T's struct
          vseq                 \* what the client appended

linkvars == <<qhead, qtail, qcnt, llist, lnext, qseq, lseq>>
arrayvars == <<smem, sseq, vec, vcnt, vseq>>
cvars == <<linkvars, arrayvars>>

ContainersInit ==
  /\ qhead = LNull /\ qtail = LNull /\ qcnt = 0 /\ llist = LNull
  /\ lnext = [e \in LElems |-> LNull]
  /\ qseq = <<>> /\ lseq = <<>>
  /\ smem = [i \in 0 .. StackN |-> 0] /\ sseq = <<>>
  /\ vec = [i \in 0 .. StackN - 1 |-> 0] /\ vcnt = 0 /\ vseq = <<>>

Unlinked == LElems \ (ToSet(qseq) \cup ToSet(lseq))

-----------------------------------------------------------------------------
(* Q.h.                                                                    *)

\* The fields after Q_push and Q_append of e, in the state they are called in.
Q_pushed(e) == /\ qcnt' = qcnt + 1
               /\ lnext' = [lnext EXCEPT ![e] = qhead]
               /\ qhead' = e
               /\ qtail' = IF qtail = LNull THEN e ELSE qtail

\* Wrong: e keeps the link it had.
AppendedKeepsNext(e) == /\ qcnt' = qcnt + 1
                        /\ lnext' = IF qtail = LNull THEN lnext ELSE [lnext EXCEPT ![qtail] = e]
                        /\ qhead' = IF qtail = LNull THEN e ELSE qhead
                        /\ qtail' = e

Q_appended(e) == /\ qcnt' = qcnt + 1
                 /\ lnext' = IF qtail = LNull THEN [lnext EXCEPT ![e] = LNull]
                             ELSE [lnext EXCEPT ![e] = LNull, ![qtail] = e]
                 /\ qhead' = IF qtail = LNull THEN e ELSE qhead
                 /\ qtail' = e

Q_pop == /\ qhead # LNull      \* otherwise null is returned
         /\ qcnt' = qcnt - 1
         /\ qhead' = lnext[qhead]
         /\ qtail' = IF qhead' = LNull THEN LNull ELSE qtail
         /\ qseq' = Tail(qseq)
         /\ UNCHANGED <<lnext, llist, lseq, arrayvars>>

Q_push == \E e \in Unlinked : /\ Q_pushed(e)
                              /\ qseq' = <<e>> \o qseq
                              /\ UNCHANGED <<llist, lseq, arrayvars>>

Q_append == \E e \in Unlinked : /\ Q_appended(e)
                                /\ qseq' = Append(qseq, e)
                                /\ UNCHANGED <<llist, lseq, arrayvars>>

Q_insert_after ==
  \E e \in ToSet(qseq) \cup {LNull}, e_new \in Unlinked :
    /\ \/ e = LNull /\ Q_pushed(e_new)
       \/ e # LNull /\ qtail = e /\ Q_appended(e_new)
       \/ /\ e # LNull /\ qtail # e
          /\ qcnt' = qcnt + 1
          /\ lnext' = [lnext EXCEPT ![e_new] = lnext[e], ![e] = e_new]
          /\ UNCHANGED <<qhead, qtail>>
    /\ qseq' = IF e = LNull THEN <<e_new>> \o qseq
               ELSE InsertAt(qseq, (CHOOSE i \in DOMAIN qseq : qseq[i] = e) + 1, e_new)
    /\ UNCHANGED <<llist, lseq, arrayvars>>

-----------------------------------------------------------------------------
(* list-T.h, over the same next field.                                     *)

List_pop == /\ llist # LNull
            /\ llist' = lnext[llist]
            /\ lseq' = Tail(lseq)
            /\ UNCHANGED <<qhead, qtail, qcnt, lnext, qseq, arrayvars>>

List_push == \E e \in Unlinked : /\ lnext' = [lnext EXCEPT ![e] = llist]
                                 /\ llist' = e
                                 /\ lseq' = <<e>> \o lseq
                                 /\ UNCHANGED <<qhead, qtail, qcnt, qseq, arrayvars>>

-----------------------------------------------------------------------------
(* stack-T.h and vector-T.h.                                               *)

scnt == smem[StackN]

\* push_ptr's test admits a count of N, and the N+1st element is stored over
\* the count.  What a stack does whose count is not the number of its elements
\* is left out: nothing is said of one any more.
StackPush == /\ scnt = Len(sseq) /\ ~(scnt > StackN)
             /\ \E e \in StackWords :
                  /\ smem' = [[smem EXCEPT ![StackN] = scnt + 1] EXCEPT ![scnt] = e]
                  /\ sseq' = Append(sseq, e)
             /\ UNCHANGED <<linkvars, vec, vcnt, vseq>>

StackPop == /\ scnt = Len(sseq) /\ scnt > 0     \* otherwise null or a failed demand
            /\ smem' = [smem EXCEPT ![StackN] = scnt - 1]
            /\ sseq' = Front(sseq)
            /\ UNCHANGED <<linkvars, vec, vcnt, vseq>>

VectorAppend == /\ vcnt < StackN                \* the assertion
                /\ \E e \in StackWords : /\ vec' = [vec EXCEPT ![vcnt] = e]
                                         /\ vseq' = Append(vseq, e)
                /\ vcnt' = vcnt + 1
                /\ UNCHANGED <<linkvars, smem, sseq>>

\* The elements from first, by next, of an array a with n of them; next and
\* prev compare with the element at the other end.
Forwards(a, n) == LET next[i \in 0 .. n] == IF i >= n THEN <<>> ELSE <<a[i]>> \o next[i + 1]
                  IN  next[0]
Backwards(a, n) == LET prev[i \in -1 .. n - 1] == IF i < 0 THEN <<>> ELSE <<a[i]>> \o prev[i - 1]
                   IN  prev[n - 1]

LinkNext == Q_pop \/ Q_push \/ Q_append \/ Q_insert_after \/ List_pop \/ List_push
ArrayNext == StackPush \/ StackPop \/ VectorAppend
ContainersNext == LinkNext \/ ArrayNext
ContainersSpec == ContainersInit /\ [][ContainersNext]_cvars
-----------------------------------------------------------------------------
\* The elements a client meets from e on, by Q_next; a cycle is cut off.
Linked(e) ==
  LET walk[n \in 0 .. Cardinality(LElems)] ==
        IF n = 0 THEN <<e>>
        ELSE LET w == walk[n - 1]
             IN  IF Last(w) = LNull THEN w ELSE Append(w, lnext[Last(w)])
  IN  Front(walk[Cardinality(LElems)])

\* The containers hold what was put in, in order: the queue and the list when
\* elements move between them with the links they had (Q.h:27-82,
\* list-T.h:12-25), the queue's tail and count agreeing with its head on being
\* empty; and the array of the vector both ways (vector-T.h:26-51).
ListsExact ==
  /\ Linked(qhead) = qseq /\ Linked(llist) = lseq
  /\ qcnt = Len(qseq)
  /\ qtail = IF qseq = <<>> THEN LNull ELSE Last(qseq)
  /\ vcnt = Len(vseq) /\ Forwards(vec, vcnt) = vseq /\ Backwards(vec, vcnt) = Reverse(vseq)

\* What stack-T.h says of the stack: it is of constant size, holds cnt elements
\* in stack[0] to stack[cnt - 1] (stack-T.h:4-15), and panics when there is no
\* room, for "max is" N (stack-T.h:29-30).  The test before the panic lets an
\* N+1st element through.
StackExact ==
  /\ Len(sseq) <= StackN
  /\ scnt = Len(sseq)
  /\ Forwards(smem, scnt) = sseq /\ Backwards(smem, scnt) = Reverse(sseq)
=============================================================================
