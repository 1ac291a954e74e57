--------------------------- MODULE AdditiveStreams ---------------------------
(***************************************************************************)
(* What random.c promises: every state array is the position in a sequence *)
(* of numbers of its own.  Numbers are drawn from the current one only; to *)
(* make another one current changes no position; seeding an array changes  *)
(* the position of that array only.                                        *)
(***************************************************************************)
EXTENDS Naturals, Sequences

CONSTANTS Buffers,  \* the state arrays
          Word,     \* words are taken modulo this power of two
          Sep       \* Sep[n]: the distance of the terms added, for n terms

VARIABLES stream,   \* stream[b]: the terms the next number is computed from
          current,  \* the state array numbers are drawn from
          out       \* the last number drawn

svars == <<stream, current, out>>

\* The next term of a sequence: linear congruential if only one term is kept,
\* else the sum of the oldest term and one that is Sep terms from the newest.
NextTerm(s) ==
  IF Len(s) = 1 THEN (s[1] * (1103515245 % Word) + 12345) % Word
                ELSE (s[1] + s[Len(s) - Sep[Len(s)] + 1]) % Word

Init == current \in Buffers /\ out = 0

Draw ==
  LET s == stream[current]
  IN  /\ stream' = [stream EXCEPT ![current] = Append(Tail(s), NextTerm(s))]
      /\ out' = NextTerm(s) \div (IF Len(s) = 1 THEN 1 ELSE 2)
      /\ UNCHANGED current

Select == current' \in Buffers /\ UNCHANGED <<stream, out>>

Seed ==
  /\ current' \in Buffers
  /\ \A c \in Buffers \ {current'} : stream'[c] = stream[c]
  /\ UNCHANGED out

Next == Draw \/ Select \/ Seed

Spec == Init /\ [][Next]_svars
=============================================================================
