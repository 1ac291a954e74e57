------------------------------- MODULE Random -------------------------------
(***************************************************************************)
(* random.c: additive feedback generators over state arrays that clients   *)
(* provide, and pi-random.c, its wrapper with one static array.            *)
(*                                                                         *)
(* A generator is a record: the fields of struct random_data (pointers     *)
(* into the array are indexes) and mem, the client's arrays.  mem[b].head  *)
(* is the word at index -1, where the rear pointer is kept while another   *)
(* array is current.  Words are kept modulo Word, a power of two: every    *)
(* operation on them is a sum or a product, so the low bits are exact.     *)
(***************************************************************************)
EXTENDS Integers, Sequences, Folds

CONSTANTS Buffers,   \* the state arrays of the client
          Size,      \* Size[b]: the bytes of array b
          Seeds,     \* the seeds used, as 32-bit signed numbers
          Word,      \* words are kept modulo this power of two
          SaveFirst, \* clients call setstate before initstate
          MaxCalls   \* bound on the calls of a behaviour

ASSUME RandomConstants ==
  Word \in Nat \ {0} /\ Size \in [Buffers -> Nat] /\ Seeds \subseteq Int

VARIABLES gen,       \* the client's generator
          out,       \* the last number it drew
          pi,        \* pi-random.c: its generator r over statebuf
          pi_state,  \* initialized_p
          pi_out,    \* the numbers pi_random returned
          calls

gvars == <<gen, out>>
pvars == <<pi, pi_state, pi_out>>
rvars == <<gen, out, pi, pi_state, pi_out, calls>>

MAX_TYPES == 5
seps == [t \in 0 .. 4 |-> <<0, 3, 1, 3, 1>>[t + 1]]
degrees == [t \in 0 .. 4 |-> <<0, 7, 15, 31, 63>>[t + 1]]
Breaks == <<8, 32, 64, 128, 256>>

\* The type initstate chooses for n bytes, n >= 8: the largest that fits.
TypeFor(n) == CHOOSE t \in 0 .. 4 : /\ Breaks[t + 1] <= n
                                    /\ t < 4 => n < Breaks[t + 2]

\* A state array nobody has written yet.
Blank == [head |-> 0, word |-> [i \in 0 .. 62 |-> 0]]

-----------------------------------------------------------------------------
(* random_r.  The result is the fields after the call and the number.      *)

\* Both pointers advance; the code tests only one of them for wrapping.
Advanced(g) ==
  LET deg == degrees[g.type]
      f == g.front + 1
      r == g.rear + 1
  IN  IF f >= deg THEN <<0, r>> ELSE <<f, IF r >= deg THEN 0 ELSE r>>

RandomState(g) ==
  LET w == g.mem[g.state].word
  IN  IF g.type = 0
      THEN [g EXCEPT !.mem[g.state].word[0] = (w[0] * (1103515245 % Word) + 12345) % Word]
      ELSE LET p == Advanced(g)
           IN  [g EXCEPT !.mem[g.state].word[g.front] = (w[g.front] + w[g.rear]) % Word,
                         !.front = p[1], !.rear = p[2]]

RandomResult(g) ==
  LET w == RandomState(g).mem[g.state].word
  IN  IF g.type = 0 THEN w[0] ELSE w[g.front] \div 2

-----------------------------------------------------------------------------
(* srandom_r.                                                              *)

\* C's division: towards zero.
Quotient(a, b) == IF a >= 0 THEN a \div b ELSE -((-a) \div b)

\* 16807 * word modulo 2147483647, without a product of more than 31 bits.
Schrage(word) ==
  LET hi == Quotient(word, 127773)
      lo == word - 127773 * hi
      next == 16807 * lo - 2836 * hi
  IN  IF next < 0 THEN next + 2147483647 ELSE next

\* The first n words a seed produces.
SeedWords(seed, n) ==
  LET words[i \in 0 .. n - 1] == IF i = 0 THEN seed ELSE Schrage(words[i - 1])
  IN  words

\* Wrong: --n > 0 where the code has --n >= 0.
DrawnLess(n, g) == MapThenFoldSet(LAMBDA i, h : RandomState(h), g, LAMBDA i : i,
                                  LAMBDA S : CHOOSE i \in S : TRUE, 1 .. n - 1)

\* The generator after n numbers.
Drawn(n, g) == MapThenFoldSet(LAMBDA i, h : RandomState(h), g, LAMBDA i : i,
                              LAMBDA S : CHOOSE i \in S : TRUE, 1 .. n)

\* After ten times its degree.  The test only makes TLC compute h once.
Discarded(deg, g) ==
  MapThenFoldSet(LAMBDA i, h : IF h.type = 0 THEN h ELSE Drawn(deg, h), g, LAMBDA i : i,
                 LAMBDA S : CHOOSE i \in S : TRUE, 1 .. 10)

\* The table is filled from the seed; then rand_deg * 10 numbers are discarded.
SrandomState(seed0, g) ==
  LET seed == IF seed0 = 0 THEN 1 ELSE seed0
      deg == degrees[g.type]
      words == SeedWords(seed, IF g.type = 0 THEN 1 ELSE deg)
      filled == [i \in 0 .. 62 |-> IF i \in DOMAIN words THEN words[i] % Word
                                   ELSE g.mem[g.state].word[i]]
      seeded == [g EXCEPT !.mem[g.state].word = filled]
  IN  IF g.type = 0 THEN seeded
      ELSE Discarded(deg, [seeded EXCEPT !.front = seps[g.type], !.rear = 0])

-----------------------------------------------------------------------------
(* initstate_r and setstate_r.                                             *)

\* Wrong: the front pointer is stored instead.
HeaderOfFront(g) == IF g.type = 0 THEN 0 ELSE MAX_TYPES * g.front + g.type

\* The word at index -1: the rear pointer multiplexed with the type.
Header(g) == IF g.type = 0 THEN 0 ELSE MAX_TYPES * g.rear + g.type

InitstateState(seed, b, n, g) ==
  IF n < Breaks[1] THEN g
  ELSE LET h == SrandomState(seed, [g EXCEPT !.type = TypeFor(n), !.state = b])
       IN  [h EXCEPT !.mem[b].head = Header(h)]

SetstateState(b, g) ==
  LET s == [g EXCEPT !.mem[g.state].head = Header(g)]   \* before new_state[-1] is read
      type == s.mem[b].head % MAX_TYPES
      rear == s.mem[b].head \div MAX_TYPES
  IN  IF type = 0 THEN [s EXCEPT !.type = 0, !.state = b]
      ELSE [s EXCEPT !.type = type, !.state = b, !.rear = rear,
                     !.front = (rear + seps[type]) % degrees[type]]

-----------------------------------------------------------------------------
(* The client: any sequence of calls.                                      *)

Started(b) ==
  [state |-> b, type |-> 0, front |-> 0, rear |-> 0, mem |-> [c \in Buffers |-> Blank]]

Call == calls < MaxCalls /\ calls' = calls + 1

Random_r == /\ Call
            /\ gen' = RandomState(gen)
            /\ out' = RandomResult(gen)
            /\ UNCHANGED pvars

Srandom_r == /\ Call
             /\ \E s \in Seeds : gen' = SrandomState(s, gen)
             /\ UNCHANGED <<out, pvars>>

\* With SaveFirst the client has stored the current array's rear pointer.
Initstate_r ==
  /\ Call
  /\ SaveFirst => gen.mem[gen.state].head = Header(gen)
  /\ \E b \in Buffers, s \in Seeds : \E n \in {4, Size[b]} : gen' = InitstateState(s, b, n, gen)
  /\ UNCHANGED <<out, pvars>>

Setstate_r == /\ Call
              /\ \E b \in Buffers : gen' = SetstateState(b, gen)
              /\ UNCHANGED <<out, pvars>>

-----------------------------------------------------------------------------
(* pi-random.c: statebuf has 128 bytes, the default seed is 0.             *)

STATESIZE == 128

PiSeeded(x) ==
  LET r == [state |-> "statebuf", type |-> 0, front |-> 0, rear |-> 0,
            mem |-> [b \in {"statebuf"} |-> Blank]]
  IN  SrandomState(x, InitstateState(x, "statebuf", STATESIZE, r))

Pi_random_seed ==
  /\ Call
  /\ pi_state # "panic"
  /\ \E s \in Seeds : pi' = PiSeeded(s)
  /\ pi_state' = "ready"
  /\ UNCHANGED <<pi_out, gvars>>

\* The number pi_random_init expects first of the default seed.
FirstNumber == 1804289383 % (Word \div 2)

\* The default seed and the first number, which init returns; it panics if
\* that is not the number every machine gets.
Pi_random_init ==
  /\ Call
  /\ pi_state = "fresh"
  /\ pi' = RandomState(PiSeeded(0))
  /\ pi_out' = RandomResult(PiSeeded(0))
  /\ pi_state' = IF pi_out' = FirstNumber THEN "ready" ELSE "panic"
  /\ UNCHANGED gvars

\* The first call initialises, and returns the second number of the seed.
Pi_random ==
  /\ Call
  /\ pi_state # "panic"
  /\ LET ready == IF pi_state = "ready" THEN pi ELSE RandomState(PiSeeded(0))
     IN  /\ pi' = RandomState(ready)
         /\ pi_out' = RandomResult(ready)
  /\ pi_state' = IF pi_state = "fresh" /\ RandomResult(PiSeeded(0)) # FirstNumber
                 THEN "panic" ELSE "ready"
  /\ UNCHANGED gvars

-----------------------------------------------------------------------------
RandomInit ==
  /\ gen \in {InitstateState(1, b, Size[b], Started(b)) : b \in Buffers}
  /\ out = 0
  /\ pi = [state |-> "statebuf", type |-> 0, front |-> 0, rear |-> 0, mem |-> <<>>]
  /\ pi_state = "fresh"
  /\ pi_out = 0
  /\ calls = 0

RandomNext ==
  \/ Random_r \/ Srandom_r \/ Initstate_r \/ Setstate_r
  \/ Pi_random_seed \/ Pi_random_init \/ Pi_random

RandomSpec == RandomInit /\ [][RandomNext]_rvars
-----------------------------------------------------------------------------
\* The type, the pointers and the words of array b as the generator would use
\* them after setstate(b).
After(b) == IF b = gen.state THEN gen ELSE SetstateState(b, gen)

\* The terms the next number of array b is computed from, oldest first.
Window(b) ==
  LET g == After(b)
      deg == degrees[g.type]
      w == gen.mem[b].word
  IN  IF g.type = 0 THEN <<w[0]>> ELSE [i \in 1 .. deg |-> w[(g.front + i - 1) % deg]]

\* setstate resumes the sequence of every array exactly where it was left,
\* however draws, seeds and switches follow each other: the generator
\* implements the independent streams of AdditiveStreams (random.c:299-356).
Streams == INSTANCE AdditiveStreams WITH
             stream <- [b \in Buffers |-> Window(b)], current <- gen.state,
             Sep <- [n \in {7, 15, 31, 63} |-> IF n \in {7, 31} THEN 3 ELSE 1]

ResumesStreams == Streams!Spec

\* The wrapper gives every machine the same numbers: the default seed's first
\* one is the constant pi_random_init asserts (pi-random.c:27-31), through
\* the table's filling, its 310 discarded numbers and the double seeding.
SameOnEveryMachine == pi_state # "panic"
=============================================================================
