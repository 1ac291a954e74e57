------------------------------ MODULE Checksums ------------------------------
(***************************************************************************)
(* crc.c and fast-hash32.h over short byte strings.  A byte is a word of   *)
(* Words with no bit above 7.                                              *)
(***************************************************************************)
EXTENDS Words, SequencesExt

CONSTANTS Messages,   \* the byte strings that are summed
          Rounds      \* bound on the hashes computed in a behaviour

VARIABLES data,       \* the bytes of this behaviour
          cut,        \* how many of them have been summed
          crc,        \* the sum so far, as our_crc32_inc returned it
          hash,       \* the hash so far, as fast_hash_inc32 returned it
          rounds      \* how often it was continued

ASSUME MessagesAssumption == Messages \subseteq Seq(SUBSET (0 .. 7))

hvars == <<data, cut, crc, hash, rounds>>

AllOnes == Bits

\* The word with these eight hexadecimal digits.
Hex(digits) == {i \in Bits : (digits[8 - i \div 4] \div (<<1, 2, 4, 8>>[(i % 4) + 1])) % 2 = 1}

\* crc32_tab is linear: entry a is the sum of the entries of a's bits.  These
\* are entries 1, 2, 4, ... 128 of the table.
TabBasis == << Hex(<<7, 7, 0, 7, 3, 0, 9, 6>>),     Hex(<<14, 14, 0, 14, 6, 1, 2, 12>>),
               Hex(<<0, 7, 6, 13, 12, 4, 1, 9>>),   Hex(<<0, 14, 13, 11, 8, 8, 3, 2>>),
               Hex(<<1, 13, 11, 7, 1, 0, 6, 4>>),   Hex(<<3, 11, 6, 14, 2, 0, 12, 8>>),
               Hex(<<7, 6, 13, 12, 4, 1, 9, 0>>),   Hex(<<14, 13, 11, 8, 8, 3, 2, 0>>) >>

crc32_tab(a) == FoldSet(LAMBDA i, sum : Xor(sum, TabBasis[i + 1]), {}, a)

\* The loop's body: the sum r continued over the byte p.
SumByte(r, p) == Xor(crc32_tab(Xor(r, p) \cap bits_mask(8)), Shr(r, 8))

\* Wrong: the sum so far is not inverted back.
CrcNotInverted(bytes, c) == Xor(AllOnes, FoldLeft(SumByte, IF c = {} THEN AllOnes ELSE c, bytes))

our_crc32_inc(bytes, c) == Xor(AllOnes, FoldLeft(SumByte, Xor(c, AllOnes), bytes))

our_crc32(bytes) == our_crc32_inc(bytes, {})

-----------------------------------------------------------------------------
get16bits(bytes, i) == Shl(bytes[i + 1], 8) \cup bytes[i]

SignExtended(p) == IF 7 \in p THEN p \cup 8 .. 31 ELSE p

MainLoop(bytes, h0) ==
  LET Step(h, k) ==
        LET h1 == Plus(h, get16bits(bytes, 4 * k - 3))
            tmp == Xor(Shl(get16bits(bytes, 4 * k - 1), 11), h1)
            h2 == Xor(Shl(h1, 16), tmp)
        IN  Plus(h2, Shr(h2, 11))
  IN  FoldLeft(Step, h0, [k \in 1 .. Len(bytes) \div 4 |-> k])

EndCase(bytes, h) ==
  LET n == Len(bytes)
      Then(g, left, right) == LET x == Xor(g, Shl(g, left)) IN Plus(x, Shr(x, right))
  IN  CASE n % 4 = 0 -> h
        [] n % 4 = 1 -> Then(Plus(h, SignExtended(bytes[n])), 10, 1)
        [] n % 4 = 2 -> Then(Plus(h, get16bits(bytes, n - 1)), 11, 17)
        [] n % 4 = 3 -> LET g == Plus(h, get16bits(bytes, n - 2))
                            x == Xor(Xor(g, Shl(g, 16)), Shl(SignExtended(bytes[n]), 18))
                        IN  Plus(x, Shr(x, 11))

Avalanche(h) ==
  LET Mix(g, left, right) == LET x == Xor(g, Shl(g, left)) IN Plus(x, Shr(x, right))
  IN  Mix(Mix(Mix(h, 3, 5), 4, 17), 25, 6)

fast_hash_inc32(bytes, h) ==
  IF bytes = <<>> THEN {} ELSE Avalanche(EndCase(bytes, MainLoop(bytes, h)))

fast_hash32(bytes) == fast_hash_inc32(bytes, ToWord(Len(bytes)))

-----------------------------------------------------------------------------
\* A client sums its data in pieces, and hashes it over and over, each hash
\* continued from the last one.
SumsInit == data = <<>> /\ cut = 0 /\ crc = {} /\ hash = {} /\ rounds = 0

BeginSums == /\ data = <<>>
         /\ data' \in Messages
         /\ crc' = our_crc32(<<>>)
         /\ hash' = {}
         /\ UNCHANGED <<cut, rounds>>

SumPiece == /\ cut < Len(data)
            /\ \E n \in 1 .. Len(data) - cut :
                 /\ cut' = cut + n
                 /\ crc' = our_crc32_inc(SubSeq(data, cut + 1, cut + n), crc)
            /\ UNCHANGED <<data, hash, rounds>>

HashData == /\ data # <<>> /\ cut = 0
            /\ rounds < Rounds
            /\ rounds' = rounds + 1
            /\ hash' = IF rounds = 0 THEN fast_hash32(data) ELSE fast_hash_inc32(data, hash)
            /\ UNCHANGED <<data, cut, crc>>

SumsNext == BeginSums \/ SumPiece \/ HashData

SumsSpec == SumsInit /\ [][SumsNext]_hvars

-----------------------------------------------------------------------------
\* CRC-32 by its definition: the message's bits, first byte first and low bit
\* first, are divided by the polynomial whose reflected form is 0xedb88320.
Polynomial == Hex(<<14, 13, 11, 8, 8, 3, 2, 0>>)

DivideBit(r) == IF 0 \in r THEN Xor(Shr(r, 1), Polynomial) ELSE Shr(r, 1)

DivideByte(r, p) ==
  FoldLeft(LAMBDA x, i : DivideBit(IF i \in p THEN bit_not(x, 0) ELSE x), r, <<0, 1, 2, 3, 4, 5, 6, 7>>)

Remainder(bytes) == Xor(AllOnes, FoldLeft(DivideByte, AllOnes, bytes))

\* However a client cuts its data into pieces, the table-driven sums
\* (crc.c:54-61) add up to the CRC of all the bytes, computed bit by bit.
CrcExact == crc = Remainder(SubSeq(data, 1, cut))

\* What the equivalence check relies on: a hash continued over one register
\* word (preemptive-thread.c:169) differs whenever one bit of it differs, from
\* every hash a check can be continued from here.
HashesDiffer ==
  (Len(data) = 4 /\ cut = 0) =>
    \A i \in 1 .. 4, b \in 0 .. 7 :
      fast_hash_inc32([data EXCEPT ![i] = bit_not(@, b)], hash) # fast_hash_inc32(data, hash)

\* Both checksums do what their clients need of them (crc.c, fast-hash32.h).
SumsExact == CrcExact /\ HashesDiffer
=============================================================================
