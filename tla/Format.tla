------------------------------- MODULE Format -------------------------------
(***************************************************************************)
(* printk.c and sprintk.c.  A format is a sequence of items: a run of      *)
(* plain characters or a conversion with its argument.  vsnprintk keeps    *)
(* the end of its text in two static pointers, which the preemptible       *)
(* threads share; printk puts characters on the UART one by one.           *)
(***************************************************************************)
EXTENDS Integers, Sequences, SequencesExt, FiniteSets

CONSTANTS FmtThreads,  \* threads that format text
          WordSize,    \* bits of an int: a multiple of 4
          Chars,       \* the characters of plain text
          Formats,     \* the formats they use
          BufLen       \* the bytes of a thread's buffer

VARIABLES todo,        \* todo[t]: the characters t's call has still to put
          stage,       \* stage[t]: "idle", "ptr", "end", "put", "uart", "panic", "done", "printed"
          using,       \* using[t]: the format t's call was given
          bytes,       \* memory: the buffers one after the other, each with a byte behind it
          buf_ptr, buf_end,   \* the static pointers of sprintk.c
          uart,        \* the characters put on the UART, with the thread that put them
          alone        \* alone[t]: since t's call no two calls of snprintk ran at a time

fvars == <<todo, stage, using, bytes, buf_ptr, buf_end, uart, alone>>

UintMax == 2^WordSize

\* 16 to the n.
Power16[n \in 0 .. WordSize] == IF n = 0 THEN 1 ELSE 16 * Power16[n - 1]

\* What the arguments of a call may be; bogus is an unknown conversion.
Items == [conv : {"text", "s", "c", "bogus"}, str : Seq(Chars)]
         \cup [conv : {"b", "u", "x", "p", "d"}, num : 0 .. UintMax - 1]
         \cup [conv : {"llx"}, hi : 0 .. UintMax - 1, lo : 0 .. UintMax - 1]

\* A word has two hexadecimal digits or more, and nothing but.
ASSUME FormatAssumption ==
  /\ IsFiniteSet(FmtThreads) /\ BufLen \in Nat
  /\ WordSize \in Nat /\ \E n \in 2 .. WordSize : UintMax = Power16[n]
  /\ Formats \subseteq Seq(Items)

Hexes == <<"0","1","2","3","4","5","6","7","8","9","a","b","c","d","e","f">>

\* The digits of u in the order the loop stores them: the last one first.
emit_digits(base, u) ==
  LET digits[v \in 0 .. UintMax - 1] ==
        <<Hexes[(v % base) + 1]>> \o (IF v \div base = 0 THEN <<>> ELSE digits[v \div base])
  IN  digits[u]

\* Wrong: they are put in the order they were stored.
EmitStored(base, u) == emit_digits(base, u)

\* They are buffered in reverse, so they are put backwards.
emit_val(base, u) == Reverse(emit_digits(base, u))

\* -v of an int: the least int is its own negative.
Negated(u) == (UintMax - u) % UintMax
IsNegative(u) == u >= UintMax \div 2

\* What an item puts; the panic of an unknown conversion ends the text.
Expand(item) ==
  CASE item.conv \in {"text", "s"} -> item.str
    [] item.conv = "b" -> emit_val(2, item.num)
    [] item.conv = "u" -> emit_val(10, item.num)
    [] item.conv = "c" -> item.str
    [] item.conv \in {"x", "p"} -> <<"0", "x">> \o emit_val(16, item.num)
    [] item.conv = "llx" ->            \* hi and lo are the halves of 2 * WordSize bits
         <<"0", "x">> \o (IF item.hi # 0 THEN emit_val(16, item.hi) ELSE <<>>)
                      \o emit_val(16, item.lo)
    [] item.conv = "d" -> IF IsNegative(item.num)
                          THEN <<"-">> \o emit_val(10, Negated(item.num))
                          ELSE emit_val(10, item.num)
    [] item.conv = "bogus" -> <<"panic">>

TextOf(fmt) ==
  LET Add(text, item) == IF "panic" \in ToSet(text) THEN text ELSE text \o Expand(item)
  IN  FoldLeft(Add, <<>>, fmt)

-----------------------------------------------------------------------------
\* The buffers lie one behind the other, with one byte between them.
Index == CHOOSE f \in [FmtThreads -> 1 .. Cardinality(FmtThreads)] :
           \A s, t \in FmtThreads : f[s] = f[t] => s = t
Start(t) == (Index[t] - 1) * (BufLen + 1) + 1
BufferOf(t) == Start(t) .. Start(t) + BufLen - 1
MemLen == Cardinality(FmtThreads) * (BufLen + 1)

FormatInit ==
  /\ todo = [t \in FmtThreads |-> <<>>]
  /\ stage = [t \in FmtThreads |-> "idle"]
  /\ using = [t \in FmtThreads |-> <<>>]
  /\ bytes = [i \in 1 .. MemLen |-> "?"]
  /\ buf_ptr = 0 /\ buf_end = 0
  /\ uart = <<>>
  /\ alone = [t \in FmtThreads |-> TRUE]

InCall == {t \in FmtThreads : stage[t] \in {"ptr", "end", "put"}}

\* A panic reboots the machine.
Running == \A t \in FmtThreads : stage[t] # "panic"

\* t's next step leaves or enters stage s.
At(t, s) == Running /\ stage[t] = s
Go(t, s) == stage' = [stage EXCEPT ![t] = s]

Begin(t, s) ==
  /\ At(t, "idle")
  /\ \E fmt \in Formats : /\ using' = [using EXCEPT ![t] = fmt]
                          /\ todo' = [todo EXCEPT ![t] = TextOf(fmt)]
  /\ Go(t, s)

Snprintk(t) ==
  /\ Begin(t, "ptr")
  /\ alone' = [s \in FmtThreads |-> InCall = {} /\ (s = t \/ alone[s])]
  /\ UNCHANGED <<bytes, buf_ptr, buf_end, uart>>

\* A preemption may fall between the two assignments, or anywhere below.
SetPtr(t) == /\ At(t, "ptr") /\ Go(t, "end")
             /\ buf_ptr' = Start(t)
             /\ UNCHANGED <<todo, using, bytes, buf_end, uart, alone>>

SetEnd(t) == /\ At(t, "end") /\ Go(t, "put")
             /\ buf_end' = Start(t) + BufLen
             /\ UNCHANGED <<todo, using, bytes, buf_ptr, uart, alone>>

\* putchar: the assertion, then the store.
PutChar(t) ==
  /\ At(t, "put") /\ todo[t] # <<>>
  /\ IF Head(todo[t]) = "panic" \/ ~(buf_ptr < buf_end)
     THEN Go(t, "panic") /\ UNCHANGED <<todo, bytes, buf_ptr>>
     ELSE /\ bytes' = [bytes EXCEPT ![buf_ptr] = Head(todo[t])]
          /\ buf_ptr' = buf_ptr + 1
          /\ todo' = [todo EXCEPT ![t] = Tail(@)]
          /\ UNCHANGED stage
  /\ UNCHANGED <<using, buf_end, uart, alone>>

\* The terminator is stored without a look at buf_end.
Terminate(t) ==
  /\ At(t, "put") /\ todo[t] = <<>>
  /\ Go(t, "done")
  /\ bytes' = [i \in 1 .. MemLen |-> IF i = buf_ptr THEN "NUL" ELSE bytes[i]]
  /\ buf_ptr' = buf_ptr + 1
  /\ UNCHANGED <<todo, using, buf_end, uart, alone>>

Printk(t) == Begin(t, "uart") /\ UNCHANGED <<bytes, buf_ptr, buf_end, uart, alone>>

\* rpi_putchar, which is uart_put8 unless a client has set another.
RpiPutchar(t) ==
  /\ At(t, "uart")
  /\ IF todo[t] = <<>> THEN Go(t, "printed") /\ UNCHANGED <<todo, uart>>
     ELSE IF Head(todo[t]) = "panic" THEN Go(t, "panic") /\ UNCHANGED <<todo, uart>>
     ELSE /\ uart' = Append(uart, <<t, Head(todo[t])>>)
          /\ todo' = [todo EXCEPT ![t] = Tail(@)]
          /\ UNCHANGED stage
  /\ UNCHANGED <<using, bytes, buf_ptr, buf_end, alone>>

FormatNext ==
  \E t \in FmtThreads : \/ Snprintk(t) \/ SetPtr(t) \/ SetEnd(t) \/ PutChar(t) \/ Terminate(t)
                        \/ Printk(t) \/ RpiPutchar(t)

FormatSpec == FormatInit /\ [][FormatNext]_fvars

-----------------------------------------------------------------------------
\* The number that a sequence of digits is read as.
ReadNumber(base, s) ==
  FoldLeft(LAMBDA n, d : n * base + (CHOOSE k \in 1 .. 16 : Hexes[k] = d) - 1, 0, s)

\* The value an item's text is read as again.
ReadBack(item) ==
  LET s == Expand(item)
  IN  CASE item.conv = "b" -> ReadNumber(2, s)
        [] item.conv = "u" -> ReadNumber(10, s)
        [] item.conv \in {"x", "p", "llx"} -> ReadNumber(16, Tail(Tail(s)))
        [] item.conv = "d" -> IF Head(s) = "-" THEN UintMax - ReadNumber(10, Tail(s))
                              ELSE ReadNumber(10, s)

\* A number reads back as the value printed, the least int included; of a
\* 64-bit number whose high half is not 0 only if the low half needs all its
\* digits, for it is put without leading zeros (sprintk.c:77-81, printk.c:70-74).
NumbersReadBack ==
  \A t \in FmtThreads : \A i \in DOMAIN using[t] :
    LET item == using[t][i]
        short == item.lo < UintMax \div 16
    IN  /\ item.conv \in {"b", "u", "x", "p", "d"} => ReadBack(item) = item.num
        /\ item.conv = "llx" => (ReadBack(item) = item.hi * UintMax + item.lo)
                                = (item.hi = 0 \/ ~short)

\* A call of snprintk leaves its text and the terminator at the start of its
\* buffer, until two calls run at a time; it panics only for an unknown
\* conversion or a text longer than the buffer: one that fills it is accepted
\* although the terminator falls behind it (sprintk.c:109).  The static
\* pointers (sprintk.c:3) make the proviso necessary.
BufferIntact ==
  \A t \in FmtThreads :
    LET text == TextOf(using[t])
    IN  alone[t] => /\ stage[t] = "done" =>
                         SubSeq(bytes, Start(t), Start(t) + Len(text)) = Append(text, "NUL")
                    /\ stage[t] = "panic" => "panic" \in ToSet(text) \/ Len(text) > BufLen

\* Threads that print at the same time mix their characters, but each one's
\* come out in order and none is lost (printk.c:39-103).
UartInOrder ==
  \A t \in FmtThreads :
    LET text == TextOf(using[t])
        put(i) == Cardinality({j \in 1 .. i : uart[j][1] = t})
    IN  stage[t] \in {"uart", "printed"} =>
          /\ todo[t] = SubSeq(text, put(Len(uart)) + 1, Len(text))
          /\ put(Len(uart)) <= Len(text)
          /\ \A i \in DOMAIN uart : uart[i][1] = t => uart[i][2] = text[put(i)]

\* Formatted output is what was asked for: numbers, buffers and the UART.
TextExact == NumbersReadBack /\ BufferIntact /\ UartInOrder
=============================================================================
