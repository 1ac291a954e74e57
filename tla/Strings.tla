------------------------------- MODULE Strings -------------------------------
(***************************************************************************)
(* The memory and string functions of libc.  Memory is a function from     *)
(* addresses to bytes; a call is a record, and the functions that write    *)
(* return the memory after them.                                           *)
(***************************************************************************)
EXTENDS Integers, Sequences, SequencesExt, FiniteSetsExt

CONSTANTS MemSize,    \* addresses are 0 .. MemSize - 1
          Memories    \* the contents a call may find

VARIABLES mem,        \* the memory
          old,        \* what it held before the call
          call        \* the call and what it returned

mvars == <<mem, old, call>>

Addr == 0 .. MemSize - 1
Area(p, n) == p .. p + n - 1
NUL == 0

ASSUME MemoryAssumption ==
  MemSize \in Nat /\ Memories \subseteq [Addr -> 0 .. 255]

-----------------------------------------------------------------------------
(* Copying and filling.                                                    *)

Aligned(p, n) == p % n = 0

\* Unit i of u bytes is read and then written.
CopyUnit(m, dst, src, u, i) ==
  [a \in Addr |-> IF a \in Area(dst + u * i, u) THEN m[a - dst + src] ELSE m[a]]

\* Units 0, 1, ... k - 1 in this order.
CopyUp(m, dst, src, u, k) ==
  FoldLeft(LAMBDA x, i : CopyUnit(x, dst, src, u, i - 1), m, [i \in 1 .. k |-> i])

\* The widest units that dst, src and nbytes allow.
memcpy(m, dst, src, nbytes) ==
  LET fits(u) == Aligned(dst, u) /\ Aligned(src, u) /\ Aligned(nbytes, u)
      u == IF fits(8) THEN 8 ELSE IF fits(4) THEN 4 ELSE 1
  IN  CopyUp(m, dst, src, u, nbytes \div u)

\* Wrong: always upwards.
MemmoveUp(m, dst, src, count) == CopyUp(m, dst, src, 1, count)

memmove(m, dst, src, count) ==
  IF src = dst THEN m
  ELSE IF src > dst THEN CopyUp(m, dst, src, 1, count)
  ELSE FoldLeft(LAMBDA x, i : CopyUnit(x, dst, src, 1, count - i), m, [i \in 1 .. count |-> i])

\* The assertions of lmemcpy and llmemcpy; src need not be aligned.
lmemcpy_asserts(u, dst, nbytes) == Aligned(nbytes, u) /\ Aligned(dst, u) /\ dst # 0
lmemcpy(m, dst, src, nbytes) == CopyUp(m, dst, src, 4, nbytes \div 4)
llmemcpy(m, dst, src, nbytes) == CopyUp(m, dst, src, 8, nbytes \div 8)

\* Zeros are stored in the widest aligned units, other values byte by byte;
\* what is returned is the end of the area unless it is empty.
memset(m, dst, c, n) == [a \in Addr |-> IF a \in Area(dst, n) THEN c % 256 ELSE m[a]]
memset_result(dst, n) == IF n = 0 THEN dst ELSE dst + n
lmemset(m, dst, v, nbytes) == [a \in Addr |-> IF a \in Area(dst, nbytes) THEN v[(a - dst) % 4] ELSE m[a]]

memcmp(m, a, b, n) ==
  LET differ == {i \in 0 .. n - 1 : m[a + i] # m[b + i]}
  IN  IF differ = {} THEN 0 ELSE m[a + Min(differ)] - m[b + Min(differ)]

memiszero(m, p, n) == \A a \in Area(p, n) : m[a] = 0

-----------------------------------------------------------------------------
(* Strings.  IsString: there is a terminator, which every function needs.  *)

IsString(m, p) == \E a \in Addr : a >= p /\ m[a] = NUL

strlen(m, p) == Min({n \in Addr : p + n \in Addr /\ m[p + n] = NUL})

\* Both loops stop at the first byte that differs, or at the end of a.
strcmp(m, a, b) ==
  LET shorter == Min({strlen(m, a), strlen(m, b)})
      stop == Min({i \in 0 .. shorter : m[a + i] # m[b + i] \/ m[a + i] = NUL})
  IN  m[a + stop] - m[b + stop]

\* n bytes are compared, whether or not a string ends before.
strncmp(m, a, b, n) ==
  LET i == IF n = 0 THEN {} ELSE {k \in 0 .. n - 1 : m[a + k] # m[b + k]}
  IN  IF i = {} THEN 0 ELSE m[a + Min(i)] - m[b + Min(i)]

\* The terminator is found too; -1 stands for NULL.
strchr(m, s, c) ==
  LET found == {i \in 0 .. strlen(m, s) : m[s + i] = c}
  IN  IF found = {} THEN -1 ELSE s + Min(found)

\* Bytes are copied upwards until the terminator has been.
strcpy(m, s1, s2) == CopyUp(m, s1, s2, 1, strlen(m, s2) + 1)

\* s1 is moved to the end of dest and two back, so that ++s1 is the terminator.
strcat(m, dest, src) ==
  LET end == dest + strlen(m, dest) + 1
      s1 == end - 2
  IN  CopyUp(m, s1 + 1, src, 1, strlen(m, src) + 1)

-----------------------------------------------------------------------------
(* The calls a correct client makes: areas inside the memory, and, but for *)
(* memcpy and memmove, no overlap.                                         *)

Fits(p, n) == p + n <= MemSize
Apart(p, n, q, k) == Area(p, n) \cap Area(q, k) = {}

StringsInit == mem \in Memories /\ old = mem /\ call = [fn |-> "none"]

Done(fn, args, m, ret) ==
  /\ mem' = m /\ old' = mem
  /\ call' = [fn |-> fn, dst |-> args[1], src |-> args[2], n |-> args[3], ret |-> ret]

Copy ==
  \E dst, src \in Addr : \E n \in 0 .. MemSize - Max({dst, src}) :
    LET args == <<dst, src, n>>
    IN  \/ Done("memcpy", args, memcpy(mem, dst, src, n), dst)
        \/ Done("memmove", args, memmove(mem, dst, src, n), dst)
        \/ /\ lmemcpy_asserts(4, dst, n) /\ src # 0 /\ Apart(dst, n, src, n)
           /\ Done("lmemcpy", args, lmemcpy(mem, dst, src, n), dst)
        \/ /\ lmemcpy_asserts(8, dst, n) /\ src # 0 /\ Apart(dst, n, src, n)
           /\ Done("llmemcpy", args, llmemcpy(mem, dst, src, n), dst)

Fill ==
  \E dst \in Addr, c \in {0, 1, 255} : \E n \in 0 .. MemSize - dst :
    \/ Done("memset", <<dst, c, n>>, memset(mem, dst, c, n), memset_result(dst, n))
    \/ /\ lmemcpy_asserts(4, dst, n)
       /\ Done("lmemset", <<dst, c, n>>, lmemset(mem, dst, [i \in 0 .. 3 |-> c], n), 0)

Build ==
  \E s1, s2 \in Addr :
    /\ IsString(mem, s2)
    /\ LET k == strlen(mem, s2) + 1
       IN  \/ /\ Fits(s1, k) /\ Apart(s1, k, s2, k)
              /\ Done("strcpy", <<s1, s2, 0>>, strcpy(mem, s1, s2), s1)
           \/ /\ IsString(mem, s1)
              /\ LET all == strlen(mem, s1) + k
                 IN  /\ Fits(s1, all) /\ Apart(s1, all, s2, k)
                     /\ Done("strcat", <<s1, s2, 0>>, strcat(mem, s1, s2), s1)

Compare ==
  \E a, b \in Addr :
    /\ IsString(mem, a) /\ IsString(mem, b)
    /\ \/ Done("strcmp", <<a, b, 0>>, mem, strcmp(mem, a, b))
       \/ Done("strchr", <<a, mem[b], 0>>, mem, strchr(mem, a, mem[b]))
       \/ LET n == strlen(mem, a) + 1
          IN  Fits(b, n) /\ Done("strncmp", <<a, b, n>>, mem, strncmp(mem, a, b, n))
       \/ \E n \in 0 .. MemSize - Max({a, b}) :
            \/ Done("memcmp", <<a, b, n>>, mem, memcmp(mem, a, b, n))
            \/ Done("memiszero", <<a, b, n>>, mem, IF memiszero(mem, a, n) THEN 1 ELSE 0)

StringsNext == call.fn = "none" /\ (Copy \/ Fill \/ Build \/ Compare)
StringsSpec == StringsInit /\ [][StringsNext]_mvars

-----------------------------------------------------------------------------
\* The string at p, without its terminator.
Text(m, p) == [i \in 1 .. strlen(m, p) |-> m[p + i - 1]]

Moved(m, dst, src, n) == [a \in Addr |-> IF a \in Area(dst, n) THEN m[a - dst + src] ELSE m[a]]

\* A copy leaves at dst what was at src before the call, and nothing else
\* changes: memmove (memmove.c:10-16) for any overlap, memcpy in units of any
\* width (memcpy.c:9-36) unless the destination starts inside the source.
Copied ==
  /\ (call.fn \in {"memmove", "lmemcpy", "llmemcpy"} =>
       mem = Moved(old, call.dst, call.src, call.n))
  /\ (call.fn = "memcpy" /\ call.dst \notin Area(call.src + 1, call.n - 1) =>
       mem = Moved(old, call.dst, call.src, call.n))
  /\ (call.fn \in {"memset", "lmemset"} =>
       \A a \in Addr : mem[a] = IF a \in Area(call.dst, call.n) THEN call.src ELSE old[a])

\* The first byte in which two strings differ decides, a string before its
\* extensions; 0 only for equal strings.
Order(s, t) ==
  LET S == Append(s, NUL)
      T == Append(t, NUL)
      differ == {i \in 1 .. Len(S) : i > Len(T) \/ S[i] # T[i]}
  IN  IF differ = {} THEN 0 ELSE S[Min(differ)] - T[Min(differ)]

\* The string functions build and compare what their arguments were before
\* the call: strcat's step back over the terminator (strcat.c:16-20), strcmp
\* and strncmp (up to the first terminator) agreeing on every pair of strings,
\* strchr finding the terminator too.
Compared ==
  /\ (call.fn = "strcpy" => Text(mem, call.dst) = Text(old, call.src))
  /\ (call.fn = "strcat" => Text(mem, call.dst) = Text(old, call.dst) \o Text(old, call.src))
  /\ (call.fn \in {"strcpy", "strcat"} => Text(mem, call.src) = Text(old, call.src))
  /\ (call.fn \in {"strcmp", "strncmp"} => call.ret = Order(Text(mem, call.dst), Text(mem, call.src)))
  /\ (call.fn = "strchr" => /\ (call.ret = -1) = (\A i \in 0 .. strlen(mem, call.dst) : mem[call.dst + i] # call.src)
                            /\ call.ret # -1 => mem[call.ret] = call.src)
  /\ (call.fn = "memcmp" =>
        (call.ret = 0) = (Moved(mem, call.dst, call.src, call.n) = mem))
  /\ (call.fn = "memiszero" => (call.ret = 1) = (memset(mem, call.dst, 0, call.n) = mem))

\* Every memory and string function does what its caller expects of it.
StringsExact == Copied /\ Compared
=============================================================================
