----------------------------- MODULE SpinLockProofs -----------------------------
(***************************************************************************)
(* The spin lock of SpinLock excludes, and is never held by a thread that  *)
(* a live one outranks, for any threads, priorities and turns.             *)
(*                                                                         *)
(* MutualExclusion is not inductive: a thread that has swapped the word    *)
(* but not tested the result already owns the lock.  WordTellsHolder       *)
(* counts it, and is what LockInv adds.  CounterExact needs LoadedIsShared *)
(* besides: between load and store the holder's register is what the next  *)
(* store adds to.                                                          *)
(***************************************************************************)
EXTENDS SpinLock, QueueLemmas

\* The lock is free at the start.
LEMMA LockStarts == LockInit => LockInv
<1> SUFFICES ASSUME LockInit PROVE LockInv
  OBVIOUS
<1>1. LockTypeOK
  BY TurnsAssumption DEF LockInit, LockTypeOK
<1>2. \A t \in Thread : ~Holds(t)
  BY DEF LockInit, Holds, InCritical
<1>3. lock # 0
  BY DEF LockInit
<1>4. QED
  BY <1>1, <1>2, <1>3 DEF LockInv, WordTellsHolder, NoInversion

\* A thread that finishes an iteration neither holds the lock nor comes alive.
LEMMA TurnEnds ==
  ASSUME LockTypeOK, NEW t \in Thread, AfterTurn(t), pc[t] # "done", turns[t] # Turns
  PROVE  /\ pc' \in [Thread -> {"try", "test", "load", "store", "unlock", "done"}]
         /\ turns' \in [Thread -> 0..Turns]
         /\ pc'[t] \in {"try", "done"}
         /\ \A u \in Thread \ {t} : pc'[u] = pc[u]
<1>1. turns[t] + 1 \in 0..Turns
  BY TurnsAssumption DEF LockTypeOK
<1>2. QED
  BY <1>1 DEF AfterTurn, LockTypeOK

\* A thread still running has turns to go.
TurnsLeft == \A t \in Thread : pc[t] # "done" => turns[t] # Turns

\* A thread has turns left until it is done.
LEMMA TurnsNext == LockTypeOK /\ TurnsLeft /\ [LockNext]_lockvars => TurnsLeft'
<1> SUFFICES ASSUME LockTypeOK, TurnsLeft, [LockNext]_lockvars, NEW u \in Thread, pc'[u] # "done"
             PROVE  turns'[u] # Turns
  BY DEF TurnsLeft
<1>1. ASSUME NEW t \in Thread, AfterTurn(t), pc[t] # "done" PROVE turns'[u] # Turns
  <2>1. CASE u = t
    BY <1>1, <2>1 DEF AfterTurn, LockTypeOK
  <2>2. CASE u # t
    BY <1>1, <2>2 DEF AfterTurn, LockTypeOK, TurnsLeft
  <2>3. QED
    BY <2>1, <2>2
<1>2. ASSUME NEW t \in Thread, TryLock(t) \/ SpinLoop(t) \/ LoadShared(t) PROVE turns'[u] # Turns
  BY <1>2 DEF TryLock, SpinLoop, LoadShared, LockTypeOK, TurnsLeft
<1>3. ASSUME NEW t \in Thread, StoreShared(t) PROVE turns'[u] # Turns
  BY <1>3 DEF StoreShared, LockTypeOK, TurnsLeft
<1>4. ASSUME NEW t \in Thread, SpinUnlock(t) PROVE turns'[u] # Turns
  BY <1>1, <1>4 DEF SpinUnlock
<1>5. CASE UNCHANGED lockvars
  BY <1>5 DEF lockvars, TurnsLeft
<1>6. QED
  BY <1>2, <1>3, <1>4, <1>5 DEF LockNext, Step, Finished

\* The step of t keeps the types of the variables.
LEMMA TypeNext ==
  ASSUME LockTypeOK, TurnsLeft, NEW t \in Thread, Step(t)
  PROVE  LockTypeOK'
<1>1. CASE TryLock(t)
  BY <1>1 DEF TryLock, LockTypeOK
<1>2. CASE SpinLoop(t)
  BY <1>2 DEF SpinLoop, LockTypeOK
<1>3. CASE LoadShared(t)
  BY <1>3 DEF LoadShared, LockTypeOK
<1>4. CASE StoreShared(t)
  <2>1. shared' \in Int
    BY <1>4, DeltaAssumption DEF StoreShared, LockTypeOK
  <2>2. QED
    BY <1>4, <2>1 DEF StoreShared, LockTypeOK
<1>5. CASE SpinUnlock(t)
  <2>1. AfterTurn(t) /\ pc[t] # "done"
    BY <1>5 DEF SpinUnlock
  <2>2. QED
    BY <1>5, <2>1, TurnEnds DEF SpinUnlock, LockTypeOK, TurnsLeft
<1>6. QED
  BY <1>1, <1>2, <1>3, <1>4, <1>5 DEF Step

\* What a step of t does to the lock, seen by the others.
LEMMA StepFrame ==
  ASSUME LockInv, TurnsLeft, NEW t \in Thread, Step(t)
  PROVE  /\ \A u \in Thread \ {t} : pc'[u] = pc[u] /\ got'[u] = got[u]
                                    /\ (Holds(u)' <=> Holds(u))
         /\ pc[t] # "done"
         /\ \A u \in Live : Priority[u] <= Priority[t]
         /\ \/ lock' = 0 /\ (Holds(t)' <=> lock = 1) /\ ~Holds(t)
            \/ lock' = lock /\ (Holds(t)' <=> Holds(t))
            \/ lock' = 1 /\ ~Holds(t)' /\ Holds(t)
<1> USE DEF LockInv, Holds, InCritical
<1>1. CASE TryLock(t)
  BY <1>1 DEF TryLock, LockTypeOK, Eligible, Live
<1>2. CASE SpinLoop(t)
  BY <1>2 DEF SpinLoop, LockTypeOK, Eligible, Live
<1>3. CASE LoadShared(t)
  BY <1>3 DEF LoadShared, LockTypeOK, Eligible, Live
<1>4. CASE StoreShared(t)
  BY <1>4 DEF StoreShared, LockTypeOK, Eligible, Live
<1>5. CASE SpinUnlock(t)
  <2>1. /\ AfterTurn(t) /\ pc[t] = "unlock" /\ lock' = 1 /\ got' = got
        /\ Eligible(t) /\ turns[t] # Turns
    BY <1>5 DEF SpinUnlock, TurnsLeft
  <2>2. pc'[t] \in {"try", "done"} /\ \A u \in Thread \ {t} : pc'[u] = pc[u]
    BY <2>1, TurnEnds
  <2>3. QED
    BY <2>1, <2>2 DEF Eligible
<1>6. QED
  BY <1>1, <1>2, <1>3, <1>4, <1>5 DEF Step

\* Every step keeps the lock invariant.
LEMMA LockKept == LockInv /\ TurnsLeft /\ [LockNext]_lockvars => LockInv'
<1> SUFFICES ASSUME LockInv, TurnsLeft, [LockNext]_lockvars PROVE LockInv'
  OBVIOUS
<1>1. ASSUME NEW t \in Thread, Step(t) PROVE LockInv'
  <2>1. LockTypeOK'
    BY <1>1, TypeNext DEF LockInv
  <2>2. WordTellsHolder' /\ NoInversion'
    <3>1. /\ \A u \in Thread \ {t} : pc'[u] = pc[u] /\ (Holds(u)' <=> Holds(u))
          /\ pc[t] # "done"
          /\ \A u \in Live : Priority[u] <= Priority[t]
          /\ \/ lock' = 0 /\ (Holds(t)' <=> lock = 1) /\ ~Holds(t)
             \/ lock' = lock /\ (Holds(t)' <=> Holds(t))
             \/ lock' = 1 /\ ~Holds(t)' /\ Holds(t)
      BY <1>1, StepFrame
    <3>2. /\ \A u, v \in Thread : Holds(u) /\ Holds(v) => u = v
          /\ lock = 0 <=> \E u \in Thread : Holds(u)
          /\ lock \in {0, 1}
      BY DEF LockInv, WordTellsHolder, LockTypeOK
    <3>3. \A u, v \in Thread : Holds(u)' /\ Holds(v)' => u = v
      BY <3>1, <3>2
    <3>4. lock' = 0 <=> \E u \in Thread : Holds(u)'
      BY <3>1, <3>2
    <3>5. Live' \subseteq Live
      BY <3>1 DEF Live
    <3>6. \A h, u \in Thread : Holds(h) /\ u \in Live => Priority[u] <= Priority[h]
      BY DEF LockInv, NoInversion
    <3>7. \A h, u \in Thread : Holds(h)' /\ u \in Live' => Priority[u] <= Priority[h]
      BY <3>1, <3>5, <3>6
    <3>8. QED
      BY <3>3, <3>4, <3>7 DEF WordTellsHolder, NoInversion
  <2>3. QED
    BY <2>1, <2>2 DEF LockInv, WordTellsHolder, NoInversion
<1>2. CASE UNCHANGED lockvars
  BY <1>2 DEF lockvars, LockInv, LockTypeOK, WordTellsHolder, NoInversion, Holds, InCritical, Live
<1>3. QED
  BY <1>1, <1>2 DEF LockNext, Finished

\* All turns are left at the start.
LEMMA TurnsInit == LockInit => TurnsLeft
BY TurnsAssumption DEF LockInit, TurnsLeft

\* The inductive invariant holds in every reachable state.
THEOREM LockInvariant == LockSpec => []LockInv
<1>1. LockInit => LockInv /\ TurnsLeft
  BY LockStarts, TurnsInit
<1>2. LockInv /\ TurnsLeft /\ [LockNext]_lockvars => (LockInv /\ TurnsLeft)'
  BY LockKept, TurnsNext DEF LockInv
<1>3. QED
  BY <1>1, <1>2, PTL DEF LockSpec

\* Two threads are never between spin_lock and spin_unlock at once.
THEOREM Excludes == LockSpec => []MutualExclusion
<1>1. LockInv => MutualExclusion
  BY DEF LockInv, WordTellsHolder, MutualExclusion, Holds
<1>2. QED
  BY <1>1, LockInvariant, PTL

\* The holder of the lock is never outranked by a live thread.
THEOREM NoPriorityInversion == LockSpec => []NoInversion
<1>1. LockInv => NoInversion
  BY DEF LockInv
<1>2. QED
  BY <1>1, LockInvariant, PTL

-----------------------------------------------------------------------------
(* Sums over a finite set. *)

Pick(s) == CHOOSE x \in s : TRUE

\* total[s]: the sum of F over s, a set of S: what MapThenSumSet goes through.
Sums(F, S, total) ==
  total = [s \in SUBSET S |-> IF s = {} THEN 0 ELSE F[Pick(s)] + total[s \ {Pick(s)}]]
Total(F, S) == (CHOOSE total : Sums(F, S, total))[S]

\* Each step of the recursion takes one element.
LEMMA PickProps ==
  ASSUME NEW S, IsFiniteSet(S), NEW s \in SUBSET S
  PROVE  /\ Cardinality(s) \in Nat
         /\ s = {} <=> Cardinality(s) = 0
         /\ s # {} => /\ Pick(s) \in s /\ s \ {Pick(s)} \in SUBSET S
                      /\ Cardinality(s \ {Pick(s)}) = Cardinality(s) - 1
<1>1. IsFiniteSet(s)
  BY FS_Subset
<1>2. Cardinality(s) \in Nat /\ (s = {} <=> Cardinality(s) = 0)
  BY <1>1, FS_CardinalityType, FS_EmptySet
<1>3. s # {} => Pick(s) \in s
  BY DEF Pick
<1>4. QED
  BY <1>1, <1>2, <1>3, FS_RemoveElement

\* The recursion of MapThenSumSet defines a function when the set is finite.
LEMMA SumExists ==
  ASSUME NEW S, IsFiniteSet(S), NEW F
  PROVE  Sums(F, S, CHOOSE total : Sums(F, S, total))
<1> DEFINE Small(n) == {s \in SUBSET S : Cardinality(s) <= n}
           Next1(g, s) == IF s = {} THEN 0 ELSE F[Pick(s)] + g[s \ {Pick(s)}]
           Partial(n, g) == g = [s \in Small(n) |-> Next1(g, s)]
           bad == {n \in Nat : ~\E g : Partial(n, g)}
<1>1. bad = {}
  <2>1. SUFFICES ASSUME bad # {} PROVE FALSE
    OBVIOUS
  <2>2. PICK m \in bad : \A n \in bad : m <= n
    BY <2>1, LeastNumber
  <2>3. m # 0
    <3>1. ASSUME NEW s \in Small(0) PROVE s = {}
      <4>1. Cardinality(s) \in Nat /\ Cardinality(s) <= 0 /\ (s = {} <=> Cardinality(s) = 0)
        BY PickProps
      <4>2. QED
        BY <4>1
    <3>2. Partial(0, [s \in Small(0) |-> 0])
      BY <3>1
    <3>3. 0 \notin bad
      BY <3>2
    <3>4. QED
      BY <3>3
  <2>4. m \in Nat /\ m-1 \in Nat /\ ~(m <= m-1)
    BY <2>2, <2>3
  <2>5. m-1 \notin bad
    BY <2>2, <2>4
  <2>6. PICK g : Partial(m-1, g)
    BY <2>4, <2>5
  <2> DEFINE h == [s \in Small(m) |-> Next1(g, s)]
  <2>7. ASSUME NEW s \in Small(m)
        PROVE  h[s] = Next1(h, s)
    <3>1. CASE s = {}
      BY <3>1
    <3>2. CASE s # {}
      <4> DEFINE r == s \ {Pick(s)}
      <4>1. r \in Small(m-1) /\ r \in Small(m)
        BY <2>4, <3>2, PickProps
      <4>2. g[r] = Next1(g, r)
        BY <2>6, <4>1
      <4>3. h[r] = Next1(g, r)
        BY <4>1
      <4>4. QED
        BY <3>2, <4>2, <4>3
    <3>3. QED
      BY <3>1, <3>2
  <2>8. Partial(m, h)
    BY <2>7
  <2>9. QED
    BY <2>2, <2>8
<1> DEFINE n == Cardinality(S)
<1>2. n \in Nat /\ Small(n) = SUBSET S
  <2>1. ASSUME NEW s \in SUBSET S PROVE Cardinality(s) <= n
    BY FS_Subset
  <2>2. QED
    BY <2>1, FS_CardinalityType
<1> HIDE DEF n
<1>3. PICK g : Partial(n, g)
  BY <1>1, <1>2
<1>4. Sums(F, S, g)
  BY <1>2, <1>3 DEF Sums
<1>5. QED
  BY <1>4

\* A sum of zeros, and a sum of which one summand changes.
LEMMA SumZero ==
  ASSUME NEW S, IsFiniteSet(S), NEW F, \A x \in S : F[x] = 0
  PROVE  Total(F, S) = 0
<1> DEFINE f == CHOOSE total : Sums(F, S, total)
           bad == {n \in Nat : \E s \in SUBSET S : Cardinality(s) = n /\ f[s] # 0}
<1>1. Sums(F, S, f)
  BY SumExists
<1> HIDE DEF f
<1>2. \A s \in SUBSET S : f[s] = IF s = {} THEN 0 ELSE F[Pick(s)] + f[s \ {Pick(s)}]
  BY <1>1 DEF Sums
<1>3. bad = {}
  <2>1. SUFFICES ASSUME bad # {} PROVE FALSE
    OBVIOUS
  <2>2. PICK m \in bad : \A n \in bad : m <= n
    BY <2>1, LeastNumber
  <2>3. PICK s \in SUBSET S : Cardinality(s) = m /\ f[s] # 0
    BY <2>2
  <2>4. s # {} /\ f[s] = F[Pick(s)] + f[s \ {Pick(s)}]
    BY <1>2, <2>3
  <2> DEFINE r == s \ {Pick(s)}
  <2>5. Pick(s) \in S /\ r \in SUBSET S /\ m \in Nat /\ Cardinality(r) = m-1 /\ m-1 \in Nat
    BY <2>3, <2>4, PickProps
  <2>6. m-1 \notin bad
    BY <2>2, <2>5
  <2>7. f[r] = 0
    BY <2>5, <2>6
  <2>8. QED
    BY <2>3, <2>4, <2>5, <2>7
<1>4. \A s \in SUBSET S : f[s] = 0
  BY <1>3, PickProps
<1>5. QED
  BY <1>4 DEF Total, f

\* A sum of which one summand changes.
LEMMA SumChange ==
  ASSUME NEW S, IsFiniteSet(S), NEW F \in [S -> Int], NEW G, NEW t \in S, NEW d \in Int,
         \A x \in S : x # t => G[x] = F[x],
         G[t] = F[t] + d
  PROVE  Total(F, S) \in Int /\ Total(G, S) = Total(F, S) + d
<1> DEFINE f == CHOOSE total : Sums(F, S, total)
           g == CHOOSE total : Sums(G, S, total)
           Right(s) == f[s] \in Int /\ g[s] = f[s] + IF t \in s THEN d ELSE 0
           bad == {n \in Nat : \E s \in SUBSET S : Cardinality(s) = n /\ ~Right(s)}
<1>1. Sums(F, S, f) /\ Sums(G, S, g)
  BY SumExists
<1> HIDE DEF f, g
<1>2. \A s \in SUBSET S : /\ f[s] = IF s = {} THEN 0 ELSE F[Pick(s)] + f[s \ {Pick(s)}]
                          /\ g[s] = IF s = {} THEN 0 ELSE G[Pick(s)] + g[s \ {Pick(s)}]
  BY <1>1 DEF Sums
<1>3. bad = {}
  <2>1. SUFFICES ASSUME bad # {} PROVE FALSE
    OBVIOUS
  <2>2. PICK m \in bad : \A n \in bad : m <= n
    BY <2>1, LeastNumber
  <2>3. PICK s \in SUBSET S : Cardinality(s) = m /\ ~Right(s)
    BY <2>2
  <2>4. /\ s # {} /\ f[s] = F[Pick(s)] + f[s \ {Pick(s)}]
        /\ g[s] = G[Pick(s)] + g[s \ {Pick(s)}]
    <3>1. s = {} => f[s] = 0 /\ g[s] = 0 /\ t \notin s
      BY <1>2
    <3>2. s # {}
      BY <2>3, <3>1
    <3>3. QED
      BY <1>2, <3>2
  <2> DEFINE r == s \ {Pick(s)}
  <2>5. /\ Pick(s) \in S /\ Pick(s) \in s /\ r \in SUBSET S
        /\ m \in Nat /\ Cardinality(r) = m-1 /\ m-1 \in Nat
    BY <2>3, <2>4, PickProps
  <2>6. m-1 \notin bad
    BY <2>2, <2>5
  <2>7. Right(r)
    BY <2>5, <2>6
  <2>8. F[Pick(s)] \in Int
    BY <2>5
  <2>9. CASE Pick(s) = t
    BY <2>3, <2>4, <2>5, <2>7, <2>8, <2>9
  <2>10. CASE Pick(s) # t
    BY <2>3, <2>4, <2>5, <2>7, <2>8, <2>10
  <2>11. QED
    BY <2>9, <2>10
<1>4. Right(S)
  <2>1. Cardinality(S) \in Nat /\ S \in SUBSET S
    BY PickProps
  <2>2. Cardinality(S) \notin bad
    BY <1>3
  <2> HIDE DEF Right
  <2>3. QED
    BY <2>1, <2>2
<1>5. QED
  BY <1>4 DEF Total, f, g

-----------------------------------------------------------------------------
(* No addition is lost. *)

Summand == [t \in Thread |-> Delta[t] * Stored(t)]

\* A thread about to store has loaded what is still there.
LoadedIsShared == \A t \in Thread : pc[t] = "store" => tmp[t] = shared

\* CounterExact with the sum as Total defines it.
SharedIsTotal == shared = Total(Summand, Thread)

\* CounterExact, with the sum as Total.
LEMMA CounterIsTotal == CounterExact <=> SharedIsTotal
<1>1. MapThenSumSet(LAMBDA t : Delta[t] * Stored(t), Thread) = Total(Summand, Thread)
  BY DEF MapThenSumSet, MapThenFoldSet, Total, Sums, Pick, Summand
<1>2. QED
  BY <1>1 DEF CounterExact, SharedIsTotal

\* What a thread stores is a number.
LEMMA StoredType ==
  ASSUME LockTypeOK
  PROVE  \A t \in Thread : Stored(t) \in Nat /\ Delta[t] \in {1, -1}
BY TurnsAssumption, DeltaAssumption DEF LockTypeOK, Stored

\* So is what it has added.
LEMMA SummandType == LockTypeOK => Summand \in [Thread -> Int]
BY StoredType DEF Summand

\* Nothing is added at the start.
LEMMA CounterInit == LockInit => SharedIsTotal /\ LoadedIsShared
<1> SUFFICES ASSUME LockInit PROVE SharedIsTotal /\ LoadedIsShared
  OBVIOUS
<1>1. \A t \in Thread : Summand[t] = 0
  BY DeltaAssumption DEF LockInit, Summand, Stored
<1>2. shared = Total(Summand, Thread)
  BY <1>1, SumZero, ThreadAssumption DEF LockInit
<1>3. QED
  BY <1>2 DEF LockInit, LoadedIsShared, SharedIsTotal

\* Only the store of t adds, and it adds to what the others stored.
LEMMA CounterStep ==
  ASSUME LockInv, TurnsLeft, SharedIsTotal, LoadedIsShared, NEW t \in Thread, Step(t)
  PROVE  (SharedIsTotal /\ LoadedIsShared)'
<1>1. LockTypeOK /\ LockTypeOK' /\ shared = Total(Summand, Thread)
  BY TypeNext DEF LockInv, SharedIsTotal
<1>2. \A u, v \in Thread : Holds(u) /\ Holds(v) => u = v
  BY DEF LockInv, WordTellsHolder
<1>3. CASE StoreShared(t)
  <2>1. /\ pc[t] = "store" /\ shared' = tmp[t] + Delta[t] /\ tmp' = tmp /\ turns' = turns
        /\ pc' = [pc EXCEPT ![t] = "unlock"]
    BY <1>3 DEF StoreShared
  <2>2. shared' = shared + Delta[t]
    BY <2>1 DEF LoadedIsShared
  <2>3. \A u \in Thread : u # t => Summand'[u] = Summand[u]
    BY <1>1, <2>1 DEF Summand, Stored, LockTypeOK
  <2>4. Summand'[t] = Summand[t] + Delta[t]
    <3>1. Stored(t)' = turns[t] + 1 /\ Stored(t) = turns[t] + 0 /\ turns[t] \in Nat
      BY <1>1, <2>1, TurnsAssumption DEF Stored, LockTypeOK
    <3>2. Summand'[t] = Delta[t] * (turns[t] + 1) /\ Summand[t] = Delta[t] * turns[t]
      BY <3>1 DEF Summand
    <3>3. Delta[t] = 1 \/ Delta[t] = -1
      BY DeltaAssumption
    <3>4. QED
      BY <3>1, <3>2, <3>3
  <2>5. Total(Summand', Thread) = Total(Summand, Thread) + Delta[t]
    <3>1. Delta[t] \in Int /\ Summand \in [Thread -> Int]
      BY <1>1, SummandType, StoredType
    <3>2. QED
      BY <2>3, <2>4, <3>1, SumChange, ThreadAssumption
  <2>6. shared' = Total(Summand', Thread)
    BY <1>1, <2>2, <2>5
  <2>7. SharedIsTotal'
    BY <2>6 DEF SharedIsTotal
  <2>8. LoadedIsShared'
    <3> SUFFICES ASSUME NEW u \in Thread, pc'[u] = "store" PROVE FALSE
      BY DEF LoadedIsShared
    <3>1. pc[u] = "store" /\ u # t
      BY <1>1, <2>1 DEF LockTypeOK
    <3>2. QED
      BY <1>2, <2>1, <3>1 DEF Holds, InCritical
  <2>9. QED
    BY <2>7, <2>8
<1>4. CASE ~StoreShared(t)
  <2>1. shared' = shared /\ \A u \in Thread : Stored(u)' = Stored(u)
    <3>1. CASE TryLock(t) \/ SpinLoop(t) \/ LoadShared(t)
      BY <1>1, <3>1 DEF TryLock, SpinLoop, LoadShared, Stored, LockTypeOK
    <3>2. CASE SpinUnlock(t)
      <4>1. /\ pc[t] = "unlock" /\ shared' = shared /\ pc'[t] \in {"try", "done"}
            /\ turns' = [turns EXCEPT ![t] = turns[t] + 1]
            /\ \A u \in Thread \ {t} : pc'[u] = pc[u]
        BY <1>1, <3>2, TurnEnds DEF SpinUnlock, AfterTurn, TurnsLeft
      <4>2. Stored(t)' = Stored(t)
        BY <1>1, <4>1, TurnsAssumption DEF Stored, LockTypeOK
      <4>3. \A u \in Thread \ {t} : Stored(u)' = Stored(u)
        BY <1>1, <4>1 DEF Stored, LockTypeOK
      <4>4. QED
        BY <4>1, <4>2, <4>3
    <3>3. QED
      BY <1>4, <3>1, <3>2 DEF Step
  <2>2. Summand' = Summand
    BY <2>1 DEF Summand
  <2>3. SharedIsTotal'
    BY <1>1, <2>1, <2>2 DEF SharedIsTotal
  <2>4. LoadedIsShared'
    <3> SUFFICES ASSUME NEW u \in Thread, pc'[u] = "store" PROVE tmp'[u] = shared'
      BY DEF LoadedIsShared
    <3>1. CASE LoadShared(t)
      BY <1>1, <2>1, <3>1 DEF LoadShared, LockTypeOK, LoadedIsShared
    <3>2. CASE TryLock(t) \/ SpinLoop(t)
      BY <1>1, <2>1, <3>2 DEF TryLock, SpinLoop, LockTypeOK, LoadedIsShared
    <3>3. CASE SpinUnlock(t)
      <4>1. pc[t] = "unlock" /\ tmp' = tmp /\ pc'[t] # "store"
            /\ \A v \in Thread \ {t} : pc'[v] = pc[v]
        BY <1>1, <3>3, TurnEnds DEF SpinUnlock, TurnsLeft
      <4>2. QED
        BY <2>1, <4>1 DEF LoadedIsShared
    <3>4. QED
      BY <1>4, <3>1, <3>2, <3>3 DEF Step
  <2>5. QED
    BY <2>3, <2>4
<1>5. QED
  BY <1>3, <1>4

\* shared_var is the sum of all that was added to it under the lock, whatever
\* the number of threads and wherever the timer interrupts them.
THEOREM NoAdditionLost == LockSpec => []CounterExact
<1>1. LockInit => LockInv /\ TurnsLeft /\ SharedIsTotal /\ LoadedIsShared
  BY LockStarts, TurnsInit, CounterInit
<1>2. LockInv /\ TurnsLeft /\ SharedIsTotal /\ LoadedIsShared /\ [LockNext]_lockvars
        => (LockInv /\ TurnsLeft /\ SharedIsTotal /\ LoadedIsShared)'
  <2> SUFFICES ASSUME LockInv, TurnsLeft, SharedIsTotal, LoadedIsShared, [LockNext]_lockvars
               PROVE  (LockInv /\ TurnsLeft /\ SharedIsTotal /\ LoadedIsShared)'
    OBVIOUS
  <2>1. (LockInv /\ TurnsLeft)'
    BY LockKept, TurnsNext DEF LockInv
  <2>2. (SharedIsTotal /\ LoadedIsShared)'
    <3>1. CASE UNCHANGED lockvars
      <4>1. shared' = shared /\ Summand' = Summand /\ pc' = pc /\ tmp' = tmp
        BY <3>1 DEF lockvars, Summand, Stored
      <4>2. SharedIsTotal'
        BY <4>1 DEF SharedIsTotal
      <4>3. QED
        BY <4>1, <4>2 DEF LoadedIsShared
    <3>2. QED
      BY <3>1, CounterStep DEF LockNext, Finished
  <2>3. QED
    BY <2>1, <2>2
<1>3. QED
  BY <1>1, <1>2, CounterIsTotal, PTL DEF LockSpec
=============================================================================
