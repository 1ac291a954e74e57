-------------------------------- MODULE SpinLock --------------------------------
(***************************************************************************)
(* The spin lock of project/preemptive-thread.c and preemptive-thread-asm.S*)
(* as priority-test-3.c uses it: threads, all forked before pre_run, that  *)
(* add to one shared variable, each time under the lock.                   *)
(*                                                                         *)
(* Threads are scheduled as ThreadPool allows, which PreThread implements: *)
(* any live thread that no live one outranks may execute the next          *)
(* instruction.  Each action is one access to memory, with the             *)
(* instructions around it that touch only registers.                       *)
(***************************************************************************)
EXTENDS Integers, FiniteSetsExt

CONSTANTS
  Thread,
  Priority,  \* Priority[t]: fixed when t is forked
  Delta,     \* Delta[t]: what t adds to the shared variable, 1 or -1
  Turns      \* bound: how many times each thread adds

\* A thread is a block of memory.
ASSUME ThreadAssumption == IsFiniteSet(Thread)
ASSUME PriorityAssumption == Priority \in [Thread -> Nat]
ASSUME DeltaAssumption == Delta \in [Thread -> {1, -1}]
ASSUME TurnsAssumption == Turns \in Nat \ {0}

VARIABLES
  lock,    \* the word: 1 free, 0 taken
  shared,  \* shared_var
  pc,      \* pc[t]: what t does next
  got,     \* got[t]: r0, what try_lock returned
  tmp,     \* tmp[t]: the register shared_var was loaded into
  turns    \* turns[t]: iterations t has finished

lockvars == <<lock, shared, pc, got, tmp, turns>>

Live == {t \in Thread : pc[t] # "done"}

\* The scheduler's rule: ThreadPool's Advance.
AnyLive(t) == t \in Live
Eligible(t) == t \in Live /\ \A u \in Live : Priority[u] <= Priority[t]

\* spin_init, then the threads are forked.
LockInit ==
  /\ lock = 1
  /\ shared = 0
  /\ pc = [t \in Thread |-> "try"]
  /\ got = [t \in Thread |-> 0]
  /\ tmp = [t \in Thread |-> 0]
  /\ turns = [t \in Thread |-> 0]

\* try_lock: swp reads the word and stores 0 in one instruction.
ReadWithoutStore(t) ==
  /\ Eligible(t)
  /\ pc[t] = "try"
  /\ got' = [got EXCEPT ![t] = lock]
  /\ pc' = [pc EXCEPT ![t] = "test"]
  /\ UNCHANGED <<lock, shared, tmp, turns>>
TryLock(t) ==
  /\ Eligible(t)
  /\ pc[t] = "try"
  /\ got' = [got EXCEPT ![t] = lock]
  /\ lock' = 0
  /\ pc' = [pc EXCEPT ![t] = "test"]
  /\ UNCHANGED <<shared, tmp, turns>>

\* spin_lock: while (!try_lock(lock)).
SpinInverted(t) ==
  /\ Eligible(t)
  /\ pc[t] = "test"
  /\ pc' = [pc EXCEPT ![t] = IF got[t] = 0 THEN "load" ELSE "try"]
  /\ UNCHANGED <<lock, shared, got, tmp, turns>>
SpinLoop(t) ==
  /\ Eligible(t)
  /\ pc[t] = "test"
  /\ pc' = [pc EXCEPT ![t] = IF got[t] = 0 THEN "try" ELSE "load"]
  /\ UNCHANGED <<lock, shared, got, tmp, turns>>

\* shared_var++ or shared_var--: a load, and a store of the sum.
LoadShared(t) ==
  /\ Eligible(t)
  /\ pc[t] = "load"
  /\ tmp' = [tmp EXCEPT ![t] = shared]
  /\ pc' = [pc EXCEPT ![t] = "store"]
  /\ UNCHANGED <<lock, shared, got, turns>>

\* The thread's loop counter: again, or return and exit.
AfterTurn(t) ==
  /\ turns' = [turns EXCEPT ![t] = @ + 1]
  /\ pc' = [pc EXCEPT ![t] = IF turns[t] + 1 = Turns THEN "done" ELSE "try"]

StoreShared(t) ==
  /\ Eligible(t)
  /\ pc[t] = "store"
  /\ shared' = tmp[t] + Delta[t]
  /\ pc' = [pc EXCEPT ![t] = "unlock"]
  /\ UNCHANGED <<lock, got, tmp, turns>>

\* spin_unlock: *lock = 1.
UnlockForgotten(t) ==
  /\ Eligible(t)
  /\ pc[t] = "unlock"
  /\ AfterTurn(t)
  /\ UNCHANGED <<lock, shared, got, tmp>>
SpinUnlock(t) ==
  /\ Eligible(t)
  /\ pc[t] = "unlock"
  /\ lock' = 1
  /\ AfterTurn(t)
  /\ UNCHANGED <<shared, got, tmp>>

Step(t) == TryLock(t) \/ SpinLoop(t) \/ LoadShared(t) \/ StoreShared(t) \/ SpinUnlock(t)

\* pre_run returned.
Finished == Live = {} /\ UNCHANGED lockvars

LockNext == (\E t \in Thread : Step(t)) \/ Finished

LockSpec == LockInit /\ [][LockNext]_lockvars

\* The pool's fairness: a thread that stays eligible goes on executing.
LockFairSpec == LockSpec /\ \A t \in Thread : WF_lockvars(Step(t))

-----------------------------------------------------------------------------
LockTypeOK ==
  /\ lock \in {0, 1}
  /\ shared \in Int
  /\ pc \in [Thread -> {"try", "test", "load", "store", "unlock", "done"}]
  /\ got \in [Thread -> {0, 1}]
  /\ tmp \in [Thread -> Int]
  /\ turns \in [Thread -> 0..Turns]

InCritical(t) == pc[t] \in {"load", "store", "unlock"}
\* The lock is t's, from the swp that took it to the store that frees it.
Holds(t) == InCritical(t) \/ (pc[t] = "test" /\ got[t] = 1)

\* Two threads are never between spin_lock and spin_unlock at once, however
\* the timer interleaves their instructions.
MutualExclusion ==
  \A t, u \in Thread : InCritical(t) /\ InCritical(u) => t = u

\* The word is 0 exactly while one thread holds the lock: also between the
\* swp that took it and the test of what it returned.
WordTellsHolder ==
  /\ \A t, u \in Thread : Holds(t) /\ Holds(u) => t = u
  /\ lock = 0 <=> \E t \in Thread : Holds(t)

\* Stores made by t so far.
Stored(t) == turns[t] + (IF pc[t] = "unlock" THEN 1 ELSE 0)

\* No addition is lost or made twice: shared_var is the sum of all made.
CounterExact ==
  shared = MapThenSumSet(LAMBDA t : Delta[t] * Stored(t), Thread)

\* "We don't need to worry about priority inversion" (README.md:73): the
\* holder of the lock is never outranked by a thread that could spin on it.
NoInversion ==
  \A h, u \in Thread : Holds(h) /\ u \in Live => Priority[u] <= Priority[h]

\* Once the first has taken the lock, every thread gets it as often as it asks
\* and exits: a spinning thread cannot keep the holder from the CPU.
AllExit == (lock = 0) ~> (Live = {})

\* Inductive: see SpinLockProofs.
LockInv == LockTypeOK /\ WordTellsHolder /\ NoInversion
=============================================================================
