------------------------------ MODULE ThreadPool ------------------------------
(***************************************************************************)
(* What the preemptive thread library promises its client, with no queue,  *)
(* no registers and no interrupts: a pool of started threads, of which,    *)
(* while pre_run is running, only those of the highest priority still      *)
(* unfinished make progress, one instruction at a time, and from which     *)
(* pre_run returns when every thread has finished.                         *)
(***************************************************************************)
EXTENDS Naturals

CONSTANTS Thread,     \* the threads a client may fork
          Priority,   \* Priority[t]: the priority given to pre_fork
          Length,     \* Length[t]: instructions t executes in one activation
          Forever     \* threads whose code loops and never exits

VARIABLES live,      \* started and not finished
          progress,  \* instructions executed in the current activation
          running    \* inside pre_run

poolVars == <<live, progress, running>>

PoolInit ==
  /\ live = {}
  /\ progress = [t \in Thread |-> 0]
  /\ running = FALSE

\* pre_fork or equiv_refresh: t will run, from its first instruction.
Start(t) ==
  /\ ~running
  /\ t \notin live
  /\ live' = live \cup {t}
  /\ progress' = [progress EXCEPT ![t] = 0]
  /\ UNCHANGED running

\* pre_run is called with at least one thread to run.
Open ==
  /\ ~running
  /\ live # {}
  /\ running' = TRUE
  /\ UNCHANGED <<live, progress>>

\* t executes one instruction.  Only a thread no live one outranks may.
Advance(t) ==
  /\ running
  /\ t \in live
  /\ \A u \in live : Priority[u] <= Priority[t]
  /\ IF progress[t] + 1 < Length[t]
       THEN /\ progress' = [progress EXCEPT ![t] = @ + 1]
            /\ UNCHANGED live
       ELSE IF t \in Forever
         THEN /\ progress' = [progress EXCEPT ![t] = 0]
              /\ UNCHANGED live
         ELSE /\ progress' = [progress EXCEPT ![t] = @ + 1]
              /\ live' = live \ {t}
  /\ UNCHANGED running

\* pre_run returns: nothing is left to run.
Close ==
  /\ running
  /\ live = {}
  /\ running' = FALSE
  /\ UNCHANGED <<live, progress>>

PoolNext ==
  \/ \E t \in Thread : Start(t) \/ Advance(t)
  \/ Open
  \/ Close

PoolSpec == PoolInit /\ [][PoolNext]_poolVars

\* Once pre_run is running every thread that may advance does: preemption
\* takes turns among equals, it never parks one of them for good.
PoolFairSpec ==
  /\ PoolSpec
  /\ WF_poolVars(Close)
  /\ \A t \in Thread : WF_poolVars(Advance(t))
=============================================================================
