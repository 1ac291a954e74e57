---------------------------- MODULE PreThreadProofs ----------------------------
(***************************************************************************)
(* Theorems about PreThread, for every set of threads, every priority,     *)
(* every code and every number of preemptions: scheduling, turns among     *)
(* equals, hashing, and the refinement of ThreadPool.                      *)
(***************************************************************************)
EXTENDS PreThread, QueueLemmas

-----------------------------------------------------------------------------
(* The run queue. *)

Sorted(q) == Descending(q, Priority)

\* eq_insert_with_priority adds its thread, keeps a sorted queue sorted and
\* one without duplicates free of them.
LEMMA InsertProps ==
  ASSUME runq \in Seq(Thread), NEW e \in Thread, InsertWithPriority(e)
  PROVE  /\ runq' \in Seq(Thread)
         /\ ToSet(runq') = ToSet(runq) \cup {e}
         /\ IsInjective(runq) /\ e \notin ToSet(runq) => IsInjective(runq')
         /\ Sorted(runq) => Sorted(runq')
<1>1. PICK k \in 1..Len(runq)+1 :
        /\ \A i \in 1..k-1 : Priority[runq[i]] >= Priority[e]
        /\ k <= Len(runq) => Priority[runq[k]] < Priority[e]
        /\ runq' = InsertAt(runq, k, e)
  BY DEF InsertWithPriority
<1>2. runq' \in Seq(Thread)
  BY <1>1, InsertAtProps
<1>3. /\ ToSet(runq') = ToSet(runq) \cup {e}
      /\ IsInjective(runq) /\ e \notin ToSet(runq) => IsInjective(runq')
  BY <1>1, InsertAtSet
<1>4. Sorted(runq) => Sorted(runq')
  BY <1>1, DescendingInsert, PriorityAssumption DEF Sorted
<1>5. QED
  BY <1>2, <1>3, <1>4

\* eq_pop takes the head: what is left is the rest, sorted and duplicate-free.
LEMMA PopProps ==
  ASSUME NEW q \in Seq(Thread), q # <<>>
  PROVE  /\ Head(q) \in Thread /\ Tail(q) \in Seq(Thread)
         /\ Head(q) \in ToSet(q)
         /\ IsInjective(q) => /\ ToSet(Tail(q)) = ToSet(q) \ {Head(q)}
                              /\ IsInjective(Tail(q))
         /\ Sorted(q) => /\ Sorted(Tail(q))
                         /\ \A t \in ToSet(q) : Priority[t] <= Priority[Head(q)]
<1>1. 1 \in DOMAIN q /\ Head(q) = q[1] /\ q[1] \in Thread /\ Tail(q) \in Seq(Thread)
  OBVIOUS
<1>2. Head(q) \in ToSet(q)
  BY <1>1 DEF ToSet
<1>3. QED
  BY <1>1, <1>2, TailSet, DescendingTail, PriorityAssumption DEF Sorted

-----------------------------------------------------------------------------
(* Scheduling: the inductive invariant SchedInv. *)

\* Every code has an instruction.
LEMMA LengthType ==
  \A t \in Thread : Length[t] \in Nat \ {0} /\ Length[t] = Len(Code[t])
<1> TAKE t \in Thread
<1>1. Code[t] \in Seq(Nat \ {0}) /\ Code[t] # <<>>
  BY CodeAssumption
<1>2. QED
  BY <1>1 DEF Length

\* The expected hash of a thread is a sequence of register files.
LEMMA ReferenceType == \A t \in Thread : Reference(t) \in Seq(Ctx)
<1> TAKE t \in Thread
<1>1. Length[t] \in Nat
  BY LengthType
<1>2. \A i \in 1..Length[t] : [th |-> t, pc |-> i] \in Ctx
  BY <1>1 DEF Ctx
<1>3. Reference(t) \in [1..Length[t] -> Ctx]
  BY <1>2 DEF Reference
<1>4. QED
  BY <1>1, <1>3, SeqDef

\* The queue is empty at the start.
LEMMA SchedInit == Init => SchedInv
<1> SUFFICES ASSUME Init PROVE SchedInv
  OBVIOUS
<1> USE DEF Init
<1>1. TypeOK
  <2>1. <<>> \in Seq(Ctx) /\ <<>> \in Seq(Thread)
    BY EmptySeq
  <2>2. NoCtx \in Ctx
    BY DEF NoCtx, Ctx
  <2>3. QED
    BY <2>1, <2>2 DEF TypeOK
<1>2. CurFollowsMode /\ ProgressBounded /\ SingleStepBalanced
  BY LengthType DEF CurFollowsMode, ProgressBounded, SingleStepBalanced
<1>3. ToSet(runq) = {} /\ IsInjective(runq) /\ Live = {}
  BY DEF ToSet, IsInjective, Live
<1>4. ContextIntegrity /\ NoThreadLost /\ HighestPriorityRuns
  BY <1>3 DEF ContextIntegrity, NoThreadLost, HighestPriorityRuns, Running
<1>5. QED
  BY <1>1, <1>2, <1>4 DEF SchedInv

\* A thread that becomes live while the main program runs is queued ready to
\* start: common to pre_fork and equiv_refresh.
LEMMA StartPreserves ==
  ASSUME SchedInv, mode = "main", mode' = mode, cur' = cur,
         NEW t \in Thread, t \notin Live,
         Live' = Live \cup {t}, retired'[t] = 0,
         \A u \in Thread \ {t} : retired'[u] = retired[u] /\ regs'[u] = regs[u],
         regs'[t] = InitialRegs(t), InsertWithPriority(t)
  PROVE  /\ runq' \in Seq(Thread)
         /\ (ContextIntegrity /\ NoThreadLost /\ HighestPriorityRuns)'
<1> USE DEF SchedInv
<1>1. runq \in Seq(Thread) /\ cur \notin Thread /\ ~Running /\ ~Running'
  BY ThreadAssumption DEF TypeOK, CurFollowsMode, Running
<1>2. t \notin ToSet(runq) /\ ToSet(runq) = Live /\ IsInjective(runq)
  BY <1>1 DEF NoThreadLost, Live, TypeOK
<1>3. Sorted(runq)
  BY DEF Sorted, Descending, HighestPriorityRuns
<1>4. /\ runq' \in Seq(Thread) /\ ToSet(runq') = ToSet(runq) \cup {t}
      /\ IsInjective(runq') /\ Sorted(runq')
  BY <1>1, <1>2, <1>3, InsertProps
<1>5. ToSet(runq) \subseteq Thread
  BY <1>1 DEF ToSet
<1>6. ContextIntegrity'
  BY <1>1, <1>2, <1>4, <1>5 DEF ContextIntegrity, InitialRegs
<1>7. NoThreadLost'
  BY <1>1, <1>2, <1>4 DEF NoThreadLost, Live, TypeOK
<1>8. HighestPriorityRuns'
  BY <1>1, <1>4 DEF HighestPriorityRuns, Sorted, Descending
<1>9. QED
  BY <1>4, <1>6, <1>7, <1>8

\* pre_fork queues a thread that was not live.
LEMMA ForkPreserves ==
  ASSUME SchedInv, NEW t \in Thread, NEW e \in {<<>>, Reference(t)}, Fork(t, e)
  PROVE  SchedInv'
<1> USE DEF SchedInv
<1>1. e \in Seq(Ctx)
  <2>1. Reference(t) \in Seq(Ctx)
    BY ReferenceType
  <2>2. <<>> \in Seq(Ctx)
    BY EmptySeq
  <2>3. CASE e = <<>>
    BY <2>2, <2>3
  <2>4. CASE e = Reference(t)
    BY <2>1, <2>4
  <2>5. QED
    BY <2>3, <2>4
<1>2. t \notin Live /\ Live' = Live \cup {t} /\ retired'[t] = 0
  BY LengthType DEF Fork, Live, Finished, ProgressBounded
<1>3. /\ \A u \in Thread \ {t} : retired'[u] = retired[u] /\ regs'[u] = regs[u]
      /\ regs'[t] = InitialRegs(t)
  BY DEF Fork, TypeOK
<1>4. runq' \in Seq(Thread) /\ (ContextIntegrity /\ NoThreadLost /\ HighestPriorityRuns)'
  <2>1. mode = "main" /\ mode' = mode /\ cur' = cur /\ InsertWithPriority(t)
    BY DEF Fork
  <2>2. QED
    BY <1>2, <1>3, <2>1, StartPreserves
<1>5. TypeOK'
  BY <1>1, <1>4 DEF Fork, TypeOK, InitialRegs, Ctx
<1>6. (CurFollowsMode /\ ProgressBounded /\ SingleStepBalanced)'
  BY DEF Fork, CurFollowsMode, ProgressBounded, SingleStepBalanced
<1>7. QED
  BY <1>4, <1>5, <1>6

\* equiv_refresh queues a thread that has exited.
LEMMA RefreshPreserves ==
  ASSUME SchedInv, NEW t \in Thread, Refresh(t)
  PROVE  SchedInv'
<1> USE DEF SchedInv
<1>1. t \notin Live /\ Live' = Live \cup {t} /\ retired'[t] = 0
  BY LengthType DEF Refresh, Live, Finished, TypeOK
<1>2. /\ \A u \in Thread \ {t} : retired'[u] = retired[u] /\ regs'[u] = regs[u]
      /\ regs'[t] = InitialRegs(t)
  BY DEF Refresh, TypeOK
<1>3. runq' \in Seq(Thread) /\ (ContextIntegrity /\ NoThreadLost /\ HighestPriorityRuns)'
  <2>1. mode = "main" /\ mode' = mode /\ cur' = cur /\ InsertWithPriority(t)
    BY DEF Refresh
  <2>2. QED
    BY <1>1, <1>2, <2>1, StartPreserves
<1>4. TypeOK'
  <2>1. <<>> \in Seq(Ctx)
    BY EmptySeq
  <2>2. InitialRegs(t) \in Ctx
    BY DEF InitialRegs, Ctx
  <2>3. QED
    BY <1>3, <2>1, <2>2 DEF Refresh, TypeOK
<1>5. (CurFollowsMode /\ SingleStepBalanced)'
  BY DEF Refresh, CurFollowsMode, SingleStepBalanced
<1>6. ProgressBounded'
  BY LengthType DEF Refresh, ProgressBounded, TypeOK
<1>7. QED
  BY <1>3, <1>4, <1>5, <1>6

\* A step of the main program or the kernel that starts and ends outside
\* user mode and touches neither the queue nor any thread.
LEMMA IdlePreserves ==
  ASSUME SchedInv, PreRun \/ Reboot \/ SchedulerReturn \/ Resume
  PROVE  SchedInv'
<1> USE DEF SchedInv, PreRun, Reboot, SchedulerReturn, Resume, MismatchOff
<1>1. TypeOK'
  BY DEF TypeOK
<1>2. CurFollowsMode'
  BY DEF CurFollowsMode, TypeOK
<1>3. ProgressBounded'
  BY DEF ProgressBounded
<1>4. Live' = Live /\ ~Running /\ ~Running'
  BY DEF Live, Finished, Running
<1>5. ContextIntegrity' /\ HighestPriorityRuns'
  BY <1>4 DEF ContextIntegrity, HighestPriorityRuns
<1>6. NoThreadLost'
  <2>1. cur \notin Thread /\ cur' \notin Thread
    BY ThreadAssumption DEF CurFollowsMode, TypeOK
  <2>2. Live \subseteq Thread
    BY DEF Live, TypeOK
  <2>3. QED
    BY <1>4, <2>1, <2>2 DEF NoThreadLost
<1>7. SingleStepBalanced'
  BY ConfigAssumption DEF SingleStepBalanced, TypeOK
<1>8. QED
  BY <1>1, <1>2, <1>3, <1>5, <1>6, <1>7

\* The scheduler runs the first of the queue.
LEMMA DispatchPreserves ==
  ASSUME SchedInv, Dispatch
  PROVE  SchedInv'
<1> USE DEF SchedInv
<1> DEFINE h == Head(runq)
<1>1. runq \in Seq(Thread) /\ runq # <<>> /\ Sorted(runq) /\ IsInjective(runq)
  BY DEF TypeOK, Dispatch, HighestPriorityRuns, Sorted, Descending, NoThreadLost
<1>2. /\ h \in Thread /\ Tail(runq) \in Seq(Thread) /\ h \in ToSet(runq)
      /\ ToSet(Tail(runq)) = ToSet(runq) \ {h} /\ IsInjective(Tail(runq))
      /\ Sorted(Tail(runq)) /\ \A t \in ToSet(runq) : Priority[t] <= Priority[h]
  BY <1>1, PopProps
<1> HIDE DEF h
<1>3. runq' = Tail(runq) /\ cur' = h /\ cpu' = regs[h] /\ regs' = regs
  BY DEF Dispatch, h
<1>4. TypeOK'
  <2>1. cpu' \in Ctx
    BY <1>2, <1>3 DEF TypeOK
  <2>2. ss' \in BOOLEAN /\ bvr' \in Nat
    <3>1. CASE Equiv
      BY <3>1 DEF Dispatch, MismatchOn
    <3>2. CASE ~Equiv
      BY <3>2 DEF Dispatch, TypeOK
    <3>3. QED
      BY <3>1, <3>2
  <2>3. QED
    BY <1>2, <1>3, <2>1, <2>2 DEF Dispatch, TypeOK
<1>5. CurFollowsMode'
  BY <1>2, <1>3 DEF Dispatch, CurFollowsMode
<1>6. ProgressBounded' /\ SingleStepBalanced'
  BY ConfigAssumption DEF Dispatch, MismatchOn, ProgressBounded, SingleStepBalanced, TypeOK
<1>7. Live' = Live /\ ToSet(runq) = Live
  BY ThreadAssumption DEF Dispatch, Live, Finished, CurFollowsMode, NoThreadLost, TypeOK
<1>8. ContextIntegrity'
  BY <1>2, <1>3 DEF Dispatch, ContextIntegrity
<1>9. NoThreadLost'
  BY <1>2, <1>3, <1>7 DEF NoThreadLost
<1>10. HighestPriorityRuns'
  BY <1>2, <1>3, <1>7 DEF HighestPriorityRuns, Sorted, Descending
<1>11. QED
  BY <1>4, <1>5, <1>6, <1>8, <1>9, <1>10

\* While a thread runs, the CPU holds it and it is the current one.
LEMMA RunningProps ==
  ASSUME SchedInv, Running, NEW t \in Thread, cpu.th = t
  PROVE  /\ t = cur /\ cur \in Live
         /\ cpu = [th |-> cur, pc |-> retired[cur] + 1]
         /\ retired[cur] \in Nat /\ retired[cur] < Length[cur]
<1> USE DEF SchedInv
<1>1. cpu = [th |-> cur, pc |-> retired[cur] + 1] /\ cur \in Live
  BY DEF ContextIntegrity, NoThreadLost
<1>2. t = cur
  BY <1>1
<1>3. retired[cur] \in Nat /\ retired[cur] <= Length[cur] /\ retired[cur] # Length[cur]
  BY <1>1, <1>2 DEF TypeOK, ProgressBounded, Live, Finished
<1>4. QED
  BY <1>1, <1>2, <1>3, LengthType

\* Saving undoes what the trampoline added to the pc.
LEMMA SavedProps ==
  ASSUME NEW t \in Thread, NEW n \in Nat
  PROVE  Saved([th |-> t, pc |-> n + 1]) = [th |-> t, pc |-> n + 1]
<1> DEFINE stored == [[th |-> t, pc |-> n + 1] EXCEPT !.pc = @ + 1]
<1>1. stored = [th |-> t, pc |-> n + 2]
  OBVIOUS
<1>2. Saved([th |-> t, pc |-> n + 1]) = [stored EXCEPT !.pc = @ - 1]
  BY DEF Saved
<1>3. (n + 2) - 1 = n + 1
  OBVIOUS
<1> HIDE DEF stored
<1>4. [stored EXCEPT !.pc = @ - 1] = [th |-> t, pc |-> (n + 2) - 1]
  BY <1>1
<1>5. QED
  BY <1>2, <1>3, <1>4

\* The handler queues the thread that ran.
LEMMA InterruptPreserves ==
  ASSUME SchedInv, NEW t \in Thread, InterruptHandler(t)
  PROVE  SchedInv'
<1> USE DEF SchedInv
<1>1. /\ t = cur /\ cur \in Live
      /\ cpu = [th |-> cur, pc |-> retired[cur] + 1]
      /\ retired[cur] \in Nat
  BY RunningProps DEF InterruptHandler
<1>2. cpu \in Ctx /\ regs' = [regs EXCEPT ![cur] = cpu]
  <2>1. regs' = [regs EXCEPT ![cur] = Saved(cpu)]
    BY DEF InterruptHandler
  <2>2. QED
    BY <1>1, <2>1, SavedProps DEF TypeOK
<1>3. cur \notin ToSet(runq) /\ runq \in Seq(Thread) /\ Sorted(runq) /\ IsInjective(runq)
  BY DEF NoThreadLost, HighestPriorityRuns, Sorted, Descending, TypeOK
<1>4. /\ runq' \in Seq(Thread) /\ ToSet(runq') = ToSet(runq) \cup {cur}
      /\ IsInjective(runq') /\ Sorted(runq')
  BY <1>1, <1>3, InsertProps DEF InterruptHandler
<1>5. cur' = SchedulerThread /\ scheduler' = scheduler /\ mode' = "resumed"
  BY DEF InterruptHandler, CurFollowsMode, Running
<1>6. TypeOK'
  <2>1. NoCtx \in Ctx
    BY DEF NoCtx, Ctx
  <2>2. regs' \in [Thread -> Ctx]
    BY <1>2 DEF TypeOK
  <2>3. cpu' = NoCtx /\ UNCHANGED <<forked, scheduler, ss, bvr, hash, expected, retired>>
    BY DEF InterruptHandler
  <2>4. QED
    BY <1>4, <1>5, <2>1, <2>2, <2>3 DEF TypeOK
<1>7. CurFollowsMode'
  BY <1>5 DEF InterruptHandler, CurFollowsMode, Running
<1>8. ProgressBounded' /\ SingleStepBalanced'
  BY DEF InterruptHandler, ProgressBounded, SingleStepBalanced, Running
<1>9. Live' = Live /\ SchedulerThread \notin Live /\ Live \subseteq Thread
  BY ThreadAssumption DEF InterruptHandler, Live, Finished, TypeOK
<1>10. ContextIntegrity'
  <2>1. ~Running'
    BY <1>5 DEF Running
  <2>2. \A u \in ToSet(runq') : regs'[u] = [th |-> u, pc |-> retired[u] + 1]
    <3>1. regs'[cur] = cpu
      BY <1>1, <1>2 DEF TypeOK
    <3>2. \A u \in ToSet(runq) : regs'[u] = regs[u]
      BY <1>2, <1>3, <1>9 DEF NoThreadLost, TypeOK
    <3>3. QED
      BY <1>1, <1>4, <3>1, <3>2 DEF ContextIntegrity
  <2>3. QED
    BY <2>1, <2>2 DEF ContextIntegrity, InterruptHandler
<1>11. NoThreadLost'
  <2>1. ToSet(runq') = Live
    BY <1>1, <1>4 DEF NoThreadLost
  <2>2. QED
    BY <1>4, <1>5, <1>9, <2>1 DEF NoThreadLost, Running
<1>12. HighestPriorityRuns'
  BY <1>4, <1>5 DEF HighestPriorityRuns, Sorted, Descending, Running
<1>13. QED
  BY <1>6, <1>7, <1>8, <1>10, <1>11, <1>12

\* A single-step trap changes no thread but its hash.
LEMMA FaultPreserves ==
  ASSUME SchedInv, NEW t \in Thread, MismatchFault(t)
  PROVE  SchedInv'
<1> USE DEF SchedInv
<1>1. /\ t = cur /\ cur \in Live
      /\ cpu = [th |-> cur, pc |-> retired[cur] + 1]
      /\ retired[cur] \in Nat /\ retired[cur] < Length[cur]
  BY RunningProps DEF MismatchFault
<1>2. AddrOf(cpu) \in Nat
  <2>1. retired[cur] + 1 \in 1..Len(Code[cur])
    BY <1>1, LengthType
  <2>2. Code[cur] \in Seq(Nat \ {0})
    BY <1>1, CodeAssumption
  <2>3. QED
    BY <1>1, <2>1, <2>2 DEF AddrOf
<1>3. cur \notin ToSet(runq) /\ Live' = Live /\ Running'
  BY DEF NoThreadLost, MismatchFault, Live, Finished, Running
<1>4. TypeOK'
  BY <1>1, <1>2 DEF MismatchFault, TypeOK
<1>5. CurFollowsMode' /\ SingleStepBalanced'
  BY DEF MismatchFault, CurFollowsMode, SingleStepBalanced
<1>6. ProgressBounded'
  <2>1. cur \in forked
    BY <1>1 DEF Live
  <2>2. \A u \in Thread \ forked : hash'[u] = hash[u]
    BY <2>1 DEF MismatchFault, TypeOK
  <2>3. QED
    BY <2>2 DEF MismatchFault, ProgressBounded
<1>7. ContextIntegrity'
  <2>1. \A u \in ToSet(runq) : regs'[u] = regs[u]
    BY <1>3 DEF MismatchFault, TypeOK, NoThreadLost, Live
  <2>2. QED
    BY <1>1, <2>1 DEF ContextIntegrity, MismatchFault
<1>8. NoThreadLost' /\ HighestPriorityRuns'
  BY <1>3 DEF NoThreadLost, HighestPriorityRuns, MismatchFault, Running
<1>9. QED
  BY <1>4, <1>5, <1>6, <1>7, <1>8

\* An instruction that does not leave user mode: ordinary, or a putc.
LEMMA AdvanceProps ==
  ASSUME SchedInv, NEW t \in Thread, Execute(t) \/ SyscallPutc(t)
  PROVE  /\ t = cur /\ cur \in Live /\ retired[cur] \in Nat
         /\ cpu' = [th |-> cur, pc |-> retired'[cur] + 1]
         /\ retired' \in [Thread -> Nat] /\ retired'[cur] < Length[cur]
         /\ \A u \in Thread \ {cur} : retired'[u] = retired[u]
         /\ retired'[cur] = IF retired[cur] + 1 < Length[cur] THEN retired[cur] + 1 ELSE 0
         /\ retired[cur] + 1 < Length[cur] \/ cur \in Forever
<1>1. /\ t = cur /\ cur \in Live
      /\ cpu = [th |-> cur, pc |-> retired[cur] + 1]
      /\ retired[cur] \in Nat /\ retired[cur] < Length[cur]
  BY RunningProps DEF Execute, SyscallPutc
<1> DEFINE r == retired[cur]
           n == Length[cur]
<1>2. n \in Nat \ {0} /\ cpu.th = cur /\ cpu.pc = r + 1
  BY <1>1, LengthType
<1>3. cur \in Forever \/ r + 1 # n
  BY <1>1, <1>2 DEF Execute, SyscallPutc, AtExit
<1>4. /\ retired' \in [Thread -> Nat]
      /\ retired'[cur] = IF cur \in Forever /\ r + 1 = n THEN 0 ELSE r + 1
      /\ \A u \in Thread \ {cur} : retired'[u] = retired[u]
  <2>1. Retire(cur) /\ cur \in Thread /\ retired \in [Thread -> Nat]
    BY <1>1 DEF Execute, SyscallPutc, SchedInv, TypeOK, Live
  <2>2. retired' = [retired EXCEPT ![cur] = IF cur \in Forever /\ r + 1 = n THEN 0 ELSE r + 1]
    BY <2>1 DEF Retire
  <2>3. QED
    BY <1>1, <2>1, <2>2
<1>5. cpu' = [th |-> cur, pc |-> IF r + 1 = n THEN 1 ELSE (r + 1) + 1]
  BY <1>1 DEF Execute, SyscallPutc, After
<1>6. CASE r + 1 = n
  BY <1>1, <1>2, <1>3, <1>4, <1>5, <1>6
<1>7. CASE r + 1 # n
  BY <1>1, <1>2, <1>3, <1>4, <1>5, <1>7
<1>8. QED
  BY <1>6, <1>7

\* An instruction of the running thread, or its putc.
LEMMA AdvancePreserves ==
  ASSUME SchedInv, NEW t \in Thread, Execute(t) \/ SyscallPutc(t)
  PROVE  SchedInv'
<1> USE DEF SchedInv, Execute, SyscallPutc
<1>1. /\ cur \in Live /\ cpu' = [th |-> cur, pc |-> retired'[cur] + 1]
      /\ retired' \in [Thread -> Nat] /\ retired'[cur] < Length[cur]
      /\ \A u \in Thread \ {cur} : retired'[u] = retired[u]
  BY AdvanceProps
<1>2. cur \in Thread /\ cur \in forked /\ retired'[cur] \in Nat
  BY <1>1 DEF Live, TypeOK
<1>3. Live' = Live /\ Running /\ Running'
  BY <1>1, <1>2, LengthType DEF Live, Finished, Running, TypeOK
<1>4. TypeOK'
  <2>1. cpu' \in Ctx
    BY <1>1, <1>2 DEF Ctx
  <2>2. QED
    BY <1>1, <2>1 DEF TypeOK
<1>5. CurFollowsMode' /\ SingleStepBalanced'
  BY DEF CurFollowsMode, SingleStepBalanced
<1>6. ProgressBounded'
  BY <1>1, <1>2, LengthType DEF ProgressBounded
<1>7. ContextIntegrity'
  BY <1>1, <1>3 DEF ContextIntegrity, NoThreadLost, Live, TypeOK
<1>8. NoThreadLost' /\ HighestPriorityRuns'
  BY <1>3 DEF NoThreadLost, HighestPriorityRuns
<1>9. QED
  BY <1>4, <1>5, <1>6, <1>7, <1>8

\* An unknown system call stops the program.
LEMMA UnknownPreserves ==
  ASSUME SchedInv, NEW t \in Thread, SyscallUnknown(t)
  PROVE  SchedInv'
<1> USE DEF SchedInv, SyscallUnknown
<1>1. TypeOK'
  BY DEF TypeOK, NoCtx, Ctx
<1>2. CurFollowsMode' /\ SingleStepBalanced' /\ ProgressBounded'
  BY DEF CurFollowsMode, SingleStepBalanced, ProgressBounded, Running
<1>3. Live' = Live /\ ~Running'
  BY DEF Live, Finished, Running
<1>4. ContextIntegrity' /\ NoThreadLost' /\ HighestPriorityRuns'
  BY <1>3 DEF ContextIntegrity, NoThreadLost, HighestPriorityRuns
<1>5. QED
  BY <1>1, <1>2, <1>4

\* The exit system call, when the hash is accepted.
LEMMA ExitProps ==
  ASSUME SchedInv, NEW t \in Thread, SyscallExit(t), mode' = "resumed"
  PROVE  /\ t = cur /\ cur \in Live /\ cur \notin Forever
         /\ retired[cur] + 1 = Length[cur]
         /\ retired' = [retired EXCEPT ![cur] = Length[cur]]
         /\ cur' = SchedulerThread /\ Live' = Live \ {cur}
<1> USE DEF SchedInv
<1>1. /\ t = cur /\ cur \in Live /\ cur \in Thread
      /\ cpu = [th |-> cur, pc |-> retired[cur] + 1]
      /\ retired[cur] \in Nat /\ retired[cur] < Length[cur]
  BY RunningProps DEF SyscallExit
<1>2. retired[cur] + 1 = Length[cur] /\ cur \notin Forever
  BY <1>1 DEF SyscallExit, AtExit
<1>3. Retire(cur) /\ cur' = scheduler
  BY <1>1 DEF SyscallExit
<1>4. retired' = [retired EXCEPT ![cur] = Length[cur]]
  BY <1>2, <1>3 DEF Retire
<1>5. cur' = SchedulerThread
  BY <1>3 DEF SyscallExit, CurFollowsMode, Running
<1>6. Live' = Live \ {cur}
  BY <1>1, <1>4 DEF SyscallExit, Live, Finished, TypeOK
<1>7. QED
  BY <1>1, <1>2, <1>4, <1>5, <1>6

\* The running thread exits and is in no queue.
LEMMA ExitPreserves ==
  ASSUME SchedInv, NEW t \in Thread, SyscallExit(t)
  PROVE  SchedInv'
<1> USE DEF SchedInv
<1>1. UNCHANGED <<forked, runq, scheduler, regs, ss, bvr, hash>> /\ cpu' = NoCtx
  BY DEF SyscallExit
<1>2. NoCtx \in Ctx
  BY DEF NoCtx, Ctx
<1>3. CASE mode' = "panic_mismatch"
  <2>1. UNCHANGED <<cur, expected, retired>>
    BY <1>3 DEF SyscallExit
  <2>2. TypeOK'
    BY <1>1, <1>2, <1>3, <2>1 DEF TypeOK
  <2>3. CurFollowsMode' /\ SingleStepBalanced' /\ ProgressBounded'
    BY <1>1, <1>3, <2>1 DEF SyscallExit, CurFollowsMode, SingleStepBalanced,
                            ProgressBounded, Running
  <2>4. Live' = Live /\ ~Running'
    BY <1>1, <1>3, <2>1 DEF Live, Finished, Running
  <2>5. ContextIntegrity' /\ NoThreadLost' /\ HighestPriorityRuns'
    BY <1>1, <2>1, <2>4 DEF ContextIntegrity, NoThreadLost, HighestPriorityRuns
  <2>6. QED
    BY <2>2, <2>3, <2>5
<1>4. CASE mode' = "resumed"
  <2>1. /\ cur \in Live /\ cur \notin Forever
        /\ retired' = [retired EXCEPT ![cur] = Length[cur]]
        /\ cur' = SchedulerThread /\ Live' = Live \ {cur}
    BY <1>4, ExitProps
  <2>2. cur \in Thread /\ cur \in forked /\ Live \subseteq Thread
    BY <2>1 DEF Live, TypeOK
  <2>3. TypeOK'
    <3>1. retired' \in [Thread -> Nat]
      BY <2>1, <2>2, LengthType DEF TypeOK
    <3>2. expected' \in [Thread -> Seq(Ctx)]
      <4>1. CASE Equiv
        BY <1>4, <2>2, <4>1 DEF SyscallExit, TypeOK
      <4>2. CASE ~Equiv
        BY <1>4, <4>2 DEF SyscallExit, TypeOK
      <4>3. QED
        BY <4>1, <4>2
    <3>3. QED
      BY <1>1, <1>2, <1>4, <2>1, <3>1, <3>2 DEF TypeOK
  <2>4. CurFollowsMode' /\ SingleStepBalanced'
    BY <1>1, <1>4, <2>1 DEF SyscallExit, CurFollowsMode, SingleStepBalanced, Running
  <2>5. ProgressBounded'
    BY <1>1, <2>1, <2>2, LengthType DEF ProgressBounded, TypeOK
  <2>6. ~Running' /\ ToSet(runq) = Live \ {cur} /\ cur \notin ToSet(runq)
    BY <1>4 DEF Running, NoThreadLost
  <2>7. ContextIntegrity'
    BY <1>1, <2>1, <2>2, <2>6 DEF ContextIntegrity, TypeOK
  <2>8. NoThreadLost'
    BY <1>1, <2>1, <2>2, <2>6, ThreadAssumption DEF NoThreadLost
  <2>9. HighestPriorityRuns'
    BY <1>1, <2>6 DEF HighestPriorityRuns
  <2>10. QED
    BY <2>3, <2>4, <2>5, <2>7, <2>8, <2>9
<1>5. QED
  BY <1>3, <1>4 DEF SyscallExit

\* Every step keeps the scheduling invariant.
LEMMA SchedNext == SchedInv /\ [Next]_vars => SchedInv'
<1> SUFFICES ASSUME SchedInv, [Next]_vars PROVE SchedInv'
  OBVIOUS
<1>1. ASSUME NEW t \in Thread, NEW e \in {<<>>, Reference(t)}, Fork(t, e)
      PROVE  SchedInv'
  BY <1>1, ForkPreserves
<1>2. ASSUME NEW t \in Thread, Refresh(t) PROVE SchedInv'
  BY <1>2, RefreshPreserves
<1>3. CASE PreRun \/ Reboot \/ SchedulerReturn \/ Resume
  BY <1>3, IdlePreserves
<1>4. CASE Dispatch
  BY <1>4, DispatchPreserves
<1>5. ASSUME NEW t \in Thread, InterruptHandler(t) PROVE SchedInv'
  BY <1>5, InterruptPreserves
<1>6. ASSUME NEW t \in Thread, MismatchFault(t) PROVE SchedInv'
  BY <1>6, FaultPreserves
<1>7. ASSUME NEW t \in Thread, Instruction(t) PROVE SchedInv'
  BY <1>7, AdvancePreserves, UnknownPreserves, ExitPreserves DEF Instruction
<1>8. CASE UNCHANGED vars
  BY <1>8 DEF vars, SchedInv, TypeOK, CurFollowsMode, ProgressBounded,
       ContextIntegrity, NoThreadLost, HighestPriorityRuns, SingleStepBalanced,
       Live, Finished, Running
<1>9. QED
  BY <1>1, <1>2, <1>3, <1>4, <1>5, <1>6, <1>7, <1>8
     DEF Next, Main, Kernel, Stopped

\* The scheduling half of the inductive invariant holds in every reachable state.
THEOREM SchedInvariant == Spec => []SchedInv
<1>1. QED
  BY SchedInit, SchedNext, PTL DEF Spec

\* The values of the variables stay in their types.
THEOREM TypeCorrect == Spec => []TypeOK
<1>1. SchedInv => TypeOK
  BY DEF SchedInv
<1>2. QED
  BY <1>1, SchedInvariant, PTL

\* A preempted thread resumes with its own registers where it left off.
THEOREM ContextIsSaved == Spec => []ContextIntegrity
<1>1. SchedInv => ContextIntegrity
  BY DEF SchedInv
<1>2. QED
  BY <1>1, SchedInvariant, PTL

\* No thread is lost, queued twice, or queued while it runs.
THEOREM ThreadsAreConserved == Spec => []NoThreadLost
<1>1. SchedInv => NoThreadLost
  BY DEF SchedInv
<1>2. QED
  BY <1>1, SchedInvariant, PTL

\* The thread that runs has the highest priority of the live ones.
THEOREM PriorityScheduling == Spec => []HighestPriorityRuns
<1>1. SchedInv => HighestPriorityRuns
  BY DEF SchedInv
<1>2. QED
  BY <1>1, SchedInvariant, PTL

\* The assertions on single_step_on_p never fail.
THEOREM StepFlagBalanced == Spec => []SingleStepBalanced
<1>1. SchedInv => SingleStepBalanced
  BY DEF SchedInv
<1>2. QED
  BY <1>1, SchedInvariant, PTL

-----------------------------------------------------------------------------
(* Round robin. *)

\* The order of two waiting threads survives an insertion ...
LEMMA InsertKeepsOrder ==
  ASSUME NEW q \in Seq(Thread), NEW e \in Thread, NEW k \in 1..Len(q)+1,
         NEW t, NEW u, Before(q, t, u)
  PROVE  Before(InsertAt(q, k, e), t, u)
<1> DEFINE p == InsertAt(q, k, e)
           At2(i) == IF i < k THEN i ELSE i+1
<1>1. /\ Len(q) \in Nat /\ Len(p) = Len(q) + 1
      /\ \A i \in 1..Len(q)+1 : p[i] = IF i < k THEN q[i] ELSE IF i = k THEN e ELSE q[i-1]
  BY InsertAtProps
<1> HIDE DEF p
<1>2. PICK i, j \in 1..Len(q) : i < j /\ q[i] = t /\ q[j] = u
  BY DEF Before
<1>3. ASSUME NEW x \in 1..Len(q)
      PROVE  At2(x) \in 1..Len(p) /\ p[At2(x)] = q[x]
  <2>1. CASE x < k
    BY <1>1, <2>1
  <2>2. CASE ~(x < k)
    <3>1. x+1 \in 1..Len(q)+1 /\ ~(x+1 < k) /\ x+1 # k /\ (x+1)-1 = x
      BY <1>1, <2>2
    <3>2. QED
      BY <1>1, <2>2, <3>1
  <2>3. QED
    BY <2>1, <2>2
<1>4. At2(i) < At2(j)
  BY <1>1, <1>2
<1>5. QED
  BY <1>2, <1>3, <1>4 DEF Before, p

\* ... and the removal of the head, which is neither.
LEMMA TailKeepsOrder ==
  ASSUME NEW q \in Seq(Thread), q # <<>>, IsInjective(q), NEW t, NEW u,
         Before(q, t, u), t \in ToSet(Tail(q))
  PROVE  Before(Tail(q), t, u)
<1>1. /\ Len(q) \in Nat /\ 1 \in 1..Len(q) /\ Head(q) = q[1] /\ Tail(q) \in Seq(Thread)
      /\ Len(Tail(q)) = Len(q)-1
      /\ \A i \in 1..Len(q)-1 : Tail(q)[i] = q[i+1]
  OBVIOUS
<1>2. PICK i, j \in 1..Len(q) : i < j /\ q[i] = t /\ q[j] = u
  BY DEF Before
<1>3. t # Head(q)
  BY TailSet
<1>4. i > 1
  BY <1>1, <1>2, <1>3
<1>5. i-1 \in 1..Len(q)-1 /\ j-1 \in 1..Len(q)-1 /\ i-1 < j-1 /\ (i-1)+1 = i /\ (j-1)+1 = j
  BY <1>1, <1>2, <1>4
<1>6. Tail(q)[i-1] = t /\ Tail(q)[j-1] = u
  BY <1>1, <1>2, <1>5
<1>7. QED
  BY <1>1, <1>5, <1>6 DEF Before

\* eq_insert_with_priority puts its thread behind its equals and its betters.
LEMMA InsertGoesBehind ==
  ASSUME runq \in Seq(Thread), Sorted(runq), NEW e \in Thread, InsertWithPriority(e),
         NEW t \in ToSet(runq), Priority[t] >= Priority[e]
  PROVE  Before(runq', t, e)
<1>1. PICK k \in 1..Len(runq)+1 :
        /\ \A i \in 1..k-1 : Priority[runq[i]] >= Priority[e]
        /\ k <= Len(runq) => Priority[runq[k]] < Priority[e]
        /\ runq' = InsertAt(runq, k, e)
  BY DEF InsertWithPriority
<1>2. /\ Len(runq) \in Nat /\ Len(runq') = Len(runq) + 1
      /\ \A i \in 1..Len(runq)+1 :
           runq'[i] = IF i < k THEN runq[i] ELSE IF i = k THEN e ELSE runq[i-1]
  BY <1>1, InsertAtProps
<1>3. PICK i \in 1..Len(runq) : runq[i] = t
  BY DEF ToSet
<1>4. \A j \in 1..Len(runq) : Priority[runq[j]] \in Nat
  BY PriorityAssumption
<1>5. i < k
  <2> SUFFICES ASSUME k <= i PROVE FALSE
    OBVIOUS
  <2>1. k \in 1..Len(runq) /\ Priority[runq[k]] < Priority[e]
    BY <1>1, <1>2
  <2>2. Priority[runq[k]] >= Priority[runq[i]]
    <3>1. CASE k = i
      BY <1>4, <3>1
    <3>2. CASE k < i
      BY <2>1, <3>2 DEF Sorted, Descending
    <3>3. QED
      BY <3>1, <3>2
  <2>3. Priority[runq[i]] \in Nat /\ Priority[runq[k]] \in Nat /\ Priority[e] \in Nat
    BY <1>4, <2>1, PriorityAssumption
  <2>4. QED
    BY <1>3, <2>1, <2>2, <2>3
<1>6. i \in 1..Len(runq') /\ k \in 1..Len(runq') /\ runq'[i] = t /\ runq'[k] = e
  BY <1>2, <1>3, <1>5
<1>7. QED
  BY <1>5, <1>6 DEF Before

\* eq_insert_with_priority and eq_pop let equal threads take turns: whoever is
\* put back goes behind those that wait, and none of these overtakes another.
THEOREM TurnsAreTaken == Spec => RoundRobin
<1> DEFINE Turn ==
             \A t, u \in Thread :
               /\ t # u
               /\ t \in ToSet(runq) \cap ToSet(runq')
               /\ u \in ToSet(runq')
               /\ IF u \in ToSet(runq) THEN Before(runq, t, u)
                                       ELSE Priority[t] >= Priority[u]
               => Before(runq', t, u)
<1>1. SchedInv /\ [Next]_vars => [Turn]_vars
  <2> SUFFICES ASSUME SchedInv, Next PROVE Turn
    OBVIOUS
  <2>1. runq \in Seq(Thread) /\ Sorted(runq) /\ IsInjective(runq)
    BY DEF SchedInv, TypeOK, HighestPriorityRuns, Sorted, Descending, NoThreadLost
  <2>2. CASE runq' = runq
    BY <2>2
  <2>3. ASSUME NEW e \in Thread, InsertWithPriority(e)
        PROVE  Turn
    <3> SUFFICES ASSUME NEW t \in ToSet(runq), NEW u \in ToSet(runq'),
                        IF u \in ToSet(runq) THEN Before(runq, t, u)
                                             ELSE Priority[t] >= Priority[u]
                 PROVE  Before(runq', t, u)
      OBVIOUS
    <3>1. ToSet(runq') = ToSet(runq) \cup {e}
      BY <2>1, <2>3, InsertProps
    <3>2. CASE u \in ToSet(runq)
      BY <2>1, <2>3, <3>2, InsertKeepsOrder DEF InsertWithPriority
    <3>3. CASE u \notin ToSet(runq)
      <4>1. u = e
        BY <3>1, <3>3
      <4>2. QED
        BY <2>1, <2>3, <3>3, <4>1, InsertGoesBehind
    <3>4. QED
      BY <3>2, <3>3
  <2>4. CASE Dispatch
    <3>1. runq # <<>> /\ runq' = Tail(runq) /\ ToSet(Tail(runq)) \subseteq ToSet(runq)
      BY <2>1, <2>4, TailSet DEF Dispatch
    <3>2. QED
      BY <2>1, <3>1, TailKeepsOrder
  <2>5. CASE Main
    <3>1. CASE PreRun \/ Reboot
      BY <2>2, <3>1 DEF PreRun, Reboot
    <3>2. ASSUME NEW t \in Thread, NEW x, Fork(t, x) \/ Refresh(t)
          PROVE  Turn
      BY <2>3, <3>2 DEF Fork, Refresh
    <3>3. QED
      BY <2>5, <3>1, <3>2 DEF Main
  <2>6. CASE SchedulerReturn \/ Resume \/ Stopped
    BY <2>2, <2>6 DEF SchedulerReturn, Resume, Stopped, vars
  <2>7. ASSUME NEW t \in Thread, MismatchFault(t) \/ Instruction(t)
        PROVE  Turn
    BY <2>2, <2>7 DEF MismatchFault, Instruction, Execute, SyscallPutc, SyscallUnknown, SyscallExit
  <2>8. ASSUME NEW t \in Thread, InterruptHandler(t)
        PROVE  Turn
    <3>1. cur \in Thread
      BY <2>8, RunningProps DEF InterruptHandler
    <3>2. QED
      BY <2>3, <2>8, <3>1 DEF InterruptHandler
  <2>9. QED
    BY <2>4, <2>5, <2>6, <2>7, <2>8 DEF Next, Kernel
<1>2. QED
  BY <1>1, SchedInvariant, PTL DEF Spec, RoundRobin

-----------------------------------------------------------------------------
(* The register hashes: what equiv_hash_handler accumulates, and when the *)
(* exit check of pre_syscall_handler can panic.                           *)

\* Consecutive instructions have different addresses, and none is at 0.
LEMMA AddressProps ==
  ASSUME NEW t \in Thread
  PROVE  /\ \A i \in 1..Length[t] : Code[t][i] \in Nat \ {0}
         /\ \A i \in 1..Length[t] : i > 1 => Code[t][i-1] # Code[t][i]
<1>1. Code[t] \in Seq(Nat \ {0}) /\ Length[t] = Len(Code[t])
  BY CodeAssumption, LengthType
<1>2. \A i \in 1..Length[t] : Code[t][i] \in Nat \ {0}
  BY <1>1
<1>3. ASSUME NEW i \in 1..Length[t], i > 1
      PROVE  Code[t][i-1] # Code[t][i]
  <2>1. i-1 \in 1..Len(Code[t])-1 /\ (i-1)+1 = i
    BY <1>1, <1>3
  <2>2. Code[t][i-1] # Code[t][(i-1)+1]
    BY <2>1, CodeAssumption
  <2>3. QED
    BY <2>1, <2>2
<1>4. QED
  BY <1>2, <1>3

\* One more hashed register file: the next instruction, or the same again.
LEMMA AppendCovers ==
  ASSUME NEW t \in Thread, NEW r \in Nat, NEW h \in Seq(Ctx), Covers(h, t, r),
         NEW c \in Ctx, c = [th |-> t, pc |-> r + 1]
  PROVE  /\ Covers(Append(h, c), t, r)
         /\ Append(h, c) # <<>>
         /\ Append(h, c)[Len(Append(h, c))] = c
<1> DEFINE g == Append(h, c)
           n == Len(h)
<1>1. /\ n \in Nat /\ g \in Seq(Ctx) /\ Len(g) = n + 1 /\ g[n+1] = c /\ g # <<>>
      /\ \A i \in 1..n : g[i] = h[i]
  OBVIOUS
<1>2. g[1] = InitialRegs(t)
  <2>1. CASE h = <<>>
    BY <2>1, <1>1 DEF Covers, InitialRegs
  <2>2. CASE h # <<>>
    <3>1. 1 \in 1..n
      BY <2>2, <1>1
    <3>2. QED
      BY <2>2, <3>1, <1>1 DEF Covers
  <2>3. QED
    BY <2>1, <2>2
<1>3. ASSUME NEW i \in 1..Len(g)-1
      PROVE  g[i+1] \in {g[i], [th |-> t, pc |-> g[i].pc + 1]}
  <2>1. i \in 1..n /\ h # <<>>
    BY <1>1
  <2>2. CASE i < n
    <3>1. i \in 1..n-1 /\ i+1 \in 1..n
      BY <2>1, <2>2, <1>1
    <3>2. h[i+1] \in {h[i], [th |-> t, pc |-> h[i].pc + 1]}
      BY <3>1 DEF Covers
    <3>3. QED
      BY <3>1, <3>2, <2>1, <1>1
  <2>3. CASE i = n
    <3>1. g[i] = h[n] /\ g[i+1] = c
      BY <2>1, <2>3, <1>1
    <3>2. h[n] = [th |-> t, pc |-> r] \/ h[n] = [th |-> t, pc |-> r + 1]
      BY <2>1 DEF Covers
    <3>3. QED
      BY <3>1, <3>2
  <2>4. QED
    BY <2>1, <2>2, <2>3, <1>1
<1> HIDE DEF g
<1>4. Covers(g, t, r)
  BY <1>1, <1>2, <1>3 DEF Covers
<1>5. QED
  BY <1>1, <1>4 DEF g

\* An instruction that single-step mode lets through was hashed just before.
LEMMA HashedBefore ==
  ASSUME SchedInv, HashInv, Running, Equiv, ~Mismatch, cur \notin Forever,
         cpu.th \in Thread
  PROVE  hash[cur] # <<>> /\ hash[cur][Len(hash[cur])] = cpu
<1> DEFINE h == hash[cur]
           r == retired[cur]
           last == h[Len(h)]
<1>1. /\ cur \in Thread /\ cur \in forked /\ cpu = [th |-> cur, pc |-> r + 1]
      /\ r \in Nat /\ r < Length[cur] /\ Length[cur] \in Nat
  BY RunningProps, LengthType DEF Live, SchedInv, TypeOK
<1>2. AddrOf(cpu) = bvr
  BY DEF Mismatch, SchedInv, SingleStepBalanced, Running
<1>3. AddrOf(cpu) = Code[cur][r+1] /\ r+1 \in 1..Length[cur]
  BY <1>1 DEF AddrOf
<1>4. bvr # 0
  BY <1>1, <1>2, <1>3, AddressProps
<1>5. h # <<>> /\ bvr = AddrOf(last)
  BY <1>4 DEF HashInv, BreakpointAtLastTrap
<1>6. \/ last = [th |-> cur, pc |-> r] /\ r > 0
     \/ last = [th |-> cur, pc |-> r + 1]
  BY <1>1, <1>5 DEF HashInv, HashCoversExecution, Covers
<1>7. ASSUME last = [th |-> cur, pc |-> r], r > 0
      PROVE  FALSE
  <2>1. AddrOf(last) = Code[cur][r]
    BY <1>7 DEF AddrOf
  <2>2. Code[cur][(r+1)-1] # Code[cur][r+1]
    BY <1>1, <1>3, <1>7, AddressProps
  <2>3. (r+1)-1 = r
    BY <1>1
  <2>4. Code[cur][r] # Code[cur][r+1]
    BY <2>2, <2>3
  <2>5. QED
    BY <2>1, <2>4, <1>2, <1>3, <1>5
<1>8. QED
  BY <1>1, <1>5, <1>6, <1>7

\* A hash that covers all of an activation and repeats nothing is the
\* reference one.
LEMMA WholeHash ==
  ASSUME NEW t \in Thread, NEW h \in Seq(Ctx), h # <<>>, ~Repeats(h),
         h[Len(h)] = [th |-> t, pc |-> Length[t]],
         \A i \in 1..Len(h) : h[i] = [th |-> t, pc |-> i]
  PROVE  h = Reference(t)
<1>1. Len(h) = Length[t]
  <2>1. Len(h) \in 1..Len(h)
    OBVIOUS
  <2>2. h[Len(h)] = [th |-> t, pc |-> Len(h)]
    BY <2>1
  <2>3. QED
    BY <2>2
<1>2. /\ Reference(t) \in Seq(Ctx) /\ Len(Reference(t)) = Length[t]
      /\ \A i \in 1..Length[t] : Reference(t)[i] = [th |-> t, pc |-> i]
  BY ReferenceType, LengthType DEF Reference
<1>3. \A i \in 1..Len(h) : h[i] = Reference(t)[i]
  BY <1>1, <1>2
<1>4. QED
  BY <1>1, <1>2, <1>3, SeqEqual

\* Hashing once more leaves a repetition where it was.
LEMMA RepeatsAppend ==
  ASSUME NEW h \in Seq(Ctx), NEW c \in Ctx, Repeats(h)
  PROVE  Repeats(Append(h, c))
<1>1. PICK i \in 1..Len(h)-1 : h[i] = h[i+1]
  BY DEF Repeats
<1>2. /\ i \in 1..Len(Append(h, c))-1
      /\ Append(h, c)[i] = h[i] /\ Append(h, c)[i+1] = h[i+1]
  BY <1>1
<1>3. QED
  BY <1>1, <1>2 DEF Repeats

\* Nothing is hashed at the start.
LEMMA HashInit == Init => HashInv
<1> SUFFICES ASSUME Init PROVE HashInv
  OBVIOUS
<1>1. \A t \in Thread : hash[t] = <<>> /\ Len(hash[t]) = 0 /\ expected[t] = <<>>
  BY EmptySeq DEF Init
<1>2. HashExact
  BY <1>1 DEF HashExact
<1>3. QED
  BY <1>2 DEF Init, HashInv, BreakpointAtLastTrap, HashCoversExecution,
              MismatchOnlyAfterRetrap, Running

\* Steps of the main program that start a thread with an empty hash.
LEMMA StartHash ==
  ASSUME SchedInv, HashInv, NEW t \in Thread,
         \/ \E e \in {<<>>, Reference(t)} : Fork(t, e)
         \/ Refresh(t)
  PROVE  HashInv'
<1> USE DEF HashInv, SchedInv
<1>1. hash'[t] = <<>> /\ retired'[t] = 0 /\ forked' \subseteq forked \cup {t}
  BY DEF Fork, Refresh, ProgressBounded, TypeOK
<1>2. /\ \A u \in Thread \ {t} : hash'[u] = hash[u] /\ retired'[u] = retired[u]
                                 /\ expected'[u] = expected[u]
      /\ expected'[t] \in {<<>>, Reference(t), expected[t]}
  BY DEF Fork, Refresh, TypeOK
<1>3. mode' = "main"
  BY DEF Fork, Refresh
<1>4. Len(<<>>) = 0
  OBVIOUS
<1>5. HashCoversExecution'
  <2>1. Covers(<<>>, t, 0)
    BY <1>4 DEF Covers
  <2>2. QED
    BY <1>1, <1>2, <2>1 DEF HashCoversExecution, TypeOK
<1>6. HashExact'
  <2> SUFFICES ASSUME NEW u \in Thread \ Forever
               PROVE  /\ Repeats(hash'[u]) \/ \A i \in 1..Len(hash'[u]) :
                           hash'[u][i] = [th |-> u, pc |-> i]
                      /\ expected'[u] \in {<<>>, Reference(u)} \/ Repeats(expected'[u])
    BY DEF HashExact
  <2>1. CASE u = t
    BY <2>1, <1>1, <1>2, <1>4 DEF HashExact
  <2>2. CASE u # t
    BY <2>2, <1>2 DEF HashExact
  <2>3. QED
    BY <2>1, <2>2
<1>7. BreakpointAtLastTrap' /\ MismatchOnlyAfterRetrap'
  BY <1>3 DEF BreakpointAtLastTrap, MismatchOnlyAfterRetrap, Running
<1>8. QED
  BY <1>5, <1>6, <1>7

\* Steps that hash nothing and execute nothing.
LEMMA QuietHash ==
  ASSUME SchedInv, HashInv,
         \/ PreRun \/ Reboot \/ SchedulerReturn \/ Resume \/ Dispatch
         \/ \E t \in Thread : InterruptHandler(t) \/ SyscallUnknown(t)
  PROVE  HashInv'
<1> USE DEF HashInv
<1>1. UNCHANGED <<forked, hash, expected, retired>>
  BY DEF PreRun, Reboot, SchedulerReturn, Resume, Dispatch, InterruptHandler, SyscallUnknown
<1>2. mode' # "panic_mismatch" /\ (mode' = "user" => ~Equiv \/ bvr' = 0)
  BY DEF PreRun, Reboot, SchedulerReturn, Resume, Dispatch, MismatchOn,
         InterruptHandler, SyscallUnknown
<1>3. QED
  BY <1>1, <1>2 DEF HashCoversExecution, HashExact, BreakpointAtLastTrap,
                    MismatchOnlyAfterRetrap, Running

\* A trap hashes the instruction that runs next.
LEMMA FaultHash ==
  ASSUME SchedInv, HashInv, NEW t \in Thread, MismatchFault(t)
  PROVE  HashInv'
<1> USE DEF HashInv
<1> DEFINE h == hash[cur]
           r == retired[cur]
           g == Append(h, cpu)
<1>1. /\ cur \in Thread /\ cur \in forked /\ cpu = [th |-> cur, pc |-> r + 1]
      /\ cpu \in Ctx /\ h \in Seq(Ctx) /\ r \in Nat /\ Equiv
  BY RunningProps DEF MismatchFault, Mismatch, Live, SchedInv, TypeOK,
                      SingleStepBalanced, Running
<1>2. hash' = [hash EXCEPT ![cur] = g] /\ hash'[cur] = g
  BY <1>1 DEF MismatchFault, SchedInv, TypeOK
<1>3. /\ UNCHANGED <<forked, cur, mode, expected, retired>>
      /\ bvr' = AddrOf(cpu)
  BY DEF MismatchFault
<1>4. g # <<>> /\ g[Len(g)] = cpu /\ Len(g) = Len(h) + 1 /\ Len(h) \in Nat
  BY <1>1
<1>5. \A u \in Thread \ {cur} : hash'[u] = hash[u]
  BY <1>1, <1>2 DEF SchedInv, TypeOK
<1>6. HashCoversExecution'
  <2>1. cur \notin Forever => Covers(g, cur, r)
    BY <1>1, AppendCovers DEF HashCoversExecution
  <2>2. \A u \in forked : u \in Thread
    BY DEF SchedInv, TypeOK
  <2> HIDE DEF g
  <2>3. QED
    BY <1>2, <1>3, <1>5, <2>1, <2>2 DEF HashCoversExecution
<1>7. BreakpointAtLastTrap'
  <2> HIDE DEF g
  <2>1. QED
    BY <1>2, <1>3, <1>4 DEF BreakpointAtLastTrap, AddrOf
<1>8. HashExact'
  <2>1. ASSUME cur \notin Forever
        PROVE  Repeats(g) \/ \A i \in 1..Len(g) : g[i] = [th |-> cur, pc |-> i]
    <3>1. CASE Repeats(h)
      BY <3>1, <1>1, RepeatsAppend
    <3>2. CASE \A i \in 1..Len(h) : h[i] = [th |-> cur, pc |-> i]
      <4>1. CASE h = <<>>
        <5>1. r = 0
          BY <4>1, <2>1, <1>1 DEF HashCoversExecution, Covers
        <5>2. QED
          BY <4>1, <5>1, <1>1
      <4>2. CASE h # <<>>
        <5>1. Len(h) \in Nat \ {0} /\ h[Len(h)] = [th |-> cur, pc |-> Len(h)]
          BY <4>2, <3>2, <1>1
        <5>2. h[Len(h)] = [th |-> cur, pc |-> r] \/ h[Len(h)] = [th |-> cur, pc |-> r + 1]
          BY <4>2, <2>1, <1>1 DEF HashCoversExecution, Covers
        <5>3. CASE Len(h) = r
          BY <5>1, <5>3, <3>2, <1>1
        <5>4. CASE Len(h) = r + 1
          <6>1. h[Len(h)] = cpu
            BY <5>1, <5>4, <1>1
          <6>2. Len(h) \in 1..Len(g)-1 /\ g[Len(h)] = g[Len(h)+1]
            BY <6>1, <5>1, <1>1, <1>4
          <6>3. QED
            BY <6>2 DEF Repeats
        <5>5. QED
          BY <5>1, <5>2, <5>3, <5>4
      <4>3. QED
        BY <4>1, <4>2
    <3>3. QED
      BY <3>1, <3>2, <2>1, <1>1 DEF HashExact
  <2> HIDE DEF g
  <2>2. SUFFICES ASSUME NEW u \in Thread \ Forever
                 PROVE  Repeats(hash'[u]) \/ \A i \in 1..Len(hash'[u]) :
                          hash'[u][i] = [th |-> u, pc |-> i]
    BY <1>3 DEF HashExact
  <2>3. CASE u = cur
    BY <2>1, <2>3, <1>2
  <2>4. CASE u # cur
    BY <2>4, <1>5 DEF HashExact
  <2>5. QED
    BY <2>3, <2>4
<1>9. MismatchOnlyAfterRetrap'
  BY <1>3 DEF MismatchOnlyAfterRetrap, MismatchFault, Running
<1>10. QED
  BY <1>6, <1>7, <1>8, <1>9

\* An instruction that was let through is the last one hashed, so executing
\* it leaves the hash covering what has been executed.
LEMMA AdvanceHash ==
  ASSUME SchedInv, HashInv, NEW t \in Thread, Execute(t) \/ SyscallPutc(t)
  PROVE  HashInv'
<1> USE DEF HashInv
<1>1. /\ t = cur /\ cur \in Live /\ Retire(cur)
      /\ UNCHANGED <<forked, cur, mode, ss, bvr, hash, expected>>
      /\ Running /\ ~Mismatch
  BY RunningProps DEF Execute, SyscallPutc
<1>2. HashExact' /\ MismatchOnlyAfterRetrap' /\ BreakpointAtLastTrap'
  BY <1>1 DEF HashExact, MismatchOnlyAfterRetrap, BreakpointAtLastTrap, Running, AddrOf
<1>3. HashCoversExecution'
  <2> SUFFICES ASSUME Equiv, NEW u \in forked \ Forever
               PROVE  Covers(hash[u], u, retired'[u])
    BY <1>1 DEF HashCoversExecution
  <2>1. u \in Thread /\ Covers(hash[u], u, retired[u])
    BY DEF HashCoversExecution, SchedInv, TypeOK
  <2>2. CASE u # cur
    BY <2>1, <2>2, <1>1 DEF Retire, SchedInv, TypeOK
  <2>3. CASE u = cur
    <3>1. cpu.th \in Thread /\ cpu = [th |-> cur, pc |-> retired[cur] + 1]
      BY <1>1, RunningProps DEF Execute, SyscallPutc
    <3>2. hash[u] # <<>> /\ hash[u][Len(hash[u])] = [th |-> u, pc |-> retired[u] + 1]
      BY <1>1, <2>3, <3>1, HashedBefore DEF HashInv
    <3>3. retired'[u] = retired[u] + 1 /\ retired[u] \in Nat
      BY <1>1, <2>1, <2>3 DEF Retire, SchedInv, TypeOK
    <3>4. retired'[u] > 0
      BY <3>3
    <3>5. QED
      BY <2>1, <3>2, <3>3, <3>4 DEF Covers
  <2>4. QED
    BY <2>2, <2>3
<1>4. QED
  BY <1>2, <1>3

\* A thread that exits has hashed its whole activation: the hash recorded is
\* the reference one unless an instruction was hashed twice.
LEMMA ExitHash ==
  ASSUME SchedInv, HashInv, NEW t \in Thread, SyscallExit(t)
  PROVE  HashInv'
<1> USE DEF HashInv
<1>1. /\ t = cur /\ cur \in Live /\ cur \in Thread /\ cur \in forked
      /\ cpu = [th |-> cur, pc |-> retired[cur] + 1]
      /\ retired[cur] \in Nat /\ cpu.th \in Thread
      /\ UNCHANGED <<forked, bvr, hash>>
      /\ Running /\ ~Mismatch /\ AtExit
  BY RunningProps DEF SyscallExit, Live
<1>2. cur \notin Forever /\ cpu.pc = Length[cur]
  BY <1>1 DEF AtExit
<1>3. Equiv => hash[cur] = Reference(cur) \/ Repeats(hash[cur])
  <2> SUFFICES ASSUME Equiv, ~Repeats(hash[cur])
               PROVE  hash[cur] = Reference(cur)
    OBVIOUS
  <2>1. hash[cur] # <<>> /\ hash[cur][Len(hash[cur])] = cpu
    BY <1>1, <1>2, HashedBefore DEF HashInv
  <2>2. cpu = [th |-> cur, pc |-> Length[cur]]
    BY <1>1, <1>2
  <2>3. \A i \in 1..Len(hash[cur]) : hash[cur][i] = [th |-> cur, pc |-> i]
    BY <1>1, <1>2 DEF HashExact
  <2>4. hash[cur] \in Seq(Ctx)
    BY <1>1 DEF SchedInv, TypeOK
  <2>5. QED
    BY <1>1, <2>1, <2>2, <2>3, <2>4, WholeHash
<1>4. CASE mode' = "panic_mismatch"
  <2>1. UNCHANGED <<cur, expected, retired>>
    BY <1>4 DEF SyscallExit
  <2>2. Equiv /\ expected[cur] # <<>> /\ expected[cur] # hash[cur]
    BY <1>4 DEF SyscallExit
  <2>3. expected[cur] \in {<<>>, Reference(cur)} \/ Repeats(expected[cur])
    BY <1>1, <1>2 DEF HashExact
  <2>4. MismatchOnlyAfterRetrap'
    BY <1>1, <1>3, <2>1, <2>2, <2>3 DEF MismatchOnlyAfterRetrap
  <2>5. HashExact' /\ HashCoversExecution' /\ BreakpointAtLastTrap'
    BY <1>1, <1>4, <2>1 DEF HashExact, HashCoversExecution, BreakpointAtLastTrap, Running
  <2>6. QED
    BY <2>4, <2>5
<1>5. CASE mode' = "resumed"
  <2>1. retired' = [retired EXCEPT ![cur] = Length[cur]] /\ retired[cur] + 1 = Length[cur]
    BY <1>5, ExitProps
  <2>2. expected' = IF Equiv THEN [expected EXCEPT ![cur] = hash[cur]] ELSE expected
    BY <1>5 DEF SyscallExit
  <2>3. MismatchOnlyAfterRetrap' /\ BreakpointAtLastTrap'
    BY <1>5 DEF MismatchOnlyAfterRetrap, BreakpointAtLastTrap, Running
  <2>4. HashExact'
    <3> SUFFICES ASSUME NEW u \in Thread \ Forever
                 PROVE  expected'[u] \in {<<>>, Reference(u)} \/ Repeats(expected'[u])
      BY <1>1 DEF HashExact
    <3>1. CASE Equiv /\ u = cur
      BY <1>1, <1>3, <2>2, <3>1 DEF SchedInv, TypeOK
    <3>2. CASE ~(Equiv /\ u = cur)
      BY <2>2, <3>2 DEF HashExact, SchedInv, TypeOK
    <3>3. QED
      BY <3>1, <3>2
  <2>5. HashCoversExecution'
    <3> SUFFICES ASSUME Equiv, NEW u \in forked \ Forever
                 PROVE  Covers(hash[u], u, retired'[u])
      BY <1>1 DEF HashCoversExecution
    <3>1. u \in Thread /\ Covers(hash[u], u, retired[u])
      BY DEF HashCoversExecution, SchedInv, TypeOK
    <3>2. CASE u # cur
      BY <2>1, <3>1, <3>2 DEF SchedInv, TypeOK
    <3>3. CASE u = cur
      <4>1. hash[u] # <<>> /\ hash[u][Len(hash[u])] = [th |-> u, pc |-> retired[u] + 1]
        BY <1>1, <1>2, <3>3, HashedBefore DEF HashInv
      <4>2. retired'[u] = retired[u] + 1 /\ retired[u] \in Nat
        BY <1>1, <2>1, <3>3 DEF SchedInv, TypeOK
      <4>3. retired'[u] > 0
        BY <4>2
      <4>4. QED
        BY <3>1, <4>1, <4>2, <4>3 DEF Covers
    <3>4. QED
      BY <3>2, <3>3
  <2>6. QED
    BY <2>3, <2>4, <2>5
<1>6. QED
  BY <1>4, <1>5 DEF SyscallExit

\* Every step keeps the hashing invariant.
LEMMA HashNext == SchedInv /\ HashInv /\ [Next]_vars => HashInv'
<1> SUFFICES ASSUME SchedInv, HashInv, [Next]_vars PROVE HashInv'
  OBVIOUS
<1>1. ASSUME NEW t \in Thread, NEW e \in {<<>>, Reference(t)}, Fork(t, e)
      PROVE  HashInv'
  BY <1>1, StartHash
<1>2. ASSUME NEW t \in Thread, Refresh(t) PROVE HashInv'
  BY <1>2, StartHash
<1>3. CASE PreRun \/ Reboot \/ SchedulerReturn \/ Resume \/ Dispatch
  BY <1>3, QuietHash
<1>4. ASSUME NEW t \in Thread, InterruptHandler(t) \/ SyscallUnknown(t) PROVE HashInv'
  BY <1>4, QuietHash
<1>5. ASSUME NEW t \in Thread, MismatchFault(t) PROVE HashInv'
  BY <1>5, FaultHash
<1>6. ASSUME NEW t \in Thread, Execute(t) \/ SyscallPutc(t) PROVE HashInv'
  BY <1>6, AdvanceHash
<1>7. ASSUME NEW t \in Thread, SyscallExit(t) PROVE HashInv'
  BY <1>7, ExitHash
<1>8. CASE UNCHANGED vars
  BY <1>8 DEF vars, HashInv, BreakpointAtLastTrap, HashCoversExecution, HashExact,
              MismatchOnlyAfterRetrap, Running, AddrOf
<1>9. QED
  BY <1>1, <1>2, <1>3, <1>4, <1>5, <1>6, <1>7, <1>8
     DEF Next, Main, Kernel, Stopped, Instruction

\* The whole inductive invariant holds in every reachable state.
THEOREM InductiveInvariant == Spec => []IInv
<1>1. Init => IInv
  BY SchedInit, HashInit DEF IInv
<1>2. IInv /\ [Next]_vars => IInv'
  BY SchedNext, HashNext DEF IInv
<1>3. QED
  BY <1>1, <1>2, PTL DEF Spec

\* Single-stepping hashes every instruction of a thread, in order, however
\* it is preempted (equiv_hash_handler, mismatch_fault).
THEOREM HashesEveryInstruction == Spec => []HashCoversExecution
<1>1. IInv => HashCoversExecution
  BY DEF IInv, HashInv
<1>2. QED
  BY <1>1, InductiveInvariant, PTL

\* The exit check panics only after a preemption between a trap and its
\* instruction (pre_syscall_handler).
THEOREM MismatchNeedsRetrap == Spec => []MismatchOnlyAfterRetrap
<1>1. IInv => MismatchOnlyAfterRetrap
  BY DEF IInv, HashInv
<1>2. QED
  BY <1>1, InductiveInvariant, PTL

-----------------------------------------------------------------------------
(* The scheduler implements the pool of ThreadPool: each of its steps is a *)
(* step of the pool or changes nothing the pool sees.                      *)

Mapped == <<Live, retired, mode \in {"loop", "resumed", "user", "panic_mismatch",
                                     "panic_syscall"}>>

\* The initial state maps to the initial state of the pool.
LEMMA PoolInitially == Init => Pool!PoolInit
BY DEF Init, Pool!PoolInit, Live

\* pre_fork and equiv_refresh start a thread.
LEMMA StartsThread ==
  ASSUME SchedInv, NEW t \in Thread,
         \/ \E e \in {<<>>, Reference(t)} : Fork(t, e)
         \/ Refresh(t)
  PROVE  Pool!Start(t)
<1> USE DEF SchedInv
<1>1. mode = "main" /\ mode' = "main" /\ forked \subseteq Thread
  BY DEF Fork, Refresh, TypeOK
<1>2. t \notin Live
  BY DEF Fork, Refresh, Live
<1>3. retired' = [retired EXCEPT ![t] = 0]
  <2>1. t \notin forked => retired[t] = 0
    BY DEF ProgressBounded
  <2>2. QED
    BY <2>1 DEF Fork, Refresh, TypeOK
<1>4. retired'[t] = 0 /\ Length[t] # 0 /\ t \in forked'
      /\ forked' = forked \cup {t}
  BY <1>3, LengthType DEF Fork, Refresh, TypeOK
<1>5. \A u \in Thread \ {t} : retired'[u] = retired[u]
  BY <1>3 DEF TypeOK
<1>6. Live' = Live \cup {t}
  BY <1>1, <1>4, <1>5 DEF Live, Finished
<1>7. QED
  BY <1>1, <1>2, <1>3, <1>6 DEF Pool!Start

\* pre_run and the scheduler's return open and close the pool.
LEMMA OpensAndCloses ==
  ASSUME SchedInv, PreRun \/ SchedulerReturn
  PROVE  Pool!Open \/ Pool!Close \/ UNCHANGED Mapped
<1> USE DEF SchedInv
<1>1. Live' = Live /\ retired' = retired
  BY DEF PreRun, SchedulerReturn, Live, Finished
<1>2. CASE PreRun /\ runq = <<>>
  BY <1>1, <1>2 DEF PreRun, Mapped
<1>3. CASE PreRun /\ runq # <<>>
  <2>1. runq[1] \in ToSet(runq)
    <3>1. 1 \in DOMAIN runq
      BY <1>3 DEF TypeOK
    <3>2. QED
      BY <3>1 DEF ToSet
  <2>2. Live # {}
    BY <2>1 DEF NoThreadLost
  <2>3. QED
    BY <1>1, <1>3, <2>2 DEF PreRun, Pool!Open
<1>4. CASE SchedulerReturn
  <2>1. ToSet(runq) = {}
    BY <1>4 DEF SchedulerReturn, ToSet
  <2>2. cur = SchedulerThread /\ SchedulerThread \notin Live
    BY <1>4, ThreadAssumption DEF SchedulerReturn, CurFollowsMode, Live, TypeOK
  <2>3. Live = {}
    BY <2>1, <2>2 DEF NoThreadLost
  <2>4. QED
    BY <1>1, <1>4, <2>3 DEF SchedulerReturn, Pool!Close
<1>5. QED
  BY <1>2, <1>3, <1>4

\* Switching, preempting and hashing are invisible to the pool.
LEMMA Invisible ==
  ASSUME SchedInv,
         \/ Reboot \/ Dispatch \/ Resume
         \/ \E t \in Thread : InterruptHandler(t) \/ MismatchFault(t) \/ SyscallUnknown(t)
  PROVE  UNCHANGED Mapped
<1>1. Live' = Live /\ retired' = retired
  BY DEF Reboot, Dispatch, Resume, InterruptHandler, MismatchFault, SyscallUnknown,
         Live, Finished
<1>2. CASE Reboot
  BY <1>1, <1>2 DEF Reboot, Mapped
<1>3. CASE ~Reboot
  <2>1. /\ mode \in {"loop", "resumed", "user", "panic_mismatch", "panic_syscall"}
        /\ mode' \in {"loop", "resumed", "user", "panic_mismatch", "panic_syscall"}
    BY <1>3 DEF Dispatch, Resume, InterruptHandler, MismatchFault, SyscallUnknown, Running
  <2>2. QED
    BY <1>1, <2>1 DEF Mapped
<1>4. QED
  BY <1>2, <1>3

\* An instruction advances a thread no live one outranks.
LEMMA Advances ==
  ASSUME SchedInv, NEW t \in Thread, Execute(t) \/ SyscallPutc(t)
  PROVE  Pool!Advance(t)
<1> USE DEF SchedInv
<1>1. /\ t = cur /\ cur \in Live /\ Running /\ mode' = mode /\ Retire(t)
      /\ ~AtExit /\ forked' = forked
      /\ cpu = [th |-> cur, pc |-> retired[cur] + 1]
      /\ retired[t] \in Nat /\ retired[t] < Length[t] /\ Length[t] \in Nat
  BY RunningProps, LengthType DEF Execute, SyscallPutc
<1>2. \A u \in Live : Priority[u] <= Priority[t]
  BY <1>1 DEF HighestPriorityRuns
<1>3. mode \in {"loop", "resumed", "user", "panic_mismatch", "panic_syscall"}
      /\ mode' \in {"loop", "resumed", "user", "panic_mismatch", "panic_syscall"}
  BY <1>1 DEF Running
<1>4. retired[t] + 1 < Length[t] \/ t \in Forever
  BY <1>1 DEF AtExit
<1>5. Live' = Live
  <2>1. /\ retired'[t] < Length[t] /\ t \in Thread
        /\ \A u \in Thread \ {t} : retired'[u] = retired[u]
    BY <1>1, AdvanceProps
  <2>2. Length[t] # retired[t] /\ Length[t] # retired'[t]
    <3>1. retired'[t] \in Nat
      BY <1>1, AdvanceProps
    <3>2. QED
      BY <1>1, <2>1, <3>1
  <2>3. QED
    BY <1>1, <2>1, <2>2 DEF Live, Finished, TypeOK
<1>6. CASE retired[t] + 1 < Length[t]
  <2>1. retired' = [retired EXCEPT ![t] = @ + 1]
    <3>1. retired[t] + 1 # Length[t]
      BY <1>1, <1>6
    <3>2. QED
      BY <1>1, <3>1 DEF Retire
  <2>2. QED
    BY <1>1, <1>2, <1>3, <1>5, <1>6, <2>1 DEF Pool!Advance
<1>7. CASE ~(retired[t] + 1 < Length[t])
  <2>1. retired[t] + 1 = Length[t] /\ t \in Forever
    BY <1>1, <1>4, <1>7
  <2>2. retired' = [retired EXCEPT ![t] = 0]
    BY <1>1, <2>1 DEF Retire, TypeOK
  <2>3. QED
    BY <1>1, <1>2, <1>3, <1>5, <1>7, <2>1, <2>2 DEF Pool!Advance
<1>8. QED
  BY <1>6, <1>7

\* An exit advances a thread past its last instruction, unless it panics.
LEMMA Exits ==
  ASSUME SchedInv, NEW t \in Thread, SyscallExit(t)
  PROVE  Pool!Advance(t) \/ UNCHANGED Mapped
<1> USE DEF SchedInv
<1>1. CASE mode' = "panic_mismatch"
  <2>1. Live' = Live /\ retired' = retired /\ Running
    BY <1>1 DEF SyscallExit, Live, Finished
  <2>2. QED
    BY <1>1, <2>1 DEF Mapped, Running
<1>2. CASE mode' = "resumed"
  <2>1. /\ t = cur /\ cur \in Live /\ cur \notin Forever /\ Running
        /\ retired[t] + 1 = Length[t] /\ Length[t] \in Nat
        /\ retired' = [retired EXCEPT ![t] = Length[t]] /\ Live' = Live \ {t}
    BY <1>2, ExitProps, LengthType DEF SyscallExit
  <2>2. \A u \in Live : Priority[u] <= Priority[t]
    BY <2>1 DEF HighestPriorityRuns
  <2>3. retired' = [retired EXCEPT ![t] = @ + 1]
    BY <2>1
  <2>4. ~(retired[t] + 1 < Length[t])
    BY <2>1
  <2>5. /\ mode \in {"loop", "resumed", "user", "panic_mismatch", "panic_syscall"}
        /\ mode' \in {"loop", "resumed", "user", "panic_mismatch", "panic_syscall"}
    BY <1>2, <2>1 DEF Running
  <2>6. QED
    BY <2>1, <2>2, <2>3, <2>4, <2>5 DEF Pool!Advance
<1>3. mode' \in {"panic_mismatch", "resumed"}
  BY DEF SyscallExit
<1>4. QED
  BY <1>1, <1>2, <1>3

\* Every step of the library is a step of the pool or a stutter.
LEMMA PoolStep == SchedInv /\ [Next]_vars => [Pool!PoolNext]_(Pool!poolVars)
<1> SUFFICES ASSUME SchedInv, [Next]_vars
             PROVE  Pool!PoolNext \/ UNCHANGED Mapped
  BY DEF Mapped, Pool!poolVars
<1>1. ASSUME NEW t \in Thread, \/ \E e \in {<<>>, Reference(t)} : Fork(t, e)
                               \/ Refresh(t)
      PROVE  Pool!PoolNext
  BY <1>1, StartsThread DEF Pool!PoolNext
<1>2. CASE PreRun \/ SchedulerReturn
  BY <1>2, OpensAndCloses DEF Pool!PoolNext
<1>3. CASE \/ Reboot \/ Dispatch \/ Resume
           \/ \E t \in Thread : InterruptHandler(t) \/ MismatchFault(t) \/ SyscallUnknown(t)
  BY <1>3, Invisible
<1>4. ASSUME NEW t \in Thread, Execute(t) \/ SyscallPutc(t)
      PROVE  Pool!PoolNext
  BY <1>4, Advances DEF Pool!PoolNext
<1>5. ASSUME NEW t \in Thread, SyscallExit(t)
      PROVE  Pool!PoolNext \/ UNCHANGED Mapped
  BY <1>5, Exits DEF Pool!PoolNext
<1>6. CASE UNCHANGED vars
  BY <1>6 DEF vars, Mapped, Live, Finished
<1>7. QED
  BY <1>1, <1>2, <1>3, <1>4, <1>5, <1>6
     DEF Next, Main, Kernel, Stopped, Instruction

\* The preemptive scheduler implements the pool: while pre_run runs, only
\* unfinished threads no other outranks make progress, one instruction at a
\* time, and it returns when none is left (pre_run, scheduler,
\* interrupt_handler, pre_syscall_handler).
THEOREM PoolRefinement == Spec => ImplementsPool
<1>1. QED
  BY PoolInitially, PoolStep, SchedInvariant, PTL DEF Spec, ImplementsPool, Pool!PoolSpec

-----------------------------------------------------------------------------
(* The library as a client of the queue. *)

\* The thread library keeps no record of its operations on the queue.
RunQueue == INSTANCE PriorityQueue
              WITH Elem <- Thread, queue <- runq, last <- <<>>

\* The library uses its run queue as a caller of queue-ext-T.h has to: every
\* step that changes it takes the first thread, or inserts one by its priority
\* that is not still linked into the queue, which EqQueue assumes of its
\* callers (Fresh).  An interrupt therefore may put back cur_thread without
\* looking, and only the scheduler takes a thread, which is the next to run.
THEOREM QueueUsedRightly ==
  Spec => /\ RunQueue!QueueInit
          /\ [][\E e \in Thread : \/ RunQueue!TakeFirst(e) /\ cur' = e
                                 \/ RunQueue!AddByPriority(e)]_runq
<1> DEFINE Use == \E e \in Thread : \/ RunQueue!TakeFirst(e) /\ cur' = e
                                   \/ RunQueue!AddByPriority(e)
<1>1. Init => RunQueue!QueueInit
  BY DEF Init, RunQueue!QueueInit
<1>2. SchedInv /\ [Next]_vars => [Use]_runq
  <2> SUFFICES ASSUME SchedInv, Next, runq' # runq PROVE Use
    BY DEF vars
  <2>1. ToSet(runq) = Live \ {cur}
    BY DEF SchedInv, NoThreadLost
  <2>2. ASSUME NEW e \in Thread, e \notin Live \/ e = cur, InsertWithPriority(e)
        PROVE  Use
    <3>1. e \notin ToSet(runq)
      BY <2>1, <2>2
    <3>2. RunQueue!AddByPriority(e)
      BY <2>2, <3>1 DEF InsertWithPriority, InsertAt, ToSet,
                        RunQueue!AddByPriority, RunQueue!InsertAt, RunQueue!ToSet
    <3> QED
      BY <3>2
  <2>3. ASSUME Dispatch PROVE Use
    <3>1. runq # <<>> /\ runq' = Tail(runq) /\ cur' = Head(runq) /\ Head(runq) \in Thread
      BY <2>3 DEF Dispatch, SchedInv, TypeOK
    <3>2. RunQueue!TakeFirst(Head(runq))
      BY <3>1 DEF RunQueue!TakeFirst
    <3> QED
      BY <3>1, <3>2
  <2> HIDE DEF Use
  <2>4. ASSUME NEW t \in Thread, NEW x, Fork(t, x) PROVE Use
    BY <2>2, <2>4 DEF Fork, Live
  <2>5. ASSUME NEW t \in Thread, Refresh(t) PROVE Use
    BY <2>2, <2>5 DEF Refresh, Live
  <2>6. ASSUME NEW t \in Thread, InterruptHandler(t) PROVE Use
    <3>1. cur \in Thread
      BY <2>6, RunningProps DEF InterruptHandler
    <3> QED
      BY <2>2, <2>6, <3>1 DEF InterruptHandler
  <2> QED
    BY <2>3, <2>4, <2>5, <2>6
       DEF Next, Main, Kernel, PreRun, Reboot, SchedulerReturn, Resume, Stopped, vars,
           MismatchFault, Instruction, Execute, SyscallPutc, SyscallUnknown, SyscallExit
<1> HIDE DEF Use
<1>3. Spec => [][Use]_runq
  BY <1>2, SchedInvariant, PTL DEF Spec
<1> QED
  BY <1>1, <1>3 DEF Spec, Use
=============================================================================
