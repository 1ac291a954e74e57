------------------------------- MODULE PreThread -------------------------------
(***************************************************************************)
(* The preemptive thread library of project/preemptive-thread.c, with the  *)
(* single-stepping equivalence check of project/mini-step.c that it turns  *)
(* on around every context switch (equiv = 1).                             *)
(*                                                                         *)
(* One CPU.  Threads run in user mode with interrupts enabled; the main    *)
(* program, the scheduler and every exception handler run in a privileged  *)
(* mode with interrupts disabled, so a handler is one atomic action and    *)
(* only user mode is interleaved with the timer.  The actions of a thread  *)
(* are single instructions: between any two of them the timer interrupt    *)
(* may come, and in single-step mode every instruction is preceded by a    *)
(* prefetch abort.                                                         *)
(*                                                                         *)
(* A thread's registers are abstracted to the thread whose values they     *)
(* hold and the number of the instruction they are about to execute: the   *)
(* code of a thread is deterministic, so the two name the whole file.      *)
(* The accumulated hash of the registers is the sequence of those files.   *)
(* TCBs are identified with the threads of Thread.                         *)
(***************************************************************************)
EXTENDS Naturals, Sequences, SequencesExt

CONSTANTS
  Thread,           \* the TCBs pre_fork may return
  SchedulerThread,  \* the TCB of the scheduler itself
  NullThread,       \* the null pointer
  Priority,         \* Priority[t]: the priority argument of pre_fork
  Code,             \* Code[t]: addresses of the instructions t executes, in
                    \* execution order; the last is the exit system call
  PutcAt,           \* addresses that hold the putc system call
  SysExitAt,        \* addresses that hold the system call of sys_exit
  Forever,          \* threads that jump from their last instruction to the
                    \* first and never exit
  Equiv,            \* the static variable equiv: check register hashes
  MaxRetrap         \* bound: preemptions between the trap of an instruction
                    \* and its execution, per activation

ASSUME ThreadAssumption ==
  /\ SchedulerThread \notin Thread
  /\ NullThread \notin Thread
  /\ NullThread # SchedulerThread
ASSUME PriorityAssumption == Priority \in [Thread -> Nat]
\* No instruction is at address 0 (mini-step.c:56) or branches to itself.
ASSUME CodeAssumption ==
  /\ Code \in [Thread -> Seq(Nat \ {0})]
  /\ \A t \in Thread : Code[t] # <<>>
  /\ \A t \in Thread : \A i \in 1..Len(Code[t])-1 : Code[t][i] # Code[t][i+1]
ASSUME ConfigAssumption ==
  /\ PutcAt \subseteq Nat
  /\ SysExitAt \subseteq Nat
  /\ Forever \subseteq Thread
  /\ Equiv \in BOOLEAN
  /\ MaxRetrap \in Nat

VARIABLES
  forked,     \* the TCBs handed out by pre_fork
  runq,       \* the run queue, head first
  cur,        \* cur_thread
  scheduler,  \* scheduler_thread: NullThread until the first pre_run
  regs,       \* regs[t]: the registers saved in t's TCB
  cpu,        \* the user registers the CPU holds, NoCtx outside user mode
  mode,       \* who has the CPU, or why nobody has
  ss,         \* single_step_on_p, and the enable bit of bcr0 with it
  bvr,        \* bvr0: the one address that does not trap
  hash,       \* hash[t]: reg_hash, as the register files hashed
  expected,   \* expected[t]: expected_hash, <<>> when none is known
  retired     \* history: instructions of t's activation really executed

vars == <<forked, runq, cur, scheduler, regs, cpu, mode, ss, bvr, hash,
          expected, retired>>

-----------------------------------------------------------------------------
Ctx == [th : Thread \cup {NullThread}, pc : Nat]
NoCtx == [th |-> NullThread, pc |-> 0]

Length == [t \in Thread |-> Len(Code[t])]
AddrOf(c) == Code[c.th][c.pc]

\* regs_init: the first instruction of the thread's function.
InitialRegs(t) == [th |-> t, pc |-> 1]

\* The hash of an activation nothing has disturbed.
Reference(t) == [i \in 1..Length[t] |-> [th |-> t, pc |-> i]]

\* The file after a putc or an ordinary instruction.
After(c) == [c EXCEPT !.pc = IF @ = Length[c.th] THEN 1 ELSE @ + 1]

\* The history of t moves on; a thread that loops starts its count again.
Retire(t) ==
  retired' = [retired EXCEPT
                ![t] = IF t \in Forever /\ @ + 1 = Length[t] THEN 0 ELSE @ + 1]

\* The CPU is at the exit system call of the thread it holds.
AtExit == cpu.pc = Length[cpu.th] /\ cpu.th \notin Forever

\* The instruction breakpoint fires on every address but bvr0.
Mismatch == ss /\ AddrOf(cpu) # bvr

\* Bugs an insertion could have: equals overtaken, no order at all, the rest
\* of the list behind the new element dropped.
InsertBeforeEquals(e) ==
  \E k \in 1..Len(runq)+1 :
    /\ \A i \in 1..k-1 : Priority[runq[i]] > Priority[e]
    /\ k <= Len(runq) => Priority[runq[k]] <= Priority[e]
    /\ runq' = InsertAt(runq, k, e)
InsertAtTail(e) == runq' = Append(runq, e)
InsertDropsRest(e) ==
  \E k \in 1..Len(runq)+1 :
    /\ \A i \in 1..k-1 : Priority[runq[i]] >= Priority[e]
    /\ k <= Len(runq) => Priority[runq[k]] < Priority[e]
    /\ runq' = Append(SubSeq(runq, 1, k-1), e)

\* eq_insert_with_priority on runq: in front of the first queued thread of a
\* strictly lower priority, and behind everything otherwise.
InsertWithPriority(e) ==
  \E k \in 1..Len(runq)+1 :
    /\ \A i \in 1..k-1 : Priority[runq[i]] >= Priority[e]
    /\ k <= Len(runq) => Priority[runq[k]] < Priority[e]
    /\ runq' = InsertAt(runq, k, e)

\* mismatch_on: single-stepping, with a breakpoint on every address but 0,
\* so that the next instruction traps whatever it is.
MismatchOnKeepsPC == ss' = TRUE /\ UNCHANGED bvr
MismatchOn == ss' = TRUE /\ bvr' = 0

\* mismatch_off: the breakpoint is disabled, its address stays.
MismatchOffForgotten == UNCHANGED <<ss, bvr>>
MismatchOff == ss' = FALSE /\ UNCHANGED bvr

\* What interrupt_handler saves: the trampoline stored a pc 4 past the
\* instruction not yet executed, and the handler takes the 4 off.
SavedUnadjusted(c) == [c EXCEPT !.pc = @ + 1]
Saved(c) ==
  LET stored == [c EXCEPT !.pc = @ + 1]
  IN  [stored EXCEPT !.pc = @ - 1]

Running == mode = "user"
Halted == mode \in {"reboot", "panic_empty", "panic_mismatch", "panic_syscall"}
Finished(t) == retired[t] = Length[t]
\* Started, by pre_fork or equiv_refresh, and not yet exited.
Live == {t \in forked : ~Finished(t)}
-----------------------------------------------------------------------------
Init ==
  /\ forked = {}
  /\ runq = <<>>
  /\ cur = NullThread
  /\ scheduler = NullThread
  /\ regs = [t \in Thread |-> NoCtx]
  /\ cpu = NoCtx
  /\ mode = "main"
  /\ ss = FALSE
  /\ bvr = 0
  /\ hash = [t \in Thread |-> <<>>]
  /\ expected = [t \in Thread |-> <<>>]
  /\ retired = [t \in Thread |-> 0]

\* pre_fork, called by the main program with no expected hash or with the
\* right one.  kmalloc returns zeroed memory: reg_hash starts at zero.
Fork(t, e) ==
  /\ mode = "main"
  /\ t \notin forked
  /\ forked' = forked \cup {t}
  /\ expected' = [expected EXCEPT ![t] = e]
  /\ regs' = [regs EXCEPT ![t] = InitialRegs(t)]
  /\ InsertWithPriority(t)
  /\ UNCHANGED <<cur, scheduler, cpu, mode, ss, bvr, hash, retired>>

\* equiv_refresh, called by the main program on a thread that has exited.
Refresh(t) ==
  /\ mode = "main"
  /\ t \in forked
  /\ Finished(t)
  /\ regs' = [regs EXCEPT ![t] = InitialRegs(t)]
  /\ hash' = [hash EXCEPT ![t] = <<>>]
  /\ retired' = [retired EXCEPT ![t] = 0]
  /\ InsertWithPriority(t)
  /\ UNCHANGED <<forked, cur, scheduler, cpu, mode, ss, bvr, expected>>

\* pre_run up to the scheduler's loop: an empty queue panics.
PreRun ==
  /\ mode = "main"
  /\ IF runq = <<>>
       THEN /\ mode' = "panic_empty"
            /\ UNCHANGED <<scheduler, cur>>
       ELSE /\ mode' = "loop"
            /\ scheduler' = SchedulerThread
            /\ cur' = IF scheduler = NullThread THEN SchedulerThread ELSE cur
  /\ UNCHANGED <<forked, runq, regs, cpu, ss, bvr, hash, expected, retired>>

\* The client ends the program: clean_reboot.
Reboot ==
  /\ mode = "main"
  /\ mode' = "reboot"
  /\ UNCHANGED <<forked, runq, cur, scheduler, regs, cpu, ss, bvr, hash,
                 expected, retired>>

ReturnEarly ==
  /\ mode = "loop"
  /\ mode' = "main"
  /\ UNCHANGED <<forked, runq, cur, scheduler, regs, cpu, ss, bvr, hash,
                 expected, retired>>

\* scheduler: the queue is empty, return to pre_run and its caller.
SchedulerReturn ==
  /\ mode = "loop"
  /\ runq = <<>>
  /\ mode' = "main"
  /\ UNCHANGED <<forked, runq, cur, scheduler, regs, cpu, ss, bvr, hash,
                 expected, retired>>

\* scheduler: pop the next thread, mismatch_on, and switchto_cswitch to it.
Dispatch ==
  /\ mode = "loop"
  /\ runq # <<>>
  /\ runq' = Tail(runq)
  /\ cur' = Head(runq)
  /\ IF Equiv THEN MismatchOn ELSE UNCHANGED <<ss, bvr>>
  /\ cpu' = regs[Head(runq)]
  /\ mode' = "user"
  /\ UNCHANGED <<forked, scheduler, regs, hash, expected, retired>>

\* scheduler, after switchto_cswitch came back: mismatch_off, then loop.
Resume ==
  /\ mode = "resumed"
  /\ IF Equiv THEN MismatchOff ELSE UNCHANGED <<ss, bvr>>
  /\ mode' = "loop"
  /\ UNCHANGED <<forked, runq, cur, scheduler, regs, cpu, hash, expected, retired>>

-----------------------------------------------------------------------------
(* What happens while thread t has the CPU. *)

\* cur_thread changed before it is queued.
InterruptQueuesScheduler(t) ==
  /\ Running
  /\ cpu.th = t
  /\ regs' = [regs EXCEPT ![cur] = Saved(cpu)]
  /\ InsertWithPriority(scheduler)
  /\ cur' = scheduler
  /\ cpu' = NoCtx
  /\ mode' = "resumed"
  /\ UNCHANGED <<forked, scheduler, ss, bvr, hash, expected, retired>>

\* The timer interrupt: interrupt_handler saves the registers in cur_thread,
\* queues it and resumes the scheduler.
InterruptHandler(t) ==
  /\ Running
  /\ cpu.th = t
  /\ ss /\ AddrOf(cpu) = bvr => Len(hash[cur]) <= retired[cur] + MaxRetrap
  /\ regs' = [regs EXCEPT ![cur] = Saved(cpu)]
  /\ InsertWithPriority(cur)
  /\ cur' = scheduler
  /\ cpu' = NoCtx
  /\ mode' = "resumed"
  /\ UNCHANGED <<forked, scheduler, ss, bvr, hash, expected, retired>>

\* The prefetch abort of single-step mode: mismatch_fault has
\* equiv_hash_handler save and hash the registers in cur_thread, lets the
\* instruction through by moving bvr0 to it, and resumes it.
MismatchFault(t) ==
  /\ Running
  /\ cpu.th = t
  /\ Mismatch
  /\ regs' = [regs EXCEPT ![cur] = cpu]
  /\ hash' = [hash EXCEPT ![cur] = Append(@, cpu)]
  /\ bvr' = AddrOf(cpu)
  /\ UNCHANGED <<forked, runq, cur, scheduler, cpu, mode, ss, expected, retired>>

\* An ordinary instruction.
Execute(t) ==
  /\ Running
  /\ cpu.th = t
  /\ ~Mismatch
  /\ ~AtExit
  /\ AddrOf(cpu) \notin PutcAt \cup SysExitAt
  /\ cpu' = After(cpu)
  /\ Retire(t)
  /\ UNCHANGED <<forked, runq, cur, scheduler, regs, mode, ss, bvr, hash, expected>>

\* pre_syscall_handler, PRE_PUTC: the thread resumes behind the system call
\* (syscall_full_except), at the pc the trap left in lr.
SyscallPutc(t) ==
  /\ Running
  /\ cpu.th = t
  /\ ~Mismatch
  /\ ~AtExit
  /\ AddrOf(cpu) \in PutcAt
  /\ cpu' = After(cpu)
  /\ Retire(t)
  /\ UNCHANGED <<forked, runq, cur, scheduler, regs, mode, ss, bvr, hash, expected>>

\* pre_syscall_handler, default: the only other number a thread of this
\* library passes is the 2 of sys_exit.
SyscallUnknown(t) ==
  /\ Running
  /\ cpu.th = t
  /\ ~Mismatch
  /\ ~AtExit
  /\ AddrOf(cpu) \in SysExitAt
  /\ cpu' = NoCtx
  /\ mode' = "panic_syscall"
  /\ UNCHANGED <<forked, runq, cur, scheduler, regs, ss, bvr, hash, expected, retired>>

\* pre_syscall_handler, PRE_EXIT: record or compare the hash, and resume the
\* scheduler.
SyscallExit(t) ==
  /\ Running
  /\ cpu.th = t
  /\ ~Mismatch
  /\ AtExit
  /\ cpu' = NoCtx
  /\ IF Equiv /\ expected[cur] # <<>> /\ expected[cur] # hash[cur]
       THEN /\ mode' = "panic_mismatch"
            /\ UNCHANGED <<cur, expected, retired>>
       ELSE /\ mode' = "resumed"
            /\ cur' = scheduler
            /\ expected' = IF Equiv THEN [expected EXCEPT ![cur] = hash[cur]]
                                    ELSE expected
            /\ Retire(t)
  /\ UNCHANGED <<forked, runq, scheduler, regs, ss, bvr, hash>>

-----------------------------------------------------------------------------
\* A thread's own step, as opposed to what interrupts it.
Instruction(t) ==
  \/ Execute(t)
  \/ SyscallPutc(t)
  \/ SyscallUnknown(t)
  \/ SyscallExit(t)

Main ==
  \/ \E t \in Thread : \E e \in {<<>>, Reference(t)} : Fork(t, e)
  \/ \E t \in Thread : Refresh(t)
  \/ PreRun
  \/ Reboot

Kernel == SchedulerReturn \/ Dispatch \/ Resume

\* After a reboot or a panic nothing happens.
Stopped == Halted /\ UNCHANGED vars

Next ==
  \/ Main
  \/ Kernel
  \/ \E t \in Thread : InterruptHandler(t) \/ MismatchFault(t) \/ Instruction(t)
  \/ Stopped

Spec == Init /\ [][Next]_vars

(***************************************************************************)
(* The kernel runs until it switches away.  Instructions and traps are     *)
(* strongly fair: the timer is loaded with 0x10000 ticks of a clock        *)
(* prescaled by 256 (timer-interrupt.c), tens of milliseconds, so it       *)
(* cannot come before the first instruction of every time slice forever.   *)
(* The timer is periodic: it interrupts whoever keeps the CPU.  Nothing     *)
(* obliges the main program to do anything.                                *)
(***************************************************************************)
Fairness ==
  /\ WF_vars(Kernel)
  /\ \A t \in Thread : WF_vars(InterruptHandler(t))
  /\ \A t \in Thread : SF_vars(MismatchFault(t)) /\ SF_vars(Instruction(t))

FairSpec == Spec /\ Fairness

-----------------------------------------------------------------------------
(* Safety. *)

TypeOK ==
  /\ forked \subseteq Thread
  /\ runq \in Seq(Thread)
  /\ cur \in Thread \cup {SchedulerThread, NullThread}
  /\ scheduler \in {SchedulerThread, NullThread}
  /\ regs \in [Thread -> Ctx]
  /\ cpu \in Ctx
  /\ mode \in {"main", "loop", "resumed", "user", "reboot",
               "panic_empty", "panic_mismatch", "panic_syscall"}
  /\ ss \in BOOLEAN
  /\ bvr \in Nat
  /\ hash \in [Thread -> Seq(Ctx)]
  /\ expected \in [Thread -> Seq(Ctx)]
  /\ retired \in [Thread -> Nat]

\* A thread that waits in the run queue has its own registers saved in its
\* TCB, at the first instruction it has not executed, and a thread that runs
\* has them in the CPU: however often it is preempted or single-stepped, no
\* instruction of it is skipped, repeated, or run with another's registers
\* (interrupt_handler's "REGS_PC -= 4", the trampolines, equiv_hash_handler).
ContextIntegrity ==
  /\ \A t \in ToSet(runq) : regs[t] = [th |-> t, pc |-> retired[t] + 1]
  /\ Running => cpu = [th |-> cur, pc |-> retired[cur] + 1]

\* No thread is lost or queued twice: the run queue holds every live thread
\* but the one cur_thread names, once, and only a live thread runs.
NoThreadLost ==
  /\ IsInjective(runq)
  /\ ToSet(runq) = Live \ {cur}
  /\ Running => cur \in Live

\* Priority scheduling: no live thread outranks the one that runs, and none
\* waits behind one of a lower priority (queue-ext-T.h, scheduler).
HighestPriorityRuns ==
  /\ Running => \A u \in Live : Priority[u] <= Priority[cur]
  /\ \A i, j \in 1..Len(runq) : i < j => Priority[runq[i]] >= Priority[runq[j]]

\* The assertions of mini-step.c never fail: mismatch_on finds single-step
\* mode off, mismatch_off and mismatch_pc_set find it on; and the scheduler
\* and the main program are never left in it.
SingleStepBalanced ==
  /\ mode \in {"main", "loop"} => ~ss
  /\ mode \in {"user", "resumed"} => ss = Equiv

\* h hashes the instructions of t in order from the first to the r-th, or to
\* the one after it, perhaps some of them several times.
Covers(h, t, r) ==
  /\ h = <<>> => r = 0
  /\ h # <<>> => /\ h[1] = InitialRegs(t)
                 /\ \/ h[Len(h)] = [th |-> t, pc |-> r] /\ r > 0
                    \/ h[Len(h)] = [th |-> t, pc |-> r + 1]
  /\ \A i \in 1..Len(h)-1 :
       h[i+1] \in {h[i], [th |-> t, pc |-> h[i].pc + 1]}

\* The hash of a thread covers every instruction of its activation in order,
\* up to the one about to execute, whatever preempted it: hashing may repeat
\* an instruction but never misses or reorders one.
HashCoversExecution ==
  Equiv => \A t \in forked \ Forever : Covers(hash[t], t, retired[t])

\* An instruction was hashed twice in a row.
Repeats(h) == \E i \in 1..Len(h)-1 : h[i] = h[i+1]

\* The exit check of pre_syscall_handler panics only for a thread that was
\* preempted between a trap and its instruction, then or in the activation
\* that recorded its expected hash: in every other schedule it agrees.
MismatchOnlyAfterRetrap ==
  mode = "panic_mismatch" => Repeats(hash[cur]) \/ Repeats(expected[cur])

Before(q, t, u) == \E i, j \in 1..Len(q) : i < j /\ q[i] = t /\ q[j] = u

\* Round robin: a thread that enters the queue goes behind every waiting
\* thread of its priority or a higher one, and two waiting threads never
\* change places, so each waits for at most one slice of each of its equals.
RoundRobin ==
  [][\A t, u \in Thread :
       /\ t # u
       /\ t \in ToSet(runq) \cap ToSet(runq')
       /\ u \in ToSet(runq')
       /\ IF u \in ToSet(runq) THEN Before(runq, t, u)
                               ELSE Priority[t] >= Priority[u]
       => Before(runq', t, u)]_vars

-----------------------------------------------------------------------------
(* What the proofs need besides: see PreThreadProofs. *)

\* cur_thread names the scheduler whenever no thread has been dispatched.
CurFollowsMode ==
  /\ mode \in {"main", "reboot", "panic_empty"} => cur = scheduler
  /\ mode \in {"loop", "resumed"} =>
       cur = SchedulerThread /\ scheduler = SchedulerThread
  /\ mode \in {"user", "panic_mismatch", "panic_syscall"} =>
       cur \in Thread /\ scheduler = SchedulerThread

\* No thread runs past its exit, nor before it is forked.
ProgressBounded ==
  \A t \in Thread :
    /\ retired[t] <= Length[t]
    /\ t \in Forever => retired[t] < Length[t]
    /\ t \notin forked => retired[t] = 0 /\ hash[t] = <<>>

\* The address let through is that of the instruction hashed last.
BreakpointAtLastTrap ==
  Running /\ Equiv /\ bvr # 0 =>
    hash[cur] # <<>> /\ bvr = AddrOf(hash[cur][Len(hash[cur])])

\* Undisturbed, a hash is a prefix of the reference; a recorded one is whole.
HashExact ==
  \A t \in Thread \ Forever :
    /\ Repeats(hash[t]) \/ \A i \in 1..Len(hash[t]) : hash[t][i] = [th |-> t, pc |-> i]
    /\ expected[t] \in {<<>>, Reference(t)} \/ Repeats(expected[t])

\* The inductive invariant, in its two halves: scheduling, then hashing.
SchedInv ==
  /\ TypeOK
  /\ CurFollowsMode
  /\ ProgressBounded
  /\ ContextIntegrity
  /\ NoThreadLost
  /\ HighestPriorityRuns
  /\ SingleStepBalanced

HashInv ==
  /\ BreakpointAtLastTrap
  /\ HashCoversExecution
  /\ HashExact
  /\ MismatchOnlyAfterRetrap

IInv == SchedInv /\ HashInv

-----------------------------------------------------------------------------
(* The library implements the pool of ThreadPool. *)
Pool == INSTANCE ThreadPool WITH
  live <- Live,
  progress <- retired,
  running <- mode \in {"loop", "resumed", "user", "panic_mismatch", "panic_syscall"}

\* Every behaviour of the scheduler is one of the pool: only threads of the
\* highest live priority make progress, one instruction at a time, and
\* pre_run returns only when every thread has exited.
ImplementsPool == Pool!PoolSpec

-----------------------------------------------------------------------------
(* Liveness, of FairSpec. *)

Outranked(t) == \E u \in Live \cap Forever : Priority[u] > Priority[t]
InPreRun == mode \in {"loop", "resumed", "user"}

\* A thread waiting in the queue of a running scheduler gets the CPU, unless
\* one that never exits outranks it: also when its equals never exit.
NoStarvation ==
  \A t \in Thread :
    (InPreRun /\ t \in ToSet(runq) /\ ~Outranked(t))
      ~> ((Running /\ cur = t) \/ Halted)

\* Every thread that can exit does, and pre_run returns when all have, if
\* none that never exits is live.
Termination ==
  /\ \A t \in Thread \ Forever :
       (InPreRun /\ t \in Live /\ ~Outranked(t)) ~> (Finished(t) \/ Halted)
  /\ (InPreRun /\ Live \cap Forever = {}) ~> (mode = "main" \/ Halted)

\* With fairness too: no thread the pool must advance is parked for good.
ImplementsFairPool == Pool!PoolFairSpec

-----------------------------------------------------------------------------
(* Statements of the repository the code contradicts. *)

\* "if non-zero: the hash we expect to get" (preemptive-thread.h:19): a
\* thread forked with the hash of its own code is never found to mismatch.
HashAsExpected == mode # "panic_mismatch"
=============================================================================
