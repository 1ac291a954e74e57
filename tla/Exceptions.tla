------------------------------- MODULE Exceptions -------------------------------
(***************************************************************************)
(* What an exception saves and where it resumes: the trampolines of        *)
(* full-except-asm.S, the functions of staff-full-except.c behind them,    *)
(* switchto, the vector base, and the order in which pre_init starts the   *)
(* timer and installs the handlers.  A thread's place in its code stands   *)
(* for its registers there; addresses are numbers, instructions 4 apart.   *)
(* Taking an exception is the hardware's.  Handlers do not fault.          *)
(***************************************************************************)
EXTENDS Integers, FiniteSets

CONSTANTS ExThreads,  \* threads: numbers above 0, the number of the main program
          ExMax       \* bound on calls of the main program

ASSUME ThreadsNumbered == ExThreads \subseteq Nat \ {0}

VARIABLES cpu,        \* r0, pc and cpsr: mode, i for interrupts off, c for the condition flags
          bank,       \* sp and lr of each mode; USER and SYS share theirs
          spsr, frame,\* the cpsr an exception found, the registers saved at INT_STACK_ADDR
          vbar,       \* the vector base
          hooks,      \* the kinds of exceptions that have a handler
          enabled, raised,  \* interrupt lines
          timer_on,
          xat,        \* "run", "vector", "saved", "panic", or "lost": behind the code
          kind,       \* of the exception that is being handled
          ipc,        \* how far pre_init is
          cur_thread, \* the running thread, or Main
          th,         \* th[t]: the registers saved for t; NoRegs if it has none
          was,        \* history: what a thread's registers are to be when it goes on
          excalls

cpuregs == <<cpu, bank, spsr, frame, kind>>
irqs == <<enabled, raised, timer_on>>
exvars == <<cpuregs, irqs, vbar, hooks, xat, ipc, cur_thread, th, was, excalls>>

Main == 0
NoRegs == [r0 |-> 0, sp |-> 0, lr |-> 0, pc |-> 0, cpsr |-> [mode |-> "none", i |-> TRUE, c |-> FALSE]]

\* Vectors: none, full_except_ints, another table, and one that is not aligned.
full_except_ints == 32
Vectors == {0, full_except_ints, 64, 65}

INT_STACK_ADDR == 9000

BankOf(mode) == IF mode = "SYS" THEN "USER" ELSE mode

Live == [r0 |-> cpu.r0, pc |-> cpu.pc, cpsr |-> cpu.cpsr,
         sp |-> bank[BankOf(cpu.cpsr.mode)].sp, lr |-> bank[BankOf(cpu.cpsr.mode)].lr]

\* The registers of thread t at the k-th place of its code.
Place(t, k, cpsr) == [r0 |-> 0, sp |-> 1000 * t + 10 - k, lr |-> 100 * t + 50 + k, pc |-> 100 * t + 8 * k,
                      cpsr |-> [cpsr EXCEPT !.c = (k = 2)]]

Load(r) == /\ cpu' = [r0 |-> r.r0, pc |-> r.pc, cpsr |-> r.cpsr]
           /\ bank' = [bank EXCEPT ![BankOf(r.cpsr.mode)] = [sp |-> r.sp, lr |-> r.lr]]

\* The processor starts in SUPER mode with interrupts off (staff-start.S); a
\* boot loader may have left a line of the interrupt controller on.
ExceptionsInit ==
  /\ LET r == Place(Main, 1, [mode |-> "SUPER", i |-> TRUE, c |-> FALSE])
     IN  /\ cpu = [r0 |-> r.r0, pc |-> r.pc, cpsr |-> r.cpsr]
         /\ bank = [m \in {"USER", "SUPER", "ABORT", "IRQ"} |->
                      IF m = "SUPER" THEN [sp |-> r.sp, lr |-> r.lr] ELSE [sp |-> 0, lr |-> 0]]
         /\ was = [t \in ExThreads \cup {Main} |-> IF t = Main THEN r ELSE NoRegs]
  /\ spsr = NoRegs.cpsr /\ frame = NoRegs
  /\ enabled \in {{}, {"irq1"}} /\ raised = {} /\ timer_on = FALSE
  /\ vbar = 0 /\ hooks = {} /\ xat = "run" /\ kind = "none" /\ ipc = 0
  /\ cur_thread = Main /\ th = [t \in ExThreads \cup {Main} |-> NoRegs] /\ excalls = 0

-----------------------------------------------------------------------------
(* Switches.                                                               *)

mode_set(cpsr, mode) == [cpsr EXCEPT !.mode = mode]
cpsr_clear_carry(cpsr) == [cpsr EXCEPT !.c = FALSE]
cpsr_inherit(mode, cpsr) == mode_set(cpsr_clear_carry(cpsr), mode)
cpsr_int_disable == [cpu EXCEPT !.cpsr.i = TRUE]

\* The mode that is left loses its sp, which switchto_user_asm uses to load pc
\* and cpsr, or had an sp and lr of the exception only; so is what was saved.
switchto(r) ==
  LET from == BankOf(cpu.cpsr.mode)
  IN  /\ cpu' = [r0 |-> r.r0, pc |-> r.pc, cpsr |-> r.cpsr]
      /\ bank' = [bank EXCEPT ![from] = [sp |-> 0, lr |-> 0],
                               ![BankOf(r.cpsr.mode)] = [sp |-> r.sp, lr |-> r.lr]]
      /\ spsr' = NoRegs.cpsr /\ frame' = NoRegs /\ kind' = "none"

\* Wrong: sp and lr are left as the trampoline saved them, for user mode.
FixupForgotten(r, s) == r

fixup_regs(r, s) ==
  IF s.mode = "USER" THEN r
  ELSE [r EXCEPT !.sp = bank[BankOf(s.mode)].sp, !.lr = bank[BankOf(s.mode)].lr]

-----------------------------------------------------------------------------
(* Exceptions.                                                             *)

ModeOf == [prefetch |-> "ABORT", data |-> "ABORT", syscall |-> "SUPER", interrupt |-> "IRQ"]

\* What the hardware leaves in lr, from the instruction that is to run next or
\* that has faulted.
LrAhead == [prefetch |-> 4, data |-> 8, syscall |-> 4, interrupt |-> 4]

\* The registers the interrupted code is to go on with.
Expected(k) == IF k = "syscall" THEN [Live EXCEPT !.pc = @ + 4, !.r0 = 1] ELSE Live

Take(k) ==
  /\ xat = "run"
  /\ kind' = k
  /\ was' = [was EXCEPT ![cur_thread] = Expected(k)]
  /\ spsr' = cpu.cpsr
  /\ cpu' = [cpu EXCEPT !.cpsr = [mode |-> ModeOf[k], i |-> TRUE, c |-> @.c]]
  /\ bank' = [bank EXCEPT ![ModeOf[k]].lr = cpu.pc + LrAhead[k]]
  /\ xat' = IF vbar = full_except_ints THEN "vector" ELSE "lost"
  /\ UNCHANGED <<frame, irqs, vbar, hooks, ipc, cur_thread, th, excalls>>

\* Code faults, or calls the system, once somebody can handle it.  A thread
\* does something between two system calls, which bounds its pc.
TakeFault ==
  /\ vbar = full_except_ints
  /\ \E k \in {"prefetch", "data"} \cup {x \in {"syscall"} : cpu.r0 = 0} : Take(k)

TakeInterrupt == ~cpu.cpsr.i /\ raised \cap enabled # {} /\ Take("interrupt")

RaiseLine ==
  /\ \E line \in {"timer", "irq1"} :
       /\ line \in enabled \ raised /\ (line = "timer" => timer_on)
       /\ raised' = raised \cup {line}
  /\ UNCHANGED <<cpuregs, enabled, timer_on, vbar, hooks, xat, ipc, cur_thread, th, was, excalls>>

\* What the trampoline takes off lr: interrupt_handler does it for interrupts.
Behind == [prefetch |-> 4, data |-> 8, syscall |-> 0, interrupt |-> 0]

\* prefetch_handler_full, data_abort_full, syscall_full and interrupt_full: sp
\* and lr are those of user mode.
Trampoline ==
  /\ xat = "vector"
  /\ frame' = [r0 |-> cpu.r0, sp |-> bank["USER"].sp, lr |-> bank["USER"].lr,
               pc |-> bank[ModeOf[kind]].lr - Behind[kind], cpsr |-> spsr]
  /\ bank' = [bank EXCEPT ![ModeOf[kind]].sp = INT_STACK_ADDR]
  /\ xat' = "saved"
  /\ UNCHANGED <<cpu, spsr, irqs, vbar, hooks, kind, ipc, cur_thread, th, was, excalls>>

\* r is patched, the client's handler called, and r switched to.
Abort ==
  /\ xat = "saved" /\ kind \in {"prefetch", "data"}
  /\ IF kind \in hooks
     THEN switchto(fixup_regs(frame, spsr)) /\ xat' = "run"
     ELSE xat' = "panic" /\ UNCHANGED cpuregs
  /\ UNCHANGED <<irqs, vbar, hooks, ipc, cur_thread, th, was, excalls>>

syscall_full_except ==
  /\ xat = "saved" /\ kind = "syscall"
  /\ IF spsr.mode = "USER" /\ kind \in hooks
     THEN switchto([frame EXCEPT !.r0 = 1]) /\ xat' = "run"
     ELSE xat' = "panic" /\ UNCHANGED cpuregs
  /\ UNCHANGED <<irqs, vbar, hooks, ipc, cur_thread, th, was, excalls>>

\* It returns when the timer has not interrupted; otherwise it queues the
\* thread and resumes the scheduler.
Returns == "timer" \notin raised \cap enabled
interrupt_handler ==
  /\ raised' = raised \ {"timer"}
  /\ th' = [th EXCEPT ![cur_thread] = [frame EXCEPT !.pc = @ - 4]]
  /\ cur_thread' = Main
  /\ switchto(th[Main]) /\ xat' = "run"

\* The handler is called without a look at it, and behind the call is the
\* vector table.
interrupt_except ==
  /\ xat = "saved" /\ kind = "interrupt"
  /\ IF kind \notin hooks \/ Returns
     THEN xat' = "lost" /\ UNCHANGED <<raised, th, cur_thread, cpuregs>>
     ELSE interrupt_handler
  /\ UNCHANGED <<enabled, timer_on, vbar, hooks, ipc, was, excalls>>

-----------------------------------------------------------------------------
(* The main program, until it has called the scheduler.                    *)

InMain == xat = "run" /\ cur_thread = Main /\ th[Main] = NoRegs
MainCall == InMain /\ ipc \in {0, 5} /\ excalls < ExMax /\ excalls' = excalls + 1

PanicUnless(P) == xat' = IF P THEN "run" ELSE "panic"

vector_base_chk(vec) == vec # 0 /\ vec % 32 = 0

vector_base_set(vec) ==
  /\ PanicUnless(vector_base_chk(vec) /\ vbar \in {0, vec})
  /\ vbar' = IF vector_base_chk(vec) /\ vbar = 0 THEN vec ELSE vbar

vector_base_reset(vec) ==
  /\ PanicUnless(vector_base_chk(vec))
  /\ vbar' = IF vector_base_chk(vec) THEN vec ELSE vbar

\* With override_p vector_base_set still refuses to replace another table.
full_except_install(override_p) ==
  IF override_p \/ vbar = 0 THEN vector_base_set(full_except_ints)
  ELSE PanicUnless(vbar = full_except_ints) /\ UNCHANGED vbar

SetVector ==
  /\ MainCall /\ ipc = 0
  /\ \/ \E override_p \in BOOLEAN : full_except_install(override_p)
     \/ \E vec \in Vectors : vector_base_set(vec) \/ vector_base_reset(vec)
  /\ UNCHANGED <<cpuregs, irqs, hooks, ipc, cur_thread, th, was>>

\* full_except_set_prefetch, full_except_set_data_abort and, for a client that
\* has no threads, full_except_set_syscall: they replace the handler, 0 for none.
SetHandler ==
  /\ MainCall
  /\ \E k \in {"prefetch", "data"} \cup (IF ipc = 0 THEN {"syscall"} ELSE {}) :
       hooks' \in {hooks \cup {k}, hooks \ {k}}
  /\ UNCHANGED <<cpuregs, irqs, vbar, xat, ipc, cur_thread, th, was>>

\* The basic interrupts, to which the timer belongs, have registers of their own.
bcm_set_interrupts_off == enabled' = enabled \ {"irq1"}

set_all_interrupts_off ==
  /\ MainCall
  /\ bcm_set_interrupts_off
  /\ cpu' = cpsr_int_disable
  /\ UNCHANGED <<spsr, bank, frame, raised, timer_on, vbar, hooks, xat, kind, ipc, cur_thread, th, was>>

\* cpsr_set(mode_set(cpsr_get(), SYS)), and back: the other mode's registers.
ChangeMode ==
  /\ MainCall
  /\ LET mode == IF cpu.cpsr.mode = "SUPER" THEN "SYS" ELSE "SUPER"
         r == Place(Main, 1, mode_set(cpu.cpsr, mode))
     IN  Load(r) /\ was' = [was EXCEPT ![Main] = r]
  /\ UNCHANGED <<spsr, frame, irqs, vbar, hooks, xat, kind, ipc, cur_thread, th>>

\* pre_init: the timer first, then interrupts off and the vectors, then the
\* handlers.
timer_interrupt_init ==
  /\ MainCall /\ ipc = 0 /\ ipc' = 1
  /\ enabled' = enabled \cup {"timer"} /\ timer_on' = TRUE
  /\ UNCHANGED <<cpuregs, raised, vbar, hooks, xat, cur_thread, th, was>>

int_vec_init ==
  /\ InMain /\ ipc = 1 /\ ipc' = 2
  /\ cpu' = cpsr_int_disable
  /\ enabled' = enabled \ {"irq1"}
  /\ vector_base_set(full_except_ints)
  /\ UNCHANGED <<spsr, bank, frame, raised, timer_on, hooks, kind, cur_thread, th, was, excalls>>

pre_init_handlers ==
  /\ InMain /\ ipc \in {2, 3} /\ ipc' = IF ipc = 2 THEN 3 ELSE 5
  /\ hooks' = hooks \cup {IF ipc = 2 THEN "interrupt" ELSE "syscall"}
  /\ UNCHANGED <<cpuregs, irqs, vbar, xat, cur_thread, th, was, excalls>>

regs_init(t) == [Place(t, 1, NoRegs.cpsr) EXCEPT !.cpsr = [cpsr_inherit("USER", cpu.cpsr) EXCEPT !.i = FALSE]]

pre_fork ==
  /\ InMain /\ ipc = 5 /\ cpu.cpsr.mode = "SUPER"
  /\ \E t \in ExThreads :
       /\ th[t] = NoRegs
       /\ th' = [th EXCEPT ![t] = regs_init(t)]
       /\ was' = [was EXCEPT ![t] = Place(t, 1, [mode |-> "USER", i |-> FALSE, c |-> FALSE])]
  /\ UNCHANGED <<cpuregs, irqs, vbar, hooks, xat, ipc, cur_thread, excalls>>

\* The scheduler resumes a thread.  The first time cswitchto_user_asm saves
\* the registers, with which the scheduler goes on behind the call.
Dispatch ==
  /\ xat = "run" /\ cur_thread = Main /\ cpu.cpsr.mode = "SUPER"
  /\ \E t \in ExThreads :
       /\ th[t] # NoRegs
       /\ cur_thread' = t
       /\ switchto(th[t])
       /\ IF th[Main] = NoRegs
          THEN /\ th' = [th EXCEPT ![Main] = [Live EXCEPT !.r0 = 0, !.pc = Live.lr]]
               /\ was' = [was EXCEPT ![Main] = [Live EXCEPT !.pc = Live.lr]]
          ELSE UNCHANGED <<th, was>>
  /\ UNCHANGED <<irqs, vbar, hooks, xat, ipc, excalls>>

\* The running code goes to a place of its own.
Work ==
  /\ xat = "run" /\ (cur_thread = Main => th[Main] = NoRegs)
  /\ \E k \in 1 .. 2 : LET r == Place(cur_thread, k, cpu.cpsr)
                       IN  Load(r) /\ was' = [was EXCEPT ![cur_thread] = r]
  /\ UNCHANGED <<spsr, frame, irqs, vbar, hooks, xat, kind, ipc, cur_thread, th, excalls>>

ExceptionsNext ==
  \/ TakeFault \/ TakeInterrupt \/ RaiseLine \/ Trampoline
  \/ Abort \/ syscall_full_except \/ interrupt_except
  \/ SetVector \/ SetHandler \/ set_all_interrupts_off \/ ChangeMode
  \/ timer_interrupt_init \/ int_vec_init \/ pre_init_handlers \/ pre_fork \/ Dispatch \/ Work

ExceptionsSpec == ExceptionsInit /\ [][ExceptionsNext]_exvars
-----------------------------------------------------------------------------
\* Execution resumes exactly where the exception occurred, and behind a system
\* call one instruction after (full-except-asm.S:11-15), with the mode, flags,
\* stack pointer and link register of whoever was interrupted: a thread at user
\* level, the main program in a privileged mode, whose registers the
\* trampolines do not save, or the scheduler when a thread is preempted, however
\* many other threads have run and trapped meanwhile (staff-full-except.c:31-101,
\* preemptive-thread.c:29-59).  No interrupt finds the vectors or the handler
\* missing, and none is left to fall into the vector table.
ResumesInPlace ==
  /\ xat # "lost"
  /\ xat = "run" => \/ Live = was[cur_thread]
                    \/ cur_thread = Main /\ th[Main] # NoRegs /\ [Live EXCEPT !.r0 = was[Main].r0] = was[Main]
=============================================================================
