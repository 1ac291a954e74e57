----------------------------- MODULE MachineProofs -----------------------------
(***************************************************************************)
(* Theorems about the code that drives hardware, for every set of threads, *)
(* address spaces and pins and every number of calls.  Each component has  *)
(* a section of its own, with its inductive invariant.                     *)
(***************************************************************************)
EXTENDS Exceptions, Mmu, Time, I2c, MiniStep, QueueLemmas

-----------------------------------------------------------------------------
(* Exceptions.  The inductive invariant says what the registers of an      *)
(* interrupted thread have become at each stage of the handling: in the    *)
(* banks of the processor, in the trampoline's frame, and in th.           *)

AnyThread == ExThreads \cup {Main}
CpsrType == [mode : {"USER", "SUPER", "SYS", "ABORT", "IRQ", "none"}, i : BOOLEAN, c : BOOLEAN]
RegsType == [r0 : Int, sp : Int, lr : Int, pc : Int, cpsr : CpsrType]

ExTypeOK ==
  /\ cpu \in [r0 : Int, pc : Int, cpsr : CpsrType]
  /\ bank \in [{"USER", "SUPER", "ABORT", "IRQ"} -> [sp : Int, lr : Int]]
  /\ spsr \in CpsrType /\ frame \in RegsType
  /\ enabled \subseteq {"timer", "irq1"}
  /\ cur_thread \in AnyThread
  /\ th \in [AnyThread -> RegsType] /\ was \in [AnyThread -> RegsType]
  /\ ipc \in {0, 1, 2, 3, 5}

\* What pre_init has installed so far; threads are forked behind it.
Installed ==
  /\ ipc \in {2, 3, 5} => vbar = full_except_ints /\ "irq1" \notin enabled
  /\ ipc \in {3, 5} => "interrupt" \in hooks
  /\ ipc = 5 => "syscall" \in hooks
  /\ (\E t \in ExThreads : th[t] # NoRegs) => ipc = 5
  /\ cur_thread # Main => th[cur_thread] # NoRegs /\ th[Main] # NoRegs

\* The status register of thread t: only Main is privileged.
OfThread(t, s) == IF t = Main THEN s.mode \in {"SUPER", "SYS"} /\ s.i
                              ELSE s.mode = "USER" /\ ~s.i

\* The threads that wait are saved as they are to go on.
Waiting ==
  \A t \in ExThreads \ {cur_thread} : th[t] # NoRegs => th[t] = was[t] /\ OfThread(t, th[t].cpsr)

\* So is the scheduler, but for r0, which its code does not use again; a system
\* call of its own panics.
SchedulerSaved ==
  th[Main] # NoRegs /\ ~(cur_thread = Main /\ kind = "syscall" /\ xat # "run") =>
    /\ th[Main] = [was[Main] EXCEPT !.r0 = 0]
    /\ th[Main].cpsr.mode = "SUPER" /\ th[Main].cpsr.i

Resumed ==
  \/ Live = was[cur_thread]
  \/ cur_thread = Main /\ th[Main] # NoRegs /\ [Live EXCEPT !.r0 = was[Main].r0] = was[Main]

\* The vector is reached: what the hardware has left of the interrupted code.
Interrupted ==
  [r0 |-> cpu.r0, pc |-> bank[ModeOf[kind]].lr - LrAhead[kind], cpsr |-> spsr,
   sp |-> bank[BankOf(spsr.mode)].sp, lr |-> bank[BankOf(spsr.mode)].lr]

\* What the handler makes of the registers the trampoline saved.
Patched ==
  IF kind = "syscall" THEN [frame EXCEPT !.r0 = 1]
  ELSE IF kind = "interrupt" THEN [frame EXCEPT !.pc = @ - 4]
  ELSE fixup_regs(frame, spsr)

Taken ==
  /\ kind \in {"prefetch", "data", "syscall", "interrupt"}
  /\ OfThread(cur_thread, spsr)
  /\ vbar = full_except_ints
  /\ kind = "interrupt" => cur_thread # Main /\ "timer" \in raised \cap enabled
  /\ xat = "saved" => frame.cpsr = spsr
ToGoOn ==
  \/ kind = "syscall" /\ cur_thread = Main
  \/ xat = "saved" /\ was[cur_thread] = Patched
  \/ xat = "vector" /\ was[cur_thread] = IF kind = "syscall" THEN [Interrupted EXCEPT !.pc = @ + 4, !.r0 = 1]
                                   ELSE Interrupted

ExGood ==
  /\ ExTypeOK /\ Installed /\ Waiting /\ SchedulerSaved
  /\ xat \in {"run", "vector", "saved"}
  /\ xat = "run" => Resumed /\ OfThread(cur_thread, cpu.cpsr)
  /\ xat \in {"vector", "saved"} => Taken /\ ToGoOn

ExInv == xat # "panic" => ExGood

-----------------------------------------------------------------------------
(* Exceptions: the proof.                                                  *)

\* regs_init and the main program's start: a place of a thread is a set of
\* registers.
LEMMA PlaceType ==
  ASSUME NEW t \in AnyThread, NEW k \in {1, 2}, NEW s \in CpsrType
  PROVE  /\ Place(t, k, s) \in RegsType
         /\ Place(t, k, s).cpsr.mode = s.mode /\ Place(t, k, s).cpsr.i = s.i
<1> DEFINE c2 == [s EXCEPT !.c = (k = 2)]
<1>1. c2 \in CpsrType /\ c2.mode = s.mode /\ c2.i = s.i
  <2>1. (k = 2) \in BOOLEAN
    OBVIOUS
  <2>2. c2 = [mode |-> s.mode, i |-> s.i, c |-> (k = 2)]
    BY DEF CpsrType
  <2> QED
    BY <2>1, <2>2 DEF CpsrType
<1>2. t \in Int /\ k \in Int
  BY ThreadsNumbered DEF AnyThread, Main
<1>3. /\ 1000 * t + 10 - k \in Int /\ 100 * t + 50 + k \in Int
      /\ 100 * t + 8 * k \in Int
  BY <1>2
<1>4. Place(t, k, s) = [r0 |-> 0, sp |-> 1000 * t + 10 - k, lr |-> 100 * t + 50 + k,
                        pc |-> 100 * t + 8 * k, cpsr |-> c2]
  BY DEF Place
<1> HIDE DEF c2
<1> QED
  BY <1>1, <1>3, <1>4 DEF RegsType

\* The processor's start (staff-start.S) establishes the invariant.
LEMMA ExInitGood == ExceptionsInit => ExGood
<1> SUFFICES ASSUME ExceptionsInit PROVE ExGood
  OBVIOUS
<1> DEFINE s0 == [mode |-> "SUPER", i |-> TRUE, c |-> FALSE]
           r == Place(Main, 1, s0)
<1>1. /\ r \in RegsType /\ r.cpsr.mode = "SUPER" /\ r.cpsr.i /\ s0 \in CpsrType
  <2>1. s0 \in CpsrType /\ Main \in AnyThread /\ s0.mode = "SUPER" /\ s0.i
    BY DEF AnyThread, CpsrType
  <2> HIDE DEF s0
  <2> QED
    BY <2>1, PlaceType
<1>2. /\ cpu = [r0 |-> r.r0, pc |-> r.pc, cpsr |-> r.cpsr]
      /\ bank = [m \in {"USER", "SUPER", "ABORT", "IRQ"} |->
                   IF m = "SUPER" THEN [sp |-> r.sp, lr |-> r.lr] ELSE [sp |-> 0, lr |-> 0]]
      /\ was = [t \in AnyThread |-> IF t = Main THEN r ELSE NoRegs]
  BY DEF ExceptionsInit, AnyThread
<1>3. NoRegs \in RegsType
  BY DEF NoRegs, RegsType, CpsrType
<1> HIDE DEF r
<1>4. ExTypeOK
  <2>1. cpu \in [r0 : Int, pc : Int, cpsr : CpsrType]
    BY <1>1, <1>2 DEF RegsType
  <2>2. bank \in [{"USER", "SUPER", "ABORT", "IRQ"} -> [sp : Int, lr : Int]]
    BY <1>1, <1>2 DEF RegsType
  <2>3. spsr \in CpsrType /\ frame \in RegsType
    BY <1>3 DEF ExceptionsInit, NoRegs, RegsType
  <2>4. th \in [AnyThread -> RegsType] /\ was \in [AnyThread -> RegsType]
    BY <1>1, <1>2, <1>3 DEF ExceptionsInit, AnyThread
  <2> QED
    BY <2>1, <2>2, <2>3, <2>4 DEF ExceptionsInit, ExTypeOK, AnyThread
<1>5. Live = r
  BY <1>1, <1>2 DEF Live, BankOf, RegsType
<1>6. xat = "run" => Resumed /\ OfThread(cur_thread, cpu.cpsr)
  BY <1>1, <1>2, <1>5 DEF Resumed, OfThread, ExceptionsInit, AnyThread
<1> QED
  BY <1>4, <1>6 DEF ExGood, Installed, Waiting, SchedulerSaved, ExceptionsInit, AnyThread

\* A line of the interrupt controller changes no register.
LEMMA RaiseGood == ExGood /\ RaiseLine => ExInv'
<1> SUFFICES ASSUME ExGood, RaiseLine PROVE ExGood'
  BY DEF ExInv
<1>1. /\ UNCHANGED <<cpu, bank, spsr, frame, kind, enabled, vbar, hooks, xat, ipc, cur_thread, th, was>>
      /\ raised \subseteq raised'
  BY DEF RaiseLine, cpuregs
<1>2. ExTypeOK' /\ Installed' /\ Waiting' /\ SchedulerSaved'
  BY <1>1 DEF ExGood, ExTypeOK, Installed, Waiting, SchedulerSaved
<1>3. (Resumed <=> Resumed') /\ (ToGoOn <=> ToGoOn') /\ (Taken => Taken')
  <2>1. Live' = Live /\ Interrupted' = Interrupted /\ Patched' = Patched
    BY <1>1 DEF Live, Interrupted, Patched, fixup_regs
  <2> QED
    BY <1>1, <2>1 DEF Resumed, Taken, ToGoOn
<1> QED
  BY <1>1, <1>2, <1>3 DEF ExGood

\* The steps of the main program that install vectors and handlers, and turn
\* interrupts on: no registers but the interrupt flag, which is set already.
LEMMA InstallGood ==
  ASSUME ExGood, InMain,
         UNCHANGED <<bank, spsr, frame, kind, cur_thread, th, was>>, cpu' \in {cpu, cpsr_int_disable},
         Installed', xat' \in {"run", "panic"}, enabled' \subseteq {"timer", "irq1"},
         ipc' \in {0, 1, 2, 3, 5}
  PROVE  ExInv'
<1>1. cpu' = cpu
  <2>1. cpu \in [r0 : Int, pc : Int, cpsr : CpsrType] /\ cpu.cpsr.i
    BY DEF ExGood, ExTypeOK, InMain, OfThread
  <2>2. cpu.cpsr \in CpsrType
    BY <2>1
  <2>3. [cpu.cpsr EXCEPT !.i = TRUE] = cpu.cpsr
    BY <2>1, <2>2 DEF CpsrType
  <2>4. cpsr_int_disable = [cpu EXCEPT !.cpsr = [cpu.cpsr EXCEPT !.i = TRUE]]
    BY <2>1 DEF cpsr_int_disable
  <2>5. [cpu EXCEPT !.cpsr = cpu.cpsr] = cpu
    BY <2>1
  <2>6. cpsr_int_disable = cpu
    BY <2>3, <2>4, <2>5
  <2> QED
    BY <2>6
<1>2. Live' = Live
  BY <1>1 DEF Live
<1> SUFFICES ASSUME xat' = "run" PROVE ExGood'
  BY DEF ExInv
<1>3. ExTypeOK' /\ Waiting' /\ SchedulerSaved'
  BY <1>1 DEF ExGood, ExTypeOK, Waiting, SchedulerSaved, InMain
<1>4. Resumed' /\ OfThread(cur_thread, cpu.cpsr)'
  BY <1>1, <1>2 DEF ExGood, Resumed, InMain
<1> QED
  BY <1>3, <1>4 DEF ExGood

\* Nobody is interrupted while the table and the handlers are installed.
LEMMA InstallsGood ==
  ExGood /\ (SetVector \/ SetHandler \/ set_all_interrupts_off \/ timer_interrupt_init
             \/ int_vec_init \/ pre_init_handlers) => ExInv'
<1> SUFFICES ASSUME ExGood PROVE (SetVector \/ SetHandler \/ set_all_interrupts_off
                                  \/ timer_interrupt_init \/ int_vec_init \/ pre_init_handlers) => ExInv'
  OBVIOUS
<1> USE DEF cpuregs, irqs
<1>0. Installed /\ ipc \in {0, 1, 2, 3, 5} /\ enabled \subseteq {"timer", "irq1"}
  BY DEF ExGood, ExTypeOK
<1>1. CASE SetVector
  <2>1. /\ InMain /\ ipc = 0 /\ xat' \in {"run", "panic"}
        /\ UNCHANGED <<cpu, bank, spsr, frame, kind, cur_thread, th, was, ipc, enabled, hooks>>
    BY <1>1 DEF SetVector, MainCall, full_except_install, vector_base_set, vector_base_reset, PanicUnless
  <2>2. Installed'
    BY <2>1, <1>0 DEF Installed
  <2> QED
    BY <2>1, <2>2, <1>0, InstallGood
<1>2. CASE SetHandler
  <2>1. /\ InMain /\ UNCHANGED <<cpu, bank, spsr, frame, kind, cur_thread, th, was, ipc, enabled, xat, vbar>>
    BY <1>2 DEF SetHandler, MainCall
  <2>2. /\ "interrupt" \in hooks => "interrupt" \in hooks'
        /\ ipc = 5 /\ "syscall" \in hooks => "syscall" \in hooks'
    BY <1>2 DEF SetHandler
  <2>3. Installed'
    BY <2>1, <2>2, <1>0 DEF Installed
  <2>4. xat' \in {"run", "panic"}
    BY <2>1 DEF InMain
  <2> QED
    BY <2>1, <2>3, <2>4, <1>0, InstallGood
<1>3. CASE set_all_interrupts_off
  <2>1. /\ InMain /\ UNCHANGED <<bank, spsr, frame, kind, cur_thread, th, was, ipc, xat, vbar, hooks>>
        /\ cpu' = cpsr_int_disable /\ enabled' = enabled \ {"irq1"}
    BY <1>3 DEF set_all_interrupts_off, MainCall, bcm_set_interrupts_off
  <2>3. Installed'
    BY <2>1, <1>0 DEF Installed
  <2>4. xat' \in {"run", "panic"}
    BY <2>1 DEF InMain
  <2> QED
    BY <2>1, <2>3, <2>4, <1>0, InstallGood
<1>4. CASE timer_interrupt_init
  <2>1. /\ InMain /\ ipc = 0 /\ ipc' = 1
        /\ UNCHANGED <<cpu, bank, spsr, frame, kind, cur_thread, th, was, xat, vbar, hooks>>
        /\ enabled' = enabled \cup {"timer"}
    BY <1>4 DEF timer_interrupt_init, MainCall
  <2>3. Installed'
    BY <2>1, <1>0 DEF Installed
  <2>4. xat' \in {"run", "panic"}
    BY <2>1 DEF InMain
  <2> QED
    BY <2>1, <2>3, <2>4, <1>0, InstallGood
<1>5. CASE int_vec_init
  <2>1. /\ InMain /\ ipc = 1 /\ ipc' = 2
        /\ UNCHANGED <<bank, spsr, frame, kind, cur_thread, th, was, hooks>>
        /\ cpu' = cpsr_int_disable /\ enabled' = enabled \ {"irq1"}
    BY <1>5 DEF int_vec_init
  <2>2. xat' = IF vbar \in {0, full_except_ints} THEN "run" ELSE "panic"
    BY <1>5 DEF int_vec_init, vector_base_set, vector_base_chk, PanicUnless, full_except_ints
  <2>3. vbar \in {0, full_except_ints} => vbar' = full_except_ints
    BY <1>5 DEF int_vec_init, vector_base_set, vector_base_chk, full_except_ints
  <2>4. xat' = "run" => Installed'
    BY <2>1, <2>2, <2>3, <1>0 DEF Installed
  <2>5. CASE xat' = "run"
    BY <2>1, <2>4, <2>5, <1>0, InstallGood
  <2> QED
    BY <2>2, <2>5 DEF ExInv
<1>6. CASE pre_init_handlers
  <2>1. /\ InMain /\ ipc \in {2, 3} /\ ipc' = IF ipc = 2 THEN 3 ELSE 5
        /\ UNCHANGED <<cpu, bank, spsr, frame, kind, cur_thread, th, was, xat, vbar, enabled>>
        /\ hooks' = hooks \cup {IF ipc = 2 THEN "interrupt" ELSE "syscall"}
    BY <1>6 DEF pre_init_handlers
  <2>3. Installed'
    BY <2>1, <1>0 DEF Installed
  <2>4. xat' \in {"run", "panic"}
    BY <2>1 DEF InMain
  <2> QED
    BY <2>1, <2>3, <2>4, <1>0, InstallGood
<1> QED
  BY <1>1, <1>2, <1>3, <1>4, <1>5, <1>6

\* BankOf picks a bank of the processor.
LEMMA BankType == ASSUME NEW m \in {"USER", "SUPER", "SYS", "ABORT", "IRQ"}
                  PROVE  BankOf(m) \in {"USER", "SUPER", "ABORT", "IRQ"}
BY DEF BankOf

\* What runs are registers.
LEMMA LiveType ==
  ASSUME ExTypeOK, OfThread(cur_thread, cpu.cpsr)
  PROVE  Live \in RegsType /\ Live.cpsr = cpu.cpsr /\ cpu.cpsr \in CpsrType
<1>1. BankOf(cpu.cpsr.mode) \in {"USER", "SUPER", "ABORT", "IRQ"}
  BY BankType DEF OfThread
<1>2. cpu.cpsr \in CpsrType /\ cpu.r0 \in Int /\ cpu.pc \in Int
  BY DEF ExTypeOK
<1>3. bank[BankOf(cpu.cpsr.mode)] \in [sp : Int, lr : Int]
  BY <1>1 DEF ExTypeOK
<1> QED
  BY <1>2, <1>3 DEF Live, RegsType

\* Load and switchto: the registers r are in the processor, and no bank lacks
\* its registers.
Loaded(r) ==
  /\ cpu' = [r0 |-> r.r0, pc |-> r.pc, cpsr |-> r.cpsr]
  /\ bank' \in [{"USER", "SUPER", "ABORT", "IRQ"} -> [sp : Int, lr : Int]]
  /\ bank'[BankOf(r.cpsr.mode)] = [sp |-> r.sp, lr |-> r.lr]

\* Load leaves the registers it was given, and the banks of the other modes.
LEMMA LoadLoads ==
  ASSUME ExTypeOK, NEW r \in RegsType, BankOf(r.cpsr.mode) \in {"USER", "SUPER", "ABORT", "IRQ"}, Load(r)
  PROVE  Loaded(r)
<1>1. r.sp \in Int /\ r.lr \in Int
  BY DEF RegsType
<1>2. bank \in [{"USER", "SUPER", "ABORT", "IRQ"} -> [sp : Int, lr : Int]]
  BY DEF ExTypeOK
<1>3. [sp |-> r.sp, lr |-> r.lr] \in [sp : Int, lr : Int]
  BY <1>1
<1> QED
  BY <1>2, <1>3 DEF Load, Loaded

\* So does switchto, whatever else it uses on the way.
LEMMA SwitchLoads ==
  ASSUME ExTypeOK, NEW r \in RegsType, BankOf(r.cpsr.mode) \in {"USER", "SUPER", "ABORT", "IRQ"}, switchto(r)
  PROVE  Loaded(r) /\ spsr' \in CpsrType /\ frame' \in RegsType
<1>1. r.sp \in Int /\ r.lr \in Int
  BY DEF RegsType
<1>2. bank \in [{"USER", "SUPER", "ABORT", "IRQ"} -> [sp : Int, lr : Int]]
  BY DEF ExTypeOK
<1>3. /\ [sp |-> r.sp, lr |-> r.lr] \in [sp : Int, lr : Int]
      /\ [sp |-> 0, lr |-> 0] \in [sp : Int, lr : Int]
  BY <1>1
<1>4. Loaded(r)
  BY <1>2, <1>3 DEF switchto, Loaded
<1>5. spsr' \in CpsrType /\ frame' \in RegsType
  BY DEF switchto, NoRegs, CpsrType, RegsType
<1> QED
  BY <1>4, <1>5

\* They run then, and are the live registers.
LEMMA LoadedIsLive ==
  ASSUME NEW r \in RegsType, Loaded(r)
  PROVE  /\ Live' = r /\ cpu'.cpsr = r.cpsr
         /\ cpu' \in [r0 : Int, pc : Int, cpsr : CpsrType]
<1>1. /\ r.r0 \in Int /\ r.pc \in Int /\ r.cpsr \in CpsrType
      /\ r = [r0 |-> r.r0, sp |-> r.sp, lr |-> r.lr, pc |-> r.pc, cpsr |-> r.cpsr]
  BY DEF RegsType
<1>2. cpu' = [r0 |-> r.r0, pc |-> r.pc, cpsr |-> r.cpsr]
  BY DEF Loaded
<1>3. Live' = [r0 |-> r.r0, pc |-> r.pc, cpsr |-> r.cpsr, sp |-> r.sp, lr |-> r.lr]
  BY <1>2 DEF Live, Loaded
<1> QED
  BY <1>1, <1>2, <1>3

\* The running code goes on at registers of its own.
LEMMA GoesOn ==
  ASSUME ExGood, xat = "run", cur_thread = Main => th[Main] = NoRegs,
         NEW r \in RegsType, OfThread(cur_thread, r.cpsr), Loaded(r), was' = [was EXCEPT ![cur_thread] = r],
         UNCHANGED <<spsr, frame, enabled, vbar, hooks, xat, kind, ipc, cur_thread, th>>
  PROVE  ExInv'
<1>1. ExTypeOK /\ cur_thread \in AnyThread
  BY DEF ExGood, ExTypeOK
<1>2. Live' = r /\ cpu'.cpsr = r.cpsr /\ cpu' \in [r0 : Int, pc : Int, cpsr : CpsrType]
  BY LoadedIsLive
<1>3. ExTypeOK'
  BY <1>1, <1>2 DEF ExTypeOK, Loaded
<1>4. was'[cur_thread] = r /\ \A t \in AnyThread \ {cur_thread} : was'[t] = was[t]
  BY <1>1 DEF ExTypeOK
<1>5. Waiting' /\ Installed'
  BY <1>4 DEF ExGood, Waiting, Installed, AnyThread
<1>6. SchedulerSaved'
  BY <1>1, <1>4 DEF ExGood, SchedulerSaved, AnyThread
<1>7. Resumed' /\ OfThread(cur_thread, cpu.cpsr)'
  BY <1>2, <1>4 DEF Resumed, OfThread
<1> QED
  BY <1>3, <1>5, <1>6, <1>7 DEF ExGood, ExInv

\* Code that runs moves on in its own registers.
LEMMA WorkGood == ExGood /\ Work => ExInv'
<1> SUFFICES ASSUME ExGood, Work PROVE ExInv'
  OBVIOUS
<1>1. /\ xat = "run" /\ (cur_thread = Main => th[Main] = NoRegs)
      /\ UNCHANGED <<spsr, frame, enabled, vbar, hooks, xat, kind, ipc, cur_thread, th>>
  BY DEF Work, irqs
<1>2. PICK k \in 1 .. 2 : /\ Load(Place(cur_thread, k, cpu.cpsr))
                          /\ was' = [was EXCEPT ![cur_thread] = Place(cur_thread, k, cpu.cpsr)]
  BY DEF Work
<1> DEFINE r == Place(cur_thread, k, cpu.cpsr)
<1>3. ExTypeOK /\ cur_thread \in AnyThread /\ OfThread(cur_thread, cpu.cpsr)
  BY <1>1 DEF ExGood, ExTypeOK
<1>4. cpu.cpsr \in CpsrType
  BY <1>3 DEF ExTypeOK
<1>5. r \in RegsType /\ r.cpsr.mode = cpu.cpsr.mode /\ r.cpsr.i = cpu.cpsr.i
  <2>1. k \in {1, 2}
    OBVIOUS
  <2> QED
    BY <1>3, <1>4, <2>1, PlaceType
<1> HIDE DEF r
<1>6. OfThread(cur_thread, r.cpsr)
  BY <1>3, <1>5 DEF OfThread
<1>7. BankOf(r.cpsr.mode) \in {"USER", "SUPER", "ABORT", "IRQ"}
  BY <1>6, BankType DEF OfThread
<1>8. Loaded(r)
  BY <1>2, <1>3, <1>5, <1>7, LoadLoads DEF r
<1>9. was' = [was EXCEPT ![cur_thread] = r]
  BY <1>2 DEF r
<1> QED
  BY <1>1, <1>5, <1>6, <1>8, <1>9, GoesOn

\* Nobody is interrupted when the main program changes its mode.
LEMMA ModeGood == ExGood /\ ChangeMode => ExInv'
<1> SUFFICES ASSUME ExGood, ChangeMode PROVE ExInv'
  OBVIOUS
<1>1. /\ xat = "run" /\ cur_thread = Main /\ th[Main] = NoRegs
      /\ UNCHANGED <<spsr, frame, enabled, vbar, hooks, xat, kind, ipc, cur_thread, th>>
  BY DEF ChangeMode, MainCall, InMain, irqs
<1> DEFINE mode == IF cpu.cpsr.mode = "SUPER" THEN "SYS" ELSE "SUPER"
           s == mode_set(cpu.cpsr, mode)
           r == Place(Main, 1, s)
<1>2. Load(r) /\ was' = [was EXCEPT ![Main] = r]
  BY DEF ChangeMode
<1>3. ExTypeOK /\ cur_thread \in AnyThread /\ OfThread(cur_thread, cpu.cpsr)
  BY <1>1 DEF ExGood, ExTypeOK
<1>4. s \in CpsrType /\ s.mode \in {"SUPER", "SYS"} /\ s.i
  <2>1. cpu.cpsr \in CpsrType /\ cpu.cpsr.i /\ mode \in {"SUPER", "SYS"}
    BY <1>1, <1>3 DEF ExTypeOK, OfThread
  <2> HIDE DEF mode
  <2> QED
    BY <2>1 DEF mode_set, CpsrType
<1> HIDE DEF s
<1>5. r \in RegsType /\ r.cpsr.mode = s.mode /\ r.cpsr.i = s.i
  BY <1>4, PlaceType DEF AnyThread
<1> HIDE DEF r
<1>6. OfThread(cur_thread, r.cpsr)
  BY <1>1, <1>4, <1>5 DEF OfThread
<1>7. BankOf(r.cpsr.mode) \in {"USER", "SUPER", "ABORT", "IRQ"}
  BY <1>6, BankType DEF OfThread
<1>8. Loaded(r)
  BY <1>2, <1>3, <1>5, <1>7, LoadLoads
<1>9. was' = [was EXCEPT ![cur_thread] = r]
  BY <1>1, <1>2
<1> QED
  BY <1>1, <1>5, <1>6, <1>8, <1>9, GoesOn

\* The setters of cpsr (cpsr-util.h) change their own field only.
LEMMA CpsrFields ==
  ASSUME NEW s \in CpsrType, NEW b \in BOOLEAN, NEW m \in {"USER", "SUPER", "SYS", "ABORT", "IRQ", "none"}
  PROVE  /\ [s EXCEPT !.c = b] = [mode |-> s.mode, i |-> s.i, c |-> b]
         /\ [s EXCEPT !.i = b] = [mode |-> s.mode, i |-> b, c |-> s.c]
         /\ [s EXCEPT !.mode = m] = [mode |-> m, i |-> s.i, c |-> s.c]
BY DEF CpsrType

\* What cswitchto_user_asm saves of the scheduler and what it goes on with.
LEMMA SchedulerRegs ==
  ASSUME NEW r \in RegsType
  PROVE  /\ [r EXCEPT !.r0 = 0, !.pc = r.lr] \in RegsType
         /\ [r EXCEPT !.pc = r.lr] \in RegsType
         /\ [r EXCEPT !.r0 = 0, !.pc = r.lr] = [[r EXCEPT !.pc = r.lr] EXCEPT !.r0 = 0]
         /\ [r EXCEPT !.r0 = 0, !.pc = r.lr].cpsr = r.cpsr
<1>1. /\ r = [r0 |-> r.r0, sp |-> r.sp, lr |-> r.lr, pc |-> r.pc, cpsr |-> r.cpsr]
      /\ r.r0 \in Int /\ r.sp \in Int /\ r.lr \in Int /\ r.cpsr \in CpsrType
  BY DEF RegsType
<1>2. [r EXCEPT !.pc = r.lr] = [r0 |-> r.r0, sp |-> r.sp, lr |-> r.lr, pc |-> r.lr, cpsr |-> r.cpsr]
  BY <1>1
<1>3. [r EXCEPT !.r0 = 0] = [r0 |-> 0, sp |-> r.sp, lr |-> r.lr, pc |-> r.pc, cpsr |-> r.cpsr]
  BY <1>1
<1> DEFINE x == [r EXCEPT !.r0 = 0]
           y == [r EXCEPT !.pc = r.lr]
           z == [r EXCEPT !.r0 = 0, !.pc = r.lr]
<1>4. z = [x EXCEPT !.pc = r.lr]
  OBVIOUS
<1> HIDE DEF x, y, z
<1>5. z = [r0 |-> 0, sp |-> r.sp, lr |-> r.lr, pc |-> r.lr, cpsr |-> r.cpsr]
  BY <1>3, <1>4 DEF x
<1>6. y = [r0 |-> r.r0, sp |-> r.sp, lr |-> r.lr, pc |-> r.lr, cpsr |-> r.cpsr]
  BY <1>2 DEF y
<1>7. z \in RegsType /\ y \in RegsType /\ z = [y EXCEPT !.r0 = 0] /\ z.cpsr = r.cpsr
  BY <1>1, <1>5, <1>6 DEF RegsType
<1> QED
  BY <1>7 DEF y, z

\* A forked thread's registers are those regs_init gives it.
LEMMA ForkedRegs ==
  ASSUME NEW t \in ExThreads, cpu.cpsr \in CpsrType
  PROVE  /\ regs_init(t) = Place(t, 1, [mode |-> "USER", i |-> FALSE, c |-> FALSE])
         /\ regs_init(t) \in RegsType
         /\ regs_init(t).cpsr.mode = "USER" /\ ~regs_init(t).cpsr.i
<1> DEFINE u == [mode |-> "USER", i |-> FALSE, c |-> FALSE]
           p == Place(t, 1, NoRegs.cpsr)
<1>1. [cpsr_inherit("USER", cpu.cpsr) EXCEPT !.i = FALSE] = u
  <2> DEFINE s == cpu.cpsr
             s1 == [mode |-> s.mode, i |-> s.i, c |-> FALSE]
             s2 == [mode |-> "USER", i |-> s.i, c |-> FALSE]
  <2>1. s1 \in CpsrType /\ s2 \in CpsrType
    BY DEF CpsrType
  <2>2. cpsr_clear_carry(s) = s1
    BY CpsrFields DEF cpsr_clear_carry
  <2>3. cpsr_inherit("USER", s) = s2
    <3>1. [s1 EXCEPT !.mode = "USER"] = [mode |-> "USER", i |-> s1.i, c |-> s1.c]
      BY <2>1, CpsrFields
    <3> QED
      BY <2>2, <3>1 DEF cpsr_inherit, mode_set
  <2>4. [s2 EXCEPT !.i = FALSE] = [mode |-> s2.mode, i |-> FALSE, c |-> s2.c]
    BY <2>1, CpsrFields
  <2> QED
    BY <2>3, <2>4
<1>2. regs_init(t) = [p EXCEPT !.cpsr = u]
  BY <1>1 DEF regs_init
<1>3. [u EXCEPT !.c = (1 = 2)] = u
  <2> DEFINE b == (1 = 2)
  <2>1. b = FALSE /\ b \in BOOLEAN
    OBVIOUS
  <2> HIDE DEF b
  <2>2. [u EXCEPT !.c = b] = [mode |-> u.mode, i |-> u.i, c |-> b]
    <3>1. u \in CpsrType
      BY DEF CpsrType
    <3> QED
      BY <2>1, <3>1, CpsrFields
  <2> QED
    BY <2>1, <2>2 DEF b
<1>4. Place(t, 1, u) = [r0 |-> 0, sp |-> 1000 * t + 10 - 1, lr |-> 100 * t + 50 + 1,
                        pc |-> 100 * t + 8 * 1, cpsr |-> u]
  BY <1>3 DEF Place
<1>5. [p EXCEPT !.cpsr = u] = [r0 |-> 0, sp |-> 1000 * t + 10 - 1, lr |-> 100 * t + 50 + 1,
                               pc |-> 100 * t + 8 * 1, cpsr |-> u]
  <2> DEFINE x == [NoRegs.cpsr EXCEPT !.c = (1 = 2)]
  <2>1. p = [r0 |-> 0, sp |-> 1000 * t + 10 - 1, lr |-> 100 * t + 50 + 1,
             pc |-> 100 * t + 8 * 1, cpsr |-> x]
    BY DEF Place
  <2> HIDE DEF x, u, p
  <2> QED
    BY <2>1
<1>6. regs_init(t) = Place(t, 1, u)
  BY <1>2, <1>4, <1>5
<1>7. t \in AnyThread /\ u \in CpsrType
  BY DEF AnyThread, CpsrType
<1>8. u.mode = "USER" /\ u.i = FALSE
  OBVIOUS
<1> HIDE DEF u
<1> QED
  BY <1>6, <1>7, <1>8, PlaceType DEF u

\* A new thread is at its first instruction.
LEMMA ForkGood == ExGood /\ pre_fork => ExInv'
<1> SUFFICES ASSUME ExGood, pre_fork PROVE ExGood'
  BY DEF ExInv
<1> DEFINE u == [mode |-> "USER", i |-> FALSE, c |-> FALSE]
<1>1. PICK t \in ExThreads :
        /\ th[t] = NoRegs
        /\ th' = [th EXCEPT ![t] = regs_init(t)]
        /\ was' = [was EXCEPT ![t] = Place(t, 1, u)]
  BY DEF pre_fork
<1>2. /\ xat = "run" /\ cur_thread = Main /\ ipc = 5 /\ th[Main] = NoRegs
      /\ UNCHANGED <<cpu, bank, spsr, frame, kind, enabled, raised, vbar, hooks, xat, ipc, cur_thread>>
  BY DEF pre_fork, InMain, irqs, cpuregs
<1>3. ExTypeOK /\ cpu.cpsr \in CpsrType /\ t # Main /\ t \in AnyThread
  BY ThreadsNumbered DEF ExGood, ExTypeOK, AnyThread, Main
<1> DEFINE r == regs_init(t)
<1>4. r = Place(t, 1, u) /\ r \in RegsType /\ r.cpsr.mode = "USER" /\ ~r.cpsr.i
  BY <1>3, ForkedRegs
<1> HIDE DEF r, u
<1>5. th' = [th EXCEPT ![t] = r] /\ was' = [was EXCEPT ![t] = r]
  BY <1>1, <1>4 DEF r
<1>6. ExTypeOK'
  BY <1>2, <1>3, <1>4, <1>5 DEF ExTypeOK
<1>7. /\ th'[t] = r /\ was'[t] = r
      /\ \A v \in AnyThread \ {t} : th'[v] = th[v] /\ was'[v] = was[v]
  BY <1>3, <1>5 DEF ExTypeOK
<1>8. Installed' /\ SchedulerSaved'
  BY <1>2, <1>3, <1>7 DEF ExGood, Installed, SchedulerSaved, AnyThread
<1>9. Waiting'
  BY <1>2, <1>3, <1>4, <1>7 DEF ExGood, Waiting, OfThread, AnyThread
<1>10. Resumed' /\ OfThread(cur_thread, cpu.cpsr)'
  <2>1. Live' = Live
    BY <1>2 DEF Live
  <2> QED
    BY <1>2, <1>3, <1>7, <2>1 DEF ExGood, Resumed, OfThread, AnyThread
<1> QED
  BY <1>2, <1>6, <1>8, <1>9, <1>10 DEF ExGood

\* The scheduler switches to a thread that waits.
LEMMA DispatchGood == ExGood /\ Dispatch => ExInv'
<1> SUFFICES ASSUME ExGood, Dispatch PROVE ExGood'
  BY DEF ExInv
<1>1. PICK t \in ExThreads :
       /\ th[t] # NoRegs
       /\ cur_thread' = t
       /\ switchto(th[t])
       /\ IF th[Main] = NoRegs
          THEN /\ th' = [th EXCEPT ![Main] = [Live EXCEPT !.r0 = 0, !.pc = Live.lr]]
               /\ was' = [was EXCEPT ![Main] = [Live EXCEPT !.pc = Live.lr]]
          ELSE UNCHANGED <<th, was>>
  BY DEF Dispatch
<1>2. /\ xat = "run" /\ cur_thread = Main /\ cpu.cpsr.mode = "SUPER"
      /\ UNCHANGED <<enabled, raised, vbar, hooks, xat, ipc>>
  BY DEF Dispatch, irqs
<1>3. ExTypeOK /\ OfThread(Main, cpu.cpsr) /\ t # Main /\ t \in AnyThread /\ Main \in AnyThread
  BY <1>2, ThreadsNumbered DEF ExGood, AnyThread, Main
<1>4. th[t] = was[t] /\ OfThread(t, th[t].cpsr) /\ th[t] \in RegsType
  BY <1>1, <1>2, <1>3 DEF ExGood, Waiting, ExTypeOK
<1>5. Live \in RegsType /\ Live.cpsr = cpu.cpsr
  BY <1>2, <1>3, LiveType
<1>6. Loaded(th[t]) /\ spsr' \in CpsrType /\ frame' \in RegsType
  <2>1. BankOf(th[t].cpsr.mode) \in {"USER", "SUPER", "ABORT", "IRQ"}
    BY <1>3, <1>4, BankType DEF OfThread
  <2> QED
    BY <1>1, <1>3, <1>4, <2>1, SwitchLoads
<1>7. Live' = th[t] /\ cpu'.cpsr = th[t].cpsr /\ cpu' \in [r0 : Int, pc : Int, cpsr : CpsrType]
  BY <1>4, <1>6, LoadedIsLive
<1> DEFINE saved == [Live EXCEPT !.r0 = 0, !.pc = Live.lr]
           goes == [Live EXCEPT !.pc = Live.lr]
<1>8. /\ saved \in RegsType /\ goes \in RegsType /\ saved = [goes EXCEPT !.r0 = 0]
      /\ saved.cpsr = cpu.cpsr
  BY <1>5, SchedulerRegs
<1>9. /\ th' = [th EXCEPT ![Main] = th'[Main]] /\ was' = [was EXCEPT ![Main] = was'[Main]]
      /\ th'[Main] \in RegsType /\ was'[Main] \in RegsType
      /\ th'[Main] = [was'[Main] EXCEPT !.r0 = 0]
      /\ th'[Main].cpsr.mode = "SUPER" /\ th'[Main].cpsr.i
  <2>1. CASE th[Main] = NoRegs
    <3>1. th' = [th EXCEPT ![Main] = saved] /\ was' = [was EXCEPT ![Main] = goes]
      BY <1>1, <2>1
    <3> HIDE DEF saved, goes
    <3>2. th'[Main] = saved /\ was'[Main] = goes
      BY <1>3, <3>1 DEF ExTypeOK
    <3> QED
      BY <1>2, <1>3, <1>8, <3>1, <3>2 DEF OfThread
  <2>2. CASE th[Main] # NoRegs
    BY <1>1, <1>2, <1>3, <2>2 DEF ExGood, SchedulerSaved, ExTypeOK
  <2> QED
    BY <2>1, <2>2
<1>10. th'[Main] # NoRegs
  BY <1>9 DEF NoRegs
<1>11. \A v \in AnyThread \ {Main} : th'[v] = th[v] /\ was'[v] = was[v]
  BY <1>3, <1>9 DEF ExTypeOK
<1>12. ExTypeOK'
  BY <1>1, <1>2, <1>3, <1>6, <1>7, <1>9 DEF ExTypeOK, Loaded
<1>13. Installed' /\ SchedulerSaved'
  BY <1>1, <1>2, <1>3, <1>9, <1>10, <1>11 DEF ExGood, Installed, SchedulerSaved, AnyThread
<1>14. Waiting'
  <2>1. Waiting /\ Main \notin ExThreads
    BY ThreadsNumbered DEF ExGood, Main
  <2> SUFFICES ASSUME NEW v \in ExThreads, v # t, th'[v] # NoRegs
               PROVE  th'[v] = was'[v] /\ OfThread(v, th'[v].cpsr)
    BY <1>1 DEF Waiting, OfThread
  <2>2. th'[v] = th[v] /\ was'[v] = was[v]
    BY <1>11, <2>1 DEF AnyThread
  <2> QED
    BY <1>2, <2>1, <2>2 DEF Waiting
<1>15. Resumed' /\ OfThread(cur_thread, cpu.cpsr)'
  BY <1>1, <1>3, <1>4, <1>7, <1>11 DEF Resumed, OfThread
<1> QED
  BY <1>2, <1>12, <1>13, <1>14, <1>15 DEF ExGood

\* What the handlers and fixup_regs change of a set of registers.
LEMMA RegsFields ==
  ASSUME NEW r \in RegsType, NEW a \in Int, NEW b \in Int
  PROVE  /\ [r EXCEPT !.r0 = a] = [r0 |-> a, sp |-> r.sp, lr |-> r.lr, pc |-> r.pc, cpsr |-> r.cpsr]
         /\ [r EXCEPT !.pc = @ - 4] = [r0 |-> r.r0, sp |-> r.sp, lr |-> r.lr, pc |-> r.pc - 4, cpsr |-> r.cpsr]
         /\ [r EXCEPT !.sp = a, !.lr = b] = [r0 |-> r.r0, sp |-> a, lr |-> b, pc |-> r.pc, cpsr |-> r.cpsr]
         /\ [r EXCEPT !.pc = @ + 4, !.r0 = a] =
              [r0 |-> a, sp |-> r.sp, lr |-> r.lr, pc |-> r.pc + 4, cpsr |-> r.cpsr]
<1>1. /\ r = [r0 |-> r.r0, sp |-> r.sp, lr |-> r.lr, pc |-> r.pc, cpsr |-> r.cpsr]
      /\ r.pc \in Int
  BY DEF RegsType
<1>2. [r EXCEPT !.r0 = a] = [r0 |-> a, sp |-> r.sp, lr |-> r.lr, pc |-> r.pc, cpsr |-> r.cpsr]
  BY <1>1
<1> DEFINE down == r.pc - 4
           up == r.pc + 4
<1>3. [r EXCEPT !.pc = @ - 4] = [r EXCEPT !.pc = down] /\ [r EXCEPT !.pc = @ + 4] = [r EXCEPT !.pc = up]
  BY <1>1
<1> HIDE DEF down, up
<1>4. /\ [r EXCEPT !.pc = down] = [r0 |-> r.r0, sp |-> r.sp, lr |-> r.lr, pc |-> down, cpsr |-> r.cpsr]
      /\ [r EXCEPT !.pc = up] = [r0 |-> r.r0, sp |-> r.sp, lr |-> r.lr, pc |-> up, cpsr |-> r.cpsr]
  BY <1>1
<1> DEFINE x == [r EXCEPT !.sp = a]
           y == [r EXCEPT !.pc = @ + 4]
           z == [r EXCEPT !.sp = a, !.lr = b]
           w == [r EXCEPT !.pc = @ + 4, !.r0 = a]
<1>5. z = [x EXCEPT !.lr = b] /\ w = [y EXCEPT !.r0 = a]
  OBVIOUS
<1>6. x = [r0 |-> r.r0, sp |-> a, lr |-> r.lr, pc |-> r.pc, cpsr |-> r.cpsr]
  BY <1>1
<1>7. y = [r0 |-> r.r0, sp |-> r.sp, lr |-> r.lr, pc |-> up, cpsr |-> r.cpsr]
  BY <1>3, <1>4
<1> HIDE DEF x, y, z, w
<1>8. z = [r0 |-> r.r0, sp |-> a, lr |-> b, pc |-> r.pc, cpsr |-> r.cpsr]
  BY <1>5, <1>6
<1>9. w = [r0 |-> a, sp |-> r.sp, lr |-> r.lr, pc |-> up, cpsr |-> r.cpsr]
  BY <1>5, <1>7
<1> QED
  BY <1>2, <1>3, <1>4, <1>8, <1>9 DEF z, w, up, down

\* The modes exceptions are taken in have banks of their own.
LEMMA Modes ==
  ASSUME NEW k \in {"prefetch", "data", "syscall", "interrupt"}
  PROVE  /\ ModeOf[k] \in {"USER", "SUPER", "ABORT", "IRQ"}
         /\ ModeOf[k] # "USER" /\ (ModeOf[k] = "SUPER" => k = "syscall")
         /\ LrAhead[k] \in Int /\ Behind[k] \in Int
         /\ k \in {"prefetch", "data"} => LrAhead[k] = Behind[k]
         /\ k \in {"syscall", "interrupt"} => LrAhead[k] = 4 /\ Behind[k] = 0
<1>1. CASE k = "prefetch"
  BY <1>1 DEF ModeOf, LrAhead, Behind
<1>2. CASE k = "data"
  BY <1>2 DEF ModeOf, LrAhead, Behind
<1>3. CASE k = "syscall"
  BY <1>3 DEF ModeOf, LrAhead, Behind
<1>4. CASE k = "interrupt"
  BY <1>4 DEF ModeOf, LrAhead, Behind
<1> QED
  BY <1>1, <1>2, <1>3, <1>4

\* An exception is taken: the hardware keeps all of the interrupted registers
\* but those a system call of a privileged mode overwrites.
LEMMA TakeGood ==
  ASSUME ExGood, NEW k \in {"prefetch", "data", "syscall", "interrupt"}, Take(k),
         vbar = full_except_ints,
         k = "interrupt" => cur_thread # Main /\ "timer" \in raised \cap enabled
  PROVE  ExInv'
<1> SUFFICES ExGood'
  BY DEF ExInv
<1>1. /\ xat = "run" /\ kind' = k /\ was' = [was EXCEPT ![cur_thread] = Expected(k)]
      /\ spsr' = cpu.cpsr
      /\ cpu' = [cpu EXCEPT !.cpsr = [mode |-> ModeOf[k], i |-> TRUE, c |-> @.c]]
      /\ bank' = [bank EXCEPT ![ModeOf[k]].lr = cpu.pc + LrAhead[k]]
      /\ xat' = "vector"
      /\ UNCHANGED <<frame, enabled, raised, vbar, hooks, ipc, cur_thread, th>>
  BY DEF Take, irqs
<1>2. /\ ExTypeOK /\ OfThread(cur_thread, cpu.cpsr) /\ Resumed /\ Waiting /\ SchedulerSaved /\ Installed
      /\ cur_thread \in AnyThread
  BY <1>1 DEF ExGood, ExTypeOK
<1>3. Live \in RegsType /\ cpu.cpsr \in CpsrType
  BY <1>2, LiveType
<1>4. /\ cpu.r0 \in Int /\ cpu.pc \in Int /\ cpu = [r0 |-> cpu.r0, pc |-> cpu.pc, cpsr |-> cpu.cpsr]
      /\ bank \in [{"USER", "SUPER", "ABORT", "IRQ"} -> [sp : Int, lr : Int]]
  BY <1>2 DEF ExTypeOK
<1> DEFINE mode == ModeOf[k]
           ahead == LrAhead[k]
<1>5. /\ mode \in {"USER", "SUPER", "ABORT", "IRQ"} /\ mode # "USER"
      /\ mode = "SUPER" => k = "syscall"
      /\ ahead \in Int
  BY Modes
<1> HIDE DEF mode, ahead
<1>6. bank' = [bank EXCEPT ![mode] = [sp |-> bank[mode].sp, lr |-> cpu.pc + ahead]]
  <2>1. bank' = [bank EXCEPT ![mode] = [bank[mode] EXCEPT !.lr = cpu.pc + ahead]]
    BY <1>1 DEF mode, ahead
  <2> DEFINE b == bank[mode]
             y == cpu.pc + ahead
  <2>2. b \in [sp : Int, lr : Int]
    BY <1>4, <1>5
  <2> HIDE DEF b, y
  <2>3. [b EXCEPT !.lr = y] = [sp |-> b.sp, lr |-> y]
    BY <2>2
  <2> QED
    BY <2>1, <2>3 DEF b, y
<1>7. /\ bank' \in [{"USER", "SUPER", "ABORT", "IRQ"} -> [sp : Int, lr : Int]]
      /\ bank'[mode].lr = cpu.pc + ahead
      /\ \A m \in {"USER", "SUPER", "ABORT", "IRQ"} \ {mode} : bank'[m] = bank[m]
  BY <1>4, <1>5, <1>6
<1>8. cpu'.r0 = cpu.r0 /\ cpu' \in [r0 : Int, pc : Int, cpsr : CpsrType]
  <2> DEFINE s == [mode |-> mode, i |-> TRUE, c |-> cpu.cpsr.c]
  <2>1. s \in CpsrType
    BY <1>3, <1>5 DEF CpsrType
  <2>2. cpu' = [cpu EXCEPT !.cpsr = s]
    BY <1>1 DEF mode
  <2> HIDE DEF s
  <2>3. cpu' = [r0 |-> cpu.r0, pc |-> cpu.pc, cpsr |-> s]
    BY <1>4, <2>2
  <2> QED
    BY <1>4, <2>1, <2>3
<1>9. Expected(k) \in RegsType
  <2>1. k = "syscall" => Expected(k) = [r0 |-> 1, sp |-> Live.sp, lr |-> Live.lr, pc |-> Live.pc + 4, cpsr |-> Live.cpsr]
    <3> DEFINE r == Live
    <3>1. r \in RegsType /\ 1 \in Int
      BY <1>3
    <3> HIDE DEF r
    <3>2. [r EXCEPT !.pc = @ + 4, !.r0 = 1] =
            [r0 |-> 1, sp |-> r.sp, lr |-> r.lr, pc |-> r.pc + 4, cpsr |-> r.cpsr]
      BY <3>1, RegsFields
    <3> QED
      BY <3>2 DEF Expected, r
  <2>2. Live.sp \in Int /\ Live.lr \in Int /\ Live.pc + 4 \in Int /\ Live.cpsr \in CpsrType
    BY <1>3 DEF RegsType
  <2>3. k # "syscall" => Expected(k) = Live
    BY DEF Expected
  <2> HIDE DEF Expected
  <2> QED
    BY <1>3, <2>1, <2>2, <2>3 DEF RegsType
<1>10. was'[cur_thread] = Expected(k) /\ \A t \in AnyThread \ {cur_thread} : was'[t] = was[t]
  BY <1>1, <1>2 DEF ExTypeOK
<1>11. ExTypeOK'
  <2>1. was' \in [AnyThread -> RegsType]
    BY <1>1, <1>2, <1>9 DEF ExTypeOK
  <2> QED
    BY <1>1, <1>2, <1>3, <1>7, <1>8, <2>1 DEF ExTypeOK
<1>12. Installed' /\ Waiting'
  BY <1>1, <1>2, <1>10 DEF Installed, Waiting, AnyThread
<1>13. SchedulerSaved'
  <2>1. CASE cur_thread # Main
    BY <1>1, <1>2, <1>10, <2>1 DEF SchedulerSaved, AnyThread
  <2>2. CASE cur_thread = Main /\ k # "syscall" /\ th[Main] # NoRegs
    <3>1. was'[Main] = Live
      BY <1>10, <2>2 DEF Expected
    <3>2. was[Main] \in RegsType
      BY <1>2, <2>2 DEF ExTypeOK
    <3> DEFINE w == was[Main]
               r == Live
    <3>3. r = w \/ [r EXCEPT !.r0 = w.r0] = w
      BY <1>2, <2>2 DEF Resumed
    <3>4. w \in RegsType /\ r \in RegsType /\ w.r0 \in Int
      BY <1>3, <3>2 DEF RegsType
    <3> HIDE DEF w, r
    <3>5. /\ [r EXCEPT !.r0 = 0] = [r0 |-> 0, sp |-> r.sp, lr |-> r.lr, pc |-> r.pc, cpsr |-> r.cpsr]
          /\ [w EXCEPT !.r0 = 0] = [r0 |-> 0, sp |-> w.sp, lr |-> w.lr, pc |-> w.pc, cpsr |-> w.cpsr]
          /\ [r EXCEPT !.r0 = w.r0] = [r0 |-> w.r0, sp |-> r.sp, lr |-> r.lr, pc |-> r.pc, cpsr |-> r.cpsr]
      BY <3>4 DEF RegsType
    <3>6. [r EXCEPT !.r0 = 0] = [w EXCEPT !.r0 = 0]
      BY <3>3, <3>5
    <3> QED
      BY <1>1, <1>2, <2>2, <3>1, <3>6 DEF SchedulerSaved, r, w
  <2> QED
    BY <1>1, <2>1, <2>2 DEF SchedulerSaved
<1>14. Taken'
  BY <1>1, <1>2 DEF Taken, OfThread
<1>15. ToGoOn'
  <2>1. CASE k = "syscall" /\ cur_thread = Main
    BY <1>1, <2>1 DEF ToGoOn
  <2>2. CASE ~(k = "syscall" /\ cur_thread = Main)
    <3> DEFINE own == BankOf(cpu.cpsr.mode)
    <3>1. own \in {"USER", "SUPER", "ABORT", "IRQ"} /\ own # mode
      BY <1>2, <1>5, <2>2 DEF OfThread, BankOf
    <3>2. bank'[own] = bank[own]
      BY <1>7, <3>1
    <3>3. bank'[mode].lr - ahead = cpu.pc
      BY <1>4, <1>5, <1>7
    <3>4. Interrupted' = [r0 |-> cpu'.r0, pc |-> bank'[mode].lr - ahead, cpsr |-> cpu.cpsr,
                          sp |-> bank'[own].sp, lr |-> bank'[own].lr]
      BY <1>1 DEF Interrupted, mode, ahead
    <3>5. Interrupted' = Live
      BY <1>8, <3>2, <3>3, <3>4 DEF Live
    <3>6. was'[cur_thread] = IF k = "syscall" THEN [Interrupted' EXCEPT !.pc = @ + 4, !.r0 = 1] ELSE Interrupted'
      BY <1>10, <3>5 DEF Expected
    <3> QED
      BY <1>1, <3>6 DEF ToGoOn
  <2> QED
    BY <2>1, <2>2
<1> QED
  BY <1>1, <1>11, <1>12, <1>13, <1>14, <1>15 DEF ExGood

\* An exception leaves the interrupted registers in the exception's bank and in those of its mode.
LEMMA TakesGood == ExGood /\ (TakeFault \/ TakeInterrupt) => ExInv'
<1> SUFFICES ASSUME ExGood, TakeFault \/ TakeInterrupt PROVE ExInv'
  OBVIOUS
<1>1. CASE TakeFault
  <2>1. PICK k \in {"prefetch", "data"} \cup {x \in {"syscall"} : cpu.r0 = 0} : Take(k)
    BY <1>1 DEF TakeFault
  <2>2. vbar = full_except_ints
    BY <1>1 DEF TakeFault
  <2> QED
    BY <2>1, <2>2, TakeGood
<1>2. CASE TakeInterrupt
  <2>1. ~cpu.cpsr.i /\ raised \cap enabled # {} /\ Take("interrupt") /\ xat = "run"
    BY <1>2 DEF TakeInterrupt, Take
  <2>2. /\ ExTypeOK /\ OfThread(cur_thread, cpu.cpsr) /\ Installed
    BY <2>1 DEF ExGood
  <2>3. cur_thread # Main
    BY <2>1, <2>2 DEF OfThread
  <2>4. ipc = 5 /\ vbar = full_except_ints /\ "irq1" \notin enabled
    BY <2>2, <2>3 DEF Installed, ExTypeOK, AnyThread
  <2>5. "timer" \in raised \cap enabled
    BY <2>1, <2>2, <2>4 DEF ExTypeOK
  <2> QED
    BY <2>1, <2>3, <2>4, <2>5, TakeGood
<1> QED
  BY <1>1, <1>2

\* The trampoline saves the interrupted registers: those of a privileged mode
\* after fixup_regs.
LEMMA TrampolineGood == ExGood /\ Trampoline => ExInv'
<1> SUFFICES ASSUME ExGood, Trampoline PROVE ExGood'
  BY DEF ExInv
<1> DEFINE mode == ModeOf[kind]
           ahead == LrAhead[kind]
           behind == Behind[kind]
           user == bank["USER"]
           b == bank[mode]
<1>1. /\ xat = "vector"
      /\ frame' = [r0 |-> cpu.r0, sp |-> user.sp, lr |-> user.lr, pc |-> b.lr - behind, cpsr |-> spsr]
      /\ bank' = [bank EXCEPT ![mode] = [b EXCEPT !.sp = INT_STACK_ADDR]]
      /\ xat' = "saved"
      /\ UNCHANGED <<cpu, spsr, enabled, raised, vbar, hooks, kind, ipc, cur_thread, th, was>>
  BY DEF Trampoline, irqs
<1>2. ExTypeOK /\ Taken /\ ToGoOn /\ kind \in {"prefetch", "data", "syscall", "interrupt"} /\ OfThread(cur_thread, spsr)
  BY <1>1 DEF ExGood, Taken
<1>3. /\ mode \in {"USER", "SUPER", "ABORT", "IRQ"} /\ mode # "USER"
      /\ mode = "SUPER" => kind = "syscall"
      /\ ahead \in Int /\ behind \in Int
      /\ kind \in {"prefetch", "data"} => ahead = behind
      /\ kind \in {"syscall", "interrupt"} => ahead = 4 /\ behind = 0
  BY <1>2, Modes
<1> HIDE DEF mode, ahead, behind
<1>4. bank \in [{"USER", "SUPER", "ABORT", "IRQ"} -> [sp : Int, lr : Int]]
  BY <1>2 DEF ExTypeOK
<1>5. user \in [sp : Int, lr : Int] /\ b \in [sp : Int, lr : Int] /\ cpu.r0 \in Int /\ spsr \in CpsrType
  BY <1>2, <1>3, <1>4 DEF ExTypeOK
<1>6. [b EXCEPT !.sp = INT_STACK_ADDR] \in [sp : Int, lr : Int]
  <2>1. INT_STACK_ADDR \in Int
    BY DEF INT_STACK_ADDR
  <2> HIDE DEF b
  <2> QED
    BY <1>5, <2>1
<1>7. /\ bank' \in [{"USER", "SUPER", "ABORT", "IRQ"} -> [sp : Int, lr : Int]]
      /\ \A m \in {"USER", "SUPER", "ABORT", "IRQ"} \ {mode} : bank'[m] = bank[m]
  <2> DEFINE x == [b EXCEPT !.sp = INT_STACK_ADDR]
  <2>1. bank' = [bank EXCEPT ![mode] = x]
    BY <1>1
  <2>2. x \in [sp : Int, lr : Int]
    BY <1>6
  <2> HIDE DEF x
  <2> QED
    BY <1>3, <1>4, <2>1, <2>2
<1>8. frame' \in RegsType /\ frame'.cpsr = spsr
  BY <1>1, <1>3, <1>5 DEF RegsType
<1>9. ExTypeOK' /\ Installed' /\ Waiting' /\ SchedulerSaved' /\ Taken'
  BY <1>1, <1>2, <1>7, <1>8 DEF ExGood, ExTypeOK, Installed, Waiting, SchedulerSaved, Taken
<1>10. ToGoOn'
  <2>1. CASE kind = "syscall" /\ cur_thread = Main
    BY <1>1, <2>1 DEF ToGoOn
  <2>2. CASE ~(kind = "syscall" /\ cur_thread = Main)
    <3> DEFINE own == BankOf(spsr.mode)
    <3>1. /\ own \in {"USER", "SUPER", "ABORT", "IRQ"} /\ own # mode
          /\ kind \in {"syscall", "interrupt"} \/ spsr.mode = "USER" => own = "USER"
      BY <1>2, <1>3, <2>2 DEF Taken, OfThread, BankOf
    <3> HIDE DEF own
    <3>2. was[cur_thread] = IF kind = "syscall" THEN [Interrupted EXCEPT !.pc = @ + 4, !.r0 = 1] ELSE Interrupted
      BY <1>1, <1>2, <2>2 DEF ToGoOn
    <3>3. Interrupted = [r0 |-> cpu.r0, pc |-> b.lr - ahead, cpsr |-> spsr,
                         sp |-> bank[own].sp, lr |-> bank[own].lr]
      BY DEF Interrupted, mode, ahead, own
    <3>4. bank[own].sp \in Int /\ bank[own].lr \in Int /\ b.lr \in Int
      BY <1>4, <1>5, <3>1
    <3>5. Interrupted \in RegsType
      BY <1>3, <1>5, <3>3, <3>4 DEF RegsType
    <3>6. was'[cur_thread'] = Patched'
      <4>1. CASE kind = "syscall"
        <5> DEFINE r == Interrupted
                   f == frame'
        <5>1. r \in RegsType /\ f \in RegsType /\ 1 \in Int
          BY <1>8, <3>5
        <5> HIDE DEF r, f
        <5>2. [r EXCEPT !.pc = @ + 4, !.r0 = 1] =
                [r0 |-> 1, sp |-> r.sp, lr |-> r.lr, pc |-> r.pc + 4, cpsr |-> r.cpsr]
          BY <5>1, RegsFields
        <5>3. [f EXCEPT !.r0 = 1] = [r0 |-> 1, sp |-> f.sp, lr |-> f.lr, pc |-> f.pc, cpsr |-> f.cpsr]
          BY <5>1, RegsFields
        <5>4. /\ r.sp = f.sp /\ r.lr = f.lr /\ r.cpsr = f.cpsr
              /\ r.pc = b.lr - 4 /\ f.pc = b.lr - 0
          BY <1>1, <1>3, <3>1, <3>3, <4>1 DEF r, f
        <5>5. r.pc + 4 = f.pc
          BY <3>4, <5>4
        <5>6. was[cur_thread] = [f EXCEPT !.r0 = 1]
          BY <3>2, <4>1, <5>2, <5>3, <5>4, <5>5 DEF r
        <5> QED
          BY <1>1, <4>1, <5>6 DEF Patched, f
      <4>2. CASE kind = "interrupt"
        <5> DEFINE r == Interrupted
                   f == frame'
        <5>1. r \in RegsType /\ f \in RegsType /\ 0 \in Int
          BY <1>8, <3>5
        <5> HIDE DEF r, f
        <5>2. [f EXCEPT !.pc = @ - 4] = [r0 |-> f.r0, sp |-> f.sp, lr |-> f.lr, pc |-> f.pc - 4, cpsr |-> f.cpsr]
          BY <5>1, RegsFields
        <5>3. r = [r0 |-> r.r0, sp |-> r.sp, lr |-> r.lr, pc |-> r.pc, cpsr |-> r.cpsr]
          BY <5>1 DEF RegsType
        <5>4. /\ r.sp = f.sp /\ r.lr = f.lr /\ r.cpsr = f.cpsr /\ r.r0 = f.r0
              /\ r.pc = b.lr - 4 /\ f.pc = b.lr - 0
          BY <1>1, <1>3, <3>1, <3>3, <4>2 DEF r, f
        <5>5. r.pc = f.pc - 4
          BY <3>4, <5>4
        <5>6. was[cur_thread] = [f EXCEPT !.pc = @ - 4]
          BY <3>2, <4>2, <5>2, <5>3, <5>4, <5>5 DEF r
        <5> QED
          BY <1>1, <4>2, <5>6 DEF Patched, f
      <4>3. CASE kind \in {"prefetch", "data"}
        <5> DEFINE r == Interrupted
                   f == frame'
                   x == bank'[own]
        <5>1. r \in RegsType /\ f \in RegsType /\ x = bank[own] /\ x \in [sp : Int, lr : Int]
          BY <1>4, <1>7, <1>8, <3>1, <3>5
        <5>2. Patched' = IF spsr.mode = "USER" THEN f ELSE [f EXCEPT !.sp = x.sp, !.lr = x.lr]
          BY <1>1, <4>3 DEF Patched, fixup_regs, own
        <5> HIDE DEF r, f, x
        <5>3. [f EXCEPT !.sp = x.sp, !.lr = x.lr] =
                [r0 |-> f.r0, sp |-> x.sp, lr |-> x.lr, pc |-> f.pc, cpsr |-> f.cpsr]
          <6>1. x.sp \in Int /\ x.lr \in Int
            BY <5>1
          <6> QED
            BY <5>1, <6>1, RegsFields
        <5>4. r = [r0 |-> r.r0, sp |-> r.sp, lr |-> r.lr, pc |-> r.pc, cpsr |-> r.cpsr]
          BY <5>1 DEF RegsType
        <5>5. f = [r0 |-> f.r0, sp |-> f.sp, lr |-> f.lr, pc |-> f.pc, cpsr |-> f.cpsr]
          BY <5>1 DEF RegsType
        <5>6. /\ r.sp = x.sp /\ r.lr = x.lr /\ r.cpsr = f.cpsr /\ r.r0 = f.r0 /\ r.pc = f.pc
              /\ spsr.mode = "USER" => f.sp = x.sp /\ f.lr = x.lr
          BY <1>1, <1>3, <3>1, <3>3, <4>3, <5>1 DEF r, f
        <5>7. Patched' = r
          BY <5>2, <5>3, <5>4, <5>5, <5>6
        <5> QED
          BY <1>1, <3>2, <4>3, <5>7 DEF r
      <4> QED
        BY <1>2, <4>1, <4>2, <4>3
    <3> QED
      BY <1>1, <3>6 DEF ToGoOn
  <2> QED
    BY <2>1, <2>2
<1> QED
  BY <1>1, <1>9, <1>10 DEF ExGood

\* A handler switches to the registers it has patched.
LEMMA AbortGood == ExGood /\ (Abort \/ syscall_full_except) => ExInv'
<1> SUFFICES ASSUME ExGood, Abort \/ syscall_full_except, xat' # "panic" PROVE ExGood'
  BY DEF ExInv
<1>1. /\ xat = "saved" /\ xat' = "run"
      /\ kind = "syscall" => spsr.mode = "USER" /\ switchto([frame EXCEPT !.r0 = 1])
      /\ kind # "syscall" => kind \in {"prefetch", "data"} /\ switchto(fixup_regs(frame, spsr))
      /\ UNCHANGED <<enabled, raised, vbar, hooks, ipc, cur_thread, th, was>>
  BY DEF Abort, syscall_full_except, irqs
<1>2. ExTypeOK /\ Taken /\ ToGoOn /\ OfThread(cur_thread, spsr) /\ frame.cpsr = spsr /\ cur_thread \in AnyThread
  BY <1>1 DEF ExGood, Taken, ExTypeOK
<1> DEFINE r == was[cur_thread]
<1>3. r = Patched
  BY <1>1, <1>2 DEF ToGoOn, OfThread
<1>4. switchto(r)
  BY <1>1, <1>3 DEF Patched
<1>5. r \in RegsType
  BY <1>2 DEF ExTypeOK
<1>6. r.cpsr = spsr
  <2> DEFINE f == frame
             x == bank[BankOf(spsr.mode)]
  <2>1. f \in RegsType
    BY <1>2 DEF ExTypeOK
  <2>2. x \in [sp : Int, lr : Int]
    <3>1. BankOf(spsr.mode) \in {"USER", "SUPER", "ABORT", "IRQ"}
      BY <1>2, BankType DEF OfThread
    <3> QED
      BY <1>2, <3>1 DEF ExTypeOK
  <2>3. r = IF kind = "syscall" THEN [f EXCEPT !.r0 = 1]
            ELSE IF spsr.mode = "USER" THEN f ELSE [f EXCEPT !.sp = x.sp, !.lr = x.lr]
    BY <1>1, <1>3 DEF Patched, fixup_regs
  <2>4. f.cpsr = spsr
    BY <1>2
  <2> HIDE DEF f, x, r
  <2>5. x.sp \in Int /\ x.lr \in Int /\ 1 \in Int
    BY <2>2
  <2>6. [f EXCEPT !.r0 = 1] = [r0 |-> 1, sp |-> f.sp, lr |-> f.lr, pc |-> f.pc, cpsr |-> f.cpsr]
    BY <2>1, <2>5, RegsFields
  <2>7. [f EXCEPT !.sp = x.sp, !.lr = x.lr] =
          [r0 |-> f.r0, sp |-> x.sp, lr |-> x.lr, pc |-> f.pc, cpsr |-> f.cpsr]
    BY <2>1, <2>5, RegsFields
  <2> QED
    BY <2>3, <2>4, <2>6, <2>7
<1> HIDE DEF r
<1>7. BankOf(r.cpsr.mode) \in {"USER", "SUPER", "ABORT", "IRQ"}
  BY <1>2, <1>6, BankType DEF OfThread
<1>8. Loaded(r) /\ spsr' \in CpsrType /\ frame' \in RegsType
  BY <1>2, <1>4, <1>5, <1>7, SwitchLoads
<1>9. Live' = r /\ cpu'.cpsr = r.cpsr /\ cpu' \in [r0 : Int, pc : Int, cpsr : CpsrType]
  BY <1>5, <1>8, LoadedIsLive
<1>10. ExTypeOK'
  BY <1>1, <1>2, <1>8, <1>9 DEF ExTypeOK, Loaded
<1>11. Installed' /\ Waiting'
  BY <1>1 DEF ExGood, Installed, Waiting
<1>12. SchedulerSaved'
  BY <1>1, <1>2 DEF ExGood, SchedulerSaved, OfThread
<1>13. Resumed' /\ OfThread(cur_thread, cpu.cpsr)'
  BY <1>1, <1>2, <1>6, <1>9 DEF Resumed, OfThread, r
<1> QED
  BY <1>1, <1>10, <1>11, <1>12, <1>13 DEF ExGood

\* The timer's interrupt: its thread is saved as it is to go on, and the
\* scheduler goes on behind the call that resumed the thread.
LEMMA InterruptGood == ExGood /\ interrupt_except => ExInv'
<1> SUFFICES ASSUME ExGood, interrupt_except PROVE ExGood'
  BY DEF ExInv
<1>1. /\ xat = "saved" /\ kind = "interrupt"
      /\ UNCHANGED <<enabled, timer_on, vbar, hooks, ipc, was>>
      /\ kind \in hooks /\ ~Returns => interrupt_handler
  BY DEF interrupt_except
<1>2. /\ ExTypeOK /\ Taken /\ ToGoOn /\ OfThread(cur_thread, spsr) /\ frame.cpsr = spsr /\ cur_thread \in AnyThread
      /\ cur_thread # Main /\ "timer" \in raised \cap enabled
      /\ Installed /\ SchedulerSaved /\ Waiting
  BY <1>1 DEF ExGood, Taken, ExTypeOK
<1>3. /\ cur_thread \in ExThreads /\ th[cur_thread] # NoRegs /\ th[Main] # NoRegs /\ ipc = 5
  BY <1>2 DEF Installed, AnyThread
<1>4. interrupt_handler
  BY <1>1, <1>2, <1>3 DEF Installed, Returns
<1> DEFINE r == was[cur_thread]
           m == th[Main]
<1>5. r = [frame EXCEPT !.pc = @ - 4]
  BY <1>1, <1>2 DEF ToGoOn, Patched
<1>6. /\ th' = [th EXCEPT ![cur_thread] = r] /\ cur_thread' = Main /\ switchto(m) /\ xat' = "run"
  BY <1>4, <1>5 DEF interrupt_handler
<1>7. r \in RegsType /\ m \in RegsType /\ was[Main] \in RegsType /\ Main \in AnyThread
  BY <1>2 DEF ExTypeOK, AnyThread
<1>8. r.cpsr = spsr
  <2> DEFINE f == frame
  <2>1. f \in RegsType /\ f.cpsr = spsr /\ 0 \in Int
    BY <1>2 DEF ExTypeOK
  <2> HIDE DEF f, r
  <2>2. [f EXCEPT !.pc = @ - 4] = [r0 |-> f.r0, sp |-> f.sp, lr |-> f.lr, pc |-> f.pc - 4, cpsr |-> f.cpsr]
    BY <2>1, RegsFields
  <2> QED
    BY <1>5, <2>1, <2>2 DEF f
<1>9. /\ m = [was[Main] EXCEPT !.r0 = 0]
      /\ m.cpsr.mode = "SUPER" /\ m.cpsr.i
  BY <1>2, <1>3 DEF SchedulerSaved
<1> HIDE DEF r, m
<1>10. BankOf(m.cpsr.mode) \in {"USER", "SUPER", "ABORT", "IRQ"}
  BY <1>9 DEF BankOf
<1>11. Loaded(m) /\ spsr' \in CpsrType /\ frame' \in RegsType
  BY <1>2, <1>6, <1>7, <1>10, SwitchLoads
<1>12. Live' = m /\ cpu'.cpsr = m.cpsr /\ cpu' \in [r0 : Int, pc : Int, cpsr : CpsrType]
  BY <1>7, <1>11, LoadedIsLive
<1>13. /\ th'[cur_thread] = r /\ \A t \in AnyThread \ {cur_thread} : th'[t] = th[t]
       /\ th' \in [AnyThread -> RegsType] /\ th'[Main] = m
  BY <1>2, <1>6, <1>7 DEF ExTypeOK, m
<1>14. ExTypeOK'
  BY <1>1, <1>2, <1>6, <1>7, <1>11, <1>12, <1>13 DEF ExTypeOK, Loaded
<1>15. Installed' /\ SchedulerSaved'
  BY <1>1, <1>2, <1>3, <1>6, <1>9, <1>13 DEF Installed, SchedulerSaved
<1>16. Waiting'
  <2> SUFFICES ASSUME NEW t \in ExThreads, th'[t] # NoRegs
               PROVE  th'[t] = was[t] /\ OfThread(t, th'[t].cpsr)
    BY <1>1 DEF Waiting, OfThread
  <2>1. CASE t = cur_thread
    BY <1>2, <1>8, <1>13, <2>1 DEF r
  <2>2. CASE t # cur_thread
    BY <1>2, <1>13, <2>2 DEF Waiting, AnyThread
  <2> QED
    BY <2>1, <2>2
<1>17. Resumed' /\ OfThread(cur_thread, cpu.cpsr)'
  <2> DEFINE w == was[Main]
  <2>1. w \in RegsType /\ w.r0 \in Int
    BY <1>7 DEF RegsType
  <2>2. m = [w EXCEPT !.r0 = 0]
    BY <1>9
  <2> HIDE DEF w
  <2>3. [m EXCEPT !.r0 = w.r0] = w
    <3>1. w = [r0 |-> w.r0, sp |-> w.sp, lr |-> w.lr, pc |-> w.pc, cpsr |-> w.cpsr]
      BY <2>1 DEF RegsType
    <3>2. m = [r0 |-> 0, sp |-> w.sp, lr |-> w.lr, pc |-> w.pc, cpsr |-> w.cpsr]
      BY <2>2, <3>1
    <3> QED
      BY <3>1, <3>2
  <2>4. Resumed'
    BY <1>1, <1>3, <1>6, <1>12, <1>13, <2>3 DEF Resumed, w, m
  <2>5. OfThread(cur_thread, cpu.cpsr)'
    BY <1>6, <1>9, <1>12 DEF OfThread
  <2> QED
    BY <2>4, <2>5
<1> QED
  BY <1>6, <1>14, <1>15, <1>16, <1>17 DEF ExGood

\* The invariant is inductive.
LEMMA ExStep == ExInv /\ [ExceptionsNext]_exvars => ExInv'
<1> SUFFICES ASSUME ExInv, [ExceptionsNext]_exvars PROVE ExInv'
  OBVIOUS
<1>1. CASE UNCHANGED exvars
  <2>1. UNCHANGED <<cpu, bank, spsr, frame, kind, enabled, raised, vbar, hooks, xat, ipc, cur_thread, th, was>>
    BY <1>1 DEF exvars, cpuregs, irqs
  <2>2. ExTypeOK' = ExTypeOK /\ Installed' = Installed /\ Waiting' = Waiting /\ SchedulerSaved' = SchedulerSaved
    BY <2>1 DEF ExTypeOK, Installed, Waiting, SchedulerSaved
  <2>3. Live' = Live /\ Interrupted' = Interrupted /\ Patched' = Patched
    BY <2>1 DEF Live, Interrupted, Patched, fixup_regs
  <2>4. (Resumed <=> Resumed') /\ (Taken <=> Taken') /\ (ToGoOn <=> ToGoOn')
    BY <2>1, <2>3 DEF Resumed, Taken, ToGoOn
  <2> QED
    BY <2>1, <2>2, <2>4 DEF ExInv, ExGood
<1>2. CASE xat = "panic" /\ ExceptionsNext
  \* A panic stops the processor, but for the lines.
  <2>1. xat' = "panic"
    BY <1>2 DEF ExceptionsNext, TakeFault, TakeInterrupt, Take, RaiseLine, Trampoline, Abort,
                syscall_full_except, interrupt_except, SetVector, SetHandler, set_all_interrupts_off,
                ChangeMode, timer_interrupt_init, int_vec_init, pre_init_handlers, pre_fork, Dispatch,
                Work, MainCall, InMain
  <2> QED
    BY <2>1 DEF ExInv
<1>3. CASE ExGood /\ ExceptionsNext
  BY <1>3, RaiseGood, InstallsGood, WorkGood, ModeGood, ForkGood, DispatchGood, TakesGood,
     TrampolineGood, AbortGood, InterruptGood DEF ExceptionsNext
<1> QED
  BY <1>1, <1>2, <1>3 DEF ExInv

\* Execution resumes where the exception occurred, with the registers of
\* whoever was interrupted, and no interrupt finds its vector or handler
\* missing (full-except-asm.S, staff-full-except.c, switchto): for every number
\* of threads, exceptions and switches.
THEOREM ResumesInPlaceAlways == ExceptionsSpec => []ResumesInPlace
<1>1. ExceptionsInit => ExInv
  BY ExInitGood DEF ExInv
<1>2. ExInv => ResumesInPlace
  BY DEF ExInv, ExGood, Resumed, ResumesInPlace
<1> QED
  BY <1>1, <1>2, ExStep, PTL DEF ExceptionsSpec

-----------------------------------------------------------------------------
(* Virtual memory.  The inductive invariant has a part for every stage of  *)
(* the sequences of your-mmu-asm.S: what may be in effect, cached and      *)
(* fetched when the operations that are left are these.                    *)

Entries == [asid : Asids, table : Asids, entry : Int]

MmuTypes ==
  /\ asid \in asids /\ ttbr \in ttbrs /\ ctl \in ctls
  /\ asids \subseteq Asids \cup {0} /\ ttbrs \subseteq Asids
  /\ pte \in [Asids -> Int] /\ reach \in [Asids -> SUBSET Int]
  /\ tlb \subseteq Entries /\ doomed \subseteq Entries
  /\ dirty \in BOOLEAN /\ cleaning \in BOOLEAN /\ flushing \in BOOLEAN /\ synced \in BOOLEAN

OwnTable == \A e \in Usable : e.asid = e.table

\* Between any two operations: no asid is walked with another's table.
MmuAlways ==
  /\ MmuTypes
  /\ asid \in {0, ttbr} /\ \A a \in asids \ {0}, t \in ttbrs : a = t
  /\ "XP" \in ctl => OwnTable
  /\ "C" \notin ctl => ~dirty

\* The values in effect are those of the registers.
SettledContext == asids = {asid} /\ ttbrs = {ttbr}
Settled == ctls = {ctl} /\ SettledContext

ReachExact == \A a \in Asids : reach[a] = {pte[a]}
Exact(S) == \A e \in S : e.entry = pte[e.table]
Clean == synced => ReachExact /\ Exact(Usable)
Calm == ~cleaning /\ doomed = {}

AllOff == \A c \in ctls : ~On(c)
Used == btb \cup pbuf
NowUsed == [table |-> ttbr, entry |-> pte[ttbr]]
UsedWhenOff == ~On(ctl) => Used \subseteq {Flat}

\* The control register may become newctl.
Writable == "XP" \in newctl /\ ("C" \notin newctl => ~dirty)

AtRest ==
  /\ ops = <<>> /\ Settled /\ Calm /\ UsedWhenOff
  /\ "XP" \in ctl => Clean /\ (synced /\ On(ctl) => Used \subseteq {NowUsed})
  /\ "XP" \notin ctl => synced /\ ~On(ctl) /\ ReachExact

\* The last operation of every sequence.
Ending ==
  /\ ops = <<"PrefetchFlush">>
  /\ Calm /\ Clean /\ "XP" \in ctl /\ (On(ctl) => synced)
  /\ \A c \in ctls : On(c) <=> On(ctl)
  /\ flushing \/ btb \subseteq {IF On(ctl) THEN NowUsed ELSE Flat}

\* mmu_init, until it writes XP.
Resetting ==
  /\ \/ ops = mmu_reset \o cp15_ctrl_reg1_wr
     \/ ops \in {<<"InvDcache", "InvIcache", "Dsb", "PrefetchFlush">> \o cp15_ctrl_reg1_wr,
                 <<"InvIcache", "Dsb", "PrefetchFlush">> \o cp15_ctrl_reg1_wr,
                 <<"Dsb", "PrefetchFlush">> \o cp15_ctrl_reg1_wr} /\ tlb = {}
  /\ synced /\ ReachExact /\ AllOff /\ SettledContext /\ ~cleaning
  /\ "XP" \notin ctl /\ Used \subseteq {Flat} /\ ~On(newctl) /\ Writable

\* The control register is written, or written again, with the MMU off.
Rewriting ==
  /\ ops \in {<<"PrefetchFlush">> \o cp15_ctrl_reg1_wr, cp15_ctrl_reg1_wr}
  /\ AllOff /\ ~On(newctl) /\ Writable /\ SettledContext /\ Calm /\ Clean /\ OwnTable
  /\ flushing \/ btb \subseteq {Flat}

\* mmu_disable_set_asm, which may be called with entries not synchronised; w is
\* what its caller does after it.
Disabling(w) ==
  /\ "XP" \in ctl /\ doomed = {} /\ Clean /\ SettledContext /\ ~On(newctl) /\ "XP" \in newctl
  /\ \/ ops = mmu_disable_set_asm \o w /\ Settled /\ ~cleaning
     \/ /\ ops = <<"Dsb", "PrefetchFlush", "ControlWr", "PrefetchFlush",
                   "InvIcache", "Dsb", "FlushBtb", "PrefetchFlush">> \o w
        /\ Settled /\ cleaning
     \/ /\ ops \in {<<"PrefetchFlush", "ControlWr", "PrefetchFlush", "InvIcache", "Dsb", "FlushBtb",
                      "PrefetchFlush">> \o w,
                    <<"ControlWr", "PrefetchFlush", "InvIcache", "Dsb", "FlushBtb", "PrefetchFlush">> \o w}
        /\ Settled /\ ~cleaning /\ ~dirty
     \/ /\ ops = <<"PrefetchFlush", "InvIcache", "Dsb", "FlushBtb", "PrefetchFlush">> \o w
        /\ ~cleaning /\ ~dirty /\ ~On(ctl)
     \/ /\ ops \in {<<"InvIcache", "Dsb", "FlushBtb", "PrefetchFlush">> \o w,
                    <<"Dsb", "FlushBtb", "PrefetchFlush">> \o w,
                    <<"FlushBtb", "PrefetchFlush">> \o w}
        /\ ~cleaning /\ ~dirty /\ AllOff

\* mmu_enable_set_asm.
Enabling ==
  /\ "XP" \in ctl /\ synced /\ Clean /\ SettledContext /\ Calm
  /\ \/ /\ ops \in {mmu_enable_set_asm,
                    <<"PrefetchFlush", "InvIcache", "Dsb", "PrefetchFlush",
                      "ControlWr", "PrefetchFlush", "FlushBtb", "PrefetchFlush">>,
                    <<"InvIcache", "Dsb", "PrefetchFlush",
                      "ControlWr", "PrefetchFlush", "FlushBtb", "PrefetchFlush">>,
                    <<"Dsb", "PrefetchFlush", "ControlWr", "PrefetchFlush", "FlushBtb", "PrefetchFlush">>,
                    <<"PrefetchFlush", "ControlWr", "PrefetchFlush", "FlushBtb", "PrefetchFlush">>,
                    <<"ControlWr", "PrefetchFlush", "FlushBtb", "PrefetchFlush">>}
        /\ AllOff /\ On(newctl) /\ Writable
     \/ ops = <<"PrefetchFlush", "FlushBtb", "PrefetchFlush">> /\ On(ctl)
     \/ ops = <<"FlushBtb", "PrefetchFlush">> /\ ctls = {ctl} /\ On(ctl)

\* cp15_set_procid_ttbr0, with the MMU on or off.
Switching ==
  /\ "XP" \in ctl /\ synced /\ Clean /\ Calm /\ ctls = {ctl} /\ UsedWhenOff
  /\ \/ ops = cp15_set_procid_ttbr0 /\ SettledContext
     \/ /\ ops = <<"Asid0", "PrefetchFlush", "Ttbr", "PrefetchFlush", "FlushBtb", "PrefetchFlush",
                   "Asid", "PrefetchFlush">>
        /\ SettledContext
     \/ /\ ops = <<"PrefetchFlush", "Ttbr", "PrefetchFlush", "FlushBtb", "PrefetchFlush",
                   "Asid", "PrefetchFlush">>
        /\ asid = 0
     \/ /\ ops \in {<<"Ttbr", "PrefetchFlush", "FlushBtb", "PrefetchFlush", "Asid", "PrefetchFlush">>,
                    <<"PrefetchFlush", "FlushBtb", "PrefetchFlush", "Asid", "PrefetchFlush">>}
        /\ asid = 0 /\ asids = {0}
     \/ /\ ops = <<"FlushBtb", "PrefetchFlush", "Asid", "PrefetchFlush">>
        /\ asid = 0 /\ SettledContext
     \/ /\ ops = <<"PrefetchFlush", "Asid", "PrefetchFlush">>
        /\ asid = 0 /\ SettledContext /\ flushing
     \/ /\ ops = <<"Asid", "PrefetchFlush">>
        /\ asid = 0 /\ SettledContext /\ (On(ctl) => Used = {})

\* mmu_sync_pte_mods.
Syncing ==
  /\ "XP" \in ctl /\ synced /\ Settled /\ UsedWhenOff
  /\ \/ ops = mmu_sync_pte_mods /\ doomed = {}
     \/ /\ ops \in {<<"InvIcache", "Dsb", "InvTlb", "FlushBtb", "Dsb", "PrefetchFlush">>,
                    <<"Dsb", "InvTlb", "FlushBtb", "Dsb", "PrefetchFlush">>}
        /\ cleaning
     \/ ops = <<"InvTlb", "FlushBtb", "Dsb", "PrefetchFlush">> /\ ReachExact /\ ~cleaning
     \/ ops = <<"FlushBtb", "Dsb", "PrefetchFlush">> /\ ReachExact /\ ~cleaning /\ Exact(tlb)
     \/ /\ ops = <<"Dsb", "PrefetchFlush">>
        /\ ReachExact /\ ~cleaning /\ Exact(tlb) /\ flushing

MmuInv ==
  /\ MmuAlways
  /\ \/ AtRest \/ Ending \/ Resetting \/ Rewriting
     \/ \E w \in {<<>>, cp15_ctrl_reg1_wr} : Disabling(w)
     \/ Enabling \/ Switching \/ Syncing

-----------------------------------------------------------------------------
(* Virtual memory: the operations.                                         *)

OpNames == {"ControlWr", "PrefetchFlush", "InvTlb", "InvDcache", "InvIcache", "Dsb", "Asid0", "Ttbr",
            "FlushBtb", "Asid", "CleanInvDcache", "IcacheOff"}

\* Behind a first operation comes the rest of its sequence.
LEMMA NextOps ==
  ASSUME NEW w \in Seq(OpNames), NEW s \in Seq(OpNames), NEW a \in OpNames
  PROVE  /\ Head(<<a>> \o w) = a /\ Tail(<<a>> \o w) = w /\ <<a>> \o w # <<>>
         /\ w \o <<>> = w
OBVIOUS

\* DSB: what was begun is complete, and the tables walked are the present ones.
LEMMA RunDsb ==
  ASSUME RunOp, Head(ops) = "Dsb"
  PROVE  /\ doomed' = {} /\ flushing' = FALSE /\ btb' \subseteq btb /\ (flushing => btb' = {})
         /\ reach' = reach \/ reach' = [a \in Asids |-> {pte[a]}]
         /\ cleaning => reach' = [a \in Asids |-> {pte[a]}]
         /\ dirty' = (dirty /\ ~cleaning) /\ cleaning' = FALSE
         /\ ops' = Tail(ops)
         /\ UNCHANGED <<tlb, pbuf, pte, ctl, newctl, asid, ttbr, ctls, asids, ttbrs, synced>>
BY DEF RunOp, Operation, Registers, Barrier, BtbFlushed, regs

\* The prefetch flush: every register has one value again.
LEMMA RunPrefetchFlush ==
  ASSUME RunOp, Head(ops) = "PrefetchFlush"
  PROVE  /\ pbuf' = {} /\ flushing' = FALSE /\ btb' \subseteq btb /\ (flushing => btb' = {})
         /\ ctls' = {ctl} /\ asids' = {asid} /\ ttbrs' = {ttbr}
         /\ ops' = Tail(ops)
         /\ UNCHANGED <<tlb, doomed, pte, reach, dirty, cleaning, ctl, newctl, asid, ttbr, synced>>
BY DEF RunOp, Operation, BtbFlushed, regs, memory

\* The TLB is invalid, but what it held may be used until DSB.
LEMMA RunInvTlb ==
  ASSUME RunOp, Head(ops) = "InvTlb"
  PROVE  /\ doomed' = Usable /\ tlb' = {} /\ ops' = Tail(ops)
         /\ UNCHANGED <<flushing, btb, pbuf, pte, reach, dirty, cleaning>>
         /\ UNCHANGED <<ctl, newctl, asid, ttbr, ctls, asids, ttbrs, synced>>
BY DEF RunOp, Operation, Registers, regs, memory

\* The predictor is flushed, by the next barrier.
LEMMA RunFlushBtb ==
  ASSUME RunOp, Head(ops) = "FlushBtb"
  PROVE  /\ flushing' = TRUE /\ ops' = Tail(ops)
         /\ UNCHANGED <<tlb, doomed, btb, pbuf, pte, reach, dirty, cleaning>>
         /\ UNCHANGED <<ctl, newctl, asid, ttbr, ctls, asids, ttbrs, synced>>
BY DEF RunOp, Operation, Registers, regs, memory

\* A store to the control register: its old value may be in effect until the flush.
LEMMA RunControl ==
  ASSUME RunOp, Head(ops) \in {"ControlWr", "IcacheOff"}
  PROVE  /\ ctl' = (IF Head(ops) = "ControlWr" THEN newctl ELSE ctl \ {"I"})
         /\ ctls' = ctls \cup {ctl'} /\ ops' = Tail(ops)
         /\ UNCHANGED <<tlb, doomed, flushing, btb, pbuf, pte, reach, dirty, cleaning>>
         /\ UNCHANGED <<newctl, asid, ttbr, asids, ttbrs, synced>>
<1>1. CASE Head(ops) = "ControlWr"
  BY <1>1 DEF RunOp, Operation, Registers, NewControl, caches, memory
<1>2. CASE Head(ops) = "IcacheOff"
  BY <1>2 DEF RunOp, Operation, Registers, NewControl, caches, memory
<1> QED
  BY <1>1, <1>2

\* The same for the address space.
LEMMA RunAsid ==
  ASSUME RunOp, Head(ops) \in {"Asid0", "Asid"}
  PROVE  /\ asid' = (IF Head(ops) = "Asid0" THEN 0 ELSE ttbr)
         /\ asids' = asids \cup {asid'} /\ ops' = Tail(ops)
         /\ UNCHANGED <<tlb, doomed, flushing, btb, pbuf, pte, reach, dirty, cleaning>>
         /\ UNCHANGED <<ctl, newctl, ttbr, ctls, ttbrs, synced>>
<1>1. CASE Head(ops) = "Asid0"
  BY <1>1 DEF RunOp, Operation, Registers, caches, memory
<1>2. CASE Head(ops) = "Asid"
  BY <1>2 DEF RunOp, Operation, Registers, caches, memory
<1> QED
  BY <1>1, <1>2

\* The cache operations.
LEMMA RunCacheOp ==
  ASSUME RunOp, Head(ops) \in {"CleanInvDcache", "InvDcache", "InvIcache"}
  PROVE  /\ cleaning' = (IF Head(ops) = "CleanInvDcache" THEN TRUE ELSE cleaning)
         /\ dirty' = (IF Head(ops) = "InvDcache" THEN FALSE ELSE dirty)
         /\ ops' = Tail(ops)
         /\ UNCHANGED <<tlb, doomed, flushing, btb, pbuf, pte, reach>>
         /\ UNCHANGED <<ctl, newctl, asid, ttbr, ctls, asids, ttbrs, synced>>
<1>1. CASE Head(ops) = "CleanInvDcache"
  BY <1>1 DEF RunOp, Operation, Registers, caches, memory, regs
<1>2. CASE Head(ops) = "InvDcache"
  BY <1>2 DEF RunOp, Operation, Registers, caches, memory, regs
<1>3. CASE Head(ops) = "InvIcache"
  BY <1>3 DEF RunOp, Operation, Registers, caches, memory, regs
<1> QED
  BY <1>1, <1>2, <1>3

\* No operation by itself maps one asid with another's table: a write of the
\* control register finds the TLB reset, one of a context register finds the
\* other one settled.
LEMMA OpAlways ==
  ASSUME MmuAlways, RunOp, Head(ops) \in OpNames \ {"Ttbr"},
         Head(ops) = "ControlWr" => OwnTable /\ Writable,
         Head(ops) = "Asid" => asids = {0} /\ ttbrs = {ttbr}
  PROVE  MmuAlways'
<1> USE DEF Usable, OwnTable
<1>1. /\ MmuTypes /\ asid \in {0, ttbr} /\ (\A a \in asids \ {0}, t \in ttbrs : a = t)
      /\ ("XP" \in ctl => OwnTable) /\ ("C" \notin ctl => ~dirty)
  BY DEF MmuAlways
<1>2. CASE Head(ops) = "Dsb"
  <2>1. MmuTypes'
    <3>1. reach' \in [Asids -> SUBSET Int]
      BY <1>1, <1>2, RunDsb DEF MmuTypes
    <3>2. dirty' \in BOOLEAN
      BY <1>2, RunDsb
    <3> QED
      BY <1>1, <1>2, <3>1, <3>2, RunDsb DEF MmuTypes
  <2> QED
    BY <1>1, <1>2, <2>1, RunDsb DEF MmuAlways
<1>3. CASE Head(ops) = "PrefetchFlush"
  <2>1. MmuTypes'
    BY <1>1, <1>3, RunPrefetchFlush DEF MmuTypes
  <2> QED
    BY <1>1, <1>3, <2>1, RunPrefetchFlush DEF MmuAlways, MmuTypes
<1>4. CASE Head(ops) = "InvTlb"
  <2>1. MmuTypes'
    BY <1>1, <1>4, RunInvTlb DEF MmuTypes
  <2> QED
    BY <1>1, <1>4, <2>1, RunInvTlb DEF MmuAlways
<1>5. CASE Head(ops) = "FlushBtb"
  <2>1. MmuTypes'
    BY <1>1, <1>5, RunFlushBtb DEF MmuTypes
  <2> QED
    BY <1>1, <1>5, <2>1, RunFlushBtb DEF MmuAlways
<1>6. CASE Head(ops) \in {"ControlWr", "IcacheOff"}
  <2>1. MmuTypes'
    BY <1>1, <1>6, RunControl DEF MmuTypes
  <2>2. /\ "XP" \in ctl' => OwnTable
        /\ "C" \notin ctl' => ~dirty
    BY <1>1, <1>6, RunControl DEF Writable
  <2>3. UNCHANGED <<tlb, doomed, dirty, asid, ttbr, asids, ttbrs>>
    BY <1>6, RunControl
  <2> QED
    BY <1>1, <2>1, <2>2, <2>3 DEF MmuAlways
<1>7. CASE Head(ops) \in {"Asid0", "Asid"}
  <2>1. MmuTypes'
    BY <1>1, <1>7, RunAsid DEF MmuTypes
  <2>2. asid' \in {0, ttbr} /\ \A a \in asids' \ {0}, t \in ttbrs : a = t
    BY <1>1, <1>7, RunAsid
  <2>3. UNCHANGED <<tlb, doomed, dirty, ctl, ttbr, ttbrs>>
    BY <1>7, RunAsid
  <2> QED
    BY <1>1, <2>1, <2>2, <2>3 DEF MmuAlways
<1>8. CASE Head(ops) \in {"CleanInvDcache", "InvDcache", "InvIcache"}
  <2>1. MmuTypes'
    BY <1>1, <1>8, RunCacheOp DEF MmuTypes
  <2> QED
    BY <1>1, <1>8, <2>1, RunCacheOp DEF MmuAlways
<1> QED
  BY <1>2, <1>3, <1>4, <1>5, <1>6, <1>7, <1>8 DEF OpNames

\* What the hardware may add meanwhile: translations of the table in effect
\* under its asid, and targets by way of those it may use.
Fetchable(x) ==
  \/ x = Flat /\ \E c \in ctls : ~On(c)
  \/ /\ \E c \in ctls : On(c)
     /\ \E e \in Usable : e.asid \in asids \ {0} /\ x = [table |-> e.table, entry |-> e.entry]

\* What walks, predictions and prefetches add is made of the values in effect.
LEMMA HardwareAdds ==
  ASSUME MmuAlways, Hardware
  PROVE  /\ UNCHANGED <<ops, ctl, newctl, asid, ttbr, ctls, asids, ttbrs, pte, reach, dirty, cleaning,
                        doomed, flushing, synced>>
         /\ AllOff \/ asids = {0} => tlb' = tlb
         /\ \A e \in tlb' : e \in tlb \/ (e \in Entries /\ e.asid = e.table /\ e.entry \in reach[e.table])
         /\ \A x \in btb' : x \in btb \/ Fetchable(x)
         /\ \A x \in pbuf' : x \in Used \/ Fetchable(x)
<1>1. UNCHANGED <<ops, ctl, newctl, asid, ttbr, ctls, asids, ttbrs, pte, reach, dirty, cleaning,
                  doomed, flushing, synced>>
  BY DEF Hardware, Walk, Fetch, Predict, regs, visible, memory
<1>2. CASE Walk
  <2>1. PICK a \in asids \ {0}, t \in ttbrs : \E v \in reach[t] :
          tlb' = tlb \cup {[asid |-> a, table |-> t, entry |-> v]}
    BY <1>2 DEF Walk
  <2>2. PICK v \in reach[t] : tlb' = tlb \cup {[asid |-> a, table |-> t, entry |-> v]}
    BY <2>1
  <2>3. a = t /\ t \in Asids /\ v \in Int
    BY DEF MmuAlways, MmuTypes
  <2>4. ~AllOff /\ asids # {0} /\ UNCHANGED <<btb, pbuf>>
    BY <1>2, <2>1 DEF Walk, AllOff
  <2> QED
    BY <1>1, <2>2, <2>3, <2>4 DEF Entries, Used
<1>3. CASE Fetch
  <2>1. tlb' = tlb
    BY <1>3 DEF Fetch
  <2>2. PICK x : Fetchable(x) /\ pbuf' = pbuf \cup {x} /\ btb' = btb \cup {x}
    <3>1. PICK c \in ctls :
            \E x \in IF On(c) THEN {[table |-> e.table, entry |-> e.entry] :
                                     e \in {f \in Usable : f.asid \in asids \ {0}}}
                     ELSE {Flat} : pbuf' = pbuf \cup {x} /\ btb' = btb \cup {x}
      BY <1>3 DEF Fetch
    <3>2. CASE On(c)
      BY <3>1, <3>2 DEF Fetchable
    <3>3. CASE ~On(c)
      BY <3>1, <3>3 DEF Fetchable
    <3> QED
      BY <3>2, <3>3
  <2> QED
    BY <1>1, <2>1, <2>2 DEF Used
<1>4. CASE Predict
  BY <1>1, <1>4 DEF Predict, Used
<1> QED
  BY <1>2, <1>3, <1>4 DEF Hardware

\* With the MMU off only physical addresses are fetched.
LEMMA FetchedOff ==
  ASSUME AllOff, NEW x, Fetchable(x)
  PROVE  x = Flat
BY DEF AllOff, Fetchable

\* With clean translations only what the registers say is.
LEMMA FetchedOn ==
  ASSUME MmuAlways, OwnTable, Exact(Usable), \A c \in ctls : On(c), NEW x, Fetchable(x)
  PROVE  x = NowUsed
<1>1. PICK e \in Usable : e.asid \in asids \ {0} /\ x = [table |-> e.table, entry |-> e.entry]
  BY DEF Fetchable
<1>2. e.asid = ttbr
  BY <1>1 DEF MmuAlways, MmuTypes
<1>3. e.table = ttbr
  BY <1>2 DEF OwnTable
<1> QED
  BY <1>1, <1>3 DEF NowUsed, Exact

\* They keep what holds at every stage.
LEMMA HardwareAlways ==
  ASSUME MmuAlways, Hardware
  PROVE  /\ MmuAlways'
         /\ OwnTable => OwnTable'
         /\ ReachExact /\ Exact(tlb) => Exact(tlb)'
         /\ Clean => Clean'
<1>1. /\ MmuTypes /\ asid \in {0, ttbr} /\ (\A a \in asids \ {0}, t \in ttbrs : a = t)
      /\ ("XP" \in ctl => OwnTable) /\ ("C" \notin ctl => ~dirty)
  BY DEF MmuAlways
<1>2. /\ UNCHANGED <<ctl, asid, ttbr, ctls, asids, ttbrs, pte, reach, dirty, cleaning,
                     doomed, flushing, synced>>
      /\ \A e \in tlb' : e \in tlb \/ (e \in Entries /\ e.asid = e.table /\ e.entry \in reach[e.table])
  BY HardwareAdds
<1>3. MmuTypes'
  BY <1>1, <1>2 DEF MmuTypes
<1>4. OwnTable => OwnTable'
  BY <1>2 DEF OwnTable, Usable
<1>5. ReachExact /\ Exact(tlb) => Exact(tlb)'
  <2> SUFFICES ASSUME ReachExact, Exact(tlb), NEW e \in tlb' PROVE e.entry = pte[e.table]
    BY <1>2 DEF Exact
  <2>1. e \notin tlb => e.table \in Asids /\ e.entry \in reach[e.table]
    BY <1>2 DEF Entries
  <2> QED
    BY <2>1 DEF Exact, ReachExact
<1>6. Clean => Clean'
  <2> SUFFICES ASSUME Clean, synced PROVE ReachExact' /\ Exact(Usable)'
    BY <1>2 DEF Clean
  <2>1. ReachExact /\ Exact(tlb) /\ Exact(doomed)
    BY DEF Clean, Exact, Usable
  <2>2. Exact(tlb)' /\ ReachExact'
    BY <1>2, <1>5, <2>1 DEF ReachExact
  <2>3. Exact(doomed)'
    BY <1>2, <2>1 DEF Exact
  <2> QED
    BY <2>2, <2>3 DEF Exact, Usable
<1> QED
  BY <1>1, <1>2, <1>3, <1>4, <1>5, <1>6 DEF MmuAlways

\* What can be used stays what it was: nothing translated with the MMU off,
\* and the translation of the registers with clean tables.
LEMMA HardwareUses ==
  ASSUME MmuAlways, Hardware
  PROVE  /\ NowUsed' = NowUsed
         /\ AllOff /\ Used \subseteq {Flat} => Used' \subseteq {Flat}
         /\ AllOff /\ btb \subseteq {Flat} => btb' \subseteq {Flat}
         /\ OwnTable /\ Exact(Usable) /\ (\A c \in ctls : On(c)) =>
              /\ Used \subseteq {NowUsed} => Used' \subseteq {NowUsed}
              /\ btb \subseteq {NowUsed} => btb' \subseteq {NowUsed}
         /\ asids = {0} /\ (\A c \in ctls : On(c)) /\ Used = {} => Used' = {}
<1>1. /\ \A x \in btb' : x \in btb \/ Fetchable(x)
      /\ \A x \in pbuf' : x \in Used \/ Fetchable(x)
      /\ UNCHANGED <<ttbr, pte>>
  BY HardwareAdds
<1>2. AllOff /\ Used \subseteq {Flat} => Used' \subseteq {Flat}
  BY <1>1, FetchedOff DEF Used
<1>3. AllOff /\ btb \subseteq {Flat} => btb' \subseteq {Flat}
  BY <1>1, FetchedOff
<1>4. ASSUME OwnTable, Exact(Usable), \A c \in ctls : On(c)
      PROVE  /\ Used \subseteq {NowUsed} => Used' \subseteq {NowUsed}
             /\ btb \subseteq {NowUsed} => btb' \subseteq {NowUsed}
  <2>1. \A x : Fetchable(x) => x = NowUsed
    BY <1>4, FetchedOn
  <2> QED
    BY <1>1, <2>1 DEF Used
<1>5. ASSUME asids = {0}, \A c \in ctls : On(c), Used = {} PROVE Used' = {}
  <2>1. \A x : ~Fetchable(x)
    BY <1>5 DEF Fetchable
  <2> QED
    BY <1>1, <1>5, <2>1 DEF Used
<1>6. NowUsed' = NowUsed
  BY <1>1 DEF NowUsed
<1> QED
  BY <1>2, <1>3, <1>4, <1>5, <1>6

\* They keep the inductive invariant.
LEMMA HardwareStages == MmuInv /\ Hardware => MmuInv'
<1> SUFFICES ASSUME MmuInv, Hardware PROVE MmuInv'
  OBVIOUS
<1>1. MmuAlways /\ MmuAlways' /\ (OwnTable => OwnTable') /\ (Clean => Clean')
      /\ (ReachExact /\ Exact(tlb) => Exact(tlb)')
  BY HardwareAlways DEF MmuInv
<1>2. UNCHANGED <<ops, ctl, newctl, asid, ttbr, ctls, asids, ttbrs, pte, reach, dirty, cleaning,
                  doomed, flushing, synced>>
  BY <1>1, HardwareAdds
<1>3. /\ Settled' = Settled /\ SettledContext' = SettledContext /\ Calm' = Calm /\ ReachExact' = ReachExact
      /\ AllOff' = AllOff /\ Writable' = Writable
  BY <1>2 DEF Settled, SettledContext, Calm, ReachExact, AllOff, Writable
<1>4. /\ NowUsed' = NowUsed
      /\ AllOff /\ Used \subseteq {Flat} => Used' \subseteq {Flat}
      /\ AllOff /\ btb \subseteq {Flat} => btb' \subseteq {Flat}
      /\ OwnTable /\ Exact(Usable) /\ (\A c \in ctls : On(c)) =>
           /\ Used \subseteq {NowUsed} => Used' \subseteq {NowUsed}
           /\ btb \subseteq {NowUsed} => btb' \subseteq {NowUsed}
      /\ asids = {0} /\ (\A c \in ctls : On(c)) /\ Used = {} => Used' = {}
  BY <1>1, HardwareUses
<1>5. ctl \in ctls
  BY <1>1 DEF MmuAlways, MmuTypes
<1>6. ctls = {ctl} /\ UsedWhenOff => UsedWhenOff'
  BY <1>2, <1>4 DEF UsedWhenOff, AllOff
<1>7. AllOff \/ asids = {0} => tlb' = tlb
  BY <1>1, HardwareAdds
<1>8. CASE AtRest
  <2>1. "XP" \in ctl => Clean' /\ (synced /\ On(ctl) => Used' \subseteq {NowUsed})
    BY <1>1, <1>4, <1>8 DEF AtRest, MmuAlways, Clean, Settled
  <2>2. AtRest'
    BY <1>2, <1>3, <1>4, <1>6, <1>8, <2>1 DEF AtRest, Settled
  <2> QED
    BY <1>1, <2>2 DEF MmuInv
<1>9. CASE Ending
  <2>1. flushing' \/ btb' \subseteq {IF On(ctl) THEN NowUsed ELSE Flat}
    <3>1. CASE On(ctl)
      BY <1>1, <1>2, <1>4, <1>9, <3>1 DEF Ending, MmuAlways, Clean
    <3>2. CASE ~On(ctl)
      BY <1>1, <1>2, <1>4, <1>9, <3>2 DEF Ending, AllOff
    <3> QED
      BY <3>1, <3>2
  <2>2. Ending'
    BY <1>1, <1>2, <1>3, <1>4, <1>9, <2>1 DEF Ending
  <2> QED
    BY <1>1, <2>2 DEF MmuInv
<1>10. CASE Resetting
  <2>1. Resetting'
    BY <1>2, <1>3, <1>4, <1>7, <1>10 DEF Resetting
  <2> QED
    BY <1>1, <2>1 DEF MmuInv
<1>11. CASE Rewriting
  <2>1. Rewriting'
    BY <1>1, <1>2, <1>3, <1>4, <1>11 DEF Rewriting
  <2> QED
    BY <1>1, <2>1 DEF MmuInv
<1>12. ASSUME NEW w \in {<<>>, cp15_ctrl_reg1_wr}, Disabling(w) PROVE MmuInv'
  <2>1. Disabling(w)'
    BY <1>1, <1>2, <1>3, <1>12 DEF Disabling
  <2> QED
    BY <1>1, <2>1 DEF MmuInv
<1>13. CASE Enabling
  <2>1. Enabling'
    BY <1>1, <1>2, <1>3, <1>13 DEF Enabling
  <2> QED
    BY <1>1, <2>1 DEF MmuInv
<1>14. CASE Switching
  <2>1. asid = 0 /\ SettledContext /\ ctls = {ctl} /\ (On(ctl) => Used = {}) => (On(ctl) => Used' = {})
    BY <1>4 DEF SettledContext
  <2>2. Switching'
    BY <1>1, <1>2, <1>3, <1>6, <1>14, <2>1 DEF Switching
  <2> QED
    BY <1>1, <2>2 DEF MmuInv
<1>15. CASE Syncing
  <2>1. Syncing'
    BY <1>1, <1>2, <1>3, <1>6, <1>15 DEF Syncing, Settled
  <2> QED
    BY <1>1, <2>1 DEF MmuInv
<1> QED
  BY <1>8, <1>9, <1>10, <1>11, <1>12, <1>13, <1>14, <1>15 DEF MmuInv

\* The sequence of a rewrite is one of operations.
LEMMA RewriteOps == cp15_ctrl_reg1_wr \in Seq(OpNames) /\ <<>> \in Seq(OpNames)
BY DEF cp15_ctrl_reg1_wr, OpNames

\* Every sequence ends with a prefetch flush, behind which the program runs.
LEMMA EndingRuns == MmuInv /\ Ending /\ RunOp => MmuInv'
<1> SUFFICES ASSUME MmuAlways, Ending, RunOp PROVE MmuAlways' /\ AtRest'
  BY DEF MmuInv
<1>1. Head(ops) = "PrefetchFlush" /\ Tail(ops) = <<>>
  BY DEF Ending
<1>2. MmuAlways'
  BY <1>1, OpAlways DEF OpNames
<1>3. /\ pbuf' = {} /\ flushing' = FALSE /\ btb' \subseteq btb /\ (flushing => btb' = {})
      /\ ctls' = {ctl} /\ asids' = {asid} /\ ttbrs' = {ttbr} /\ ops' = <<>>
      /\ UNCHANGED <<tlb, doomed, pte, reach, dirty, cleaning, ctl, newctl, asid, ttbr, synced>>
  BY <1>1, RunPrefetchFlush
<1>4. Settled' /\ Calm' /\ Clean'
  BY <1>3 DEF Ending, Settled, SettledContext, Calm, Clean, ReachExact, Exact, Usable
<1>5. Used' \subseteq {IF On(ctl) THEN NowUsed ELSE Flat} /\ NowUsed' = NowUsed
  BY <1>3 DEF Ending, Used, NowUsed
<1> QED
  BY <1>2, <1>3, <1>4, <1>5 DEF AtRest, Ending, UsedWhenOff

\* mmu_init empties the TLB before it sets XP.
LEMMA ResettingRuns == MmuInv /\ Resetting /\ RunOp => MmuInv'
<1> SUFFICES ASSUME MmuAlways, Resetting, RunOp PROVE MmuAlways' /\ (Resetting' \/ Rewriting')
  BY DEF MmuInv
<1> DEFINE w == cp15_ctrl_reg1_wr
<1>0. w \in Seq(OpNames)
  BY RewriteOps
<1>1. /\ synced /\ ReachExact /\ AllOff /\ SettledContext /\ ~cleaning
      /\ "XP" \notin ctl /\ Used \subseteq {Flat} /\ ~On(newctl) /\ Writable
  BY DEF Resetting
<1> HIDE DEF w
<1>2. CASE ops = mmu_reset \o w
  <2>1. Head(ops) = "InvTlb" /\ Tail(ops) = <<"InvDcache", "InvIcache", "Dsb", "PrefetchFlush">> \o w
    BY <1>0, <1>2 DEF mmu_reset
  <2>2. MmuAlways'
    BY <2>1, OpAlways DEF OpNames
  <2>3. /\ tlb' = {} /\ ops' = <<"InvDcache", "InvIcache", "Dsb", "PrefetchFlush">> \o w
        /\ UNCHANGED <<btb, pbuf, pte, reach, dirty, cleaning>>
        /\ UNCHANGED <<ctl, newctl, asid, ttbr, ctls, asids, ttbrs, synced>>
    BY <2>1, RunInvTlb
  <2>4. /\ ReachExact' = ReachExact /\ AllOff' = AllOff /\ SettledContext' = SettledContext
        /\ Used' = Used /\ Writable' = Writable
    BY <2>3 DEF ReachExact, AllOff, SettledContext, Used, Writable
  <2>5. Resetting'
    BY <1>1, <2>3, <2>4 DEF Resetting, w
  <2> QED
    BY <2>2, <2>5
<1>3. CASE /\ ops \in {<<"InvDcache", "InvIcache", "Dsb", "PrefetchFlush">> \o w,
                       <<"InvIcache", "Dsb", "PrefetchFlush">> \o w}
           /\ tlb = {}
  <2>1. /\ Head(ops) \in {"InvDcache", "InvIcache"}
        /\ Tail(ops) \in {<<"InvIcache", "Dsb", "PrefetchFlush">> \o w, <<"Dsb", "PrefetchFlush">> \o w}
    BY <1>0, <1>3
  <2>2. MmuAlways'
    BY <2>1, OpAlways DEF OpNames
  <2>3. Resetting'
    BY <1>1, <1>3, <2>1, RunCacheOp DEF Resetting, ReachExact, AllOff, SettledContext, Used, Writable, w
  <2> QED
    BY <2>2, <2>3
<1>4. CASE ops = <<"Dsb", "PrefetchFlush">> \o w /\ tlb = {}
  <2>1. Head(ops) = "Dsb" /\ Tail(ops) = <<"PrefetchFlush">> \o w
    BY <1>0, <1>4
  <2>2. MmuAlways'
    BY <2>1, OpAlways DEF OpNames
  <2>3. /\ Usable' = {} /\ ~cleaning' /\ doomed' = {} /\ btb' \subseteq btb
        /\ reach' = reach \/ reach' = [a \in Asids |-> {pte[a]}]
        /\ dirty' = (dirty /\ ~cleaning)
        /\ UNCHANGED <<pte, ctls, newctl, asid, ttbr, asids, ttbrs>>
        /\ ops' = <<"PrefetchFlush">> \o w
    BY <1>4, <2>1, RunDsb DEF Usable
  <2>4. Calm' /\ Clean' /\ OwnTable'
    BY <1>1, <2>3 DEF Calm, Clean, OwnTable, ReachExact, Exact
  <2>5. Rewriting'
    BY <1>1, <2>3, <2>4 DEF Rewriting, AllOff, SettledContext, Used, Writable, w
  <2> QED
    BY <2>2, <2>5
<1> QED
  BY <1>2, <1>3, <1>4 DEF Resetting, w

\* The operations of a rewrite keep the inductive invariant.
LEMMA RewritingRuns == MmuInv /\ Rewriting /\ RunOp => MmuInv'
<1> SUFFICES ASSUME MmuAlways, Rewriting, RunOp PROVE MmuAlways' /\ (Rewriting' \/ Ending')
  BY DEF MmuInv
<1>1. /\ AllOff /\ ~On(newctl) /\ Writable /\ SettledContext /\ Calm /\ Clean /\ OwnTable
      /\ flushing \/ btb \subseteq {Flat}
  BY DEF Rewriting
<1>2. CASE ops = <<"PrefetchFlush">> \o cp15_ctrl_reg1_wr
  <2>1. Head(ops) = "PrefetchFlush" /\ Tail(ops) = cp15_ctrl_reg1_wr
    BY <1>2, RewriteOps
  <2>2. MmuAlways'
    BY <2>1, OpAlways DEF OpNames
  <2>3. /\ btb' \subseteq btb /\ (flushing => btb' = {}) /\ ctls' = {ctl} /\ asids' = {asid} /\ ttbrs' = {ttbr}
        /\ ops' = cp15_ctrl_reg1_wr
        /\ UNCHANGED <<tlb, doomed, pte, reach, dirty, cleaning, ctl, newctl, asid, ttbr, synced>>
    BY <2>1, RunPrefetchFlush
  <2>4. Calm' /\ Clean' /\ OwnTable'
    BY <1>1, <2>3 DEF Calm, Clean, OwnTable, ReachExact, Exact, Usable
  <2>5. Rewriting'
    BY <1>1, <2>3, <2>4 DEF Rewriting, AllOff, SettledContext, Writable, MmuAlways, MmuTypes
  <2> QED
    BY <2>2, <2>5
<1>3. CASE ops = cp15_ctrl_reg1_wr
  <2>1. Head(ops) = "ControlWr" /\ Tail(ops) = <<"PrefetchFlush">>
    BY <1>3 DEF cp15_ctrl_reg1_wr
  <2>2. MmuAlways'
    BY <1>1, <2>1, OpAlways DEF OpNames
  <2>3. /\ ctl' = newctl /\ ctls' = ctls \cup {newctl} /\ ops' = <<"PrefetchFlush">>
        /\ UNCHANGED <<tlb, doomed, flushing, btb, pbuf, pte, reach, dirty, cleaning>>
        /\ UNCHANGED <<newctl, asid, ttbr, asids, ttbrs, synced>>
    BY <2>1, RunControl
  <2>4. Calm' /\ Clean'
    BY <1>1, <2>3 DEF Calm, Clean, ReachExact, Exact, Usable
  <2>5. Ending'
    BY <1>1, <2>3, <2>4 DEF Ending, AllOff, Writable
  <2> QED
    BY <2>2, <2>5
<1> QED
  BY <1>2, <1>3 DEF Rewriting

\* A step of mmu_disable_set_asm: the data cache is clean before the control
\* register is written, and the BTB is flushed behind that.
LEMMA DisablingRuns ==
  ASSUME NEW w \in {<<>>, cp15_ctrl_reg1_wr}, MmuAlways, Disabling(w), RunOp
  PROVE  MmuInv'
<1> SUFFICES MmuAlways' /\ (Disabling(w)' \/ Rewriting' \/ Ending')
  BY DEF MmuInv
<1>0. w \in Seq(OpNames)
  BY RewriteOps
<1>1. /\ "XP" \in ctl /\ doomed = {} /\ Clean /\ SettledContext /\ ~On(newctl) /\ "XP" \in newctl
  BY DEF Disabling
<1>2. OwnTable /\ ctl \in ctls
  BY <1>1 DEF MmuAlways, MmuTypes
<1>3. CASE ops = mmu_disable_set_asm \o w /\ Settled /\ ~cleaning
  <2> DEFINE rest == <<"Dsb", "PrefetchFlush", "ControlWr", "PrefetchFlush",
                       "InvIcache", "Dsb", "FlushBtb", "PrefetchFlush">> \o w
  <2>1. Head(ops) = "CleanInvDcache" /\ Tail(ops) = rest
    BY <1>0, <1>3 DEF mmu_disable_set_asm
  <2>2. MmuAlways'
    BY <2>1, OpAlways DEF OpNames
  <2>3. /\ cleaning' = TRUE /\ ops' = rest
        /\ UNCHANGED <<tlb, doomed, pte, reach, ctl, newctl, asid, ttbr, ctls, asids, ttbrs, synced>>
    BY <2>1, RunCacheOp
  <2>4. Clean' = Clean /\ SettledContext' = SettledContext /\ Settled' = Settled
    BY <2>3 DEF Clean, ReachExact, Exact, Usable, SettledContext, Settled
  <2>5. Disabling(w)'
    BY <1>1, <1>3, <2>3, <2>4 DEF Disabling
  <2> QED
    BY <2>2, <2>5
<1>4. CASE /\ ops = <<"Dsb", "PrefetchFlush", "ControlWr", "PrefetchFlush",
                      "InvIcache", "Dsb", "FlushBtb", "PrefetchFlush">> \o w
           /\ Settled /\ cleaning
  <2> DEFINE rest == <<"PrefetchFlush", "ControlWr", "PrefetchFlush", "InvIcache", "Dsb", "FlushBtb",
                       "PrefetchFlush">> \o w
  <2>1. Head(ops) = "Dsb" /\ Tail(ops) = rest
    BY <1>0, <1>4
  <2>2. MmuAlways'
    BY <2>1, OpAlways DEF OpNames
  <2>3. /\ cleaning' = FALSE /\ dirty' = FALSE /\ doomed' = {} /\ ops' = rest
        /\ reach' = [a \in Asids |-> {pte[a]}]
        /\ UNCHANGED <<tlb, pte, ctl, newctl, asid, ttbr, ctls, asids, ttbrs, synced>>
    BY <1>4, <2>1, RunDsb
  <2>4. SettledContext' = SettledContext /\ Settled' = Settled
    BY <2>3 DEF SettledContext, Settled
  <2>5. Clean'
    BY <1>1, <2>3 DEF Clean, ReachExact, Exact, Usable
  <2>6. Disabling(w)'
    BY <1>1, <1>4, <2>3, <2>4, <2>5 DEF Disabling
  <2> QED
    BY <2>2, <2>6
<1>5. CASE /\ ops = <<"PrefetchFlush", "ControlWr", "PrefetchFlush", "InvIcache", "Dsb", "FlushBtb",
                      "PrefetchFlush">> \o w
           /\ Settled /\ ~cleaning /\ ~dirty
  <2> DEFINE rest == <<"ControlWr", "PrefetchFlush", "InvIcache", "Dsb", "FlushBtb", "PrefetchFlush">> \o w
  <2>1. Head(ops) = "PrefetchFlush" /\ Tail(ops) = rest
    BY <1>0, <1>5
  <2>2. MmuAlways'
    BY <2>1, OpAlways DEF OpNames
  <2>3. /\ ctls' = {ctl} /\ asids' = {asid} /\ ttbrs' = {ttbr} /\ ops' = rest
        /\ UNCHANGED <<tlb, doomed, pte, reach, dirty, cleaning, ctl, newctl, asid, ttbr, synced>>
    BY <2>1, RunPrefetchFlush
  <2>4. Clean' = Clean /\ SettledContext' /\ Settled'
    BY <2>3 DEF Clean, ReachExact, Exact, Usable, SettledContext, Settled
  <2>5. Disabling(w)'
    BY <1>1, <1>5, <2>3, <2>4 DEF Disabling
  <2> QED
    BY <2>2, <2>5
<1>6. CASE /\ ops = <<"ControlWr", "PrefetchFlush", "InvIcache", "Dsb", "FlushBtb", "PrefetchFlush">> \o w
           /\ Settled /\ ~cleaning /\ ~dirty
  <2> DEFINE rest == <<"PrefetchFlush", "InvIcache", "Dsb", "FlushBtb", "PrefetchFlush">> \o w
  <2>1. Head(ops) = "ControlWr" /\ Tail(ops) = rest
    BY <1>0, <1>6
  <2>2. MmuAlways'
    BY <1>1, <1>2, <1>6, <2>1, OpAlways DEF OpNames, Writable
  <2>3. /\ ctl' = newctl /\ ops' = rest
        /\ UNCHANGED <<tlb, doomed, pte, reach, dirty, cleaning, newctl, asid, ttbr, asids, ttbrs, synced>>
    BY <2>1, RunControl
  <2>4. Clean' = Clean /\ SettledContext' = SettledContext
    BY <2>3 DEF Clean, ReachExact, Exact, Usable, SettledContext
  <2>5. Disabling(w)'
    BY <1>1, <1>6, <2>3, <2>4 DEF Disabling
  <2> QED
    BY <2>2, <2>5
<1>7. CASE /\ ops = <<"PrefetchFlush", "InvIcache", "Dsb", "FlushBtb", "PrefetchFlush">> \o w
           /\ ~cleaning /\ ~dirty /\ ~On(ctl)
  <2> DEFINE rest == <<"InvIcache", "Dsb", "FlushBtb", "PrefetchFlush">> \o w
  <2>1. Head(ops) = "PrefetchFlush" /\ Tail(ops) = rest
    BY <1>0, <1>7
  <2>2. MmuAlways'
    BY <2>1, OpAlways DEF OpNames
  <2>3. /\ ctls' = {ctl} /\ asids' = {asid} /\ ttbrs' = {ttbr} /\ ops' = rest
        /\ UNCHANGED <<tlb, doomed, pte, reach, dirty, cleaning, ctl, newctl, asid, ttbr, synced>>
    BY <2>1, RunPrefetchFlush
  <2>4. Clean' = Clean /\ SettledContext' /\ AllOff'
    BY <1>7, <2>3 DEF Clean, ReachExact, Exact, Usable, SettledContext, AllOff
  <2>5. Disabling(w)'
    BY <1>1, <1>7, <2>3, <2>4 DEF Disabling
  <2> QED
    BY <2>2, <2>5
<1>8. CASE /\ ops = <<"InvIcache", "Dsb", "FlushBtb", "PrefetchFlush">> \o w
           /\ ~cleaning /\ ~dirty /\ AllOff
  <2> DEFINE rest == <<"Dsb", "FlushBtb", "PrefetchFlush">> \o w
  <2>1. Head(ops) = "InvIcache" /\ Tail(ops) = rest
    BY <1>0, <1>8
  <2>2. MmuAlways'
    BY <2>1, OpAlways DEF OpNames
  <2>3. /\ ops' = rest
        /\ UNCHANGED <<tlb, doomed, pte, reach, dirty, cleaning, ctl, newctl, asid, ttbr, ctls, asids, ttbrs, synced>>
    BY <2>1, RunCacheOp
  <2>4. Clean' = Clean /\ SettledContext' = SettledContext /\ AllOff' = AllOff
    BY <2>3 DEF Clean, ReachExact, Exact, Usable, SettledContext, AllOff
  <2>5. Disabling(w)'
    BY <1>1, <1>8, <2>3, <2>4 DEF Disabling
  <2> QED
    BY <2>2, <2>5
<1>9. CASE /\ ops = <<"Dsb", "FlushBtb", "PrefetchFlush">> \o w
           /\ ~cleaning /\ ~dirty /\ AllOff
  <2> DEFINE rest == <<"FlushBtb", "PrefetchFlush">> \o w
  <2>1. Head(ops) = "Dsb" /\ Tail(ops) = rest
    BY <1>0, <1>9
  <2>2. MmuAlways'
    BY <2>1, OpAlways DEF OpNames
  <2>3. /\ ops' = rest /\ ~dirty' /\ ~cleaning' /\ doomed' = {}
        /\ reach' = reach \/ reach' = [a \in Asids |-> {pte[a]}]
        /\ UNCHANGED <<tlb, pte, ctl, newctl, asid, ttbr, ctls, asids, ttbrs, synced>>
    BY <1>9, <2>1, RunDsb
  <2>4. SettledContext' = SettledContext /\ AllOff' = AllOff
    BY <2>3 DEF SettledContext, AllOff
  <2>5. Clean'
    BY <1>1, <2>3 DEF Clean, ReachExact, Exact, Usable
  <2>6. Disabling(w)'
    BY <1>1, <1>9, <2>3, <2>4, <2>5 DEF Disabling
  <2> QED
    BY <2>2, <2>6
<1>10. CASE /\ ops = <<"FlushBtb", "PrefetchFlush">> \o w
            /\ ~cleaning /\ ~dirty /\ AllOff
  <2>1. Head(ops) = "FlushBtb" /\ Tail(ops) = <<"PrefetchFlush">> \o w
    BY <1>0, <1>10
  <2>2. MmuAlways'
    BY <2>1, OpAlways DEF OpNames
  <2>3. /\ ops' = <<"PrefetchFlush">> \o w /\ flushing' = TRUE
        /\ UNCHANGED <<tlb, doomed, pte, reach, dirty, cleaning, ctl, newctl, asid, ttbr, ctls, asids, ttbrs, synced>>
    BY <2>1, RunFlushBtb
  <2>4. /\ Clean' = Clean /\ SettledContext' = SettledContext /\ AllOff' = AllOff /\ OwnTable' = OwnTable
        /\ Calm' /\ Writable'
    BY <1>1, <1>10, <2>3 DEF Clean, ReachExact, Exact, Usable, SettledContext, AllOff, OwnTable, Calm, Writable
  <2>5. CASE w = <<>>
    <3>1. ops' = <<"PrefetchFlush">>
      BY <2>3, <2>5
    <3> QED
      BY <1>1, <1>2, <1>10, <2>2, <2>3, <2>4, <3>1 DEF Ending, AllOff
  <2>6. CASE w = cp15_ctrl_reg1_wr
    BY <1>1, <1>2, <1>10, <2>2, <2>3, <2>4, <2>6 DEF Rewriting
  <2> QED
    BY <2>5, <2>6
<1> QED
  BY <1>3, <1>4, <1>5, <1>6, <1>7, <1>8, <1>9, <1>10 DEF Disabling

\* A step of mmu_enable_set_asm.
LEMMA EnablingRuns == MmuInv /\ Enabling /\ RunOp => MmuInv'
<1> SUFFICES ASSUME MmuAlways, Enabling, RunOp PROVE MmuAlways' /\ (Enabling' \/ Ending')
  BY DEF MmuInv
<1> DEFINE p5 == <<"PrefetchFlush", "ControlWr", "PrefetchFlush", "FlushBtb", "PrefetchFlush">>
           p4 == <<"Dsb", "PrefetchFlush", "ControlWr", "PrefetchFlush", "FlushBtb", "PrefetchFlush">>
           p3 == <<"InvIcache", "Dsb", "PrefetchFlush", "ControlWr", "PrefetchFlush", "FlushBtb",
                   "PrefetchFlush">>
           p2 == <<"PrefetchFlush", "InvIcache", "Dsb", "PrefetchFlush", "ControlWr", "PrefetchFlush",
                   "FlushBtb", "PrefetchFlush">>
           p6 == <<"ControlWr", "PrefetchFlush", "FlushBtb", "PrefetchFlush">>
           Before == AllOff /\ On(newctl) /\ Writable
<1>1. "XP" \in ctl /\ synced /\ Clean /\ SettledContext /\ Calm /\ ctl \in ctls /\ OwnTable
  BY DEF Enabling, MmuAlways, MmuTypes
<1>2. CASE ops = mmu_enable_set_asm /\ Before
  <2>1. Head(ops) = "IcacheOff" /\ Tail(ops) = p2
    BY <1>2 DEF mmu_enable_set_asm
  <2>2. MmuAlways'
    BY <2>1, OpAlways DEF OpNames
  <2>3. /\ ctl' = ctl \ {"I"} /\ ctls' = ctls \cup {ctl'} /\ ops' = p2
        /\ UNCHANGED <<tlb, doomed, pte, reach, dirty, cleaning, newctl, asid, ttbr, asids, ttbrs, synced>>
    BY <2>1, RunControl
  <2>4. Clean' = Clean /\ SettledContext' = SettledContext /\ Calm' = Calm /\ Writable' = Writable
    BY <2>3 DEF Clean, ReachExact, Exact, Usable, SettledContext, Calm, Writable
  <2>5. AllOff'
    BY <1>1, <1>2, <2>3 DEF AllOff, On
  <2>6. Enabling'
    BY <1>1, <1>2, <2>3, <2>4, <2>5 DEF Enabling
  <2> QED
    BY <2>2, <2>6
<1>3. CASE (ops = p2 \/ ops = p5) /\ Before
  <2>1. Head(ops) = "PrefetchFlush" /\ Tail(ops) \in {p3, p6}
    <3>1. CASE ops = p2
      BY <3>1
    <3>2. CASE ops = p5
      BY <3>2
    <3> QED
      BY <1>3, <3>1, <3>2
  <2>2. MmuAlways'
    BY <2>1, OpAlways DEF OpNames
  <2>3. /\ ctls' = {ctl} /\ asids' = {asid} /\ ttbrs' = {ttbr} /\ ops' \in {p3, p6}
        /\ UNCHANGED <<tlb, doomed, pte, reach, dirty, cleaning, ctl, newctl, asid, ttbr, synced>>
    BY <2>1, RunPrefetchFlush
  <2>4. Clean' = Clean /\ SettledContext' /\ Calm' = Calm /\ Writable' = Writable /\ AllOff'
    BY <1>1, <1>3, <2>3 DEF Clean, ReachExact, Exact, Usable, SettledContext, Calm, Writable, AllOff
  <2>5. Enabling'
    BY <1>1, <1>3, <2>3, <2>4 DEF Enabling
  <2> QED
    BY <2>2, <2>5
<1>4. CASE ops = p3 /\ Before
  <2>1. Head(ops) = "InvIcache" /\ Tail(ops) = p4
    BY <1>4
  <2>2. MmuAlways'
    BY <2>1, OpAlways DEF OpNames
  <2>3. /\ ops' = p4
        /\ UNCHANGED <<tlb, doomed, pte, reach, dirty, cleaning, ctl, newctl, asid, ttbr, ctls, asids, ttbrs, synced>>
    BY <2>1, RunCacheOp
  <2>4. /\ Clean' = Clean /\ SettledContext' = SettledContext /\ Calm' = Calm /\ Writable' = Writable
        /\ AllOff' = AllOff
    BY <2>3 DEF Clean, ReachExact, Exact, Usable, SettledContext, Calm, Writable, AllOff
  <2>5. Enabling'
    BY <1>1, <1>4, <2>3, <2>4 DEF Enabling
  <2> QED
    BY <2>2, <2>5
<1>5. CASE ops = p4 /\ Before
  <2>1. Head(ops) = "Dsb" /\ Tail(ops) = p5
    BY <1>5
  <2>2. MmuAlways'
    BY <2>1, OpAlways DEF OpNames
  <2>3. /\ ops' = p5 /\ cleaning' = FALSE /\ doomed' = {} /\ dirty' = (dirty /\ ~cleaning)
        /\ reach' = reach \/ reach' = [a \in Asids |-> {pte[a]}]
        /\ UNCHANGED <<tlb, pte, ctl, newctl, asid, ttbr, ctls, asids, ttbrs, synced>>
    BY <2>1, RunDsb
  <2>4. SettledContext' = SettledContext /\ AllOff' = AllOff /\ Calm'
    BY <2>3 DEF SettledContext, AllOff, Calm
  <2>5. Clean' /\ Writable'
    BY <1>1, <1>5, <2>3 DEF Clean, ReachExact, Exact, Usable, Writable
  <2>6. Enabling'
    BY <1>1, <1>5, <2>3, <2>4, <2>5 DEF Enabling
  <2> QED
    BY <2>2, <2>6
<1>6. CASE ops = p6 /\ Before
  <2>1. Head(ops) = "ControlWr" /\ Tail(ops) = <<"PrefetchFlush", "FlushBtb", "PrefetchFlush">>
    BY <1>6
  <2>2. MmuAlways'
    BY <1>1, <1>6, <2>1, OpAlways DEF OpNames
  <2>3. /\ ctl' = newctl /\ ops' = <<"PrefetchFlush", "FlushBtb", "PrefetchFlush">>
        /\ UNCHANGED <<tlb, doomed, pte, reach, dirty, cleaning, newctl, asid, ttbr, asids, ttbrs, synced>>
    BY <2>1, RunControl
  <2>4. Clean' = Clean /\ SettledContext' = SettledContext /\ Calm' = Calm
    BY <2>3 DEF Clean, ReachExact, Exact, Usable, SettledContext, Calm
  <2>5. Enabling'
    BY <1>1, <1>6, <2>3, <2>4 DEF Enabling, Writable
  <2> QED
    BY <2>2, <2>5
<1>7. CASE ops = <<"PrefetchFlush", "FlushBtb", "PrefetchFlush">> /\ On(ctl)
  <2>1. Head(ops) = "PrefetchFlush" /\ Tail(ops) = <<"FlushBtb", "PrefetchFlush">>
    BY <1>7
  <2>2. MmuAlways'
    BY <2>1, OpAlways DEF OpNames
  <2>3. /\ ctls' = {ctl} /\ asids' = {asid} /\ ttbrs' = {ttbr} /\ ops' = <<"FlushBtb", "PrefetchFlush">>
        /\ UNCHANGED <<tlb, doomed, pte, reach, dirty, cleaning, ctl, newctl, asid, ttbr, synced>>
    BY <2>1, RunPrefetchFlush
  <2>4. Clean' = Clean /\ SettledContext' /\ Calm' = Calm
    BY <2>3 DEF Clean, ReachExact, Exact, Usable, SettledContext, Calm
  <2>5. Enabling'
    BY <1>1, <1>7, <2>3, <2>4 DEF Enabling
  <2> QED
    BY <2>2, <2>5
<1>8. CASE ops = <<"FlushBtb", "PrefetchFlush">> /\ ctls = {ctl} /\ On(ctl)
  <2>1. Head(ops) = "FlushBtb" /\ Tail(ops) = <<"PrefetchFlush">>
    BY <1>8
  <2>2. MmuAlways'
    BY <2>1, OpAlways DEF OpNames
  <2>3. /\ ops' = <<"PrefetchFlush">> /\ flushing' = TRUE
        /\ UNCHANGED <<tlb, doomed, pte, reach, dirty, cleaning, ctl, newctl, asid, ttbr, ctls, asids, ttbrs, synced>>
    BY <2>1, RunFlushBtb
  <2>4. Clean' = Clean /\ Calm' = Calm
    BY <2>3 DEF Clean, ReachExact, Exact, Usable, Calm
  <2>5. Ending'
    BY <1>1, <1>8, <2>3, <2>4 DEF Ending
  <2> QED
    BY <2>2, <2>5
<1> QED
  BY <1>2, <1>3, <1>4, <1>5, <1>6, <1>7, <1>8 DEF Enabling

\* A step of cp15_set_procid_ttbr0: asid 0 stands between two contexts.
LEMMA SwitchingRuns == MmuInv /\ Switching /\ (RunOp \/ SetTtbr) => MmuInv'
<1> SUFFICES ASSUME MmuAlways, Switching, RunOp \/ SetTtbr PROVE MmuAlways' /\ (Switching' \/ Ending')
  BY DEF MmuInv
<1> DEFINE p2 == <<"Asid0", "PrefetchFlush", "Ttbr", "PrefetchFlush", "FlushBtb", "PrefetchFlush",
                   "Asid", "PrefetchFlush">>
           p3 == <<"PrefetchFlush", "Ttbr", "PrefetchFlush", "FlushBtb", "PrefetchFlush",
                   "Asid", "PrefetchFlush">>
           p4 == <<"Ttbr", "PrefetchFlush", "FlushBtb", "PrefetchFlush", "Asid", "PrefetchFlush">>
           p5 == <<"PrefetchFlush", "FlushBtb", "PrefetchFlush", "Asid", "PrefetchFlush">>
           p6 == <<"FlushBtb", "PrefetchFlush", "Asid", "PrefetchFlush">>
           p7 == <<"PrefetchFlush", "Asid", "PrefetchFlush">>
           p8 == <<"Asid", "PrefetchFlush">>
<1>1. /\ "XP" \in ctl /\ synced /\ Clean /\ Calm /\ ctls = {ctl} /\ UsedWhenOff /\ OwnTable
  BY DEF Switching, MmuAlways
<1>2. CASE ops = cp15_set_procid_ttbr0 /\ SettledContext
  <2>1. Head(ops) = "Dsb" /\ Tail(ops) = p2
    BY <1>2 DEF cp15_set_procid_ttbr0
  <2>0. RunOp
    BY <2>1 DEF SetTtbr
  <2>2. MmuAlways'
    BY <2>0, <2>1, OpAlways DEF OpNames
  <2>3. /\ ops' = p2 /\ cleaning' = FALSE /\ doomed' = {} /\ btb' \subseteq btb
        /\ reach' = reach \/ reach' = [a \in Asids |-> {pte[a]}]
        /\ UNCHANGED <<tlb, pbuf, pte, ctl, newctl, asid, ttbr, ctls, asids, ttbrs, synced>>
    BY <2>0, <2>1, RunDsb
  <2>4. SettledContext' = SettledContext /\ Calm' /\ UsedWhenOff'
    BY <1>1, <2>3 DEF SettledContext, Calm, UsedWhenOff, Used
  <2>5. Clean'
    BY <1>1, <2>3 DEF Clean, ReachExact, Exact, Usable
  <2>6. Switching'
    BY <1>1, <1>2, <2>3, <2>4, <2>5 DEF Switching
  <2> QED
    BY <2>2, <2>6
<1>3. CASE ops = p2 /\ SettledContext
  <2>1. Head(ops) = "Asid0" /\ Tail(ops) = p3
    BY <1>3
  <2>0. RunOp
    BY <2>1 DEF SetTtbr
  <2>2. MmuAlways'
    BY <2>0, <2>1, OpAlways DEF OpNames
  <2>3. /\ ops' = p3 /\ asid' = 0
        /\ UNCHANGED <<tlb, doomed, btb, pbuf, pte, reach, cleaning, ctl, ctls, synced>>
    BY <2>0, <2>1, RunAsid
  <2>4. Clean' = Clean /\ Calm' = Calm /\ UsedWhenOff' = UsedWhenOff
    BY <2>3 DEF Clean, ReachExact, Exact, Usable, Calm, UsedWhenOff, Used
  <2>5. Switching'
    BY <1>1, <2>3, <2>4 DEF Switching
  <2> QED
    BY <2>2, <2>5
<1>4. CASE \/ ops = p3 /\ asid = 0
           \/ ops = p5 /\ asid = 0 /\ asids = {0}
           \/ ops = p7 /\ asid = 0 /\ SettledContext /\ flushing
  <2>1. /\ Head(ops) = "PrefetchFlush"
        /\ Tail(ops) = IF ops = p3 THEN p4 ELSE IF ops = p5 THEN p6 ELSE p8
    <3>1. CASE ops = p3
      BY <3>1
    <3>2. CASE ops = p5
      <4>1. p5 # p3
        OBVIOUS
      <4> QED
        BY <3>2, <4>1
    <3>3. CASE ops = p7
      <4>1. p7 # p3 /\ p7 # p5
        OBVIOUS
      <4> QED
        BY <3>3, <4>1
    <3> QED
      BY <1>4, <3>1, <3>2, <3>3
  <2>0. RunOp
    BY <2>1 DEF SetTtbr
  <2>2. MmuAlways'
    BY <2>0, <2>1, OpAlways DEF OpNames
  <2>3. /\ pbuf' = {} /\ btb' \subseteq btb /\ (flushing => btb' = {})
        /\ ctls' = {ctl} /\ asids' = {asid} /\ ttbrs' = {ttbr}
        /\ ops' = IF ops = p3 THEN p4 ELSE IF ops = p5 THEN p6 ELSE p8
        /\ UNCHANGED <<tlb, doomed, pte, reach, dirty, cleaning, ctl, newctl, asid, ttbr, synced>>
    BY <2>0, <2>1, RunPrefetchFlush
  <2>4. Clean' = Clean /\ Calm' = Calm /\ UsedWhenOff' /\ SettledContext'
    BY <1>1, <2>3 DEF Clean, ReachExact, Exact, Usable, Calm, UsedWhenOff, Used, SettledContext
  <2>5. ops' = p8 => Used' = {}
    <3>1. p8 # p4 /\ p8 # p6
      OBVIOUS
    <3> QED
      BY <1>4, <2>3, <3>1 DEF Used
  <2>6. Switching'
    <3>1. ops' \in {p4, p6, p8} /\ asid' = 0 /\ asids' = {0} /\ ctls' = {ctl'} /\ "XP" \in ctl' /\ synced'
      BY <1>1, <1>4, <2>3
    <3> QED
      BY <1>1, <2>4, <2>5, <3>1 DEF Switching
  <2> QED
    BY <2>2, <2>6
<1>5. CASE ops = p4 /\ asid = 0 /\ asids = {0}
  <2>1. Head(ops) = "Ttbr" /\ Tail(ops) = p5
    BY <1>5
  <2>0. SetTtbr
    BY <2>1 DEF RunOp
  <2>2. PICK a \in Asids : ttbr' = a /\ ttbrs' = ttbrs \cup {a}
    BY <2>0 DEF SetTtbr
  <2>3. /\ ops' = p5
        /\ UNCHANGED <<tlb, doomed, flushing, btb, pbuf, pte, reach, dirty, cleaning, ctl, asid, ctls, asids, synced>>
    BY <2>0, <2>1 DEF SetTtbr, memory, caches
  <2>4. /\ Clean' = Clean /\ Calm' = Calm /\ UsedWhenOff' = UsedWhenOff /\ OwnTable' = OwnTable
    BY <2>3 DEF Clean, ReachExact, Exact, Usable, Calm, UsedWhenOff, Used, OwnTable
  <2>5. MmuTypes'
    BY <2>2, <2>3 DEF MmuAlways, MmuTypes
  <2>6. MmuAlways'
    BY <1>1, <1>5, <2>2, <2>3, <2>4, <2>5 DEF MmuAlways
  <2>7. Switching'
    BY <1>1, <1>5, <2>3, <2>4 DEF Switching
  <2> QED
    BY <2>6, <2>7
<1>6. CASE ops = p6 /\ asid = 0 /\ SettledContext
  <2>1. Head(ops) = "FlushBtb" /\ Tail(ops) = p7
    BY <1>6
  <2>0. RunOp
    BY <2>1 DEF SetTtbr
  <2>2. MmuAlways'
    BY <2>0, <2>1, OpAlways DEF OpNames
  <2>3. /\ ops' = p7 /\ flushing' = TRUE
        /\ UNCHANGED <<tlb, doomed, btb, pbuf, pte, reach, dirty, cleaning, ctl, newctl, asid, ttbr, ctls, asids,
                       ttbrs, synced>>
    BY <2>0, <2>1, RunFlushBtb
  <2>4. /\ Clean' = Clean /\ Calm' = Calm /\ UsedWhenOff' = UsedWhenOff /\ SettledContext' = SettledContext
    BY <2>3 DEF Clean, ReachExact, Exact, Usable, Calm, UsedWhenOff, Used, SettledContext
  <2>5. Switching'
    BY <1>1, <1>6, <2>3, <2>4 DEF Switching
  <2> QED
    BY <2>2, <2>5
<1>7. CASE ops = p8 /\ asid = 0 /\ SettledContext /\ (On(ctl) => Used = {})
  <2>1. Head(ops) = "Asid" /\ Tail(ops) = <<"PrefetchFlush">>
    BY <1>7
  <2>0. RunOp
    BY <2>1 DEF SetTtbr
  <2>2. MmuAlways'
    BY <1>7, <2>0, <2>1, OpAlways DEF OpNames, SettledContext
  <2>3. /\ ops' = <<"PrefetchFlush">>
        /\ UNCHANGED <<tlb, doomed, flushing, btb, pbuf, pte, reach, cleaning, ctl, ctls, ttbr, synced>>
    BY <2>0, <2>1, RunAsid
  <2>4. Clean' = Clean /\ Calm' = Calm
    BY <2>3 DEF Clean, ReachExact, Exact, Usable, Calm
  <2>5. btb' \subseteq {IF On(ctl) THEN NowUsed' ELSE Flat}
    BY <1>1, <1>7, <2>3 DEF UsedWhenOff, Used
  <2>6. Ending'
    BY <1>1, <2>3, <2>4, <2>5 DEF Ending
  <2> QED
    BY <2>2, <2>6
<1> QED
  BY <1>2, <1>3, <1>4, <1>5, <1>6, <1>7 DEF Switching

\* A step of mmu_sync_pte_mods: the stores are visible before the TLB is
\* invalidated, and that has happened before the BTB is empty.
LEMMA SyncingRuns == MmuInv /\ Syncing /\ RunOp => MmuInv'
<1> SUFFICES ASSUME MmuAlways, Syncing, RunOp PROVE MmuAlways' /\ (Syncing' \/ Ending')
  BY DEF MmuInv
<1> DEFINE p2 == <<"InvIcache", "Dsb", "InvTlb", "FlushBtb", "Dsb", "PrefetchFlush">>
           p3 == <<"Dsb", "InvTlb", "FlushBtb", "Dsb", "PrefetchFlush">>
           p4 == <<"InvTlb", "FlushBtb", "Dsb", "PrefetchFlush">>
           p5 == <<"FlushBtb", "Dsb", "PrefetchFlush">>
           p6 == <<"Dsb", "PrefetchFlush">>
<1>1. "XP" \in ctl /\ synced /\ Settled /\ UsedWhenOff
  BY DEF Syncing
<1>2. CASE ops = mmu_sync_pte_mods
  <2>1. Head(ops) = "CleanInvDcache" /\ Tail(ops) = p2
    BY <1>2 DEF mmu_sync_pte_mods
  <2>2. MmuAlways'
    BY <2>1, OpAlways DEF OpNames
  <2>3. /\ cleaning' = TRUE /\ ops' = p2
        /\ UNCHANGED <<btb, pbuf, ctl, asid, ttbr, ctls, asids, ttbrs, synced>>
    BY <2>1, RunCacheOp
  <2>4. Settled' = Settled /\ UsedWhenOff' = UsedWhenOff
    BY <2>3 DEF Settled, SettledContext, UsedWhenOff, Used
  <2>5. Syncing'
    BY <1>1, <2>3, <2>4 DEF Syncing
  <2> QED
    BY <2>2, <2>5
<1>3. CASE ops = p2 /\ cleaning
  <2>1. Head(ops) = "InvIcache" /\ Tail(ops) = p3
    BY <1>3
  <2>2. MmuAlways'
    BY <2>1, OpAlways DEF OpNames
  <2>3. /\ cleaning' = cleaning /\ ops' = p3
        /\ UNCHANGED <<btb, pbuf, ctl, asid, ttbr, ctls, asids, ttbrs, synced>>
    BY <2>1, RunCacheOp
  <2>4. Settled' = Settled /\ UsedWhenOff' = UsedWhenOff
    BY <2>3 DEF Settled, SettledContext, UsedWhenOff, Used
  <2>5. Syncing'
    BY <1>1, <1>3, <2>3, <2>4 DEF Syncing
  <2> QED
    BY <2>2, <2>5
<1>4. CASE ops = p3 /\ cleaning
  <2>1. Head(ops) = "Dsb" /\ Tail(ops) = p4
    BY <1>4
  <2>2. MmuAlways'
    BY <2>1, OpAlways DEF OpNames
  <2>3. /\ cleaning' = FALSE /\ ops' = p4 /\ btb' \subseteq btb
        /\ reach' = [a \in Asids |-> {pte[a]}]
        /\ UNCHANGED <<pte, pbuf, ctl, asid, ttbr, ctls, asids, ttbrs, synced>>
    BY <1>4, <2>1, RunDsb
  <2>4. Settled' = Settled /\ UsedWhenOff' /\ ReachExact'
    BY <1>1, <2>3 DEF Settled, SettledContext, UsedWhenOff, Used, ReachExact
  <2>5. Syncing'
    BY <1>1, <2>3, <2>4 DEF Syncing
  <2> QED
    BY <2>2, <2>5
<1>5. CASE ops = p4 /\ ReachExact /\ ~cleaning
  <2>1. Head(ops) = "InvTlb" /\ Tail(ops) = p5
    BY <1>5
  <2>2. MmuAlways'
    BY <2>1, OpAlways DEF OpNames
  <2>3. /\ tlb' = {} /\ ops' = p5
        /\ UNCHANGED <<pte, reach, cleaning, btb, pbuf, ctl, asid, ttbr, ctls, asids, ttbrs, synced>>
    BY <2>1, RunInvTlb
  <2>4. Settled' = Settled /\ UsedWhenOff' = UsedWhenOff /\ ReachExact' = ReachExact /\ Exact(tlb)'
    BY <2>3 DEF Settled, SettledContext, UsedWhenOff, Used, ReachExact, Exact
  <2>5. Syncing'
    BY <1>1, <1>5, <2>3, <2>4 DEF Syncing
  <2> QED
    BY <2>2, <2>5
<1>6. CASE ops = p5 /\ ReachExact /\ ~cleaning /\ Exact(tlb)
  <2>1. Head(ops) = "FlushBtb" /\ Tail(ops) = p6
    BY <1>6
  <2>2. MmuAlways'
    BY <2>1, OpAlways DEF OpNames
  <2>3. /\ flushing' = TRUE /\ ops' = p6
        /\ UNCHANGED <<tlb, pte, reach, cleaning, btb, pbuf, ctl, asid, ttbr, ctls, asids, ttbrs, synced>>
    BY <2>1, RunFlushBtb
  <2>4. /\ Settled' = Settled /\ UsedWhenOff' = UsedWhenOff /\ ReachExact' = ReachExact
        /\ Exact(tlb)' = Exact(tlb)
    BY <2>3 DEF Settled, SettledContext, UsedWhenOff, Used, ReachExact, Exact
  <2>5. Syncing'
    BY <1>1, <1>6, <2>3, <2>4 DEF Syncing
  <2> QED
    BY <2>2, <2>5
<1>7. CASE ops = p6 /\ ReachExact /\ ~cleaning /\ Exact(tlb) /\ flushing
  <2>1. Head(ops) = "Dsb" /\ Tail(ops) = <<"PrefetchFlush">>
    BY <1>7
  <2>2. MmuAlways'
    BY <2>1, OpAlways DEF OpNames
  <2>3. /\ doomed' = {} /\ btb' = {} /\ cleaning' = FALSE /\ ops' = <<"PrefetchFlush">>
        /\ reach' = reach \/ reach' = [a \in Asids |-> {pte[a]}]
        /\ UNCHANGED <<tlb, pte, ctl, ctls, synced>>
    BY <1>7, <2>1, RunDsb
  <2>4. Calm' /\ Clean'
    BY <1>7, <2>3 DEF Calm, Clean, ReachExact, Exact, Usable
  <2>5. Ending'
    BY <1>1, <2>3, <2>4 DEF Ending, Settled
  <2> QED
    BY <2>2, <2>5
<1> QED
  BY <1>2, <1>3, <1>4, <1>5, <1>6, <1>7 DEF Syncing

\* A sequence of which operations are left is running: no function of mmu.c is
\* entered in the middle of one.
LEMMA RunningOps ==
  \/ Ending \/ Resetting \/ Rewriting \/ \E w \in {<<>>, cp15_ctrl_reg1_wr} : Disabling(w)
  \/ Enabling \/ Switching \/ Syncing
  => ops # <<>>
<1>1. ASSUME NEW w \in Seq(OpNames), NEW s \in Seq(OpNames), s # <<>>
      PROVE  s \o w # <<>>
  <2>1. Len(s) > 0 /\ Len(w) \in Nat /\ Len(s \o w) = Len(s) + Len(w)
    BY <1>1
  <2> QED
    BY <2>1
<1>2. Ending \/ Enabling \/ Switching \/ Syncing => ops # <<>>
  BY DEF Ending, Enabling, Switching, Syncing, mmu_enable_set_asm, cp15_set_procid_ttbr0,
     mmu_sync_pte_mods
<1>3. Rewriting => ops # <<>>
  BY RewriteOps DEF Rewriting, cp15_ctrl_reg1_wr
<1>4. Resetting => ops # <<>>
  <2> DEFINE s1 == mmu_reset
             s2 == <<"InvDcache", "InvIcache", "Dsb", "PrefetchFlush">>
             s3 == <<"InvIcache", "Dsb", "PrefetchFlush">>
             s4 == <<"Dsb", "PrefetchFlush">>
  <2>1. \A s \in {s1, s2, s3, s4} : s \in Seq(OpNames) /\ s # <<>>
    <3>1. s1 \in Seq(OpNames) /\ s1 # <<>>
      BY DEF mmu_reset, OpNames
    <3>2. s2 \in Seq(OpNames) /\ s2 # <<>>
      BY DEF OpNames
    <3>3. s3 \in Seq(OpNames) /\ s3 # <<>>
      BY DEF OpNames
    <3>4. s4 \in Seq(OpNames) /\ s4 # <<>>
      BY DEF OpNames
    <3> QED
      BY <3>1, <3>2, <3>3, <3>4
  <2>2. \A s \in {s1, s2, s3, s4} : s \o cp15_ctrl_reg1_wr # <<>>
    BY <1>1, <2>1, RewriteOps
  <2>3. Resetting => \E s \in {s1, s2, s3, s4} : ops = s \o cp15_ctrl_reg1_wr
    BY DEF Resetting
  <2> QED
    BY <2>2, <2>3
<1>5. ASSUME NEW w \in {<<>>, cp15_ctrl_reg1_wr}, Disabling(w) PROVE ops # <<>>
  <2> DEFINE s1 == mmu_disable_set_asm
             s2 == <<"Dsb", "PrefetchFlush", "ControlWr", "PrefetchFlush",
                     "InvIcache", "Dsb", "FlushBtb", "PrefetchFlush">>
             s3 == <<"PrefetchFlush", "ControlWr", "PrefetchFlush", "InvIcache", "Dsb", "FlushBtb",
                     "PrefetchFlush">>
             s4 == <<"ControlWr", "PrefetchFlush", "InvIcache", "Dsb", "FlushBtb", "PrefetchFlush">>
             s5 == <<"PrefetchFlush", "InvIcache", "Dsb", "FlushBtb", "PrefetchFlush">>
             s6 == <<"InvIcache", "Dsb", "FlushBtb", "PrefetchFlush">>
             s7 == <<"Dsb", "FlushBtb", "PrefetchFlush">>
             s8 == <<"FlushBtb", "PrefetchFlush">>
             s9 == <<"PrefetchFlush">>
  <2>1. \A s \in {s1, s2, s3, s4, s5, s6, s7, s8, s9} : s \in Seq(OpNames) /\ s # <<>>
    <3>1. s1 \in Seq(OpNames) /\ s1 # <<>>
      BY DEF mmu_disable_set_asm, OpNames
    <3>2. s2 \in Seq(OpNames) /\ s2 # <<>>
      BY DEF OpNames
    <3>3. s3 \in Seq(OpNames) /\ s3 # <<>>
      BY DEF OpNames
    <3>4. s4 \in Seq(OpNames) /\ s4 # <<>>
      BY DEF OpNames
    <3>5. s5 \in Seq(OpNames) /\ s5 # <<>>
      BY DEF OpNames
    <3>6. s6 \in Seq(OpNames) /\ s6 # <<>>
      BY DEF OpNames
    <3>7. s7 \in Seq(OpNames) /\ s7 # <<>>
      BY DEF OpNames
    <3>8. s8 \in Seq(OpNames) /\ s8 # <<>>
      BY DEF OpNames
    <3>9. s9 \in Seq(OpNames) /\ s9 # <<>>
      BY DEF OpNames
    <3> QED
      BY <3>1, <3>2, <3>3, <3>4, <3>5, <3>6, <3>7, <3>8, <3>9
  <2>2. \A s \in {s1, s2, s3, s4, s5, s6, s7, s8, s9} : s \o w # <<>>
    BY <1>1, <2>1, RewriteOps
  <2>3. \E s \in {s1, s2, s3, s4, s5, s6, s7, s8, s9} : ops = s \o w
    BY <1>5 DEF Disabling
  <2> QED
    BY <2>2, <2>3
<1> QED
  BY <1>2, <1>3, <1>4, <1>5

\* The functions of mmu.c, called when no sequence is running.
LEMMA CallsKept ==
  ASSUME MmuInv, ops = <<>>,
         \/ mmu_init \/ mmu_enable_set \/ mmu_disable_set \/ set_procid_ttbr0 \/ StorePte \/ SyncPteMods
  PROVE  MmuInv'
<1>1. MmuAlways /\ AtRest
  BY RunningOps DEF MmuInv
<1>2. MmuTypes /\ asid \in {0, ttbr} /\ ("XP" \in ctl => OwnTable) /\ ("C" \notin ctl => ~dirty)
      /\ ctl \in ctls
  BY <1>1 DEF MmuAlways, MmuTypes
<1>3. /\ Settled /\ SettledContext /\ ctls = {ctl} /\ Calm /\ ~cleaning /\ doomed = {} /\ UsedWhenOff
      /\ "XP" \in ctl => Clean /\ (synced /\ On(ctl) => Used \subseteq {NowUsed})
      /\ "XP" \notin ctl => synced /\ ~On(ctl) /\ ReachExact
  BY <1>1 DEF AtRest, Settled, Calm
<1>4. CASE StorePte
  <2>1. PICK a \in Asids : /\ pte' = [pte EXCEPT ![a] = @ + 1]
                           /\ reach' = [reach EXCEPT ![a] = @ \cup {pte[a] + 1}]
    BY <1>4 DEF StorePte
  <2>2. /\ "XP" \in ctl /\ dirty' = (dirty \/ "C" \in ctl) /\ synced' = FALSE
        /\ UNCHANGED <<ops, ctl, newctl, asid, ttbr, ctls, asids, ttbrs, cleaning, tlb, doomed, flushing, btb, pbuf>>
    BY <1>4 DEF StorePte, regs, visible, caches
  <2>3. MmuTypes'
    <3>1. pte[a] + 1 \in Int /\ reach[a] \cup {pte[a] + 1} \in SUBSET Int
      BY <1>2 DEF MmuTypes
    <3>2. pte' \in [Asids -> Int] /\ reach' \in [Asids -> SUBSET Int]
      BY <1>2, <2>1, <3>1 DEF MmuTypes
    <3>3. dirty' \in BOOLEAN /\ synced' \in BOOLEAN
      BY <2>2
    <3> QED
      BY <1>2, <2>2, <3>2, <3>3 DEF MmuTypes
  <2>4. OwnTable' = OwnTable /\ Settled' = Settled /\ Calm' = Calm /\ UsedWhenOff' = UsedWhenOff
    BY <2>2 DEF OwnTable, Usable, Settled, SettledContext, Calm, UsedWhenOff, Used
  <2>5. MmuAlways'
    BY <1>1, <1>2, <2>2, <2>3, <2>4 DEF MmuAlways
  <2>6. AtRest'
    BY <1>1, <1>3, <2>2, <2>4 DEF AtRest, Clean
  <2> QED
    BY <2>5, <2>6 DEF MmuInv
<1>5. CASE mmu_init \/ mmu_enable_set \/ mmu_disable_set \/ set_procid_ttbr0 \/ SyncPteMods
  <2>1. /\ UNCHANGED <<ctl, asid, ttbr, ctls, asids, ttbrs, pte, reach, dirty, cleaning>>
        /\ UNCHANGED <<tlb, doomed, flushing, btb, pbuf>>
        /\ UNCHANGED synced \/ (synced' = TRUE /\ SyncPteMods)
    BY <1>5 DEF mmu_init, mmu_enable_set, mmu_disable_set, set_procid_ttbr0, SyncPteMods, visible, memory, caches
  <2>2. MmuTypes'
    BY <1>2, <2>1 DEF MmuTypes
  <2>3. /\ OwnTable' = OwnTable /\ Settled' = Settled /\ SettledContext' = SettledContext /\ Calm' = Calm
        /\ UsedWhenOff' = UsedWhenOff /\ AllOff' = AllOff /\ ReachExact' = ReachExact /\ Used' = Used
        /\ Exact(Usable)' = Exact(Usable)
    BY <2>1 DEF OwnTable, Usable, Settled, SettledContext, Calm, UsedWhenOff, Used, AllOff, ReachExact, Exact
  <2>4. MmuAlways'
    BY <1>1, <1>2, <2>1, <2>2, <2>3 DEF MmuAlways
  <2>5. CASE mmu_init
    <3>1. /\ "XP" \notin ctl /\ ops' = mmu_reset \o cp15_ctrl_reg1_wr /\ newctl' = ctl \cup {"XP"}
          /\ synced' = synced
      BY <2>5 DEF mmu_init, Calls
    <3>2. ~On(newctl') /\ Writable' /\ AllOff /\ Used \subseteq {Flat}
      BY <1>2, <1>3, <2>1, <3>1 DEF On, Writable, AllOff, UsedWhenOff
    <3>3. Resetting'
      BY <1>3, <2>1, <2>3, <3>1, <3>2 DEF Resetting
    <3> QED
      BY <2>4, <3>3 DEF MmuInv
  <2>6. CASE mmu_enable_set
    <3>1. PICK c \in {ctl, ctl \cup {"C"}, ctl \cup {"C", "I"}} : Calls(mmu_enable_set_asm, c \cup {"MMU"})
      BY <2>6 DEF mmu_enable_set
    <3>2. /\ ops' = mmu_enable_set_asm /\ newctl' = c \cup {"MMU"} /\ "XP" \in ctl /\ "MMU" \notin ctl
          /\ synced /\ synced' = synced
      BY <2>6, <3>1 DEF mmu_enable_set, Calls
    <3>3. On(newctl') /\ Writable' /\ AllOff
      BY <1>2, <1>3, <2>1, <3>2 DEF On, Writable, AllOff
    <3>4. Clean'
      BY <1>3, <2>3, <3>2 DEF Clean
    <3>5. Enabling'
      BY <1>3, <2>1, <2>3, <3>2, <3>3, <3>4 DEF Enabling
    <3> QED
      BY <2>4, <3>5 DEF MmuInv
  <2>7. CASE mmu_disable_set
    <3>1. PICK c \in {ctl, ctl \ {"C"}} :
            Calls(mmu_disable_set_asm \o IF "C" \in c THEN cp15_ctrl_reg1_wr ELSE <<>>, c \ {"MMU"})
      BY <2>7 DEF mmu_disable_set
    <3> DEFINE w == IF "C" \in c THEN cp15_ctrl_reg1_wr ELSE <<>>
    <3>2. /\ ops' = mmu_disable_set_asm \o w /\ newctl' = c \ {"MMU"} /\ "MMU" \in ctl /\ synced' = synced
      BY <2>7, <3>1 DEF mmu_disable_set, Calls
    <3>3. ~On(newctl') /\ "XP" \in ctl /\ "XP" \in newctl'
      BY <1>3, <3>2 DEF On
    <3>4. Clean'
      BY <1>3, <2>1, <2>3, <3>2, <3>3 DEF Clean
    <3>5. w \in {<<>>, cp15_ctrl_reg1_wr}
      OBVIOUS
    <3> HIDE DEF w
    <3>6. Disabling(w)'
      BY <1>3, <2>1, <2>3, <3>2, <3>3, <3>4 DEF Disabling
    <3> QED
      BY <2>4, <3>5, <3>6 DEF MmuInv
  <2>8. CASE set_procid_ttbr0
    <3>1. ops' = cp15_set_procid_ttbr0 /\ "XP" \in ctl /\ synced /\ synced' = synced
      BY <2>8 DEF set_procid_ttbr0, Calls
    <3>2. Clean'
      BY <1>3, <2>3, <3>1 DEF Clean
    <3>3. Switching'
      BY <1>3, <2>1, <2>3, <3>1, <3>2 DEF Switching
    <3> QED
      BY <2>4, <3>3 DEF MmuInv
  <2>9. CASE SyncPteMods
    <3>1. ops' = mmu_sync_pte_mods /\ "XP" \in ctl /\ synced' = TRUE
      BY <1>3, <2>9 DEF SyncPteMods, Calls
    <3>2. Syncing'
      BY <1>3, <2>1, <2>3, <3>1 DEF Syncing
    <3> QED
      BY <2>4, <3>2 DEF MmuInv
  <2> QED
    BY <1>5, <2>5, <2>6, <2>7, <2>8, <2>9
<1> QED
  BY <1>4, <1>5

\* The translation is off and nothing cached at the start.
LEMMA MmuInitGood == MmuInit => MmuInv
<1> SUFFICES ASSUME MmuInit PROVE MmuAlways /\ AtRest
  BY DEF MmuInv
<1>1. /\ ops = <<>> /\ ctl = {} /\ asid = 0 /\ ttbr \in Asids
      /\ ctls = {ctl} /\ asids = {asid} /\ ttbrs = {ttbr}
      /\ pte = [a \in Asids |-> 0] /\ reach = [a \in Asids |-> {0}]
      /\ dirty = FALSE /\ cleaning = FALSE
      /\ tlb = {[asid |-> a, table |-> a, entry |-> 7] : a \in Asids}
      /\ doomed = {} /\ flushing = FALSE /\ btb = {} /\ pbuf = {} /\ synced = TRUE
  BY DEF MmuInit
<1>2. tlb \subseteq Entries
  BY <1>1 DEF Entries
<1>3. MmuTypes
  <2>1. pte \in [Asids -> Int] /\ reach \in [Asids -> SUBSET Int]
    BY <1>1
  <2>2. /\ asid \in asids /\ ttbr \in ttbrs /\ ctl \in ctls
        /\ asids \subseteq Asids \cup {0} /\ ttbrs \subseteq Asids /\ doomed \subseteq Entries
    BY <1>1
  <2>3. dirty \in BOOLEAN /\ cleaning \in BOOLEAN /\ flushing \in BOOLEAN /\ synced \in BOOLEAN
    BY <1>1
  <2> QED
    BY <1>2, <2>1, <2>2, <2>3 DEF MmuTypes
<1>4. MmuAlways
  BY <1>1, <1>3 DEF MmuAlways
<1>5. AtRest
  BY <1>1 DEF AtRest, Settled, SettledContext, Calm, UsedWhenOff, Used, On, ReachExact
<1> QED
  BY <1>4, <1>5

\* Every step keeps the inductive invariant.
LEMMA MmuStep == MmuInv /\ [MmuNext]_mmuvars => MmuInv'
<1> SUFFICES ASSUME MmuInv, [MmuNext]_mmuvars PROVE MmuInv'
  OBVIOUS
<1>1. CASE UNCHANGED mmuvars
  BY <1>1 DEF mmuvars, regs, visible, memory, caches, MmuInv, MmuAlways, MmuTypes, OwnTable, Usable, AtRest,
     Ending, Resetting, Rewriting, Disabling, Enabling, Switching, Syncing, SettledContext, Settled,
     ReachExact, Exact, Clean, Calm, AllOff, Used, NowUsed, UsedWhenOff, Writable
<1>2. CASE mmu_init \/ mmu_enable_set \/ mmu_disable_set \/ set_procid_ttbr0 \/ StorePte \/ SyncPteMods
  <2>1. ops = <<>>
    BY <1>2 DEF mmu_init, mmu_enable_set, mmu_disable_set, set_procid_ttbr0, StorePte, SyncPteMods, MmuCall
  <2> QED
    BY <1>2, <2>1, CallsKept
<1>3. CASE RunOp
  <2>1. ~AtRest
    BY <1>3 DEF AtRest, RunOp
  <2> QED
    BY <1>3, <2>1, EndingRuns, ResettingRuns, RewritingRuns, DisablingRuns, EnablingRuns, SwitchingRuns,
       SyncingRuns DEF MmuInv
<1>4. CASE SetTtbr
  <2>1. ops # <<>> /\ Head(ops) = "Ttbr"
    BY <1>4 DEF SetTtbr
  <2>2. ~AtRest /\ ~Ending
    BY <2>1 DEF AtRest, Ending
  <2>3. ~Resetting /\ ~Rewriting
    BY <2>1, RewriteOps DEF Resetting, Rewriting, mmu_reset, cp15_ctrl_reg1_wr
  <2>4. \A w \in {<<>>, cp15_ctrl_reg1_wr} : ~Disabling(w)
    BY <2>1, RewriteOps DEF Disabling, mmu_disable_set_asm
  <2>5. ~Enabling /\ ~Syncing
    BY <2>1 DEF Enabling, Syncing, mmu_enable_set_asm, mmu_sync_pte_mods
  <2> QED
    BY <1>4, <2>2, <2>3, <2>4, <2>5, SwitchingRuns DEF MmuInv
<1>5. CASE Hardware
  BY <1>5, HardwareStages
<1> QED
  BY <1>1, <1>2, <1>3, <1>4, <1>5 DEF MmuNext

\* Behind every sequence the program runs on the translation it asked for
\* (your-mmu-asm.S:53-169, mmu.c), whatever the hardware has walked, predicted
\* and prefetched between its operations: for every number of address spaces
\* and calls.
THEOREM NothingStaleEver == MmuSpec => []NothingStale
<1>1. MmuInv => NothingStale
  <2> SUFFICES ASSUME MmuInv PROVE NothingStale
    OBVIOUS
  <2>1. ("XP" \in ctl => OwnTable) /\ ("C" \notin ctl => ~dirty)
    BY DEF MmuInv, MmuAlways
  <2>2. ASSUME ops = <<>>, synced, "XP" \in ctl
        PROVE  IF "MMU" \in ctl
               THEN /\ Used \subseteq {NowUsed}
                    /\ \A e \in Usable : e.entry = pte[e.table]
               ELSE Used \subseteq {Flat}
    <3>1. AtRest
      BY <2>2, RunningOps DEF MmuInv
    <3> QED
      BY <2>2, <3>1 DEF AtRest, Clean, Exact, UsedWhenOff, On
  <2> QED
    BY <2>1, <2>2 DEF NothingStale, OwnTable, Used, NowUsed
<1> QED
  BY <1>1, MmuInitGood, MmuStep, PTL DEF MmuSpec

-----------------------------------------------------------------------------
(* Time.  The inductive invariant relates the words of the code, which     *)
(* wrap around, to the time that has really passed.                        *)

TimeoutType ==
  [on : BOOLEAN, time_last : Int, time_usecs : Int, start : Int, last : Int, wraps : Nat]

TimeTypes ==
  /\ now \in Nat
  /\ timeout \in TimeoutType
  /\ expired \in [limit : Nat, ret : BOOLEAN, at : Int]
  /\ delay \in [state : {"none", "waiting", "over"}, s : Int, us : Int, asked : Nat, start : Int]
  /\ wdog \in [left : Nat, on : BOOLEAN]
  /\ heartbeat \in Nat /\ fed \in [at : Int, us : Nat, held : Int]
  /\ machine \in {"up", "rebooting", "reset", "panic"}

\* time_last is the counter at the last check; what the sum has lost since the
\* start are the whole wraps between two checks.
TimeoutInv ==
  /\ timeout.on => /\ timeout.start <= timeout.last /\ timeout.last <= now
                   /\ timeout.time_last = timeout.last % TimeWord
                   /\ timeout.time_usecs = timeout.last - timeout.start - timeout.wraps * TimeWord
                   /\ expired.ret => expired.at - timeout.start >= expired.limit
  /\ ~timeout.on => ~expired.ret

DelayInv ==
  /\ delay.state = "waiting" => /\ delay.start <= now
                                /\ delay.s = delay.start % TimeWord
                                /\ delay.us = delay.asked % TimeWord
  /\ delay.state = "over" => now - delay.start >= delay.asked % TimeWord

\* What the counter has of the time asked for, and when the watchdog that runs, or
\* has been stopped, will reset the machine.
Counted == fed.us % WdogSpan
InTime(end) == end > Counted - Tick /\ end <= Counted

WatchdogInv ==
  /\ machine = "up" => heartbeat % WdogWidth = Counted \div Tick
  /\ machine # "reset" /\ wdog.on => InTime(now + wdog.left - fed.at)
  /\ machine # "reset" /\ ~wdog.on /\ wdog.left > 0 => InTime(fed.held + wdog.left)
  /\ machine = "reset" => now - fed.at > Counted - Tick

TimeInv == TimeTypes /\ TimeoutInv /\ DelayInv /\ WatchdogInv

\* The counter's time is a number of ticks.
LEMMA Spans == WdogSpan \in Nat \ {0} /\ WdogSpan > Tick /\ Tick \in Nat \ {0}
<1>1. Tick \in Nat \ {0} /\ WdogWidth \in Nat /\ WdogWidth >= 2
  BY TimeConstants
<1>2. WdogWidth * Tick \in Nat /\ WdogWidth * Tick >= 2 * Tick
  BY <1>1, SMT
<1> QED
  BY <1>1, <1>2 DEF WdogSpan

\* No timeout, delay or watchdog runs at the start.
LEMMA TimeInitGood == TimeInit => TimeInv
<1> SUFFICES ASSUME TimeInit PROVE TimeInv
  OBVIOUS
<1>1. TimeTypes
  BY DEF TimeInit, TimeTypes, TimeoutType
<1>2. TimeoutInv /\ DelayInv
  BY DEF TimeInit, TimeoutInv, DelayInv
<1>3. /\ Tick \in Nat \ {0} /\ WdogWidth \in Nat \ {0}
      /\ now = 0 /\ wdog.left = 0 /\ ~wdog.on /\ heartbeat = 0 /\ fed.us = 0 /\ fed.at = 0 /\ machine = "up"
  BY TimeConstants DEF TimeInit
<1>4. heartbeat % WdogWidth = Counted \div Tick
  <2>1. WdogSpan \in Nat \ {0}
    BY Spans
  <2>2. 0 % WdogSpan = 0 /\ 0 % WdogWidth = 0
    BY <1>3, <2>1, ModAtMost
  <2>3. 0 \div Tick = 0
    BY <1>3, SMT
  <2> QED
    BY <1>3, <2>2, <2>3 DEF Counted
<1>5. WatchdogInv
  BY <1>3, <1>4 DEF WatchdogInv
<1> QED
  BY <1>1, <1>2, <1>5 DEF TimeInv

\* Time passes: a watchdog that runs has so much less left.
LEMMA TimePasses == TimeInv /\ Advance => TimeInv'
<1> SUFFICES ASSUME TimeInv, Advance PROVE TimeInv'
  OBVIOUS
<1>1. TimeTypes /\ TimeoutInv /\ DelayInv /\ WatchdogInv
  BY DEF TimeInv
<1>2. PICK d \in Passing :
        /\ now' = now + d
        /\ IF wdog.on THEN /\ wdog' = [wdog EXCEPT !.left = IF @ > d THEN @ - d ELSE 0]
                           /\ machine' = IF wdog.left > d THEN machine ELSE "reset"
           ELSE UNCHANGED <<wdog, machine>>
  BY DEF Advance
<1>3. UNCHANGED <<timeout, expired, delay, heartbeat, fed>> /\ machine # "reset"
  BY DEF Advance, timeouts
<1>4. d \in Nat /\ now \in Nat /\ now' \in Nat /\ wdog.left \in Nat /\ wdog.on \in BOOLEAN
      /\ fed.at \in Int /\ fed.us \in Nat /\ fed.held \in Int /\ Tick \in Nat
      /\ machine \in {"up", "rebooting", "reset", "panic"}
  BY <1>1, <1>2, TimeConstants DEF TimeTypes
<1>5. /\ wdog' \in [left : Nat, on : BOOLEAN] /\ wdog'.on = wdog.on
      /\ wdog.on => wdog'.left = IF wdog.left > d THEN wdog.left - d ELSE 0
      /\ ~wdog.on => UNCHANGED <<wdog, machine>>
      /\ machine' = IF wdog.on /\ wdog.left <= d THEN "reset" ELSE machine
  <2>1. CASE wdog.on
    <3> DEFINE l == IF wdog.left > d THEN wdog.left - d ELSE 0
    <3>1. wdog' = [wdog EXCEPT !.left = l] /\ l \in Nat
      BY <1>2, <1>4, <2>1
    <3> HIDE DEF l
    <3>2. wdog' \in [left : Nat, on : BOOLEAN] /\ wdog'.on = wdog.on /\ wdog'.left = l
      BY <1>1, <3>1 DEF TimeTypes
    <3> QED
      BY <1>2, <1>4, <2>1, <3>2 DEF l
  <2>2. CASE ~wdog.on
    BY <1>1, <1>2, <2>2 DEF TimeTypes
  <2> QED
    BY <2>1, <2>2
<1>6. TimeTypes'
  BY <1>1, <1>3, <1>4, <1>5 DEF TimeTypes
<1>7. TimeoutInv'
  <2>1. timeout.last \in Int
    BY <1>1 DEF TimeTypes, TimeoutType
  <2> QED
    BY <1>1, <1>2, <1>3, <1>4, <2>1 DEF TimeoutInv
<1>8. DelayInv'
  <2>1. delay.start \in Int /\ delay.asked \in Nat /\ delay.asked % TimeWord \in Nat
    BY <1>1, TimeConstants, ModAtMost DEF TimeTypes
  <2> QED
    BY <1>1, <1>2, <1>3, <1>4, <2>1 DEF DelayInv
<1>9. WatchdogInv'
  <2>1. machine' = "up" => machine = "up"
    BY <1>5
  <2>2. Counted \in Nat /\ Counted' = Counted
    BY <1>3, <1>4, Spans, ModAtMost DEF Counted
  <2>3. /\ machine' # "reset" /\ wdog'.on =>
             now' + wdog'.left - fed.at > Counted - Tick /\ now' + wdog'.left - fed.at <= Counted
        /\ machine' # "reset" /\ ~wdog'.on /\ wdog'.left > 0 =>
             fed.held + wdog'.left > Counted - Tick /\ fed.held + wdog'.left <= Counted
        /\ machine' = "reset" => now' - fed.at > Counted - Tick
    <3>1. /\ wdog.on => now + wdog.left - fed.at > Counted - Tick /\ now + wdog.left - fed.at <= Counted
          /\ ~wdog.on /\ wdog.left > 0 =>
               fed.held + wdog.left > Counted - Tick /\ fed.held + wdog.left <= Counted
      BY <1>1, <1>3 DEF WatchdogInv, InTime, Counted
    <3> QED
      BY <1>2, <1>3, <1>4, <1>5, <2>2, <3>1
  <2> QED
    BY <1>1, <1>3, <2>1, <2>2, <2>3 DEF WatchdogInv, InTime, Counted
<1> QED
  BY <1>6, <1>7, <1>8, <1>9 DEF TimeInv

\* The difference of two counters is the time between, but for its whole wraps.
LEMMA DifferenceOfCounters ==
  ASSUME NEW last \in Int, NEW time \in Int, last <= time,
         NEW d, d = ((time % TimeWord) - (last % TimeWord)) % TimeWord,
         NEW k, k = (time - last) \div TimeWord
  PROVE  d \in Nat /\ k \in Nat /\ time - last = d + k * TimeWord
<1> DEFINE e == time - last
           w == TimeWord
<1>1. w \in Nat \ {0} /\ e \in Nat /\ e \in Int
  BY TimeConstants
<1>2. d = e % w
  BY <1>1, ModDifference
<1>3. k = e \div w
  OBVIOUS
<1> HIDE DEF e, w
<1>4. e % w \in Nat /\ e \div w \in Nat
  BY <1>1, ModAtMost, RoundedDown
<1>5. e = (e % w) + (e \div w) * w
  BY <1>1, SMT
<1> QED
  BY <1>2, <1>3, <1>4, <1>5 DEF e, w

\* timeout.h: the sum of the differences counts the time, unless whole wraps of
\* the counter pass between two checks.
LEMMA TimeoutGood == TimeInv /\ TimeoutNext => TimeInv'
<1> SUFFICES ASSUME TimeInv, TimeoutNext PROVE TimeInv'
  OBVIOUS
<1>1. TimeTypes /\ TimeoutInv /\ DelayInv /\ WatchdogInv
  BY DEF TimeInv
<1>2. UNCHANGED <<now, delay, wdog, heartbeat, fed, machine>>
  BY DEF TimeoutNext, timeout_start, timeout_usec, watchdogs
<1>3. DelayInv' /\ WatchdogInv'
  BY <1>1, <1>2 DEF DelayInv, WatchdogInv, InTime, Counted
<1>4. now \in Nat /\ timeout \in TimeoutType /\ Counter \in Int /\ TimeWord \in Nat \ {0}
  <2>1. now \in Nat /\ timeout \in TimeoutType /\ TimeWord \in Nat \ {0} /\ now \in Int
    BY <1>1, TimeConstants DEF TimeTypes
  <2> QED
    BY <2>1, ModParts DEF Counter
<1>5. CASE timeout_start
  <2>1. /\ ~timeout.on /\ expired' = expired
        /\ timeout' = [on |-> TRUE, time_last |-> Counter, time_usecs |-> 0,
                       start |-> now, last |-> now, wraps |-> 0]
    BY <1>5 DEF timeout_start
  <2>2. /\ timeout' \in TimeoutType /\ timeout'.on /\ timeout'.start = now /\ timeout'.last = now
        /\ timeout'.time_usecs = 0 /\ timeout'.time_last = now % TimeWord /\ timeout'.wraps = 0
    BY <1>4, <2>1 DEF TimeoutType, Counter
  <2>3. now - now - 0 * TimeWord = 0
    BY <1>4
  <2>4. TimeoutInv'
    BY <1>1, <1>2, <1>4, <2>1, <2>2, <2>3 DEF TimeoutInv
  <2>5. TimeTypes'
    BY <1>1, <1>2, <2>1, <2>2 DEF TimeTypes
  <2> QED
    BY <1>3, <2>4, <2>5 DEF TimeInv
<1>6. CASE timeout_usec
  <2>1. PICK max_usec \in Waits :
          expired' = [limit |-> max_usec, at |-> now, ret |-> timeout'.time_usecs >= max_usec]
    BY <1>6 DEF timeout_usec
  <2>2. timeout.on /\ timeout' = timeout_get_usec(timeout) /\ max_usec \in Nat
    BY <1>6, TimeConstants DEF timeout_usec
  <2> DEFINE d == ((now % TimeWord) - (timeout.last % TimeWord)) % TimeWord
             k == (now - timeout.last) \div TimeWord
             sum == timeout.time_usecs + d
             wraps == timeout.wraps + k
  <2>3. /\ timeout.start \in Int /\ timeout.last \in Int /\ timeout.time_usecs \in Int /\ now \in Int
        /\ timeout.start <= timeout.last /\ timeout.last <= now /\ timeout.wraps \in Nat
        /\ timeout.time_last = timeout.last % TimeWord
        /\ timeout.time_usecs = timeout.last - timeout.start - timeout.wraps * TimeWord
    BY <1>1, <1>4, <2>2 DEF TimeoutInv, TimeoutType
  <2>4. d \in Nat /\ k \in Nat /\ now - timeout.last = d + k * TimeWord
    <3> DEFINE last == timeout.last
    <3>1. last \in Int /\ now \in Int /\ last <= now /\ d = ((now % TimeWord) - (last % TimeWord)) % TimeWord
          /\ k = (now - last) \div TimeWord
      BY <2>3
    <3> HIDE DEF last, d, k
    <3>2. d \in Nat /\ k \in Nat /\ now - last = d + k * TimeWord
      BY <3>1, DifferenceOfCounters
    <3> QED
      BY <3>2 DEF last
  <2>5. Less(Counter, timeout.time_last) = d
    BY <2>3 DEF Less, Counter
  <2>6. timeout' = [timeout EXCEPT !.time_usecs = sum, !.time_last = Counter, !.last = now, !.wraps = wraps]
    BY <2>2, <2>5 DEF timeout_get_usec
  <2> HIDE DEF d, k
  <2>7. /\ sum \in Int /\ wraps \in Nat /\ sum = now - timeout.start - wraps * TimeWord
        /\ sum <= now - timeout.start
    <3> DEFINE start == timeout.start
               last == timeout.last
               usecs == timeout.time_usecs
               n == timeout.wraps
               w == TimeWord
    <3>1. /\ start \in Int /\ last \in Int /\ n \in Nat /\ w \in Nat /\ now \in Int
          /\ usecs = last - start - n * w /\ now - last = d + k * w /\ d \in Nat /\ k \in Nat
      BY <1>4, <2>3, <2>4
    <3> HIDE DEF start, last, usecs, n, w
    <3>2. n * w \in Nat /\ k * w \in Nat /\ (n + k) * w = n * w + k * w
      BY <3>1, SMT
    <3>3. usecs + d = now - start - (n + k) * w /\ usecs + d <= now - start /\ usecs + d \in Int
      BY <3>1, <3>2
    <3> QED
      BY <3>1, <3>3 DEF start, last, usecs, n, w
  <2> HIDE DEF sum, wraps
  <2>8. /\ timeout' \in TimeoutType /\ timeout'.on = timeout.on /\ timeout'.start = timeout.start
        /\ timeout'.time_usecs = sum /\ timeout'.time_last = Counter /\ timeout'.last = now
        /\ timeout'.wraps = wraps
    <3> DEFINE t == timeout
               c == Counter
               n == now
               r == timeout'
    <3>1. /\ t \in TimeoutType /\ c \in Int /\ n \in Int /\ sum \in Int /\ wraps \in Nat
          /\ r = [t EXCEPT !.time_usecs = sum, !.time_last = c, !.last = n, !.wraps = wraps]
      BY <1>4, <2>3, <2>6, <2>7
    <3> HIDE DEF t, c, n, r
    <3>2. /\ r \in TimeoutType /\ r.on = t.on /\ r.start = t.start
          /\ r.time_usecs = sum /\ r.time_last = c /\ r.last = n /\ r.wraps = wraps
      BY <3>1 DEF TimeoutType
    <3> QED
      BY <3>2 DEF t, c, n, r
  <2>9. /\ expired' \in [limit : Nat, ret : BOOLEAN, at : Int]
        /\ expired'.at = now /\ expired'.limit = max_usec /\ (expired'.ret => sum >= max_usec)
    <3> DEFINE r == timeout'.time_usecs >= max_usec
    <3>1. r \in BOOLEAN /\ (r => sum >= max_usec)
      BY <2>8
    <3> HIDE DEF r
    <3>2. expired' = [limit |-> max_usec, at |-> now, ret |-> r]
      BY <2>1 DEF r
    <3> QED
      BY <2>2, <2>3, <3>1, <3>2
  <2>10. TimeTypes'
    BY <1>1, <1>2, <2>8, <2>9 DEF TimeTypes
  <2>11. TimeoutInv'
    <3>1. timeout'.on /\ now' = now
      BY <1>2, <2>2, <2>8
    <3>2. timeout'.start <= timeout'.last /\ timeout'.last <= now'
      BY <2>3, <2>8, <3>1
    <3>3. timeout'.time_last = timeout'.last % TimeWord
      BY <2>8 DEF Counter
    <3>4. timeout'.time_usecs = timeout'.last - timeout'.start - timeout'.wraps * TimeWord
      BY <2>7, <2>8
    <3>5. expired'.ret => expired'.at - timeout'.start >= expired'.limit
      BY <2>2, <2>3, <2>7, <2>8, <2>9
    <3> QED
      BY <3>1, <3>2, <3>3, <3>4, <3>5 DEF TimeoutInv
  <2> QED
    BY <1>3, <2>10, <2>11 DEF TimeInv
<1> QED
  BY <1>5, <1>6 DEF TimeoutNext

\* timer.c: the difference of two counters is never more than the time between.
LEMMA DelayGood == TimeInv /\ DelayNext => TimeInv'
<1> SUFFICES ASSUME TimeInv, DelayNext PROVE TimeInv'
  OBVIOUS
<1>1. TimeTypes /\ TimeoutInv /\ DelayInv /\ WatchdogInv
  BY DEF TimeInv
<1>2. UNCHANGED <<now, timeout, expired, wdog, heartbeat, fed, machine>>
  BY DEF DelayNext, DelayBegin, DelayPoll, timeouts, watchdogs
<1>3. TimeoutInv' /\ WatchdogInv'
  BY <1>1, <1>2 DEF TimeoutInv, WatchdogInv, InTime, Counted
<1>4. now \in Nat /\ now \in Int /\ TimeWord \in Nat \ {0} /\ Thousand \in Nat
  BY <1>1, TimeConstants DEF TimeTypes
<1>5. CASE DelayBegin
  <2>1. PICK n \in Waits, factor \in {1, Thousand, Thousand * Thousand} :
          delay' = [state |-> "waiting", s |-> Counter, us |-> (n * factor) % TimeWord,
                    asked |-> n * factor, start |-> now]
    BY <1>5 DEF DelayBegin
  <2> DEFINE product == n * factor
             us == product % TimeWord
  <2>2. product \in Nat
    <3>1. n \in Nat /\ factor \in Nat
      BY <1>4, TimeConstants, SMT
    <3> QED
      BY <3>1, SMT
  <2>3. delay' = [state |-> "waiting", s |-> Counter, us |-> us, asked |-> product, start |-> now]
    BY <2>1
  <2> HIDE DEF product
  <2>4. us \in Int /\ Counter \in Int /\ product \in Int
    BY <1>4, <2>2, ModParts DEF Counter
  <2> HIDE DEF us
  <2>5. /\ delay' \in [state : {"none", "waiting", "over"}, s : Int, us : Int, asked : Nat, start : Int]
        /\ delay'.state = "waiting" /\ delay'.s = Counter /\ delay'.us = us /\ delay'.asked = product
        /\ delay'.start = now
    BY <1>4, <2>2, <2>3, <2>4
  <2>6. TimeTypes'
    BY <1>1, <1>2, <2>5 DEF TimeTypes
  <2>7. DelayInv'
    BY <1>2, <1>4, <2>5 DEF DelayInv, us, Counter
  <2> QED
    BY <1>3, <2>6, <2>7 DEF TimeInv
<1>6. CASE DelayPoll
  <2>1. delay.state = "waiting" /\ Less(Counter, delay.s) >= delay.us /\ delay' = [delay EXCEPT !.state = "over"]
    BY <1>6 DEF DelayPoll
  <2>2. /\ delay.start \in Int /\ delay.asked \in Nat /\ delay.asked \in Int /\ delay.start <= now
        /\ delay.s = delay.start % TimeWord /\ delay.us = delay.asked % TimeWord
    BY <1>1, <2>1 DEF TimeTypes, DelayInv
  <2>3. /\ delay' \in [state : {"none", "waiting", "over"}, s : Int, us : Int, asked : Nat, start : Int]
        /\ delay'.state = "over" /\ delay'.asked = delay.asked /\ delay'.start = delay.start
    BY <1>1, <2>1 DEF TimeTypes
  <2> DEFINE e == now - delay.start
  <2>4. Less(Counter, delay.s) = e % TimeWord
    BY <1>4, <2>2, ModDifference DEF Less, Counter
  <2>5. e \in Nat
    BY <1>4, <2>2
  <2> HIDE DEF e
  <2>6. e % TimeWord <= e /\ e % TimeWord \in Nat
    BY <1>4, <2>5, ModAtMost
  <2>7. delay.asked % TimeWord \in Nat
    BY <1>4, <2>2, ModAtMost
  <2>8. e >= delay.asked % TimeWord
    BY <2>1, <2>2, <2>4, <2>5, <2>6, <2>7
  <2>9. TimeTypes'
    BY <1>1, <1>2, <2>3 DEF TimeTypes
  <2>10. DelayInv'
    BY <1>2, <2>3, <2>8 DEF DelayInv, e
  <2> QED
    BY <1>3, <2>9, <2>10 DEF TimeInv
<1> QED
  BY <1>5, <1>6 DEF DelayNext

\* What the counter has of a time, in ticks: what it has of the ticks of the time.
LEMMA TicksCounted ==
  ASSUME NEW us \in Nat
  PROVE  /\ us \div Tick \in Nat
         /\ (us \div Tick) % WdogWidth = (us % WdogSpan) \div Tick
         /\ (us % WdogSpan) \div Tick \in Nat /\ (us % WdogSpan) \div Tick < WdogWidth
<1>1. /\ Tick \in Nat \ {0} /\ WdogWidth \in Nat \ {0} /\ WdogSpan \in Nat \ {0}
      /\ WdogSpan = WdogWidth * Tick
  BY TimeConstants, Spans DEF WdogSpan
<1> DEFINE c == us % WdogSpan
           t == us \div Tick
           q == c \div Tick
           n == WdogWidth
           m == Tick
<1>2. c \in Nat /\ c < n * m
  <2>1. us \in Int
    OBVIOUS
  <2>2. c \in 0 .. WdogSpan - 1
    BY <1>1, <2>1, ModParts
  <2> QED
    BY <1>1, <2>2
<1>3. PICK k \in Int : us = c + k * (n * m)
  <2> DEFINE w == WdogSpan
  <2>1. us \in Int /\ w \in Nat \ {0}
    BY <1>1
  <2> HIDE DEF w
  <2>2. \E k \in Int : us = (us % w) + k * w
    BY <2>1, ModParts
  <2> QED
    BY <1>1, <2>2 DEF w
<1> HIDE DEF c
<1>4. q \in Nat /\ q < n /\ t \in Nat /\ t * m <= us /\ t * m > us - m /\ q * m <= c /\ q * m > c - m
  BY <1>1, <1>2, RoundedDown
<1> HIDE DEF q, t, n, m
<1>5. n \in Nat \ {0} /\ m \in Nat \ {0}
  BY <1>1 DEF n, m
<1>6. t = q + k * n
  <2> DEFINE x == t - (q + k * n)
  <2>1. k * n \in Int /\ k * (n * m) \in Int /\ t * m \in Int /\ q * m \in Int
    BY <1>4, <1>5, SMT
  <2>2. x \in Int /\ x * m = t * m - q * m - k * (n * m)
    <3>1. x \in Int
      BY <1>4, <2>1
    <3>2. x * m = t * m - (q * m + (k * n) * m)
      BY <1>4, <1>5, <2>1, SMT
    <3>3. (k * n) * m = k * (n * m)
      BY <1>5, SMT
    <3> QED
      BY <2>1, <3>1, <3>2, <3>3
  <2>3. x * m > -m /\ x * m < m
    BY <1>2, <1>3, <1>4, <1>5, <2>1, <2>2
  <2> HIDE DEF x
  <2>4. x = 0
    <3>1. CASE x >= 1
      <4>1. x * m >= m
        BY <1>5, <2>2, <3>1, SMT
      <4> QED
        BY <1>5, <2>2, <2>3, <4>1, SMT
    <3>2. CASE x <= -1
      <4>1. x * m <= -m
        BY <1>5, <2>2, <3>2, SMT
      <4> QED
        BY <1>5, <2>2, <2>3, <4>1, SMT
    <3> QED
      BY <2>2, <3>1, <3>2
  <2> QED
    BY <1>4, <2>1, <2>4 DEF x
<1>7. t % n = q
  BY <1>4, <1>5, <1>6, ModIs
<1> QED
  BY <1>4, <1>7 DEF q, t, n, c, m

\* What is in the register when the ticks asked for are those of a time, but for
\* what overflowed: the time the counter has of it, less than a tick rounded off.
LEMMA TicksLeft ==
  ASSUME NEW us \in Nat, NEW t \in Nat, t % WdogWidth = (us % WdogSpan) \div Tick,
         NEW left, left = ((t % WdogMask) % WdogWidth) * Tick
  PROVE  left \in Nat /\ left > (us % WdogSpan) - Tick /\ left <= us % WdogSpan
<1>1. /\ Tick \in Nat \ {0} /\ WdogWidth \in Nat \ {0} /\ WdogSpan \in Nat \ {0}
      /\ WdogMask \in Nat \ {0} /\ WdogMask % WdogWidth = 0 /\ t \in Int
  BY TimeConstants, Spans
<1>2. (t % WdogMask) % WdogWidth = t % WdogWidth
  BY <1>1, ModOfWord
<1> DEFINE c == us % WdogSpan
<1>3. c \in Nat
  BY <1>1, ModAtMost
<1>4. left = (c \div Tick) * Tick
  BY <1>2
<1> HIDE DEF c
<1>5. left \in Nat /\ left <= c /\ left > c - Tick
  BY <1>1, <1>3, <1>4, RoundedDown
<1> QED
  BY <1>5 DEF c

\* A tick is what the counter has of a tick.
LEMMA OneTick == Tick % WdogSpan = Tick /\ Tick \div Tick = 1
<1>1. Tick \in Nat \ {0} /\ WdogSpan \in Nat \ {0} /\ WdogSpan > Tick
  BY Spans
<1>2. Tick % WdogSpan = Tick
  BY <1>1, ModAtMost
<1>3. Tick \div Tick = 1
  BY <1>1, SMT
<1> QED
  BY <1>2, <1>3

\* watchdog.c and rpi_reboot: whatever was called before, what is left to count
\* down is what the client asked for.
LEMMA WatchdogGood == TimeInv /\ WatchdogCall => TimeInv'
<1> SUFFICES ASSUME TimeInv, WatchdogCall PROVE TimeInv'
  OBVIOUS
<1>1. TimeTypes /\ TimeoutInv /\ DelayInv /\ WatchdogInv
  BY DEF TimeInv
<1>2. UNCHANGED <<now, timeout, expired, delay>> /\ machine = "up"
  BY DEF WatchdogCall, timeouts
<1>3. TimeoutInv' /\ DelayInv'
  BY <1>1, <1>2 DEF TimeoutInv, DelayInv
<1>4. /\ now \in Nat /\ wdog.left \in Nat /\ wdog.on \in BOOLEAN /\ heartbeat \in Nat
      /\ fed.at \in Int /\ fed.us \in Nat /\ fed.held \in Int
      /\ wdog \in [left : Nat, on : BOOLEAN] /\ fed \in [at : Int, us : Nat, held : Int]
  BY <1>1 DEF TimeTypes
<1>5. /\ TimeWord \in Nat \ {0} /\ Thousand \in Nat /\ Tick \in Nat \ {0} /\ WdogSpan \in Nat \ {0}
      /\ Waits \subseteq Nat /\ TimeWord % WdogSpan = 0
  BY TimeConstants, Spans
<1> SUFFICES /\ wdog' \in [left : Nat, on : BOOLEAN] /\ fed' \in [at : Int, us : Nat, held : Int]
             /\ heartbeat' \in Nat /\ machine' \in {"up", "rebooting", "panic"}
             /\ WatchdogInv'
  BY <1>1, <1>2, <1>3 DEF TimeInv, TimeTypes
<1> DEFINE Good == /\ wdog' \in [left : Nat, on : BOOLEAN] /\ fed' \in [at : Int, us : Nat, held : Int]
                   /\ heartbeat' \in Nat /\ machine' \in {"up", "rebooting", "panic"}
                   /\ WatchdogInv'
\* A start with t ticks, when asked for a time that has, but for what overflowed, as many.
<1>6. ASSUME NEW asked \in Nat, NEW t \in Nat, t % WdogWidth = (asked % WdogSpan) \div Tick,
             heartbeat' = t, StartTicks(t), fed' = [at |-> now, us |-> asked, held |-> 0], machine' = machine
      PROVE  Good
  <2> DEFINE left == ((t % WdogMask) % WdogWidth) * Tick
  <2>1. wdog' = [left |-> left, on |-> TRUE]
    BY <1>6 DEF StartTicks
  <2>2. left \in Nat /\ left > (asked % WdogSpan) - Tick /\ left <= asked % WdogSpan
    BY <1>6, TicksLeft
  <2> HIDE DEF left
  <2>3. /\ wdog'.left = left /\ wdog'.on /\ fed'.at = now /\ fed'.us = asked /\ machine' = "up"
        /\ heartbeat' = t
    BY <1>2, <1>6, <2>1
  <2>4. Counted' = asked % WdogSpan /\ asked % WdogSpan \in Nat
    BY <1>5, <2>3, ModAtMost DEF Counted
  <2>5. now + left - now > Counted' - Tick /\ now + left - now <= Counted'
    BY <1>4, <1>5, <2>2, <2>4
  <2>6. WatchdogInv'
    BY <1>2, <1>6, <2>3, <2>4, <2>5 DEF WatchdogInv, InTime
  <2> QED
    BY <1>2, <1>4, <1>6, <2>1, <2>2, <2>3, <2>6
<1>7. ASSUME NEW n \in Waits, NEW factor \in {1, Thousand, Thousand * Thousand}, watchdog_start(n, factor)
      PROVE  Good
  <2> DEFINE asked == n * factor
             us == asked % TimeWord
             t == us \div Tick
  <2>1. asked \in Nat
    <3>1. n \in Nat /\ factor \in Nat
      BY <1>5, SMT
    <3> QED
      BY <3>1, SMT
  <2>2. /\ heartbeat' = t /\ machine' = machine /\ StartTicks(t)
        /\ fed' = [at |-> now, us |-> asked, held |-> 0]
    BY <1>7 DEF watchdog_start
  <2> HIDE DEF asked
  <2>3. us \in Nat /\ asked \in Int
    BY <1>5, <2>1, ModAtMost
  <2>4. us % WdogSpan = asked % WdogSpan
    BY <1>5, <2>3, ModOfWord
  <2> HIDE DEF us
  <2>5. t \in Nat /\ t % WdogWidth = (us % WdogSpan) \div Tick
    BY <2>3, TicksCounted
  <2>6. t % WdogWidth = (asked % WdogSpan) \div Tick
    BY <2>4, <2>5
  <2> HIDE DEF t, Good
  <2> QED
    BY <1>6, <2>1, <2>2, <2>5, <2>6
<1>8. ASSUME NEW n \in Nat, watchdog_start_ticks(n) PROVE Good
  <2> DEFINE asked == n * Tick
  <2>1. asked \in Nat /\ asked \div Tick = n
    BY <1>5, SMT
  <2>2. /\ heartbeat' = n /\ machine' = machine /\ StartTicks(n)
        /\ fed' = [at |-> now, us |-> asked, held |-> 0]
    BY <1>8 DEF watchdog_start_ticks
  <2> HIDE DEF asked
  <2>3. n % WdogWidth = (asked % WdogSpan) \div Tick
    BY <2>1, TicksCounted
  <2> HIDE DEF Good
  <2> QED
    BY <1>6, <2>1, <2>2, <2>3
<1>9. CASE watchdog_feed
  <2>1. CASE heartbeat = 0
    <3>1. machine' = "panic" /\ UNCHANGED <<wdog, heartbeat, fed>>
      BY <1>9, <2>1 DEF watchdog_feed
    <3>2. WatchdogInv'
      BY <1>1, <1>2, <3>1 DEF WatchdogInv, InTime, Counted
    <3> QED
      BY <1>4, <3>1, <3>2
  <2>2. CASE heartbeat # 0
    <3> DEFINE left == ((heartbeat % WdogMask) % WdogWidth) * Tick
    <3>1. /\ wdog' = [left |-> left, on |-> TRUE] /\ fed' = [fed EXCEPT !.at = now]
          /\ heartbeat' = heartbeat /\ machine' = machine
      BY <1>9, <2>2 DEF watchdog_feed, StartTicks
    <3>2. heartbeat % WdogWidth = Counted \div Tick
      BY <1>1, <1>2 DEF WatchdogInv
    <3>3. fed' = [at |-> now, us |-> fed.us, held |-> fed.held]
      <4> DEFINE f == fed
                 x == now
      <4>1. f \in [at : Int, us : Nat, held : Int] /\ x \in Int /\ fed' = [f EXCEPT !.at = x]
        BY <1>4, <3>1
      <4> HIDE DEF f, x
      <4>2. fed' = [at |-> x, us |-> f.us, held |-> f.held]
        BY <4>1
      <4> QED
        BY <4>2 DEF f, x
    <3>4. left \in Nat /\ left > Counted - Tick /\ left <= Counted
      BY <1>4, <3>2, TicksLeft DEF Counted
    <3> HIDE DEF left
    <3>5. /\ wdog'.left = left /\ wdog'.on /\ fed'.at = now /\ fed'.us = fed.us
      BY <3>1, <3>3
    <3>6. Counted' = Counted /\ Counted \in Nat
      BY <1>4, <1>5, <3>5, ModAtMost DEF Counted
    <3>7. now + left - now > Counted - Tick /\ now + left - now <= Counted
      BY <1>4, <1>5, <3>4, <3>6
    <3>8. WatchdogInv'
      BY <1>2, <3>1, <3>2, <3>5, <3>6, <3>7 DEF WatchdogInv, InTime
    <3> QED
      BY <1>2, <1>4, <3>1, <3>3, <3>4, <3>8
  <2> QED
    BY <2>1, <2>2
<1>10. CASE watchdog_stop
  <2> DEFINE w == wdog
             f == fed
             h == now - fed.at
  <2>1. /\ w.on /\ w \in [left : Nat, on : BOOLEAN] /\ f \in [at : Int, us : Nat, held : Int] /\ h \in Int
        /\ wdog' = [w EXCEPT !.on = FALSE] /\ fed' = [f EXCEPT !.held = h]
        /\ heartbeat' = heartbeat /\ machine' = machine
    BY <1>4, <1>10 DEF watchdog_stop
  <2> HIDE DEF w, f, h
  <2>2. wdog' = [left |-> w.left, on |-> FALSE] /\ fed' = [at |-> f.at, us |-> f.us, held |-> h]
    BY <2>1
  <2>3. /\ wdog'.left = wdog.left /\ ~wdog'.on /\ fed'.us = fed.us /\ fed'.held = h
    BY <2>2 DEF w, f
  <2>4. wdog.on /\ h + wdog.left = now + wdog.left - fed.at
    BY <1>4, <2>1 DEF h, w
  <2>5. WatchdogInv'
    BY <1>1, <1>2, <2>1, <2>3, <2>4 DEF WatchdogInv, InTime, Counted
  <2> QED
    BY <1>2, <1>4, <2>1, <2>2, <2>5
<1>11. CASE watchdog_resume
  <2> DEFINE w == wdog
             f == fed
             x == now - fed.held
  <2>1. /\ w.left > 0 /\ ~w.on /\ w \in [left : Nat, on : BOOLEAN] /\ f \in [at : Int, us : Nat, held : Int]
        /\ x \in Int /\ wdog' = [w EXCEPT !.on = TRUE] /\ fed' = [f EXCEPT !.at = x]
        /\ heartbeat' = heartbeat /\ machine' = machine
    BY <1>4, <1>11 DEF watchdog_resume
  <2> HIDE DEF w, f, x
  <2>2. wdog' = [left |-> w.left, on |-> TRUE] /\ fed' = [at |-> x, us |-> f.us, held |-> f.held]
    BY <2>1
  <2>3. /\ wdog'.left = wdog.left /\ wdog'.on /\ fed'.us = fed.us /\ fed'.at = x
    BY <2>2 DEF w, f
  <2>4. wdog.left > 0 /\ ~wdog.on /\ now + wdog.left - x = fed.held + wdog.left
    BY <1>4, <2>1 DEF x, w
  <2>5. WatchdogInv'
    BY <1>1, <1>2, <2>1, <2>3, <2>4 DEF WatchdogInv, InTime, Counted
  <2> QED
    BY <1>2, <1>4, <2>1, <2>2, <2>5
<1>12. CASE watchdog_shutdown
  BY <1>8, <1>12 DEF watchdog_shutdown
<1>13. CASE rpi_reboot
  <2>1. /\ wdog' = [left |-> Tick, on |-> TRUE] /\ machine' = "rebooting" /\ heartbeat' = heartbeat
        /\ fed' = [at |-> now, us |-> Tick, held |-> 0]
    BY <1>13 DEF rpi_reboot
  <2>2. /\ wdog'.left = Tick /\ wdog'.on /\ fed'.us = Tick /\ fed'.at = now
    BY <2>1
  <2>3. now + Tick - now > Counted' - Tick /\ now + Tick - now <= Counted'
    BY <1>4, <1>5, <2>2, OneTick DEF Counted
  <2>4. WatchdogInv'
    BY <1>2, <2>1, <2>2, <2>3 DEF WatchdogInv, InTime, Counted
  <2> QED
    BY <1>4, <1>5, <2>1, <2>4
<1> QED
  BY <1>5, <1>7, <1>8, <1>9, <1>10, <1>11, <1>12, <1>13 DEF WatchdogCall

\* In every order of the calls of all three, and across any number of wraps of the
\* counter: a timeout has counted the time since its start, but for the whole
\* wraps between two checks, and never expires early (timeout.h:11-13, 29-42); no
\* delay is over before the time asked for, modulo a word (timer.c:18-35); and the
\* watchdog resets the machine when it has not been fed for the time asked for,
\* modulo what its counter counts, in whole ticks (watchdog.c:16-44, 62-74).  For
\* every size of a tick and every three powers of two for the word, the mask and
\* the counter; it asks no more of them than that each divides the one before.
THEOREM TimesAlwaysExact == TimeSpec => []TimesExact
<1>1. TimeInv /\ [TimeNext]_tvars => TimeInv'
  <2> SUFFICES ASSUME TimeInv, [TimeNext]_tvars PROVE TimeInv'
    OBVIOUS
  <2>1. CASE UNCHANGED tvars
    BY <2>1 DEF tvars, timeouts, watchdogs, TimeInv, TimeTypes, TimeoutInv, DelayInv, WatchdogInv,
               InTime, Counted
  <2>2. CASE Advance \/ TimeoutNext \/ DelayNext \/ WatchdogCall
    BY <2>2, TimePasses, TimeoutGood, DelayGood, WatchdogGood
  <2> QED
    BY <2>1, <2>2 DEF TimeNext
<1>2. TimeInv => TimesExact
  <2> SUFFICES ASSUME TimeInv PROVE TimesExact
    OBVIOUS
  <2>1. TimeTypes /\ TimeoutInv /\ DelayInv /\ WatchdogInv
    BY DEF TimeInv
  <2>2. TimeoutExact
    BY <2>1 DEF TimeoutInv, TimeoutExact
  <2>3. DelayLongEnough
    BY <2>1 DEF DelayInv, DelayLongEnough
  <2>4. WatchdogExact
    <3>1. /\ now \in Nat /\ wdog.left \in Nat /\ fed.at \in Int /\ fed.us \in Nat /\ Tick \in Nat
      BY <2>1, TimeConstants DEF TimeTypes
    <3>2. Counted \in Nat
      BY <3>1, Spans, ModAtMost DEF Counted
    <3>3. /\ machine # "reset" /\ wdog.on => InTime(now + wdog.left - fed.at)
          /\ machine = "reset" => now - fed.at > Counted - Tick
      BY <2>1 DEF WatchdogInv
    <3> QED
      BY <3>1, <3>2, <3>3 DEF WatchdogExact, InTime, Counted
  <2> QED
    BY <2>2, <2>3, <2>4 DEF TimesExact
<1> QED
  BY <1>1, <1>2, TimeInitGood, PTL DEF TimeSpec

-----------------------------------------------------------------------------
(* The bus.  The inductive invariant follows the bytes through the FIFO    *)
(* and says what the flags mean at each point of the driver, whatever the  *)
(* controller has done since it last looked.                               *)

Steps == {"off", "pin2", "pin3", "control", "ready", "launch", "poll", "data", "panic"}
Faults == {ERR, CLKT}

BusTypes ==
  /\ step \in Steps /\ function \in {"read", "write"}
  /\ nbytes \in Nat /\ dlen \in Nat /\ sent \in Nat
  /\ moved \in Seq(Nat) /\ fifo \in Seq(Nat) /\ device \in Seq(Nat)
  /\ flags \subseteq {TA, DONE, ERR, CLKT}

\* The controller between two transfers.
BusIdle == engine = "idle" /\ flags \cap {TA, ERR, CLKT} = {} /\ fifo = <<>>

\* The controller in a transfer: TA while it lasts, DONE and an error, if there
\* was one, behind it.
Transferring ==
  /\ engine \in {"begin", "address", "bytes", "idle"}
  /\ TA \in flags <=> engine \in {"address", "bytes"}
  /\ DONE \in flags <=> engine = "idle"
  /\ flags \cap Faults # {} => engine = "idle"
  /\ engine = "idle" => flags \cap Faults # {} \/ Len(device) = dlen
  /\ Len(device) <= dlen

\* Where the bytes are: those the driver has moved, those in the FIFO, and those
\* the device has sent or got.
BytesAre ==
  /\ Len(moved) + nbytes = dlen
  /\ IF function = "read" THEN Reading /\ device = moved \o fifo
                          ELSE ~Reading /\ moved = device \o fifo

BusInv ==
  /\ BusTypes
  /\ step \in {"off", "pin2", "pin3", "control"} =>
       engine = "off" /\ flags = {} /\ fifo = <<>> /\ transfers = 0
  /\ step = "ready" => BusIdle /\ (transfers > 0 => moved = device /\ Len(device) = dlen)
  /\ step = "launch" => BusIdle /\ moved = <<>> /\ device = <<>>
  /\ step \in {"poll", "data"} => Transferring /\ BytesAre
  \* The poll has seen TA, so DONE is from now on that of this transfer.
  /\ step = "poll" => \A c \in DOMAIN seen : TA \in seen[c] => engine # "begin"
  /\ step = "data" => engine # "begin"
  /\ step = "panic" => flags \cap Faults # {}

\* What the driver's reads of the status register tell.
LEMMA StatusTells ==
  ASSUME BusTypes
  PROVE  /\ \A b \in {TA, DONE, ERR, CLKT} : b \in Status <=> b \in flags
         /\ TXE \in Status <=> fifo = <<>>
         /\ RXD \in Status => fifo # <<>>
BY DEF BusTypes, Status, TA, DONE, ERR, CLKT, TXE, RXD, TXD

\* The controller is off at the start.
LEMMA BusInitGood == I2cInit => BusInv
BY DEF I2cInit, BusInv, BusTypes, Steps

\* i2c_init, up to the controller's.
LEMMA BusStarts == BusInv /\ I2c_init => BusInv'
<1> SUFFICES ASSUME BusInv, I2c_init PROVE BusInv'
  OBVIOUS
<1>1. UNCHANGED <<function, nbytes, moved, seen, dlen, device, sent, transfers>>
  BY DEF I2c_init
<1>2. step \in {"off", "pin2", "pin3", "control"}
  BY DEF I2c_init, InitPin, InitController, Step
<1>3. BusTypes /\ engine = "off" /\ flags = {} /\ fifo = <<>> /\ transfers = 0
  BY <1>2 DEF BusInv
<1>4. flags' = flags /\ fifo' = fifo
  BY <1>3 DEF I2c_init, InitController
<1>5. \/ step' \in {"off", "pin2", "pin3", "control"} /\ engine' = engine
      \/ step' = "ready" /\ engine' = "idle"
  BY DEF I2c_init, InitPin, InitController, Step
<1>6. BusTypes'
  BY <1>1, <1>3, <1>4, <1>5 DEF BusTypes, Steps
<1>7. CASE step' \in {"off", "pin2", "pin3", "control"} /\ engine' = engine
  BY <1>1, <1>3, <1>4, <1>6, <1>7 DEF BusInv
<1>8. CASE step' = "ready" /\ engine' = "idle"
  BY <1>1, <1>3, <1>4, <1>6, <1>8 DEF BusInv, BusIdle
<1> QED
  BY <1>5, <1>7, <1>8

\* i2c_read or i2c_write is called.
LEMMA BusCalled == BusInv /\ Call => BusInv'
<1> SUFFICES ASSUME BusInv, Call PROVE BusInv'
  OBVIOUS
<1>1. PICK n \in Lengths, rd \in BOOLEAN :
        step = "ready" /\ step' = "launch" /\ function' = (IF rd THEN "read" ELSE "write") /\ nbytes' = n
  BY DEF Call
<1>2. moved' = <<>> /\ device' = <<>> /\ UNCHANGED <<dlen, flags, fifo, engine, sent>>
  BY DEF Call
<1>3. BusTypes /\ BusIdle
  BY <1>1 DEF BusInv
<1>4. function' \in {"read", "write"} /\ n \in Nat /\ <<>> \in Seq(Nat)
  BY <1>1, LengthsAreNumbers
<1>5. BusTypes'
  BY <1>1, <1>2, <1>3, <1>4 DEF BusTypes, Steps
<1> QED
  BY <1>1, <1>2, <1>3, <1>5 DEF BusInv, BusIdle

\* The old flags are cleared before the transfer starts.
LEMMA BusLaunched == BusInv /\ Launch => BusInv'
<1> SUFFICES ASSUME BusInv, Launch PROVE BusInv'
  OBVIOUS
<1>1. step = "launch" /\ UNCHANGED <<function, nbytes, moved, fifo, device, sent, transfers>>
  BY DEF Launch
<1>2. BusTypes /\ BusIdle /\ moved = <<>> /\ device = <<>>
  BY <1>1 DEF BusInv
<1>3. {ERR, CLKT} \cap Status = {}
  BY <1>2, StatusTells DEF BusIdle
<1>4. /\ flags' = ClearDone /\ dlen' = nbytes
      /\ control' = (IF function = "read" THEN ReadControl ELSE WriteControl) \ {ST}
      /\ engine' = "begin" /\ step' = "poll" /\ seen' = [b \in {} |-> {}]
  BY <1>3 DEF Launch
<1>5. flags' = {}
  BY <1>2, <1>4 DEF ClearDone, BusTypes, BusIdle
<1>6. BusTypes'
  BY <1>1, <1>2, <1>4, <1>5 DEF BusTypes, Steps
<1>7. Transferring'
  BY <1>1, <1>2, <1>4, <1>5 DEF Transferring, BusTypes
<1>8. BytesAre'
  <2>1. Reading' <=> function = "read"
    BY <1>4 DEF Reading, ReadControl, WriteControl, READ, ST
  <2>2. Len(moved) + nbytes = nbytes /\ <<>> \o <<>> = <<>> /\ fifo = <<>>
    BY <1>2 DEF BusTypes, BusIdle
  <2> QED
    BY <1>1, <1>2, <1>4, <2>1, <2>2 DEF BytesAre
<1>9. DOMAIN seen' = {}
  BY <1>4
<1> QED
  BY <1>4, <1>6, <1>7, <1>8, <1>9 DEF BusInv

\* One read of the poll, or its end: a read that has TA shows that the transfer
\* has begun.
LEMMA BusPolled == BusInv /\ Poll => BusInv'
<1> SUFFICES ASSUME BusInv, Poll PROVE BusInv'
  OBVIOUS
<1>1. /\ step = "poll"
      /\ UNCHANGED <<function, nbytes, moved, control, dlen, flags, fifo, engine, device, sent, transfers>>
  BY DEF Poll
<1>2. BusTypes /\ Transferring /\ BytesAre /\ \A c \in DOMAIN seen : TA \in seen[c] => engine # "begin"
  BY <1>1 DEF BusInv
<1>3. Transferring' /\ BytesAre'
  BY <1>1, <1>2 DEF Transferring, BytesAre, Reading
<1>4. CASE DOMAIN seen = {TA, DONE}
  <2>1. /\ step' = IF TA \in seen[TA] /\ ~(DONE \in seen[DONE]) THEN "data" ELSE "poll"
        /\ seen' = [b \in {} |-> {}]
    BY <1>4 DEF Poll
  <2>2. step' \in {"poll", "data"} /\ (step' = "data" => engine # "begin") /\ DOMAIN seen' = {}
    BY <1>2, <1>4, <2>1
  <2>3. BusTypes'
    BY <1>1, <1>2, <2>2 DEF BusTypes, Steps
  <2> QED
    BY <1>1, <1>3, <2>2, <2>3 DEF BusInv
<1>5. CASE DOMAIN seen # {TA, DONE}
  <2>1. PICK b \in {TA, DONE} \ DOMAIN seen :
          seen' = [c \in DOMAIN seen \cup {b} |-> IF c = b THEN Status ELSE seen[c]]
    BY <1>5 DEF Poll
  <2>2. step' = step
    BY <1>5 DEF Poll
  <2>3. TA \in Status => engine # "begin"
    BY <1>2, StatusTells DEF Transferring
  <2>4. \A c \in DOMAIN seen' : TA \in seen'[c] => engine' # "begin"
    BY <1>1, <1>2, <2>1, <2>3
  <2>5. BusTypes'
    BY <1>1, <1>2, <2>2 DEF BusTypes
  <2> QED
    BY <1>1, <1>3, <2>2, <2>4, <2>5 DEF BusInv
<1> QED
  BY <1>4, <1>5

\* One byte out of the FIFO, or into it.
LEMMA BusMoves == BusInv /\ MoveByte => BusInv'
<1> SUFFICES ASSUME BusInv, MoveByte PROVE BusInv'
  OBVIOUS
<1>1. /\ step = "data" /\ nbytes > 0 /\ nbytes' = nbytes - 1
      /\ UNCHANGED <<step, function, seen, control, dlen, flags, engine, device, transfers>>
  BY DEF MoveByte
<1>2. BusTypes /\ Transferring /\ BytesAre /\ engine # "begin"
  BY <1>1 DEF BusInv
<1>3. Transferring'
  BY <1>1, <1>2 DEF Transferring
<1>4. nbytes \in Nat /\ Len(moved) \in Nat /\ Len(moved) + nbytes = dlen
  BY <1>2 DEF BytesAre, BusTypes
<1>5. CASE GetByte
  <2>1. /\ function = "read" /\ moved' = Append(moved, Head(fifo)) /\ fifo' = Tail(fifo) /\ sent' = sent
        /\ fifo # <<>>
    BY <1>2, <1>5, StatusTells DEF GetByte
  <2>2. /\ moved' \in Seq(Nat) /\ fifo' \in Seq(Nat) /\ Len(moved') = Len(moved) + 1
        /\ moved' \o fifo' = moved \o fifo
    <3> DEFINE m == moved
               f == fifo
    <3>1. m \in Seq(Nat) /\ f \in Seq(Nat) /\ f # <<>> /\ moved' = Append(m, Head(f)) /\ fifo' = Tail(f)
      BY <1>2, <2>1 DEF BusTypes
    <3> HIDE DEF m, f
    <3>2. Head(f) \in Nat /\ Tail(f) \in Seq(Nat) /\ Append(m, Head(f)) \in Seq(Nat)
          /\ Len(Append(m, Head(f))) = Len(m) + 1
      BY <3>1
    <3>3. Append(m, Head(f)) \o Tail(f) = m \o f
      BY <3>1, HeadMoves
    <3> QED
      BY <3>1, <3>2, <3>3 DEF m, f
  <2>3. BytesAre'
    <3>1. Len(moved') + nbytes' = dlen
      BY <1>1, <1>2, <1>4, <2>2
    <3> QED
      BY <1>1, <1>2, <2>1, <2>2, <3>1 DEF BytesAre, Reading
  <2>4. BusTypes'
    BY <1>1, <1>2, <2>1, <2>2 DEF BusTypes
  <2> QED
    BY <1>1, <1>2, <1>3, <2>3, <2>4 DEF BusInv
<1>6. CASE PutByte
  <2>1. /\ function = "write" /\ moved' = Append(moved, sent) /\ fifo' = Append(fifo, sent)
        /\ sent' = sent + 1
    BY <1>6 DEF PutByte
  <2>2. /\ moved' \in Seq(Nat) /\ fifo' \in Seq(Nat) /\ Len(moved') = Len(moved) + 1
    BY <1>2, <2>1 DEF BusTypes
  <2>3. BytesAre'
    <3>1. Len(moved') + nbytes' = dlen
      BY <1>1, <1>2, <1>4, <2>2
    <3>2. moved' = device \o fifo'
      <4> DEFINE d == device
                 f == fifo
                 x == sent
      <4>1. d \in Seq(Nat) /\ f \in Seq(Nat) /\ x \in Nat
        BY <1>2 DEF BusTypes
      <4>2. moved' = Append(d \o f, x) /\ fifo' = Append(f, x)
        BY <1>2, <2>1 DEF BytesAre
      <4> HIDE DEF d, f, x
      <4>3. d \o Append(f, x) = Append(d \o f, x)
        BY <4>1, AppendMoves
      <4>4. moved' = d \o fifo'
        BY <4>2, <4>3
      <4> QED
        BY <4>4 DEF d
    <3> QED
      BY <1>1, <1>2, <2>1, <3>1, <3>2 DEF BytesAre, Reading
  <2>4. BusTypes'
    BY <1>1, <1>2, <2>1, <2>2 DEF BusTypes
  <2> QED
    BY <1>1, <1>2, <1>3, <2>3, <2>4 DEF BusInv
<1> QED
  BY <1>5, <1>6 DEF MoveByte

\* DONE is seen when every byte has been moved: without an error the device has
\* as many.
LEMMA BusFinishes == BusInv /\ Finish => BusInv'
<1> SUFFICES ASSUME BusInv, Finish PROVE BusInv'
  OBVIOUS
<1>1. /\ step = "data" /\ nbytes = 0 /\ DONE \in Status
      /\ step' = IF {TA, ERR, CLKT} \cap Status = {} THEN "ready" ELSE "panic"
      /\ UNCHANGED <<function, nbytes, moved, seen, control, dlen, flags, fifo, engine, device, sent, transfers>>
  BY DEF Finish
<1>2. BusTypes /\ Transferring /\ BytesAre
  BY <1>1 DEF BusInv
<1>3. engine = "idle" /\ TA \notin flags /\ ({TA, ERR, CLKT} \cap Status = {} <=> flags \cap Faults = {})
  BY <1>1, <1>2, StatusTells DEF Transferring, Faults
<1>4. BusTypes'
  BY <1>1, <1>2 DEF BusTypes, Steps
<1>5. CASE flags \cap Faults # {}
  BY <1>1, <1>3, <1>4, <1>5 DEF BusInv
<1>6. CASE flags \cap Faults = {}
  <2>1. Len(device) = dlen /\ Len(moved) = dlen
    BY <1>1, <1>2, <1>3, <1>6 DEF Transferring, BytesAre, BusTypes
  <2>2. moved = device /\ fifo = <<>>
    <3>1. moved \in Seq(Nat) /\ fifo \in Seq(Nat) /\ device \in Seq(Nat)
      BY <1>2 DEF BusTypes
    <3>2. device = moved \o fifo \/ moved = device \o fifo
      BY <1>2 DEF BytesAre
    <3> QED
      BY <2>1, <3>1, <3>2, NothingBehind
  <2>3. BusIdle'
    BY <1>1, <1>3, <1>6, <2>2 DEF BusIdle, Faults
  <2> QED
    BY <1>1, <1>3, <1>4, <1>6, <2>1, <2>2, <2>3 DEF BusInv
<1> QED
  BY <1>5, <1>6

\* The steps of the controller that move no byte.
LEMMA BusTurns ==
  BusInv /\ ControllerNext /\ (BeginTransfer \/ Address \/ EndTransfer) => BusInv'
<1> SUFFICES ASSUME BusInv, ControllerNext, BeginTransfer \/ Address \/ EndTransfer PROVE BusInv'
  OBVIOUS
<1>1. UNCHANGED <<step, function, nbytes, moved, seen, control, dlen, transfers, fifo, device, sent>>
  BY DEF ControllerNext, BeginTransfer, Address, EndTransfer
<1>2. BusTypes
  BY DEF BusInv
<1>3. /\ engine \in {"begin", "address", "bytes"}
      /\ \/ engine = "begin" /\ engine' = "address" /\ flags' = flags \cup {TA}
         \/ engine = "address" /\ engine' = "bytes" /\ flags' = flags
         \/ /\ engine # "begin" /\ engine' = "idle"
            /\ \E errors \in SUBSET Faults :
                 /\ flags' = (flags \ {TA}) \cup {DONE} \cup errors
                 /\ errors # {} \/ Len(device) = dlen
  <2>1. CASE BeginTransfer
    BY <2>1 DEF BeginTransfer
  <2>2. CASE EndTransfer
    BY <2>2 DEF EndTransfer, End
  <2>3. CASE Address
    <3>1. CASE \E e \in {ERR, CLKT} : End({e})
      <4>1. PICK e \in {ERR, CLKT} : End({e})
        BY <3>1
      <4>2. {e} \in SUBSET Faults /\ {e} # {}
        BY <4>1 DEF Faults
      <4> QED
        BY <2>3, <4>1, <4>2 DEF Address, End
    <3>2. CASE engine' = "bytes" /\ UNCHANGED flags
      BY <2>3, <3>2 DEF Address
    <3> QED
      BY <2>3, <3>1, <3>2 DEF Address
  <2> QED
    BY <2>1, <2>2, <2>3
<1>4. flags' \subseteq {TA, DONE, ERR, CLKT}
  BY <1>2, <1>3 DEF BusTypes, Faults
<1>5. BusTypes'
  BY <1>1, <1>2, <1>4 DEF BusTypes
<1>6. engine' # "begin"
  BY <1>3
<1>7. TA \notin {DONE, ERR, CLKT} /\ DONE \notin {ERR, CLKT}
  BY DEF TA, DONE, ERR, CLKT
<1>8. CASE step \in {"poll", "data"}
  <2>1. Transferring /\ BytesAre
    BY <1>8 DEF BusInv
  <2>2. BytesAre'
    BY <1>1, <2>1 DEF BytesAre, Reading
  <2>3. Transferring'
    BY <1>1, <1>3, <1>7, <2>1 DEF Transferring, Faults
  <2> QED
    BY <1>1, <1>5, <1>6, <1>8, <2>2, <2>3 DEF BusInv
<1>9. CASE step = "panic"
  <2>1. flags \cap Faults # {}
    BY <1>9 DEF BusInv
  <2>2. flags' \cap Faults # {}
    BY <1>3, <1>7, <2>1 DEF Faults
  <2> QED
    BY <1>1, <1>5, <1>9, <2>2 DEF BusInv
<1>10. step \in {"poll", "data", "panic"}
  BY <1>2, <1>3 DEF BusInv, BusTypes, Steps, BusIdle
<1> QED
  BY <1>8, <1>9, <1>10

\* The controller's byte: to the FIFO, or from it.
LEMMA BusTransfers == BusInv /\ ControllerNext /\ TransferByte => BusInv'
<1> SUFFICES ASSUME BusInv, ControllerNext, TransferByte PROVE BusInv'
  OBVIOUS
<1>1. UNCHANGED <<step, function, nbytes, moved, seen, control, dlen, transfers, engine, flags>>
  BY DEF ControllerNext, TransferByte
<1>2. BusTypes
  BY DEF BusInv
<1>3. engine = "bytes" /\ Len(device) < dlen
  BY DEF TransferByte
<1> DEFINE f == fifo
           d == device
           x == sent
           m == moved
<1>4. f \in Seq(Nat) /\ d \in Seq(Nat) /\ m \in Seq(Nat) /\ x \in Nat
  BY <1>2 DEF BusTypes
<1>5. \/ Reading /\ fifo' = Append(f, x) /\ device' = Append(d, x) /\ sent' = x + 1
      \/ ~Reading /\ f # <<>> /\ device' = Append(d, Head(f)) /\ fifo' = Tail(f) /\ sent' = x
  BY DEF TransferByte
<1>6. /\ fifo' \in Seq(Nat) /\ device' \in Seq(Nat) /\ sent' \in Nat
      /\ Len(device') = Len(d) + 1
      /\ Reading => fifo' = Append(f, x) /\ device' = Append(d, x)
      /\ ~Reading => device' \o fifo' = d \o f
  <2> HIDE DEF f, d, x, m
  <2>1. CASE Reading /\ fifo' = Append(f, x) /\ device' = Append(d, x) /\ sent' = x + 1
    BY <1>4, <2>1
  <2>2. CASE ~Reading /\ f # <<>> /\ device' = Append(d, Head(f)) /\ fifo' = Tail(f) /\ sent' = x
    <3>1. Head(f) \in Nat /\ Tail(f) \in Seq(Nat)
      BY <1>4, <2>2
    <3>2. Append(d, Head(f)) \o Tail(f) = d \o f
      BY <1>4, <2>2, HeadMoves
    <3> QED
      BY <1>4, <2>2, <3>1, <3>2
  <2> QED
    BY <1>5, <2>1, <2>2
<1>7. BusTypes'
  BY <1>1, <1>2, <1>6 DEF BusTypes
<1>8. CASE step \in {"poll", "data"}
  <2>1. Transferring /\ BytesAre
    BY <1>8 DEF BusInv
  <2>2. Len(d) \in Nat /\ dlen \in Nat /\ Len(device') <= dlen
    BY <1>2, <1>3, <1>4, <1>6 DEF BusTypes
  <2>3. Transferring'
    BY <1>1, <1>3, <2>1, <2>2 DEF Transferring
  <2>4. Reading => m \o Append(f, x) = Append(m \o f, x)
    <3> HIDE DEF f, d, x, m
    <3> QED
      BY <1>4, AppendMoves
  <2>5. Reading <=> function = "read"
    BY <2>1 DEF BytesAre
  <2>6. ASSUME Reading PROVE BytesAre'
    <3>1. device = moved \o fifo
      BY <2>1, <2>5, <2>6 DEF BytesAre
    <3>2. device' = moved' \o fifo'
      BY <1>1, <1>6, <2>4, <2>6, <3>1
    <3> QED
      BY <1>1, <2>1, <2>5, <2>6, <3>2 DEF BytesAre, Reading
  <2>7. ASSUME ~Reading PROVE BytesAre'
    <3>1. moved = device \o fifo
      BY <2>1, <2>5, <2>7 DEF BytesAre
    <3>2. moved' = device' \o fifo'
      BY <1>1, <1>6, <2>7, <3>1
    <3> QED
      BY <1>1, <2>1, <2>5, <2>7, <3>2 DEF BytesAre, Reading
  <2>8. BytesAre'
    BY <2>6, <2>7
  <2> QED
    BY <1>1, <1>3, <1>7, <1>8, <2>3, <2>8 DEF BusInv
<1>9. CASE step = "panic"
  BY <1>1, <1>7, <1>9 DEF BusInv
<1>10. step \in {"poll", "data", "panic"}
  BY <1>2, <1>3 DEF BusInv, BusTypes, Steps, BusIdle
<1> QED
  BY <1>8, <1>9, <1>10

\* What other threads do to their pins does not touch the bus.
LEMMA BusUntouched == BusInv /\ UNCHANGED busvars => BusInv'
<1> SUFFICES ASSUME BusInv, UNCHANGED busvars PROVE BusInv'
  OBVIOUS
<1>1. UNCHANGED <<step, function, nbytes, moved, seen, control, dlen, transfers, fifo, device, sent, engine, flags>>
  BY DEF busvars
<1>2. BusTypes' = BusTypes /\ BusIdle' = BusIdle
  BY <1>1 DEF BusTypes, BusIdle
<1>3. Transferring' = Transferring /\ BytesAre' = BytesAre
  BY <1>1 DEF Transferring, BytesAre, Reading
<1> QED
  BY <1>1, <1>2, <1>3 DEF BusInv

\* Between two transfers, and when the driver panics, the bytes and the errors
\* are what TransferExact says.
LEMMA BusExact == BusInv => TransferExact
BY DEF BusInv, BusIdle, TransferExact, Faults

\* A call of i2c_read or i2c_write that returns has moved exactly the device's
\* bytes in their order, and one that panics has seen an error (i2c.c:118-126,
\* 195-204), for every size of the FIFO, every length and any number of calls,
\* while the other threads use their own pins.
THEOREM TransfersExactAlways == I2cSpec => []TransferExact
<1>1. I2cSpec => []BusInv
  <2>1. GpioInit /\ I2cInit => BusInv
    BY BusInitGood
  <2>2. BusInv /\ [I2cNext \/ OtherPins]_<<busvars, gpiovars>> => BusInv'
    <3> SUFFICES ASSUME BusInv, [I2cNext \/ OtherPins]_<<busvars, gpiovars>> PROVE BusInv'
      OBVIOUS
    <3>1. CASE DriverNext
      BY <3>1, BusStarts, BusCalled, BusLaunched, BusPolled, BusMoves, BusFinishes DEF DriverNext
    <3>2. CASE ControllerNext
      BY <3>2, BusTurns, BusTransfers DEF ControllerNext
    <3>3. CASE UNCHANGED busvars
      BY <3>3, BusUntouched
    <3> QED
      BY <3>1, <3>2, <3>3 DEF I2cNext, OtherPins
  <2> QED
    BY <2>1, <2>2, PTL DEF I2cSpec
<1> QED
  BY <1>1, BusExact, PTL


-----------------------------------------------------------------------------
(* Pins.  A function select register holds ten fields of three bits: the   *)
(* lemmas say what a store to one of them does to the others.              *)

PinType == [pin : PinNumbers, function : 0 .. 7, val : SUBSET (0 .. 31), active : BOOLEAN,
            during : SUBSET PinNumbers]

GpioTypes ==
  /\ fsel \in [0 .. 4 -> SUBSET (0 .. 31)] /\ latch \in [0 .. 1 -> SUBSET (0 .. 31)]
  /\ setting \in [GpioThreads -> PinType]
  /\ want \in [PinNumbers -> 0 .. 7] /\ lost \subseteq PinNumbers
  /\ level \in [PinNumbers -> 0 .. 1]

\* The field of a pin in a word that was loaded from its register.
FieldOf(word, pin) == bits_get(word, Shift(pin), Shift(pin) + 2)

\* Every pin whose setting nobody undid has its function in the register, and
\* in the words of the calls between load and store, unless it was set behind
\* the load.
PinsInv ==
  /\ GpioTypes
  /\ \A p \in PinNumbers \ lost : FieldOf(fsel[Bank(p)], p) = ToWord(want[p])
  /\ \A t \in GpioThreads : setting[t].active =>
       \A p \in PinNumbers \ (lost \cup setting[t].during) :
         Bank(p) = Bank(setting[t].pin) => FieldOf(setting[t].val, p) = ToWord(want[p])
  /\ \A p \in 0 .. 31 : p \in latch[0] <=> level[p] = 1

\* The powers of two of a word, evaluated one by one: from the third they are
\* greater than any function.
LEMMA Powers ==
  ASSUME NEW i \in 0 .. 30
  PROVE  2^i \in Nat /\ 2^i > 0 /\ (i > 2 => 2^i > 7)
<1> DEFINE P(n) == 2^n
<1>1. /\ P(0) = 1 /\ P(1) = 2 /\ P(2) = 4
      /\ P(3) = 8 /\ P(4) = 16 /\ P(5) = 32 /\ P(6) = 64 /\ P(7) = 128 /\ P(8) = 256 /\ P(9) = 512
      /\ P(10) = 1024 /\ P(11) = 2048 /\ P(12) = 4096 /\ P(13) = 8192 /\ P(14) = 16384
      /\ P(15) = 32768 /\ P(16) = 65536 /\ P(17) = 131072 /\ P(18) = 262144 /\ P(19) = 524288
      /\ P(20) = 1048576 /\ P(21) = 2097152 /\ P(22) = 4194304 /\ P(23) = 8388608
      /\ P(24) = 16777216 /\ P(25) = 33554432 /\ P(26) = 67108864 /\ P(27) = 134217728
      /\ P(28) = 268435456 /\ P(29) = 536870912 /\ P(30) = 1073741824
  BY SMT
<1> HIDE DEF P
<1>2. P(i) \in Nat /\ P(i) > 0 /\ (i > 2 => P(i) > 7)
  BY <1>1, SMT
<1> QED
  BY <1>2 DEF P

\* A function fits its field.
LEMMA LowBits ==
  ASSUME NEW n \in 0 .. 7 PROVE ToWord(n) \subseteq 0 .. 2
<1>1. ASSUME NEW i \in 3 .. 30 PROVE (n \div 2^i) % 2 # 1
  <2> DEFINE p == 2^i
  <2>1. p \in Nat /\ p > 7
    <3>1. i \in 0 .. 30 /\ i > 2
      OBVIOUS
    <3> QED
      BY <3>1, Powers
  <2> HIDE DEF p
  <2>2. n \div p = 0
    BY <2>1
  <2>3. (n \div p) % 2 # 1
    BY <2>2
  <2> QED
    BY <2>3 DEF p
<1>2. ASSUME NEW i \in ToWord(n) PROVE i \in 0 .. 2
  <2>1. i \in 0 .. 30 /\ (n \div 2^i) % 2 = 1
    BY <1>2 DEF ToWord
  <2>2. i \notin 3 .. 30
    BY <1>1, <2>1
  <2> QED
    BY <2>1, <2>2
<1> QED
  BY <1>2

\* A field is cut out of its word, whatever the word.
LEMMA FieldBits ==
  ASSUME NEW w \in SUBSET (0 .. 31), NEW a \in 0 .. 29
  PROVE  bits_get(w, a, a + 2) = {b \in 0 .. 2 : b + a \in w}
<1>1. bits_mask((a + 2) - a + 1) = 0 .. 2
  BY DEF bits_mask
<1>2. ASSUME NEW b \in 0 .. 2, b + a \in w PROVE b \in Shr(w, a)
  <2>1. b = (b + a) - a /\ b \in Bits
    BY DEF Bits
  <2> QED
    BY <1>2, <2>1 DEF Shr
<1>3. ASSUME NEW b \in Shr(w, a) PROVE b + a \in w
  <2>1. PICK i \in w : b = i - a
    BY <1>3 DEF Shr
  <2>2. b + a = i
    BY <2>1
  <2> QED
    BY <2>2
<1> QED
  BY <1>1, <1>2, <1>3 DEF bits_get

\* A shifted function, and the word in which its field was cleared.
LEMMA ShiftedBits ==
  ASSUME NEW v \in SUBSET (0 .. 2), NEW a \in 0 .. 29
  PROVE  Shl(v, a) = {i \in 0 .. 31 : i - a \in v}
<1>1. ASSUME NEW i \in Shl(v, a) PROVE i \in 0 .. 31 /\ i - a \in v
  <2>1. PICK b \in v : i = b + a /\ i \in Bits
    BY <1>1 DEF Shl
  <2>2. i - a = b
    BY <2>1
  <2> QED
    BY <2>1, <2>2 DEF Bits
<1>2. ASSUME NEW i \in 0 .. 31, i - a \in v PROVE i \in Shl(v, a)
  <2>1. i = (i - a) + a
    OBVIOUS
  <2> QED
    BY <1>2, <2>1 DEF Shl, Bits
<1> QED
  BY <1>1, <1>2

\* The field of the pin with a remainder of b, and the word with v for that of the
\* pin with a remainder of a.
Third(w, b) == bits_get(w, 3 * b, 3 * b + 2)
Stored(w, a, v) == bits_clr(w, 3 * a, 3 * a + 2) \cup Shl(v, 3 * a)

\* The word with a field stored, bit by bit.
LEMMA StoredBits ==
  ASSUME NEW w \in SUBSET (0 .. 31), NEW v \in SUBSET (0 .. 2), NEW a \in 0 .. 9
  PROVE  Stored(w, a, v) = {i \in 0 .. 31 : (i \in w /\ i - 3 * a \notin 0 .. 2) \/ i - 3 * a \in v}
<1> DEFINE s == 3 * a
<1>1. s \in 0 .. 29 /\ Stored(w, a, v) = bits_clr(w, s, s + 2) \cup Shl(v, s)
  BY DEF Stored
<1> HIDE DEF s
<1>2. bits_mask((s + 2) - s + 1) = 0 .. 2
  BY <1>1 DEF bits_mask
<1>3. Shl(0 .. 2, s) = {i \in 0 .. 31 : i - s \in 0 .. 2} /\ Shl(v, s) = {i \in 0 .. 31 : i - s \in v}
  <2>1. (0 .. 2) \in SUBSET (0 .. 2)
    OBVIOUS
  <2> QED
    BY <1>1, <2>1, ShiftedBits
<1>4. Stored(w, a, v) = {i \in 0 .. 31 : (i \in w /\ i - s \notin 0 .. 2) \/ i - s \in v}
  BY <1>1, <1>2, <1>3 DEF bits_clr
<1> QED
  BY <1>4 DEF s

\* It is a word.
LEMMA StoredWord ==
  ASSUME NEW w \in SUBSET (0 .. 31), NEW v \in SUBSET (0 .. 2), NEW a \in 0 .. 9
  PROVE  Stored(w, a, v) \in SUBSET (0 .. 31)
<1> DEFINE new == Stored(w, a, v)
<1>1. new = {i \in 0 .. 31 : (i \in w /\ i - 3 * a \notin 0 .. 2) \/ i - 3 * a \in v}
  BY StoredBits
<1> HIDE DEF new
<1>2. new \in SUBSET (0 .. 31)
  BY <1>1
<1> QED
  BY <1>2 DEF new

\* A field, bit by bit.
LEMMA ThirdBits ==
  ASSUME NEW w \in SUBSET (0 .. 31), NEW b \in 0 .. 9
  PROVE  Third(w, b) = {c \in 0 .. 2 : c + 3 * b \in w}
<1> DEFINE r == 3 * b
<1>1. r \in 0 .. 29 /\ Third(w, b) = bits_get(w, r, r + 2)
  BY DEF Third
<1> HIDE DEF r
<1>2. Third(w, b) = {c \in 0 .. 2 : c + r \in w}
  BY <1>1, FieldBits
<1> QED
  BY <1>2 DEF r

\* The store changes the field of its pin to the function.
LEMMA FieldStored ==
  ASSUME NEW w \in SUBSET (0 .. 31), NEW v \in SUBSET (0 .. 2), NEW a \in 0 .. 9
  PROVE  Third(Stored(w, a, v), a) = v
<1> DEFINE new == Stored(w, a, v)
<1>1. new \in SUBSET (0 .. 31)
  BY StoredWord
<1>2. new = {i \in 0 .. 31 : (i \in w /\ i - 3 * a \notin 0 .. 2) \/ i - 3 * a \in v}
  BY StoredBits
<1> HIDE DEF new
<1>3. Third(new, a) = {c \in 0 .. 2 : c + 3 * a \in new}
  BY <1>1, ThirdBits
<1>4. ASSUME NEW c \in 0 .. 2 PROVE c + 3 * a \in new <=> c \in v
  <2>1. c + 3 * a \in 0 .. 31 /\ (c + 3 * a) - 3 * a = c
    OBVIOUS
  <2> QED
    BY <1>2, <2>1
<1>5. Third(new, a) = v
  BY <1>3, <1>4
<1> QED
  BY <1>5 DEF new

\* It changes no other field of the register.
LEMMA FieldKept ==
  ASSUME NEW w \in SUBSET (0 .. 31), NEW v \in SUBSET (0 .. 2), NEW a \in 0 .. 9, NEW b \in 0 .. 9, a # b
  PROVE  Third(Stored(w, a, v), b) = Third(w, b)
<1> DEFINE new == Stored(w, a, v)
<1>1. new \in SUBSET (0 .. 31)
  BY StoredWord
<1>2. new = {i \in 0 .. 31 : (i \in w /\ i - 3 * a \notin 0 .. 2) \/ i - 3 * a \in v}
  BY StoredBits
<1> HIDE DEF new
<1>3. Third(new, b) = {c \in 0 .. 2 : c + 3 * b \in new} /\ Third(w, b) = {c \in 0 .. 2 : c + 3 * b \in w}
  BY <1>1, ThirdBits
<1>4. ASSUME NEW c \in 0 .. 2 PROVE c + 3 * b \in new <=> c + 3 * b \in w
  <2>1. c + 3 * b \in 0 .. 31 /\ (c + 3 * b) - 3 * a \notin 0 .. 2
    OBVIOUS
  <2> QED
    BY <1>2, <2>1
<1>5. Third(new, b) = Third(w, b)
  BY <1>3, <1>4
<1> QED
  BY <1>5 DEF new

\* Two pins of one register have different fields.
LEMMA PinFields ==
  ASSUME NEW p \in PinNumbers, NEW q \in PinNumbers
  PROVE  /\ Bank(p) \in 0 .. 4 /\ p % 10 \in 0 .. 9
         /\ Bank(p) = Bank(q) /\ p % 10 = q % 10 => p = q
BY DEF Bank, PinNumbers

\* The same of the word that gpio_set_function stores.
LEMMA StoredFields ==
  ASSUME NEW s \in PinType, NEW q \in PinNumbers
  PROVE  /\ NewFsel(s) \in SUBSET (0 .. 31)
         /\ q = s.pin => FieldOf(NewFsel(s), q) = ToWord(s.function)
         /\ Bank(q) = Bank(s.pin) /\ q # s.pin => FieldOf(NewFsel(s), q) = FieldOf(s.val, q)
<1> DEFINE p == s.pin
           f == s.function
           w == s.val
           v == ToWord(f)
           a == p % 10
           b == q % 10
           new == NewFsel(s)
<1>1. p \in PinNumbers /\ f \in 0 .. 7 /\ w \in SUBSET (0 .. 31)
  BY DEF PinType
<1>2. new = Stored(w, a, v)
  BY <1>1 DEF NewFsel, Shift, Stored, FuncBits
<1> HIDE DEF p, f, w, new
<1>3. v \in SUBSET (0 .. 2)
  BY <1>1, LowBits
<1>4. a \in 0 .. 9 /\ b \in 0 .. 9 /\ (p = q => a = b) /\ (Bank(q) = Bank(p) /\ q # p => a # b)
  BY <1>1, PinFields
<1> HIDE DEF v, a, b
<1>5. new \in SUBSET (0 .. 31) /\ (a = b => Third(new, b) = v) /\ (a # b => Third(new, b) = Third(w, b))
  <2>1. w \in SUBSET (0 .. 31)
    BY <1>1
  <2>2. a \in 0 .. 9 /\ b \in 0 .. 9
    BY <1>4
  <2>3. Stored(w, a, v) \in SUBSET (0 .. 31)
    BY <1>3, <2>1, <2>2, StoredWord
  <2>4. Third(Stored(w, a, v), a) = v
    BY <1>3, <2>1, <2>2, FieldStored
  <2>5. a # b => Third(Stored(w, a, v), b) = Third(w, b)
    BY <1>3, <2>1, <2>2, FieldKept
  <2> QED
    BY <1>2, <2>3, <2>4, <2>5
<1>6. FieldOf(new, q) = Third(new, b) /\ FieldOf(w, q) = Third(w, b)
  BY DEF FieldOf, Shift, b, Third
<1>7. (p = q => FieldOf(new, q) = v) /\ (Bank(q) = Bank(p) /\ q # p => FieldOf(new, q) = FieldOf(w, q))
  BY <1>4, <1>5, <1>6
<1> QED
  BY <1>5, <1>7 DEF p, f, w, v, new

\* All pins are inputs at the start.
LEMMA PinsInitGood == GpioInit => PinsInv
<1> SUFFICES ASSUME GpioInit PROVE PinsInv
  OBVIOUS
<1>1. NoCall \in PinType
  BY DEF NoCall, PinType, PinNumbers
<1>2. GpioTypes
  BY <1>1 DEF GpioInit, GpioTypes, GPIO_FUNC_INPUT
<1>3. ToWord(0) = {}
  <2>1. ASSUME NEW i \in 0 .. 30 PROVE (0 \div 2^i) % 2 # 1
    <3> DEFINE p == 2^i
    <3>1. p \in Nat /\ p > 0
      BY Powers
    <3> HIDE DEF p
    <3>2. (0 \div p) % 2 # 1
      BY <3>1
    <3> QED
      BY <3>2 DEF p
  <2> QED
    BY <2>1 DEF ToWord
<1>4. ASSUME NEW p \in PinNumbers PROVE FieldOf({}, p) = {}
  BY DEF FieldOf, bits_get, Shr
<1>5. ASSUME NEW p \in PinNumbers PROVE FieldOf(fsel[Bank(p)], p) = ToWord(want[p])
  <2>1. Bank(p) \in 0 .. 4
    BY PinFields
  <2> QED
    BY <1>3, <1>4, <2>1 DEF GpioInit, GPIO_FUNC_INPUT
<1>6. \A t \in GpioThreads : ~setting[t].active
  BY DEF GpioInit, NoCall
<1>7. \A p \in 0 .. 31 : p \in latch[0] <=> level[p] = 1
  BY DEF GpioInit, PinNumbers
<1> QED
  BY <1>2, <1>5, <1>6, <1>7 DEF PinsInv

\* gpio_set_function up to the load.
LEMMA PinsLoaded == ASSUME PinsInv, NEW t \in GpioThreads, GpioSetFunction(t) PROVE PinsInv'
<1>1. GpioTypes /\ UNCHANGED <<fsel, latch, want, lost, level>>
  BY DEF PinsInv, GpioSetFunction
<1>2. CASE setting' = setting
  <2>1. GpioTypes'
    BY <1>1, <1>2 DEF GpioTypes
  <2> QED
    BY <1>1, <1>2, <2>1 DEF PinsInv
<1>3. CASE setting' # setting
  <2>1. PICK pin \in GpioPins, f \in GpioFuncs : Accepted(pin, f) /\ GetFsel(t, pin, f)
    BY <1>3 DEF GpioSetFunction
  <2>2. pin \in PinNumbers /\ f \in 0 .. 7
    BY <2>1, PinsAreUnsigned DEF Accepted, Supported, PinNumbers
  <2> DEFINE word == fsel[Bank(pin)]
             s == [pin |-> pin, function |-> f, val |-> word, active |-> TRUE, during |-> {}]
  <2>3. setting' = [setting EXCEPT ![t] = s]
    BY <2>1 DEF GetFsel
  <2>4. word \in SUBSET (0 .. 31)
    <3>1. Bank(pin) \in 0 .. 4
      BY <2>2, PinFields
    <3> QED
      BY <1>1, <3>1 DEF GpioTypes
  <2>5. s \in PinType /\ s.pin = pin /\ s.during = {} /\ s.val = word
    <3> HIDE DEF word
    <3> QED
      BY <2>2, <2>4 DEF PinType
  <2>6. \A p \in PinNumbers \ lost : FieldOf(fsel[Bank(p)], p) = ToWord(want[p])
    BY DEF PinsInv
  <2>7. \A p \in PinNumbers \ lost : Bank(p) = Bank(s.pin) => FieldOf(s.val, p) = ToWord(want[p])
    BY <2>5, <2>6
  <2> HIDE DEF s
  <2>8. setting' \in [GpioThreads -> PinType] /\ \A u \in GpioThreads : setting'[u] = IF u = t THEN s ELSE setting[u]
    BY <1>1, <2>3, <2>5 DEF GpioTypes
  <2>9. GpioTypes'
    BY <1>1, <2>8 DEF GpioTypes
  <2>10. ASSUME NEW u \in GpioThreads, setting'[u].active,
               NEW p \in PinNumbers \ (lost \cup setting'[u].during), Bank(p) = Bank(setting'[u].pin)
         PROVE FieldOf(setting'[u].val, p) = ToWord(want[p])
    <3>1. CASE u = t
      BY <2>7, <2>8, <2>10, <3>1
    <3>2. CASE u # t
      BY <2>8, <2>10, <3>2 DEF PinsInv
    <3> QED
      BY <3>1, <3>2
  <2> QED
    BY <1>1, <2>6, <2>9, <2>10 DEF PinsInv
<1> QED
  BY <1>2, <1>3

\* The store: the other calls of the register are told of the pin, and the pins
\* this call was told of are lost.
LEMMA PinsStored == ASSUME PinsInv, NEW t \in GpioThreads, GpioStore(t) PROVE PinsInv'
<1> DEFINE s == setting[t]
           same == {p \in s.during : Bank(p) = Bank(s.pin)}
           new == NewFsel(s)
<1>1. GpioTypes /\ UNCHANGED <<latch, level>> /\ s.active
  BY DEF PinsInv, GpioStore, PutFsel
<1>2. s \in PinType /\ s.pin \in PinNumbers /\ s.function \in 0 .. 7
  BY <1>1 DEF GpioTypes, PinType
<1>3. /\ fsel' = [fsel EXCEPT ![Bank(s.pin)] = new]
      /\ want' = [want EXCEPT ![s.pin] = s.function]
      /\ lost' = (lost \cup same) \ {s.pin}
  BY DEF GpioStore, PutFsel
<1>4. \A q \in PinNumbers :
        Bank(q) = Bank(s.pin) /\ q \notin lost \cup s.during => FieldOf(s.val, q) = ToWord(want[q])
  BY <1>1 DEF PinsInv
<1>5. setting' = [u \in GpioThreads |->
                    IF u = t THEN NoCall
                    ELSE [setting[u] EXCEPT !.during = IF setting[u].active THEN @ \cup {s.pin} ELSE @]]
  BY DEF GpioStore, PutFsel
<1>6. new \in SUBSET (0 .. 31) /\ Bank(s.pin) \in 0 .. 4
  BY <1>2, StoredFields, PinFields
<1> DEFINE pin == s.pin
           f == s.function
           b == Bank(pin)
           val == s.val
           during == s.during
<1>7. \A q \in PinNumbers : /\ q = pin => FieldOf(new, q) = ToWord(f)
                            /\ Bank(q) = b /\ q # pin => FieldOf(new, q) = FieldOf(val, q)
  BY <1>2, StoredFields
<1>8. pin \in PinNumbers /\ f \in 0 .. 7 /\ b \in 0 .. 4 /\ new \in SUBSET (0 .. 31)
  BY <1>2, <1>6
<1>9. /\ fsel' = [fsel EXCEPT ![b] = new] /\ want' = [want EXCEPT ![pin] = f]
      /\ lost' = (lost \cup {p \in during : Bank(p) = b}) \ {pin}
  BY <1>3
<1>10. \A q \in PinNumbers : Bank(q) = b /\ q \notin lost \cup during => FieldOf(val, q) = ToWord(want[q])
  BY <1>4
<1>11. during \subseteq PinNumbers
  BY <1>2 DEF PinType
<1>12. \A u \in GpioThreads \ {t} :
         /\ setting'[u] \in PinType
         /\ setting'[u].active = setting[u].active /\ setting'[u].pin = setting[u].pin
         /\ setting'[u].val = setting[u].val
         /\ setting[u].active => setting'[u].during = setting[u].during \cup {pin}
  <2> TAKE u \in GpioThreads \ {t}
  <2> DEFINE old == setting[u]
             more == IF old.active THEN old.during \cup {pin} ELSE old.during
  <2>1. setting'[u] = [old EXCEPT !.during = more]
    BY <1>5
  <2>2. old \in PinType
    BY <1>1 DEF GpioTypes
  <2>3. more \subseteq PinNumbers
    BY <1>8, <2>2 DEF PinType
  <2> HIDE DEF old, more, pin
  <2>4. /\ [old EXCEPT !.during = more] \in PinType
        /\ [old EXCEPT !.during = more].active = old.active /\ [old EXCEPT !.during = more].pin = old.pin
        /\ [old EXCEPT !.during = more].val = old.val /\ [old EXCEPT !.during = more].during = more
    BY <2>2, <2>3 DEF PinType
  <2>5. old.active => more = old.during \cup {pin}
    BY DEF more
  <2> QED
    BY <2>1, <2>4, <2>5 DEF old
<1>13. setting'[t] = NoCall /\ NoCall \in PinType /\ ~NoCall.active
  BY <1>5 DEF NoCall, PinType, PinNumbers
<1>14. setting' \in [GpioThreads -> PinType]
  BY <1>5, <1>12, <1>13
<1> HIDE DEF s, same, new, pin, f, b, val, during
<1>15. fsel' \in [0 .. 4 -> SUBSET (0 .. 31)] /\ want' \in [PinNumbers -> 0 .. 7] /\ lost' \subseteq PinNumbers
  BY <1>1, <1>8, <1>9, <1>11 DEF GpioTypes
<1>16. GpioTypes'
  BY <1>1, <1>14, <1>15 DEF GpioTypes
<1>17. /\ \A q \in PinNumbers : want'[q] = IF q = pin THEN f ELSE want[q]
       /\ \A c \in 0 .. 4 : fsel'[c] = IF c = b THEN new ELSE fsel[c]
  BY <1>1, <1>8, <1>9 DEF GpioTypes
<1>18. ASSUME NEW p \in PinNumbers \ lost' PROVE FieldOf(fsel'[Bank(p)], p) = ToWord(want'[p])
  <2>1. Bank(p) \in 0 .. 4
    BY PinFields
  <2>2. CASE p = pin
    BY <1>7, <1>8, <1>17, <2>1, <2>2 DEF b
  <2>3. CASE p # pin
    <3>1. p \notin lost
      BY <1>9, <1>18, <2>3
    <3>2. CASE Bank(p) = b
      <4>1. p \notin during
        BY <1>9, <1>18, <2>3, <3>2
      <4>2. FieldOf(new, p) = FieldOf(val, p) /\ FieldOf(val, p) = ToWord(want[p])
        BY <1>7, <1>10, <2>3, <3>1, <3>2, <4>1
      <4> QED
        BY <1>17, <2>1, <2>3, <3>2, <4>2
    <3>3. CASE Bank(p) # b
      <4>1. FieldOf(fsel[Bank(p)], p) = ToWord(want[p])
        BY <3>1 DEF PinsInv
      <4> QED
        BY <1>17, <2>1, <2>3, <3>3, <4>1
    <3> QED
      BY <3>2, <3>3
  <2> QED
    BY <2>2, <2>3
<1>19. ASSUME NEW u \in GpioThreads, setting'[u].active,
              NEW p \in PinNumbers \ (lost' \cup setting'[u].during), Bank(p) = Bank(setting'[u].pin)
       PROVE FieldOf(setting'[u].val, p) = ToWord(want'[p])
  <2>1. u # t
    BY <1>13, <1>19
  <2>2. setting[u].active /\ p # pin /\ p \notin lost \cup setting[u].during /\ Bank(p) = Bank(setting[u].pin)
    BY <1>9, <1>12, <1>19, <2>1
  <2>3. FieldOf(setting[u].val, p) = ToWord(want[p])
    BY <2>2 DEF PinsInv
  <2> QED
    BY <1>12, <1>17, <2>1, <2>2, <2>3
<1>20. \A p \in 0 .. 31 : p \in latch'[0] <=> level'[p] = 1
  BY <1>1 DEF PinsInv
<1> QED
  BY <1>16, <1>18, <1>19, <1>20 DEF PinsInv

\* gpio_set_on and gpio_set_off.
LEMMA PinsWritten == ASSUME PinsInv, NEW t \in GpioThreads, GpioWrite(t) PROVE PinsInv'
<1>1. GpioTypes /\ UNCHANGED <<fsel, setting, want, lost>>
  BY DEF PinsInv, GpioWrite
<1>2. PICK pin \in GpioPins, v \in 0 .. 1 :
        /\ latch' = IF v = 1 THEN SetOn(pin) ELSE SetOff(pin)
        /\ level' = IF Supported(pin) THEN [level EXCEPT ![pin] = v] ELSE level
  BY DEF GpioWrite
<1>3. pin \in Nat /\ latch \in [0 .. 1 -> SUBSET (0 .. 31)] /\ level \in [PinNumbers -> 0 .. 1]
  BY <1>1, PinsAreUnsigned DEF GpioTypes
<1>4. CASE pin < 32
  <2>1. pin \in PinNumbers /\ pin \in 0 .. 31 /\ Supported(pin) /\ pin # 47
    BY <1>3, <1>4 DEF PinNumbers, Supported
  <2>2. level' = [level EXCEPT ![pin] = v]
    BY <1>2, <2>1
  <2>3. latch' = [latch EXCEPT ![0] = IF v = 1 THEN latch[0] \cup {pin} ELSE latch[0] \ {pin}]
    BY <1>2, <1>3, <1>4, <2>1 DEF SetOn, SetOff, bit_set, bit_clr
  <2>4. latch' \in [0 .. 1 -> SUBSET (0 .. 31)] /\ level' \in [PinNumbers -> 0 .. 1]
    BY <1>3, <2>1, <2>2, <2>3
  <2>5. \A p \in 0 .. 31 : p \in latch'[0] <=> level'[p] = 1
    BY <1>3, <2>1, <2>2, <2>3 DEF PinsInv, PinNumbers
  <2>6. GpioTypes'
    BY <1>1, <2>4 DEF GpioTypes
  <2> QED
    BY <1>1, <2>5, <2>6 DEF PinsInv
<1>5. CASE pin >= 32
  <2>1. latch'[0] = latch[0] /\ latch' \in [0 .. 1 -> SUBSET (0 .. 31)]
    BY <1>2, <1>3, <1>5 DEF SetOn, SetOff, bit_set, bit_clr
  <2>2. level' \in [PinNumbers -> 0 .. 1] /\ \A p \in 0 .. 31 : level'[p] = level[p]
    BY <1>2, <1>3, <1>5 DEF Supported, PinNumbers
  <2>3. \A p \in 0 .. 31 : p \in latch'[0] <=> level'[p] = 1
    BY <2>1, <2>2 DEF PinsInv
  <2>4. GpioTypes'
    BY <1>1, <2>1, <2>2 DEF GpioTypes
  <2> QED
    BY <1>1, <2>3, <2>4 DEF PinsInv
<1> QED
  BY <1>3, <1>4, <1>5

\* The property is a part of the invariant.
LEMMA PinsGood == PinsInv => PinsKept
<1> SUFFICES ASSUME PinsInv PROVE PinsKept
  OBVIOUS
<1>1. \A p \in PinNumbers \ lost : Field(fsel, p) = FuncBits[want[p]]
  BY DEF PinsInv, GpioTypes, Field, FieldOf, FuncBits
<1>2. \A p \in PinNumbers : p < 32 => GpioRead(p) = level[p]
  BY DEF PinsInv, GpioTypes, GpioRead, bit_is_on, PinNumbers
<1> QED
  BY <1>1, <1>2 DEF PinsKept

\* "Settings for other pins should be unchanged" (gpio.h:23-24), for every set of
\* threads and pins: a pin has the function last set for it unless that happened
\* while another call was between the load and the store of its register
\* (gpio.c:189-222), and an output reads as what was last written to it.
THEOREM PinsAlwaysKept == GpioSpec => []PinsKept
<1>1. GpioSpec => []PinsInv
  <2>1. PinsInv /\ [GpioNext]_gpiovars => PinsInv'
    <3> SUFFICES ASSUME PinsInv, [GpioNext]_gpiovars PROVE PinsInv'
      OBVIOUS
    <3>1. CASE GpioNext
      BY <3>1, PinsLoaded, PinsStored, PinsWritten DEF GpioNext
    <3>2. CASE UNCHANGED gpiovars
      BY <3>2 DEF gpiovars, PinsInv, GpioTypes
    <3> QED
      BY <3>1, <3>2
  <2> QED
    BY <2>1, PinsInitGood, PTL DEF GpioSpec
<1> QED
  BY <1>1, PinsGood, PTL


-----------------------------------------------------------------------------
(* Single-stepping.  The inductive invariant: the breakpoint is armed at   *)
(* user level, its address is the instruction last handled, and the        *)
(* handler is at most that one ahead.                                      *)

Running == {"user", "abort", "data", "back"}
LastOf(s) == IF s = <<>> THEN 0 ELSE s[Len(s)]

StepTypes ==
  /\ at \in {"start", "ready", "user", "abort", "data", "back", "returned", "panic"}
  /\ dscr \in SUBSET (0 .. 31) /\ pc \in Nat /\ bvr0 \in Nat
  /\ executed \in Seq(Nat) /\ handled \in Seq(Nat)

\* The debug unit is on, and the breakpoint stops at every other address.
Armed == /\ single_step_on_p /\ 15 \in dscr
         /\ {0, 2, 5, 6, 7, 8, 22} \subseteq bcr0 /\ {14, 15, 20, 21} \cap bcr0 = {}
         /\ bvr0 = LastOf(handled)

\* The instruction at pc has been handled and not executed, or neither.
Ahead == bvr0 = pc /\ handled = Note(executed, pc)
Level == bvr0 # pc /\ handled = executed

StepInv ==
  /\ StepTypes
  /\ 15 \in dscr => 14 \notin dscr
  /\ at \in Running => Armed
  /\ at \in {"start", "ready", "returned"} => ~single_step_on_p /\ 0 \notin bcr0
  /\ at \in {"user", "data"} => Ahead \/ Level
  /\ at = "abort" => Level \/ (Ahead /\ pc # OnExit)
  /\ at \in {"back", "returned"} => handled = executed
  /\ at \in {"start", "ready", "user", "back", "returned"} => told = happened
  /\ at = "abort" => happened = [what |-> IF was_brkpt_fault THEN "mismatch" ELSE "prefetch", pc |-> pc]
  /\ at = "data" =>
       happened = [what |-> IF ~was_watchpt_fault THEN "data" ELSE IF datafault_from_ld THEN "load" ELSE "store",
                   pc |-> IF was_watchpt_fault THEN watchpt_fault_pc ELSE pc]
  /\ at # "panic"

\* What the low bits of the fault status registers and the method of entry of
\* DSCR read as, with what the hardware stores there.
LEMMA FaultBits ==
  /\ bits_get({1}, 0, 3) = {1} /\ bits_get({1, 11}, 0, 3) = {1} /\ bits_get({0, 2}, 0, 3) # {1}
<1> DEFINE got(w) == bits_get(w, 0, 3)
<1>1. ASSUME NEW w \in SUBSET (0 .. 31), NEW b PROVE b \in got(w) <=> b \in w /\ b \in 0 .. 3
  <2>1. bits_mask(3 - 0 + 1) = 0 .. 3
    BY DEF bits_mask
  <2>2. \A i \in w : i - 0 = i /\ i \in Bits
    BY DEF Bits
  <2> QED
    BY <2>1, <2>2 DEF bits_get, Shr
<1> HIDE DEF got
<1>2. {1} \in SUBSET (0 .. 31) /\ {1, 11} \in SUBSET (0 .. 31) /\ {0, 2} \in SUBSET (0 .. 31)
  OBVIOUS
<1>3. got({1}) = {1}
  BY <1>1, <1>2
<1>4. got({1, 11}) = {1}
  BY <1>1, <1>2
<1>5. got({0, 2}) # {1}
  BY <1>1, <1>2
<1> QED
  BY <1>3, <1>4, <1>5 DEF got

\* A debug exception changes the method of entry in DSCR and nothing else.
LEMMA MethodOfEntry ==
  ASSUME NEW d \in SUBSET (0 .. 31), NEW moe \in {{0}, {1}}, NEW e, e = (d \ 2 .. 5) \cup Shl(moe, 2)
  PROVE  /\ e \in SUBSET (0 .. 31) /\ bits_get(e, 2, 5) = moe
         /\ 15 \in e <=> 15 \in d
         /\ 14 \in e <=> 14 \in d
<1>1. moe \subseteq 0 .. 1
  OBVIOUS
<1>2. ASSUME NEW i PROVE i \in Shl(moe, 2) <=> i \in 2 .. 3 /\ i - 2 \in moe
  <2>1. ASSUME i \in Shl(moe, 2) PROVE i \in 2 .. 3 /\ i - 2 \in moe
    <3>1. PICK b \in moe : i = b + 2
      BY <2>1 DEF Shl
    <3> QED
      BY <1>1, <3>1
  <2>2. ASSUME i \in 2 .. 3, i - 2 \in moe PROVE i \in Shl(moe, 2)
    <3>1. i = (i - 2) + 2 /\ i \in Bits
      BY <2>2 DEF Bits
    <3> QED
      BY <2>2, <3>1 DEF Shl
  <2> QED
    BY <2>1, <2>2
<1>3. e \in SUBSET (0 .. 31) /\ (15 \in e <=> 15 \in d) /\ (14 \in e <=> 14 \in d)
  <2>1. \A i : i \in e <=> (i \in d /\ i \notin 2 .. 5) \/ i \in Shl(moe, 2)
    OBVIOUS
  <2>2. \A i : i \in Shl(moe, 2) => i \in 2 .. 3
    BY <1>2
  <2>3. \A i : i \in e => i \in 0 .. 31
    BY <2>1, <2>2
  <2>4. 15 \in e <=> 15 \in d
    BY <2>1, <2>2
  <2>5. 14 \in e <=> 14 \in d
    BY <2>1, <2>2
  <2> QED
    BY <2>3, <2>4, <2>5
<1>4. bits_mask(5 - 2 + 1) = 0 .. 3
  BY DEF bits_mask
<1>5. ASSUME NEW c PROVE c \in bits_get(e, 2, 5) <=> c \in moe
  <2>1. ASSUME c \in bits_get(e, 2, 5) PROVE c \in moe
    <3>1. c \in 0 .. 3 /\ c \in Shr(e, 2)
      BY <1>4, <2>1 DEF bits_get
    <3>2. PICK i \in e : c = i - 2
      BY <3>1 DEF Shr
    <3>3. i \in 2 .. 5
      BY <1>3, <3>1, <3>2
    <3> QED
      BY <1>2, <3>2, <3>3
  <2>2. ASSUME c \in moe PROVE c \in bits_get(e, 2, 5)
    <3>1. c \in 0 .. 1 /\ c + 2 \in 2 .. 3 /\ (c + 2) - 2 = c /\ c \in Bits /\ c \in 0 .. 3
      BY <1>1, <2>2 DEF Bits
    <3>2. c + 2 \in e
      BY <1>2, <2>2, <3>1
    <3>3. c \in Shr(e, 2)
      BY <3>1, <3>2 DEF Shr
    <3> QED
      BY <1>4, <3>1, <3>3 DEF bits_get
  <2> QED
    BY <2>1, <2>2
<1>6. bits_get(e, 2, 5) = moe
  BY <1>5
<1> QED
  BY <1>3, <1>6

\* Noting an address: it is the last one behind that, and noting it again changes
\* nothing.
LEMMA Noted ==
  ASSUME NEW s \in Seq(Nat), NEW a \in Nat
  PROVE  /\ Note(s, a) \in Seq(Nat) /\ LastOf(Note(s, a)) = a
         /\ Note(s, a) = s \/ Note(s, a) = Append(s, a)
         /\ Note(Note(s, a), a) = Note(s, a)
         /\ LastOf(s) # a => Note(s, a) = Append(s, a)
<1> DEFINE t == Append(s, a)
<1>1. t \in Seq(Nat) /\ t # <<>> /\ t[Len(t)] = a
  OBVIOUS
<1>2. CASE s # <<>> /\ s[Len(s)] = a
  BY <1>2 DEF Note, Last, LastOf
<1>3. CASE ~(s # <<>> /\ s[Len(s)] = a)
  <2>1. Note(s, a) = t
    BY <1>3 DEF Note, Last
  <2> HIDE DEF t
  <2>2. LastOf(t) = a /\ Note(t, a) = t
    BY <1>1 DEF LastOf, Note, Last
  <2> QED
    BY <1>1, <2>1, <2>2 DEF t
<1> QED
  BY <1>2, <1>3

\* Nothing is stepped at the start.
LEMMA StepInitGood == MiniStepInit => StepInv
<1> SUFFICES ASSUME MiniStepInit PROVE StepInv
  OBVIOUS
<1>1. dscr \in SUBSET (0 .. 31) /\ 15 \notin dscr /\ 0 \notin bcr0
  <2>1. dscr = {} \/ dscr = {14} \/ dscr = {2, 3, 4, 5, 14}
    BY DEF MiniStepInit
  <2>2. bcr0 = {} \/ bcr0 = {5, 14, 20, 21}
    BY DEF MiniStepInit
  <2>3. 0 \notin bcr0
    BY <2>2
  <2> QED
    BY <2>1, <2>3
<1>2. at = "start" /\ ~single_step_on_p /\ told = happened
  BY DEF MiniStepInit
<1>3. StepTypes
  BY <1>1 DEF MiniStepInit, StepTypes
<1> QED
  BY <1>1, <1>2, <1>3 DEF StepInv, Running

\* Monitor mode is on behind cp14_enable, whatever was selected before.
LEMMA EnabledBits ==
  ASSUME NEW d \in SUBSET (0 .. 31), 15 \in d => 14 \notin d
  PROVE  cp14_enable(d) \in SUBSET (0 .. 31) /\ 15 \in cp14_enable(d) /\ 14 \notin cp14_enable(d)
BY DEF cp14_enable, cp14_is_enabled, bit_is_on

\* At user level an address mismatches if it is not the one last handled.
LEMMA WhenMismatch == ASSUME StepInv, at = "user", NEW a PROVE Mismatch(a) <=> a # bvr0
BY DEF StepInv, Armed, Running, Mismatch, MonitorMode

\* mini_step_init: the breakpoint is off, so no assertion fails.
LEMMA StepsInitialised == StepInv /\ mini_step_init => StepInv'
<1> SUFFICES ASSUME StepInv, mini_step_init PROVE StepInv'
  OBVIOUS
<1>1. UNCHANGED <<bcr0, bvr0, single_step_on_p, pc, executed, handled, happened, told>>
  BY DEF mini_step_init
<1>2. at = "start" /\ dscr' = cp14_enable(dscr)
  BY DEF mini_step_init
<1>3. StepTypes /\ ~single_step_on_p /\ 0 \notin bcr0 /\ told = happened /\ (15 \in dscr => 14 \notin dscr)
  BY <1>2 DEF StepInv
<1>4. at' = "ready"
  BY <1>3 DEF mini_step_init, cp14_bcr0_is_enabled
<1>5. dscr' \in SUBSET (0 .. 31) /\ 14 \notin dscr'
  BY <1>2, <1>3, EnabledBits DEF StepTypes
<1>6. StepTypes'
  BY <1>1, <1>3, <1>4, <1>5 DEF StepTypes
<1> QED
  BY <1>1, <1>3, <1>4, <1>5, <1>6 DEF StepInv, Running

\* A run begins: the breakpoint's address is that of no function.
LEMMA StepsRun == StepInv /\ mini_step_run => StepInv'
<1> SUFFICES ASSUME StepInv, mini_step_run PROVE StepInv'
  OBVIOUS
<1>1. at \in {"ready", "returned"} /\ UNCHANGED <<happened, told>>
  BY DEF mini_step_run
<1>2. StepTypes /\ ~single_step_on_p /\ told = happened /\ (15 \in dscr => 14 \notin dscr)
  BY <1>1 DEF StepInv
<1>3. /\ single_step_on_p' /\ dscr' = cp14_enable(dscr) /\ bvr0' = 0
      /\ bcr0' = (bcr0 \ MismatchMask) \cup MismatchBits
      /\ at' = "user" /\ pc' = Fn /\ executed' = <<>> /\ handled' = <<>>
  BY <1>2 DEF mini_step_run, mismatch_pc_set
<1>4. dscr' \in SUBSET (0 .. 31) /\ 15 \in dscr' /\ 14 \notin dscr'
  BY <1>2, <1>3, EnabledBits DEF StepTypes
<1>5. {0, 2, 5, 6, 7, 8, 22} \subseteq bcr0' /\ {14, 15, 20, 21} \cap bcr0' = {}
  BY <1>3 DEF MismatchMask, MismatchBits
<1>6. Armed'
  BY <1>3, <1>4, <1>5 DEF Armed, LastOf
<1>7. StepTypes'
  BY <1>3, <1>4, CodeAddresses DEF StepTypes
<1>8. Level'
  BY <1>3, CodeAddresses DEF Level
<1> QED
  BY <1>1, <1>2, <1>3, <1>4, <1>6, <1>7, <1>8 DEF StepInv, Running

\* A run ends.
LEMMA StepsReturned == StepInv /\ mini_step_return => StepInv'
<1> SUFFICES ASSUME StepInv, mini_step_return PROVE StepInv'
  OBVIOUS
<1>1. at = "back" /\ UNCHANGED <<dscr, bvr0, pc, executed, handled, happened, told>>
  BY DEF mini_step_return
<1>2. StepTypes /\ Armed /\ told = happened /\ handled = executed /\ (15 \in dscr => 14 \notin dscr)
  BY <1>1 DEF StepInv, Running
<1>3. at' = "returned" /\ ~single_step_on_p' /\ 0 \notin bcr0'
  BY <1>2 DEF mini_step_return, Armed
<1>4. StepTypes'
  BY <1>1, <1>2, <1>3 DEF StepTypes
<1> QED
  BY <1>1, <1>2, <1>3, <1>4 DEF StepInv, Running

\* The handler has been told, and the breakpoint lets the instruction through.
LEMMA StepsHandled == StepInv /\ mismatch_fault => StepInv'
<1> SUFFICES ASSUME StepInv, mismatch_fault PROVE StepInv'
  OBVIOUS
<1>1. at = "abort" /\ UNCHANGED <<dscr, single_step_on_p, pc, executed, happened>>
  BY DEF mismatch_fault, debugregs
<1>2. StepTypes /\ Armed /\ (15 \in dscr => 14 \notin dscr) /\ (Level \/ (Ahead /\ pc # OnExit))
  BY <1>1 DEF StepInv, Running
<1>3. told' = happened'
  BY <1>1 DEF StepInv, mismatch_fault, Tell
<1>4. CASE pc = OnExit
  <2>1. at' = "back" /\ UNCHANGED <<handled, bcr0, bvr0>>
    BY <1>4 DEF mismatch_fault, debugregs
  <2>2. StepTypes'
    BY <1>1, <1>2, <2>1 DEF StepTypes
  <2>3. Armed' /\ handled' = executed'
    BY <1>1, <1>2, <1>4, <2>1 DEF Armed, Level
  <2> QED
    BY <1>1, <1>2, <1>3, <2>1, <2>2, <2>3 DEF StepInv, Running
<1>5. CASE pc # OnExit
  <2>1. /\ handled' = Note(handled, pc) /\ bvr0' = pc /\ at' = "user"
        /\ bcr0' = (bcr0 \ MismatchMask) \cup MismatchBits
    BY <1>5 DEF mismatch_fault, mismatch_pc_set
  <2>2. handled' = Note(executed, pc)
    <3>1. executed \in Seq(Nat) /\ pc \in Nat
      BY <1>2 DEF StepTypes
    <3>2. Note(Note(executed, pc), pc) = Note(executed, pc)
      BY <3>1, Noted
    <3> QED
      BY <1>2, <2>1, <3>2 DEF Level, Ahead
  <2>3. handled' \in Seq(Nat) /\ LastOf(handled') = pc
    BY <1>2, <2>1, Noted DEF StepTypes
  <2>4. StepTypes'
    BY <1>1, <1>2, <2>1, <2>3 DEF StepTypes
  <2>5. {0, 2, 5, 6, 7, 8, 22} \subseteq bcr0' /\ {14, 15, 20, 21} \cap bcr0' = {}
    BY <2>1 DEF MismatchMask, MismatchBits
  <2>6. LastOf(handled)' = LastOf(handled')
    BY DEF LastOf
  <2>7. Armed'
    BY <1>1, <1>2, <2>1, <2>3, <2>5, <2>6 DEF Armed
  <2>8. Ahead'
    BY <1>1, <2>1, <2>2 DEF Ahead, Note
  <2> QED
    BY <1>1, <1>2, <1>3, <2>1, <2>4, <2>7, <2>8 DEF StepInv, Running
<1> QED
  BY <1>4, <1>5

\* A client's handler of data aborts goes on.
LEMMA StepsGoOn == StepInv /\ data_abort => StepInv'
<1> SUFFICES ASSUME StepInv, data_abort PROVE StepInv'
  OBVIOUS
<1>1. at = "data" /\ at' = "user" /\ UNCHANGED <<dscr, bcr0, bvr0, single_step_on_p, pc, executed, handled, happened>>
  BY DEF data_abort, debugregs
<1>2. StepTypes /\ Armed /\ (15 \in dscr => 14 \notin dscr) /\ (Level \/ Ahead)
  BY <1>1 DEF StepInv, Running
<1>3. told' = happened'
  BY <1>1 DEF StepInv, data_abort, Tell
<1>4. StepTypes' /\ Armed' /\ (Level \/ Ahead)'
  BY <1>1, <1>2 DEF StepTypes, Armed, LastOf, Level, Ahead, Note
<1> QED
  BY <1>1, <1>2, <1>3, <1>4 DEF StepInv, Running

\* Between two runs.
LEMMA StepsBetween == StepInv /\ Client => StepInv'
<1> SUFFICES ASSUME StepInv, Client PROVE StepInv'
  OBVIOUS
<1>1. at \in {"ready", "returned"}
      /\ UNCHANGED <<bcr0, bvr0, single_step_on_p, at, pc, executed, handled, happened, told>>
  BY DEF Client, stepvars
<1>2. StepTypes /\ ~single_step_on_p /\ 0 \notin bcr0 /\ told = happened /\ (15 \in dscr => 14 \notin dscr)
      /\ (at = "returned" => handled = executed)
  BY <1>1 DEF StepInv
<1>3. dscr' \in SUBSET (0 .. 31) /\ (15 \in dscr' => 14 \notin dscr')
  BY <1>2 DEF Client, cp14_disable, StepTypes
<1>4. StepTypes'
  BY <1>1, <1>2, <1>3 DEF StepTypes
<1> QED
  BY <1>1, <1>2, <1>3, <1>4 DEF StepInv, Running

\* The breakpoint stops an instruction that was not handled.
LEMMA StepsStopped == StepInv /\ Prefetch => StepInv'
<1> SUFFICES ASSUME StepInv, Prefetch PROVE StepInv'
  OBVIOUS
<1>1. at = "user" /\ at' = "abort" /\ UNCHANGED <<bcr0, bvr0, single_step_on_p, pc, executed, handled>>
  BY DEF Prefetch
<1>2. StepTypes /\ Armed /\ (15 \in dscr => 14 \notin dscr) /\ (Level \/ Ahead)
  BY <1>1 DEF StepInv, Running
<1>3. Level
  BY <1>1, <1>2, WhenMismatch DEF Prefetch, Ahead
<1>4. dscr' = (dscr \ 2 .. 5) \cup Shl({0}, 2)
  BY DEF Prefetch, DebugException
<1>5. dscr' \in SUBSET (0 .. 31) /\ bits_get(dscr', 2, 5) = {0} /\ (15 \in dscr' <=> 15 \in dscr)
      /\ (14 \in dscr' <=> 14 \in dscr)
  <2>1. dscr \in SUBSET (0 .. 31) /\ {0} \in {{0}, {1}}
    BY <1>2 DEF StepTypes
  <2> QED
    BY <1>4, <2>1, MethodOfEntry
<1>6. was_brkpt_fault'
  BY <1>5, FaultBits DEF was_brkpt_fault, DebugEvent, Moe, Prefetch
<1>7. StepTypes' /\ Armed' /\ Level'
  BY <1>1, <1>2, <1>3, <1>5 DEF StepTypes, Armed, LastOf, Level
<1>8. happened' = [what |-> "mismatch", pc |-> pc']
  BY <1>1 DEF Prefetch
<1> QED
  BY <1>1, <1>2, <1>5, <1>6, <1>7, <1>8 DEF StepInv, Running

\* An instruction that is executed was the one last handled.
LEMMA StepsExecuted ==
  ASSUME StepInv, Executes, UNCHANGED <<bvr0, handled>>
  PROVE  pc \in Nat /\ pc' \in Nat /\ executed' \in Seq(Nat) /\ (Ahead \/ Level)'
<1>1. at = "user" /\ ~Mismatch(pc) /\ pc \in Code /\ executed' = Note(executed, pc) /\ pc' \in Flow[pc]
  BY DEF Executes
<1>2. StepTypes /\ (Level \/ Ahead)
  BY <1>1 DEF StepInv
<1>3. bvr0 = pc /\ handled = Note(executed, pc)
  BY <1>1, <1>2, WhenMismatch DEF Level, Ahead
<1>4. pc \in Nat /\ pc' \in Nat
  BY <1>1, <1>2, CodeAddresses DEF StepTypes
<1>5. executed' \in Seq(Nat) /\ Note(executed', pc) = executed'
  BY <1>1, <1>2, <1>4, Noted DEF StepTypes
<1>6. CASE pc' = pc
  <2>1. Note(executed', pc') = executed'
    BY <1>5, <1>6
  <2>2. bvr0' = pc' /\ handled' = Note(executed', pc')
    BY <1>1, <1>3, <1>6, <2>1
  <2> QED
    BY <1>4, <1>5, <2>2 DEF Ahead, Note
<1>7. CASE pc' # pc
  BY <1>1, <1>3, <1>4, <1>5, <1>7 DEF Level
<1> QED
  BY <1>6, <1>7

\* An instruction is executed and nothing else happens.
LEMMA StepsOn == StepInv /\ Execute => StepInv'
<1> SUFFICES ASSUME StepInv, Execute PROVE StepInv'
  OBVIOUS
<1>1. Executes /\ at = "user"
      /\ UNCHANGED <<dscr, bcr0, bvr0, single_step_on_p, at, handled, happened, told>>
  BY DEF Execute, Executes, debugregs
<1>2. StepTypes /\ Armed /\ (15 \in dscr => 14 \notin dscr) /\ told = happened
  BY <1>1 DEF StepInv, Running
<1>3. pc' \in Nat /\ executed' \in Seq(Nat) /\ (Ahead \/ Level)'
  BY <1>1, StepsExecuted
<1>4. StepTypes' /\ Armed'
  BY <1>1, <1>2, <1>3 DEF StepTypes, Armed, LastOf
<1> QED
  BY <1>1, <1>2, <1>3, <1>4 DEF StepInv, Running

\* The instruction that was executed loaded or stored at the watched address, or
\* at a wrong one: the registers tell which.
LEMMA StepsAborted == StepInv /\ DataAbort => StepInv'
<1> SUFFICES ASSUME StepInv, DataAbort PROVE StepInv'
  OBVIOUS
<1>1. Executes /\ at = "user" /\ at' = "data" /\ UNCHANGED <<bcr0, bvr0, single_step_on_p, handled>>
  BY DEF DataAbort, Executes
<1>2. StepTypes /\ Armed /\ (15 \in dscr => 14 \notin dscr)
  BY <1>1 DEF StepInv, Running
<1>3. pc \in Nat /\ pc' \in Nat /\ executed' \in Seq(Nat) /\ (Ahead \/ Level)'
  BY <1>1, StepsExecuted
<1>4. /\ dscr' \in SUBSET (0 .. 31) /\ (15 \in dscr' => 14 \notin dscr') /\ 15 \in dscr'
      /\ happened' = [what |-> IF ~was_watchpt_fault' THEN "data" ELSE IF datafault_from_ld' THEN "load" ELSE "store",
                      pc |-> IF was_watchpt_fault' THEN watchpt_fault_pc' ELSE pc']
  <2>1. CASE dfsr' = {0, 2} /\ happened' = [what |-> "data", pc |-> pc'] /\ UNCHANGED <<dscr, wfar>>
    <3>1. ~was_watchpt_fault'
      BY <2>1, FaultBits DEF was_watchpt_fault, DebugEvent
    <3> QED
      BY <1>2, <2>1, <3>1 DEF StepTypes, Armed
  <2>2. CASE /\ DebugException({1}) /\ wfar' = pc + 8
             /\ \E store \in BOOLEAN :
                  /\ dfsr' = IF store THEN {1, 11} ELSE {1}
                  /\ happened' = [what |-> IF store THEN "store" ELSE "load", pc |-> pc]
    <3>1. PICK store \in BOOLEAN :
            /\ dfsr' = IF store THEN {1, 11} ELSE {1}
            /\ happened' = [what |-> IF store THEN "store" ELSE "load", pc |-> pc]
      BY <2>2
    <3>2. dscr' = (dscr \ 2 .. 5) \cup Shl({1}, 2)
      BY <2>2 DEF DebugException
    <3>3. dscr' \in SUBSET (0 .. 31) /\ bits_get(dscr', 2, 5) = {1} /\ (15 \in dscr' <=> 15 \in dscr)
          /\ (14 \in dscr' <=> 14 \in dscr)
      <4>1. dscr \in SUBSET (0 .. 31) /\ {1} \in {{0}, {1}}
        BY <1>2 DEF StepTypes
      <4> QED
        BY <3>2, <4>1, MethodOfEntry
    <3>4. was_watchpt_fault'
      BY <3>1, <3>3, FaultBits DEF was_watchpt_fault, DebugEvent, Moe
    <3>5. datafault_from_ld' <=> ~store
      BY <3>1 DEF datafault_from_ld, bit_is_off
    <3>6. watchpt_fault_pc' = pc
      BY <1>3, <2>2 DEF watchpt_fault_pc
    <3> QED
      BY <1>2, <3>1, <3>3, <3>4, <3>5, <3>6 DEF Armed
  <2> QED
    BY <2>1, <2>2 DEF DataAbort
<1>5. StepTypes' /\ Armed'
  BY <1>1, <1>2, <1>3, <1>4 DEF StepTypes, Armed, LastOf
<1> QED
  BY <1>1, <1>3, <1>4, <1>5 DEF StepInv, Running

\* An instruction that cannot be fetched was let through already.
LEMMA StepsUnfetched == StepInv /\ FetchAbort => StepInv'
<1> SUFFICES ASSUME StepInv, FetchAbort PROVE StepInv'
  OBVIOUS
<1>1. at = "user" /\ at' = "abort" /\ pc # OnExit /\ ~Mismatch(pc)
      /\ UNCHANGED <<dscr, bcr0, bvr0, single_step_on_p, pc, executed, handled>>
  BY DEF FetchAbort
<1>2. StepTypes /\ Armed /\ (15 \in dscr => 14 \notin dscr) /\ (Level \/ Ahead)
  BY <1>1 DEF StepInv, Running
<1>3. Ahead
  BY <1>1, <1>2, WhenMismatch DEF Level
<1>4. ~was_brkpt_fault'
  BY FaultBits DEF was_brkpt_fault, DebugEvent, FetchAbort
<1>5. happened' = [what |-> "prefetch", pc |-> pc']
  BY <1>1 DEF FetchAbort
<1>6. StepTypes' /\ Armed' /\ Ahead' /\ pc' # OnExit
  BY <1>1, <1>2, <1>3 DEF StepTypes, Armed, LastOf, Ahead, Note
<1> QED
  BY <1>1, <1>2, <1>4, <1>5, <1>6 DEF StepInv, Running

\* The invariant says what the property asks for.
LEMMA StepsExact == StepInv => SteppingExact
<1> SUFFICES ASSUME StepInv PROVE SteppingExact
  OBVIOUS
<1>1. executed \in Seq(Nat) /\ pc \in Nat
  BY DEF StepInv, StepTypes
<1>2. Note(executed, pc) = executed \/ Note(executed, pc) = Append(executed, pc)
  BY <1>1, Noted
<1>3. at \in {"user", "data", "back", "returned"} => handled = executed \/ handled = Append(executed, pc)
  BY <1>2 DEF StepInv, Ahead, Level
<1>4. at \in {"ready", "returned"} => ~single_step_on_p /\ ~cp14_bcr0_is_enabled
  BY DEF StepInv, cp14_bcr0_is_enabled
<1>5. at # "panic" /\ (at \in {"user", "back", "returned"} => told = happened)
  BY DEF StepInv
<1> QED
  BY <1>3, <1>4, <1>5 DEF SteppingExact

\* The handler sees every instruction once, in the order they are executed and
\* before it is, and its tests say what really happened (mini-step.c:90-123,
\* 165-200, armv6-debug-impl.h:206-247): for any code, whichever way it goes and
\* whatever faults it takes.
THEOREM SteppingExactAlways == MiniStepSpec => []SteppingExact
<1>1. MiniStepSpec => []StepInv
  <2>1. StepInv /\ [MiniStepNext]_msvars => StepInv'
    <3> SUFFICES ASSUME StepInv, [MiniStepNext]_msvars PROVE StepInv'
      OBVIOUS
    <3>1. CASE MiniStepNext
      BY <3>1, StepsInitialised, StepsRun, StepsReturned, StepsHandled, StepsGoOn, StepsBetween,
         StepsStopped, StepsOn, StepsAborted, StepsUnfetched DEF MiniStepNext
    <3>2. CASE UNCHANGED msvars
      <4>1. UNCHANGED <<dscr, bcr0, bvr0, ifsr, dfsr, wfar, single_step_on_p, at, pc, executed, handled,
                        happened, told>>
        BY <3>2 DEF msvars, debugregs, stepvars
      <4> QED
        BY <4>1 DEF StepInv, StepTypes, Armed, LastOf, Ahead, Level, Note, was_brkpt_fault, was_watchpt_fault,
                    DebugEvent, Moe, datafault_from_ld, watchpt_fault_pc
    <3> QED
      BY <3>1, <3>2
  <2> QED
    BY <2>1, StepInitGood, PTL DEF MiniStepSpec
<1> QED
  BY <1>1, StepsExact, PTL
=============================================================================
