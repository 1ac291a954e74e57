# A verification project for the preemptive thread library

The repository is a bare-metal library for the Raspberry Pi (ARMv6, one core):
`project/` holds a preemptive thread library with priorities, a spin lock and a
check that hashes every thread's registers at every instruction; `libpi/` is the
small run-time library under it (queues, output, timers, drivers). This directory
models the parts of it whose correctness depends on interleavings, on long
sequences of calls or on data structures, checks the models with TLC, and proves
the properties that matter most with TLAPS.

## The system

Line numbers are those of the files named. "IRQ" is the timer interrupt.

| component | state | operations | interacts by |
|---|---|---|---|
| thread library, `project/preemptive-thread.c` | `runq`, `cur_thread`, `scheduler_thread`, one TCB per thread | `pre_init`, `pre_fork`, `equiv_refresh`, `pre_run`, `scheduler`, `interrupt_handler`, `pre_syscall_handler`, `pre_yield`, `pre_exit`, `thread_unblock` | exceptions from user mode; the run queue; the single-step flag |
| single-step check, `project/mini-step.c`, `armv6-debug-impl.h` | `single_step_on_p`, breakpoint registers bvr0 and bcr0, `reg_hash` and `expected_hash` of a TCB | `mismatch_on`, `mismatch_off`, `mismatch_pc_set`, `mismatch_fault`, `mini_step_run` | turned on and off around each switch; its handler writes the TCB named by `cur_thread` |
| exception entry, `project/full-except-asm.S`, `staff-full-except.c`, `libpi/src/vector-base.h` | the handler pointers, the vector base, one exception stack | trampolines, `full_except_install`, `full_except_set_*`, `vector_base_set`, `vector_base_reset` | saves 17 registers and calls the handlers above |
| context switch, `project/switchto-asm.S`, `libpi/include/switchto.h` | a `regs_t` per context | `switchto`, `switchto_cswitch` | called by the scheduler, the handlers and `pre_yield` |
| run queue, `libpi/libc/queue-ext-T.h` | `head`, `tail`, the `next` of each element | `empty`, `pop`, `append`, `push`, `insert_with_priority` | called with interrupts off by the kernel, with interrupts on by `pre_yield` |
| spin lock, `preemptive-thread.c:330`, `preemptive-thread-asm.S:54` | one word | `spin_init`, `try_lock`, `spin_lock`, `spin_unlock` | called by threads |
| timer interrupt, `project/timer-interrupt.c`, `libpi/staff-src/interrupts-c.c` | device registers | `timer_interrupt_init`, `interrupt_init` | raises the IRQ |
| circular queue, `libpi/libc/circular.h`, `circular-T.h` | buffer, `head`, `tail` | push, pop, peek, block variants, push that drops the oldest | one producer and one consumer, one of them an interrupt handler |
| containers, `stack-T.h`, `vector-T.h`, `list-T.h`, `Q.h` | arrays and links | push, pop, append, insert after | none |
| drivers, `libpi/src/i2c.c`, `gpio.c`, `staff-src/watchdog.c` | device registers | transfers, pin functions, feeding | busy waiting on a device; read-modify-write of registers threads share |
| time, `staff-src/timer.c`, `include/timeout.h` | last reading, accumulated time | delays, timeouts | 32-bit wraparound |
| output, `printk.c`, `sprintk.c`, `putchar.c` | the buffer pointers of `sprintk` | formatting | static state shared by preemptible threads |
| strings and bits, `mem*.c`, `str*.c`, `bit-support.h` | memory | copying, comparing | none |
| checksums, `crc.c`, `fast-hash32.h` | none | sums of byte strings | `reg_hash` of a TCB is such a hash |
| random numbers, `random.c`, `pi-random.c` | state arrays clients provide | drawing, seeding, leaving and resuming an array | a client's generators share one record |
| virtual memory, `project/mmu.c`, `your-mmu-asm.S` | coprocessor registers, page tables | `mmu_init`, `mmu_enable`, ... | the hardware walks tables and prefetches at any time; used by no test |

What is hard here: the IRQ between any two instructions of a thread; the handler,
the scheduler and a yielding thread sharing the run queue and `cur_thread`; the
single-step trap, which adds a second exception in front of each instruction; the
return to an instruction that trapped but has not run; links left in queue
elements; spinning under priorities; registers and pointers shared by preemptible
threads; generators, timers and buses that carry state from one call to the next;
hardware that acts between two instructions. There is one core, nothing persists, and no
messages are exchanged, so crash recovery and unreliable delivery do not arise.
`PROJECT.json` lists the hazards line by line.

What makes each part correct:
the thread library gives each thread its own registers back at the right
instruction, loses no thread, runs the highest priority first and equals in turn,
and `pre_run` returns when all have exited;
the single-step check hashes each instruction of a thread and depends on nothing
else;
a queue is the sequence its operations say;
a circular queue hands elements over once and in order, whichever side interrupts the
other;
a lock admits one thread and does not stop the others for good;
`pre_yield` hands the CPU over without damage to either side;
an exception resumes whoever it interrupted, with all of his registers;
pure code equals its definition, on every machine and in any order of calls;
a driver moves the bytes it was asked to and comes back.

## Modules

| module | models | |
|---|---|---|
| `ThreadPool` | what the thread library promises a client | abstract |
| `PreThread` | `preemptive-thread.c` with `mini-step.c` and the exception entry | implements `ThreadPool` |
| `PreYield` | `pre_yield` access by access, against the handler and the scheduler | |
| `PriorityQueue` | what the run queue promises | abstract |
| `EqQueue` | `queue-ext-T.h` pointer by pointer | implements `PriorityQueue` |
| `SpinLock` | the lock and the threads of `priority-test-3.c`, access by access | scheduled by the rule of `ThreadPool` |
| `BoundedFifo` | what the circular queue promises its two sides | abstract |
| `CircularQueue` | `circular.h`, access by access | implements `BoundedFifo` |
| `DropQueue` | `circular-T.h`, with the push that moves the consumer's tail | |
| `AdditiveStreams` | what the random generators promise: a stream per state array | abstract |
| `Random` | `random.c`, and the wrapper `pi-random.c` | implements `AdditiveStreams` |
| `Words` | `bit-support.h`: words as sets of bit positions | used by `Checksums`, `Format`, `Gpio`, `MiniStep` |
| `Checksums` | `crc.c`, `fast-hash32.h` and the hash over a register | |
| `Strings`, `Format`, `Containers` | the memory and string functions; `printk.c` and `sprintk.c`; `Q.h`, `list-T.h`, `stack-T.h`, `vector-T.h` | |
| `Gpio`, `I2c` | `gpio.c`; `i2c.c` over its pins and a controller | `I2c` composed with `Gpio` |
| `Time` | `timer.c`, `timeout.h`, `watchdog.c`, `rpi_reboot` | |
| `MiniStep` | `mini_step_run` over the bits of the debug registers | |
| `Mmu` | `mmu.c` and its sequences of coprocessor operations | |
| `Exceptions` | trampolines, `staff-full-except.c`, `switchto`, the vector base, `pre_init` | |
| `MC...` | the instances TLC checks; `MCLibrary` and `MCMachine` put the modules that share nothing together | |
| `QueueLemmas` | lemmas on sequences, sums and remainders | used by all proofs |
| `PreThreadProofs`, `PreYieldProofs`, `EqQueueProofs`, `SpinLockProofs`, `CircularQueueProofs` | proofs about the module of that name | |
| `LibraryProofs` | proofs about `Random`, `Words`, `Checksums`, `DropQueue`, `Containers`, `Strings` and `Format` | |
| `MachineProofs` | proofs about `Exceptions`, `Mmu`, `Time`, `I2c`, `Gpio` and `MiniStep` | |

The layers meet at the abstract modules. `PreThread` keeps the run queue as a
sequence, and its steps are proved to be operations of `PriorityQueue`
(`QueueUsedRightly`), those of them the library calls; `EqQueue` shows that the
pointers implement each operation. `SpinLock` lets any thread of the highest live priority execute the next
instruction, which is the guard of `Advance` in `ThreadPool`; `PreThread` shows
that the scheduler keeps that rule.

### PreThread

`mode` says who has the CPU: `main` (the client, in a privileged mode, interrupts
off), `loop` (the scheduler at the top of its loop), `user` (a thread), `resumed`
(the scheduler behind `switchto_cswitch`), or a stop. Handlers run with
interrupts disabled on a stack of their own and never return to their caller, so
each is one action:

| action | code |
|---|---|
| `Fork`, `Refresh`, `PreRun` | `pre_fork`, `equiv_refresh`, `pre_run` |
| `SchedulerReturn`, `Dispatch`, `Resume` | `scheduler`: return; pop, `mismatch_on`, switch; `mismatch_off` |
| `InterruptHandler` | trampoline and `interrupt_handler`: save, insert, resume the scheduler |
| `MismatchFault` | prefetch abort: `mismatch_fault` and `equiv_hash_handler` |
| `Execute`, `SyscallPutc`, `SyscallExit`, `SyscallUnknown` | an instruction, and the system calls |

A register file is abstracted to the pair of the thread whose values it holds and
the number of the instruction it is about to execute. Threads are deterministic
(the code the check is about touches registers only), so this pair names the whole
file. `reg_hash` is the sequence of the files hashed: two hashes are equal when the
same files were hashed in the same order. `retired` is a history variable that
counts the instructions really executed, and is what the saved registers and the
hash are compared with. `kmalloc` returns zeroed memory (`rpi.h:135`).

Not in the model: an IRQ that is not the timer's, with which
`interrupt_handler` returns early (no other source is enabled); busy waiting on
the UART; threads that call `pre_fork` themselves; addresses of stacks.
An instruction that branches to itself is excluded by `CodeAssumption`: bvr0 lets
it run again without a trap, so it would be hashed once however often it runs.

### PreYield

`pre_yield` runs in user mode with interrupts enabled. Its model has one action per
access to shared memory, in the order of the committed listing
(`project/priority-test-2.list`, `pre_yield`), and the handler and the
scheduler as single actions on the same linked list, which by then may be broken:
they append, assert, or loop forever as the code would. `saved` is the register
field of each TCB; `left` is a history variable, the registers with which a thread
really stopped. `switchto` executes `ldm ^` and `rfe`, which are unpredictable in
user mode: the model continues as intended or stops.

### EqQueue and SpinLock

`EqQueue` is used by one caller at a time, as by the kernel; its history variable
`order` is the contents the operations should leave, and `last` names the last operation with its
element, so that the abstract queue allows it only what that operation promises: `insert_with_priority` may not
append an element that outranks another. The loop of
`insert_with_priority` is one action per element. Elements keep their `next` when
popped, as in the code. In `SpinLock`, `try_lock`'s `swp` is one access; `got` is what
it returned, tested in a step of its own.

`PreYield` covers both values of `equiv` in one run: it is a variable that keeps its
initial value. Two things its properties exclude only before a hit are worth spelling out,
since a reader of the code will ask: an IRQ between the two stores of an append finds a
queue with a tail and no head, and the `demand` of `eq_empty` fails
(`queue-ext-T.h:76`); and in single-step mode the trap after `cur_thread` is changed
saves the yielding thread's registers over those of the thread to run.

### CircularQueue

One producer and one consumer, either of which may be interrupted by the other between
any two accesses: this covers an interrupt handler as producer and two preemptive
threads. A step makes one access to what the other side writes; a side's own index
is not an access, since nobody else changes it. `producer` and `consumer` say where in
which call each side is, how many elements are left and what it answered; `read` is what
the consumer has read. `ints` is the interrupt flag of the consumer's mainline, and
nothing but the consumer runs while it is false. `sz` and `mark` are the locals of
`cq_peek_n`. Panics and failed assertions stop both sides (`panic` reboots). The
32-bit difference `head - tail` is taken modulo `CountWord` before it is reduced modulo
`N`, and `QueueAssumption` asks that `N` divides `CountWord`, as the default 8192 does: the
code does not check a `CQ_N` a client defines. `Masked` says whether clients disable
interrupts around `cq_peek_n`; with it the queue is right, without it see finding 3.

In the abstract queue an element leaves when the tail moves, and those a
peek has passed are still in it: `From` is the kept tail during a peek.

### The small modules

None of them shares state with another (`I2c`, which changes pins, excepted), nor with the linked
queue, the circular queue or the lock, so they are
checked side by side: a variable `unit` of `MCLibrary` and of `MCMachine` says which one
moves in a behaviour, and the state spaces add up. The linked queue is a unit of `MCMachine`, the circular
queue and the lock are units of `MCLibrary`.

*Random numbers.* A generator is the record `struct random_data`, with the client's state
arrays in `mem` and the word at index -1 in `head`. `Random` follows `random_r`,
`srandom_r`, `initstate_r` and `setstate_r` for a client that uses several arrays;
`AdditiveStreams` knows only a sequence per array, and the refinement maps an array to the
terms its next number is computed from, in whatever place of the array they are. `SaveFirst`
says whether clients call `setstate_r` before `initstate_r`; see finding 4.

*Checksums and bits.* A word is the set of positions of its ones, so that exclusive or is a
symmetric difference and a shift moves positions; `Plus` adds bit by bit, with carries (`PlusExact`). The
table of `crc.c` is given by its eight entries of one bit, of which each of the other 248 literals is the exclusive or; what the eight
have to do with the polynomial is proved.

*Strings.* Memory is a function from addresses to bytes; each function maps the memory before
a call to that after it, overlaps included.

*Formatted output.* A format is a sequence of conversions with their arguments. `snprintk` runs
in steps, one for each of the two static pointers it sets and one per character, so that a
second thread may call it in between; `alone[t]` tells that since `t`'s call no two calls ran at a
time. That no other ran during `t`'s own would not do: the pointers of two later calls that overlap may lead
anywhere, into a buffer that is finished too.

*`DropQueue`.* The producer is an interrupt handler and runs to its end, the consumer is
interrupted between any two accesses; nothing bounds how often the producer drops an element meanwhile.
`lost` is a history variable: what a pop that two or more drops have overtaken leaves behind the
tail it stores. *Containers.* Links and arrays as in the headers, the
stack with the word behind its array, its count, which the N+1st push overwrites.

*`Gpio` and `I2c`.* Reads and writes of a register are single accesses. The controller
is external: it starts, moves bytes between the device and a FIFO of bounded size, may find
nobody, and sets the status bits the driver's waits and comments name. `OtherPin` of
`MCMachine` is a thread that sets another pin of the same register while the bus is used.

*`Time`.* The counter is a word that wraps. `WdogMask` is what `watchdog.c` masks a number of ticks
with, 24 bits, and `WdogWidth` what the counter of the hardware has, 20 bits; both and the
factors are scaled down with the word. The watchdog is its two registers and what is left of its count; a
start for some microseconds, milliseconds or seconds multiplies in a word first. `fed` is what the client asked
for, without a limit.

*`MiniStep`.* Registers as sets of bits, so that a breakpoint that is set is one the
hardware takes for an address mismatch in user mode; the status registers keep what earlier
aborts left in them. The argument of the function that `mini_step_run` calls and what it returns are left out:
they are registers of the function, and a place in its code stands for all of those.

*`Mmu`.* One virtual page. A table walk, a prediction or a prefetch may happen between any
two operations, with every value that may still be in effect: those of a register since
the last prefetch flush, those of a table entry since the last clean and barrier.

*`Exceptions`.* `Take` is the hardware's part of an exception, `Trampoline` what the
assembly stores, `Abort`, `syscall_full_except` and `interrupt_except` the C functions
behind, with the switch at their end. Each mode has its `bank` of stack pointer and link
register, and the mode that is left loses its own, as it does when `switchto_user_asm` loads
`rfe`'s address into `sp`. A thread's or the main program's place in its code stands for its
registers there. The main program is in a privileged mode, where interrupts stay off: nothing
in the repository enables them there (`cpsr_int_enable` has no caller).

## Runs

| run | instance | shows |
|---|---|---|
| `pool` | 4 threads, priorities 2, 1, 1, 0, codes of 2 or 3 instructions with a putc, a loop and a `sys_exit`; single-step on; `MaxRetrap` 1 | the safety of `PreThread`, and that it implements `ThreadPool` |
| `pool_live` | 3 threads, one of which never exits, next to an equal and a higher one; `equiv` 0 | no starvation, termination, fair refinement |
| `pool_hash` | 2 threads of the same function | **violated**: finding 1 |
| `yield` | 4 threads, two of each of two priorities; one of each pair yields once, the other exits; 3 interrupts; single-step on and off | what an interrupt in a yield can and cannot damage |
| `yield_registers` | 2 threads | **violated**: finding 2 |
| `circular_peek` | the circular queue of `library`, not `Masked` | **violated**: finding 3 |
| `library` | 3 state arrays of types 0, 1 and 2; 6 messages; memory of 24 bytes; 2 threads that print; 7 pushes to a queue that drops with 4 slots; 3 elements; a circular queue of 4 slots, 2 kinds of element, calls for 1, 2 and 3 elements, `CountWord` 8, `Masked`; 3 equal threads and one above that take the lock twice | the code of `libpi` that needs no hardware: its functions, its containers, both sides of its queues, with the return of blocking pops; and the lock: exclusion, exact sum, no inversion, all exit |
| `drop` | the queue that drops of `library` | **violated**: finding 5 |
| `stack` | a stack of 2 | **violated**: finding 6 |
| `machine` | 4 elements of the linked queue, two equal, any sequence of operations; 2 threads and 6 pins; a FIFO of 2 bytes, calls for 0, 1 and 3; a counter of 32 values, a mask of 8 and a watchdog's counter of 4; a function of 3 instructions with a loop and a call; 2 address spaces; 2 threads and the main program | list integrity, the refinement of the priority queue, the end of the insertion's loop; the code that drives hardware, and that its transfers end |
| `watchdog` | the watchdog of `machine`, with a counter as wide as the mask | **violated**: finding 7 |
| `random_initstate` | 3 state arrays, not `SaveFirst` | **violated**: finding 4 |

The bounds. The IRQ is not bounded in `PreThread` except by `MaxRetrap`, the number
of times one instruction may be trapped without running: 1 already makes a
repeated hash, and all threads together can do it in one run. Threads can be
refreshed and the scheduler run again any number of times. Two equals and one above
are the least number for which order among equals, overtaking and a middle insertion
all occur; the fourth thread is the one that panics, or the one below. In `yield`
three interrupts take every action, the empty pop of a damaged queue included; one is
enough for each violation. Four queue elements
allow an insertion at the front, between, behind equals and at the end with a stale
link in the element. Taking the lock twice lets a thread come back for it while others
spin. Four slots hold three elements, so a call for two is refused, granted over the
end of the buffer, or overtaken half way; calls are repeated for ever. Two kinds of
element tell a lost or repeated element from the right one.

In `library` three calls of `random.c` are enough to leave an array at a place that is not
that of its seeding, use another and come back; every array is filled and its first
`10 * degree` numbers discarded as in the code. The messages end in each of the four remainders
modulo 4 that `fast-hash32.h` treats apart. A buffer of four bytes is filled exactly,
by less and by more. The memory holds strings of lengths 0 to 4 that begin alike, at every
alignment. Three elements move between a queue and a list with the links they had. Seven pushes to
four slots let a pop be overtaken by four drops, one more than there are used slots, after elements have been popped.
In `machine` three bytes are more than the FIFO holds, so a transfer is in progress while the
driver moves them; the second transfer finds what the first left in the registers. The counter of
32 microseconds wraps twice; delays and watchdogs of 0, 7 and 31 units are short, near the end of the word, and over it
once multiplied, and 7 ticks fit the mask but not the counter. In `watchdog` counter and mask have the same width, so that
what is lost there is lost by the code. The pins lie on both sides of each border between registers
and of those `gpio.c` refuses. Four steps take the loop of the stepped function, its call and its
exit. Five calls map, change, enable, switch and disable an address space. Both threads of
`Exceptions` are preempted any number of times.

### Properties

`ContextIntegrity`: a waiting thread's TCB holds its own registers at the first
instruction it has not executed. `NoThreadLost`: the queue is exactly the live threads
but the running one. `HighestPriorityRuns`, `RoundRobin`: priority, and order among
equals. `SingleStepBalanced`: the assertions of `mini-step.c`.
`HashCoversExecution`: hashing may repeat an instruction but never misses one or
changes their order. `MismatchOnlyAfterRetrap`: the exit check can only be wrong for a
thread preempted between a trap and its instruction. `ImplementsPool` and
`ImplementsFairPool`: the refinement. `QueueWholeUntilHit`, `StopsOnlyAfterHit`,
`RightThreadRuns` (all of `PreYield`): before the first interrupt at an access named
by `Exposed`, the queue is whole and sorted, nothing asserts, and the right thread
runs. `YieldGivesWay`: a yield returns at once only if every other live thread has a
lower priority.
`ImplementsFifo`: elements come out once, in order and
undamaged, a peek removes none, and a call is refused only for lack of space or of
elements. `AssertsHold`: no assertion of `circular.h` fails, and what `cq_pop_n_noblk`
counted is still there when `cq_pop` looks (`NonblockingNeverWaits`).
`ListIntact`: the pointers of the linked queue spell its contents. `ImplementsQueue`: each of its operations
takes or adds its element at the place that operation promises.
`MutualExclusion`, `CounterExact`, `NoInversion`, `AllExit`: the lock admits one thread, no addition
under it is lost, its holder is never outranked, and every thread gets it and exits.

`ResumesStreams`: every state array is a stream that can be left and resumed.
`SameOnEveryMachine`: the default seed gives the number `pi_random_init` asserts, through 310
discarded ones. `SumsExact`: the table-driven CRC of any pieces is the division of the whole
by the polynomial (`CrcExact`), and two hashes of registers that differ in one bit differ (`HashesDiffer`).
`StringsExact`: each function does what its name says, as a relation between
what was there before and after. `ListsExact`: queue, list and vector hold what was put in, in order; `StackExact` says that
of the stack, and does not hold (finding 6). `TextExact`: a number read back is the number, a buffer
holds its own thread's text and its end, characters on the UART keep each thread's order.
`NewestInOrder`: elements leave the queue that drops in order and none twice, however often the producer
drops some while a pop is under way, nothing panics, and what is lost is only what a pop overtaken by two or more drops leaves
behind the tail. That nothing is lost, `NewestKept`, does not hold (finding 5).
`PinsKept`: a pin keeps its function, unless another thread was between load and store.
`TransferExact`, `TransferEnds`: a call of the bus moves exactly the device's bytes and
returns, but for the two cases named `MissedStart` and `Unanswered`, in which it waits for
ever: a transfer that is over before the driver looks at the status
(`i2c.c:93`, `170`), and one that fails with bytes still to move (`i2c.c:102`, `180`).
`TimesExact`: a timeout counts every microsecond but the whole wraps of the counter between two
checks, so it may come late and never early; a delay is not over before its argument is, as much of it
as a word holds once it is multiplied; the watchdog resets the machine when the time asked for, modulo the span of its
counter, is over, to within a tick, whatever was started, fed, stopped and resumed before. What is lost above
the word or the counter is described by it, not excluded; `WatchdogNotEarly`, which promises the whole time, does
not hold (finding 7).
`SteppingExact`: the handler sees each instruction once, in order, before it runs.
`NothingStale`: behind every sequence only the translation asked for is in use.
`ResumesInPlace`: whoever was interrupted goes on at the right instruction with his own
mode, flags, stack pointer and link register, and no interrupt finds the handler missing or
falls into the vector table behind the call.

### Fairness

The kernel actions are weakly fair: they run with interrupts disabled and wait for
nothing. `InterruptHandler` is weakly fair: the timer is periodic, so a thread that
stays on the CPU is interrupted. Instructions and traps of a thread are strongly fair:
the timer is loaded with 0x10000 ticks of a clock divided by 256
(`timer-interrupt.c`, `pre_init`), so a slice is long compared with an instruction and
the IRQ cannot precede the first instruction of every slice. The client's actions
have no fairness. In `SpinLock` each thread is weakly fair while it is eligible, which is
`PoolFairSpec`. In `EqQueue` only the loop is fair.
In `CircularQueue` each side gets the processor, and the producer goes on producing: a
blocking pop on a queue nobody fills does wait for ever. A producer held off by disabled
interrupts owes nothing, which is what makes the panic of `cq_pop` necessary.
In `machine` the driver's loop goes on (nothing preempts it for good) and so does the
controller (it has a clock); the other thread need not.

### Findings

1. `pool_hash`: the IRQ can be taken between the return from the trap of an instruction
   and the instruction. The thread is then queued, and when it is resumed
   `mismatch_on` makes the instruction trap and be hashed again. The exit check
   panics for a thread that ran correctly, although the field is "the hash we expect
   to get" (`preemptive-thread.h:19`). `MismatchOnlyAfterRetrap` shows it is the only cause.
2. `yield_registers`: a thread that yields to another keeps in its TCB the registers of
   its last preemption or of its fork, and resumes there (`README.md:61-62`).
3. `circular_peek`: a push during `cq_peek_n` fails the assertion on its last line
   (`circular.h:155`).
4. `random_initstate`: `initstate_r` leaves the current array without storing where its rear
   pointer is, although its comment says that it does (`random.c:257-260`): when
   `setstate_r` comes back to that array, the generator goes on from the pointers of its seeding.
5. `drop`: `pfx_push_w_drop` moves the tail from the producer's side. Two drops between a pop's
   load of the tail and its store make the store move the tail back to the head, and the elements between are
   lost (`circular-T.h:106`), although the queue "should be thread safe for interrupt handler producer /
   non-interrupt consumer" and has a "single mutator of tail" (`circular-T.h:1-3`, `21`).
6. `stack`: `push_ptr` compares the count with N by `>`, so a stack of "element count: <N>" (`stack-T.h:15`)
   takes one more, over its own count, before it panics that the "max is" N (`stack-T.h:29-30`).
7. `watchdog`: the ticks are masked to 24 bits (`watchdog.c:18`), and milliseconds and seconds are
   multiplied in 32 bits before, so the machine is reset before "a specified duration" (`watchdog.h:5-26`) that is
   longer. The hardware's counter has 20 bits: there it already happens above 16 seconds.

Two more need no run: `sys_exit` passes system call number 2, which
`pre_syscall_handler` does not know, so every call of it panics (`SyscallUnknown`); and
`full_except_install(1)` is to overwrite what is there (`staff-full-except.c:137`), but `vector_base_set` panics if that is
another table (an outcome of `SetVector`).

Noted while reading, and not contradicting anything the repository says:
`priority-test-2.c` asserts a sum that a preemption can spoil, being without a lock on purpose;
`interrupt_except`
neither tests its handler nor patches the registers, so interrupts must stay off in
privileged modes; `mmu_enable_set` does not clean a data cache that the new value switches off;
`i2c_init_clk_div` ignores its argument; `snprintk` stores the terminator of a text that fills its buffer
one byte behind it; `mismatch_fault` does not ask why it was called, so an instruction that
cannot be fetched is handled over and over; the stacks of two threads begin one TCB apart
(`preemptive-thread.c:90-91`, where the TCB alone is allocated), so deep calls of one reach
into the other's.

## Proofs

Every theorem is for any values of the constants that satisfy the named assumptions of its
module: any threads, priorities, code, lengths, pins, address spaces and any number of calls, and
`equiv` on or off. Every inductive invariant was checked by TLC on small instances before it was
proved. The runs of `library` and `machine` put several modules side by side; the
theorems are about the specification of each (`DropSpec`, `TimeSpec`, `I2cSpec`, ...), which is what the
run lets that module do.

*Scheduling* (`PreThreadProofs`). `SchedInv` is inductive. `NoThreadLost` is not by
itself: it needs `CurFollowsMode` (which thread `cur_thread` names in each mode, or
`Live \ {cur}` says nothing) and `ProgressBounded` (a thread's counter cannot pass its
exit, or an exited thread would be live again). Insertion is handled once, in
`QueueLemmas`: what inserting at a place keeps of order, of distinctness and of the
set of elements. `RoundRobin` is an action property: it follows from the place at which the
insertion puts a thread, and from `SchedInv` in both states.

*Hashing.* `HashCoversExecution` needs `BreakpointAtLastTrap`:
the one address that does not trap is that of the instruction hashed last. With the
assumption that no two successive instructions have the same address it gives that
an instruction executes only if it is the one hashed last. `HashExact` says what a
hash is when no instruction was repeated, from which `MismatchOnlyAfterRetrap` follows.

*Refinement.* Under `IInv` each step is a step of `ThreadPool` or a
stutter; `Fork` and `Refresh` are `Start`, `PreRun` is `Open`, an instruction is `Advance`
(this is where `HighestPriorityRuns` and `ContextIntegrity` are needed), and
`SchedulerReturn` is `Close` (this needs `NoThreadLost`: an empty queue means no live thread).
`QueueUsedRightly` joins the library to the queue it uses: its steps are operations of `PriorityQueue`, which `EqQueue`
implements, and only the two the code calls (`insert_with_priority` in `pre_fork`, `equiv_refresh` and the handler; `pop` in the scheduler, of the thread that runs next), and it never inserts a thread that is still linked (`Fresh`, which `EqQueue` assumes of its callers and no code tests);
that again is `NoThreadLost`.

*A yield against interrupts* (`PreYieldProofs`). Until an interrupt hits one of the accesses
`Exposed` names, `YieldInv` holds; afterwards nothing is claimed. It says for each place in
`pre_yield` what the stores before it have made of the queue: a list that is whole (`Whole`: a sequence
spells its pointers), or one with the yielding thread as its unlinked last element, or with the first element
still to be taken off; and what the loads before it have put into the registers. `OrderAssumption`
says that `pre_fork` has put each thread into the queue once, by its priority. Each access
is a lemma; an interrupt at any other place finds a whole queue, so the handler and the scheduler keep it so.
The four properties of the run follow.

*Queue* (`EqQueueProofs`). `QueueInv` adds `ScanInOrder` to `ListIntact`: where the
loop of the insertion is, and that it has passed no element the new one outranks. The
refinement follows, operation by operation: the element goes where the scan is, behind all it has passed
and, as the list below it need not be sorted, in front of the first it outranks. `ScanAdvances` is what `InsertReturns` needs beside fairness: every turn of the
loop goes exactly one element further along a list that stays the same, so there are at most as many turns as elements.

*Lock* (`SpinLockProofs`). `LockInv`: the word is 0 exactly while one thread holds the
lock, counting the time between the `swp` and its test, and no live thread outranks the
holder. `MutualExclusion` follows. `CounterExact` needs that what a thread has loaded is still
what is shared when it stores (`LoadedIsShared`, which is exclusion put to use), and the lemma
that a sum changes by what one summand changes; it is proved by taking the least number of elements for
which it could fail.

*Circular queue* (`CircularQueueProofs`), for any number of slots that divides the range
of an unsigned. The assertions need what each side has reserved: the room a `cq_push_n`
tested stays (`RoomReserved`, for the consumer only makes more), the elements a
`cq_pop_n_noblk` counted stay (`ElementsReserved`), and during `cq_peek_n` the producer
stands still (`PeekUndisturbed`). Indices are compared by `Dist`, the way round from one
to the other, which the arithmetic lemmas show to be what the code's two reductions
compute. The refinement adds what has been read so far (`CallInv`); a store is a stutter
since the slot of `head` is none of those in use (`SliceStore`), and the element
appears when `head` moves.

*The queue that drops* (`LibraryProofs`). `DropInv` numbers the elements in the order of the pushes:
what the client may still get lies, in order, behind the tail, and a pop under way holds
the element that was the oldest at its load, or the last one written into that slot since (`LastWritten`). From it `NewestAlwaysInOrder` follows for
any number of drops, and `OneDropLosesNothing` says that two drops within one pop are what it takes to violate `NewestKept`:
with one the store puts the tail where the drop has put it already.

*Seeding* (`LibraryProofs`). `srandom_r` multiplies by 16807 modulo 2147483647 in 31 bits:
with `hi` and `lo` the quotient and remainder by 127773, 16807 times the word is
2147483647 `hi` plus the difference the code computes, and that lies within one modulus of 0
(`SchrageExact`); nothing on the way overflows (`SchrageFits`). The theorems matter
because no run takes the correction of a negative difference into account: of
the words the default seed produces for the table of `pi-random.c` none needs it. `SeedTableExact`
says it of the whole table, whatever its size.

*Induction* (`LibraryProofs`). The library's induction theorems take a property as a parameter,
which the provers cannot instantiate. A set instead of a property will do: `Descent` says that a set of
numbers with 0 and with the successor of each of its members has them all, which the well-founded
order of the numbers gives. From it follow that the functions a recursive definition or a fold chooses exist
(`IterationExists`, `FoldExists`) and that what each step keeps holds at the end
(`IterationStays`, `FoldStays`).

*Checksums* (`LibraryProofs`). `CrcAlwaysExact` says `CrcExact` of messages of any length, cut in any way.
Dividing a word by one bit is linear over exclusive or (`DivideXor`). The table's entry of one bit is that bit
after eight divisions (`BasisSteps`, from the literals of `crc.c`), so that of any byte is the byte after eight divisions
(`TabIsDivided`, an induction over the set that a fold takes apart); adding a byte at once and dividing eight times
is adding its bits as they are due (`DividedByte`), which makes the loop's body `DivideByte` (`SumIsDivide`).
Pieces join because the inversion at the end of one call cancels against that at the start of the next
(`SumContinued`). `BurstShows` is what a CRC is for: since no division maps two words to one (`DividedOnce`), messages that differ only
within four successive bytes have different sums; the proof goes back from equal sums to the first byte that differs.
`MessagesAssumption`: a message is a sequence of bytes. `PlusExact` follows the carries: the numbers of the low n bits of the summands are
that of the sum's and the carry's.

*Streams* (`LibraryProofs`). `StreamsAreIndependent` is the refinement of `AdditiveStreams` by `Random`
for any arrays of any sizes. `GenGood` says that the two pointers into the current array are `SEP` apart and
inside the table, and that every other array's header names its type and the place its rear pointer had, from which
`setstate_r` finds both pointers again; so what an array will go on with, the window of words behind its
pointers, is the same before and after a call that concerns another. Discarding after seeding is a fold, of
which only what each draw keeps is needed. Its hypothesis, `SaveFirst`, is what finding 4 is about:
`initstate_r` does not store the place itself.

*Containers* (`LibraryProofs`). `LinksGood`: the queue's elements and the list's are disjoint,
and from their heads along the links each is spelled in order; a store that inserts an element changes
the link of that element and of the one before it, and so none of the other container. `ArraysGood` does the same for
the vector, and for the stack, whose N+1st element takes the place of the count; below that `StackExactWithinN` says
that the stack is right. What a client meets is defined by recursion; that it
is the sequence the invariants speak of is by induction (`LinkedExact`, `ForwardsExact`, `BackwardsExact`).
`ElementsAssumption`: there are finitely many elements, none is null, and N is a number.

*Memory and strings* (`LibraryProofs`). What a call leaves depends on what it found, so the invariant
is little more than `StringsExact`; the work is in the copies. A copy upwards in units of any width, or
downwards byte by byte, is a fold; after `i` units the memory is `Moved` by `i` units (`CopiedUp`, `CopiedDown`), because no
unit read later lies where one was written before: the destination is not inside the source, or the copy goes down. With that
`strcat`'s step back over the terminator leaves the texts joined (`StrcatTexts`), and the first byte at which the
loop of `strcmp` stops is the one that decides the order of the texts, or the common end (`Strcmps`).
`MemoryAssumption`: a memory has bytes at addresses.

*Formatted output* (`LibraryProofs`). That a number reads back is proved for its digits behind
those of any other (`ReadDigits`), since a 64-bit number is put as two: read as one, the high half is worth 16 to the number of digits
of the low one, which is `UintMax` exactly if the low half needs all of them (`HalfWorth`). That is the case
`NumbersReadBack` excepts. For the buffers `FormatInv` says what the static pointers are while `alone` stands: those of the
one call that runs, whose flag stands as well (`SoloGood`), so that a store falls into its own buffer or the byte
behind it, and the buffers with that byte are disjoint (`BuffersApart`). On the UART the characters of a thread are counted.
`FormatAssumption`: a word is made of two or more hexadecimal digits, the arguments are words and plain characters, and
there are finitely many threads.

*Exceptions* (`MachineProofs`). `ResumesInPlace` speaks of the moment code goes on; `ExInv` says what the
interrupted registers are on the way: in the banks of the processor behind the exception, in the trampoline's
frame, then in the TCB or in what `switchto` is given, patched or not. `ThreadsNumbered` says that
threads and the main program are different numbers.

*Translation.* `MmuInv` has one part per stage of the sequences of `mmu.c`: which
operations are still to come, and what the hardware may by then have walked, predicted or fetched. Each operation
is a lemma of its own, and so is what the hardware may add between two of them.

*Time.* `TimeInv` relates the words of the code to the time that has passed: the sum of a
timeout is that time less the whole wraps between two checks; what is left of the watchdog's count is
what its counter has of the time asked for (`Counted`), less the time since it was fed. The lemmas on remainders in `QueueLemmas`
show that a difference of two readings modulo the word is the time between them less whole words.
`TimeConstants`: word, mask and counter are powers of two in the code; the proof uses that the counter divides the mask,
and its span the word.

*Bus.* `BusInv` follows the bytes: in a read the device's are those moved and those in
the FIFO, in a write the other way round, at every interleaving of driver and controller. The flags are those of this transfer once the poll has seen
TA, so DONE in `Finish` is not left from an earlier one, which is what the clearing in `Launch` is for. Other threads may set any of their pins meanwhile.

*Pins.* A function select register is ten fields of three bits: a store changes the
field of its pin and no other (`FieldStored`, `FieldKept`, about words as sets of bits). `PinsInv` says that the
words calls have loaded hold the function of every pin that was not set behind their load.

*Single-stepping.* `StepInv`: at user level the breakpoint is an address mismatch that is armed, its
address is the instruction handled last, and the handler is at most that one instruction ahead of
the thread; and between an exception and its handler the status registers say what happened. `CodeAddresses`: no function is at
address 0, where the vectors are, so the first instruction traps.

Only model-checked: liveness (`NoStarvation`, `Termination`, `ImplementsFairPool`,
`InsertReturns`, `AllExit`, `PopReturns`, `TransferEnds`) since the prover has no rules for fairness;
`SameOnEveryMachine`, which is the value of one long computation;
of `SumsExact` the half about hashes, `HashesDiffer`: it is what a search over small instances found, and cannot
hold for every hash a check might continue from, since the last steps of the hash, which add a word to itself shifted right
modulo 2^32, map some different words to the same one.

## Not modelled

- The memory allocator and the UART: present only as objects. So are the software UART and SPI.
- `cas` and `atomic.h`: the first has no caller, and its exclusive loads and stores are commented
  out; the second is x86 assembly that no file includes.
- `pre_exit` and `thread_unblock`: no caller. `pre_exit` would execute `rfe` and a load of user
  registers at user level, which is unpredictable.
- The addresses of stacks: how deep calls go is not in the code (see the last note above).
- `queue-T.h`, which ends in `#error`; `putk.c` and `uart-hex.c`; the cycle counter and what
  prints times; descriptors and domains of `armv6-vm.h`, of which the program uses no mapping
  function; `int_init` with the table it copies to address 0, which no program here uses.
- Default exception handlers, which only panic; caches' wrappers; headers without code;
  superseded code (`archive.c`); the red zone; the build system.

## Running

    tlc -workers 2 -config MCPreThread_equiv.cfg MCPreThread
    tlapm PreThreadProofs.tla
