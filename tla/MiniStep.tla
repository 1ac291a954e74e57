-------------------------------- MODULE MiniStep --------------------------------
(***************************************************************************)
(* mini-step.c's mini_step_run, which single-steps one function at user    *)
(* level, over the debug registers of armv6-debug-impl.h, bit by bit.      *)
(* Addresses are numbers, the registers words of Words.  What the hardware *)
(* does with the registers is external.                                    *)
(***************************************************************************)
EXTENDS Words, SequencesExt

CONSTANTS Fn,          \* the address of the function that is stepped
          Code,        \* the addresses of its instructions
          Flow,        \* Flow[pc]: where the instruction at pc may go
          OnExit,      \* the address of ss_on_exit, to which fn returns
          StepMax      \* bound on instructions executed

\* The vectors are at 0, so no function is.
ASSUME CodeAddresses ==
  /\ Fn \in Nat \ {0} /\ OnExit \in Nat /\ StepMax \in Nat
  /\ Code \subseteq Nat /\ Flow \in [Code -> SUBSET Nat]

VARIABLES dscr, bcr0, wcr0,     \* debug status, breakpoint and watchpoint control
          bvr0,                 \* the breakpoint's address
          ifsr, dfsr, wfar,     \* fault status and watchpoint fault address
          single_step_on_p,
          at,                   \* "start", "ready", "user", "abort", "data", "back", "returned", "panic"
          pc,                   \* the next instruction at user level
          executed, handled,    \* the addresses executed, and those given to the handler, repeated ones once
          happened,             \* what the last exception was, and of which instruction
          told                  \* what the handler's tests said of it

debugregs == <<dscr, bcr0, wcr0, bvr0, ifsr, dfsr, wfar>>
stepvars == <<single_step_on_p, at, pc, executed, handled, happened, told>>
msvars == <<debugregs, stepvars>>

Nothing == [what |-> "none", pc |-> 0]

\* An instruction that goes to itself counts once for all its executions in a row.
Note(s, address) == IF s # <<>> /\ Last(s) = address THEN s ELSE Append(s, address)

\* The registers are left by whatever used them before, the breakpoint off.
MiniStepInit ==
  /\ dscr \in {{}, {14}, {2, 3, 4, 5, 14}} /\ bcr0 \in {{}, {5, 14, 20, 21}} /\ wcr0 = {}
  /\ bvr0 = 0 /\ ifsr = {1} /\ dfsr = {1} /\ wfar = 0
  /\ single_step_on_p = FALSE /\ at = "start" /\ pc = 0
  /\ executed = <<>> /\ handled = <<>> /\ happened = Nothing /\ told = Nothing

-----------------------------------------------------------------------------
(* armv6-debug-impl.h.                                                     *)

cp14_is_enabled(d) == bit_is_on(d, 15)

\* Monitor mode: bit 14 clear and bit 15 set, whatever they were.
cp14_enable(d) == IF cp14_is_enabled(d) THEN d ELSE (d \ {14, 15}) \cup {15}

cp14_disable(d) == IF cp14_is_enabled(d) THEN d \ {15} ELSE d

cp14_bcr0_is_enabled == 0 \in bcr0
cp14_wcr0_is_enabled == 0 \in wcr0

\* The low bits of a fault status register, and the method of entry of DSCR.
DebugEvent(fsr) == bits_get(fsr, 0, 3) = {1}
Moe == bits_get(dscr, 2, 5)

was_brkpt_fault == DebugEvent(ifsr) /\ Moe = {0}
was_watchpt_fault == DebugEvent(dfsr) /\ Moe = {1}
datafault_from_ld == bit_is_off(dfsr, 11)
watchpt_fault_pc == wfar - 8

-----------------------------------------------------------------------------
(* mini-step.c.                                                            *)

MismatchMask == {20, 21, 22} \cup 5 .. 8 \cup {14, 15} \cup {0, 1, 2}
\* Wrong: bit 22 is not set, so the address has to match.
MatchBits == 5 .. 8 \cup {0, 1, 2}
MismatchBits == 5 .. 8 \cup {0, 1, 2} \cup {22}

\* The assertion that bvr0 has the address follows from the store.
mismatch_pc_set(address) ==
  /\ bvr0' = address
  /\ bcr0' = (bcr0 \ MismatchMask) \cup MismatchBits

\* h is not null, and the breakpoint is asserted to be off.
mini_step_init ==
  /\ at = "start"
  /\ dscr' = cp14_enable(dscr)
  /\ at' = IF cp14_bcr0_is_enabled THEN "panic" ELSE "ready"
  /\ UNCHANGED <<bcr0, wcr0, bvr0, ifsr, dfsr, wfar, single_step_on_p, pc, executed, handled, happened, told>>

\* mismatch_on, which asserts it was off, and the switch to fn.
mini_step_run ==
  /\ at \in {"ready", "returned"}
  /\ single_step_on_p' = TRUE
  /\ dscr' = cp14_enable(dscr)
  /\ mismatch_pc_set(0)
  /\ at' = IF single_step_on_p THEN "panic" ELSE "user"
  /\ pc' = Fn
  /\ executed' = <<>> /\ handled' = <<>>
  /\ UNCHANGED <<wcr0, ifsr, dfsr, wfar, happened, told>>

\* The tests a handler may make before anything else happens.
Tell(what, address) == told' = [what |-> what, pc |-> address]

\* At ss_on_exit the initial caller is resumed; elsewhere the handler is called
\* and the instruction is let through.
mismatch_fault ==
  /\ at = "abort"
  /\ Tell(IF was_brkpt_fault THEN "mismatch" ELSE "prefetch", pc)
  /\ IF pc = OnExit
     THEN at' = "back" /\ UNCHANGED <<handled, debugregs>>
     ELSE /\ handled' = Note(handled, pc)
          /\ mismatch_pc_set(pc)
          /\ at' = "user"
          /\ UNCHANGED <<dscr, wcr0, ifsr, dfsr, wfar>>
  /\ UNCHANGED <<single_step_on_p, pc, executed, happened>>

\* A client's handler of data aborts, which goes on with the instruction behind
\* the load or store.
data_abort ==
  /\ at = "data"
  /\ LET where == IF was_watchpt_fault THEN watchpt_fault_pc ELSE pc
     IN  Tell(IF ~was_watchpt_fault THEN "data" ELSE IF datafault_from_ld THEN "load" ELSE "store", where)
  /\ at' = "user"
  /\ UNCHANGED <<debugregs, single_step_on_p, pc, executed, handled, happened>>

\* mismatch_off, behind the switch back.
mini_step_return ==
  /\ at = "back"
  /\ at' = IF single_step_on_p THEN "returned" ELSE "panic"
  /\ single_step_on_p' = FALSE
  /\ bcr0' = bcr0 \ {0}
  /\ UNCHANGED <<dscr, wcr0, bvr0, ifsr, dfsr, wfar, pc, executed, handled, happened, told>>

\* Between two runs a client switches the watchpoint on or off, and the debug
\* hardware off.
Client ==
  /\ at \in {"ready", "returned"}
  /\ \/ wcr0' = bit_set(wcr0, 0) /\ UNCHANGED dscr
     \/ wcr0' = bit_clr(wcr0, 0) /\ UNCHANGED dscr
     \/ dscr' = cp14_disable(dscr) /\ UNCHANGED wcr0
  /\ UNCHANGED <<bcr0, bvr0, ifsr, dfsr, wfar, stepvars>>

-----------------------------------------------------------------------------
(* The hardware at user level.                                             *)

MonitorMode == 15 \in dscr /\ 14 \notin dscr

\* An address mismatch: enabled, for user mode, all four bytes, not linked.
Mismatch(address) ==
  /\ MonitorMode /\ {0, 2, 5, 6, 7, 8, 22} \subseteq bcr0 /\ {14, 15, 20, 21} \cap bcr0 = {}
  /\ address # bvr0

DebugException(moe) == dscr' = (dscr \ 2 .. 5) \cup Shl(moe, 2)

Prefetch ==
  /\ at = "user" /\ Mismatch(pc)
  /\ DebugException({0}) /\ ifsr' = {1}
  /\ happened' = [what |-> "mismatch", pc |-> pc]
  /\ at' = "abort"
  /\ UNCHANGED <<bcr0, wcr0, bvr0, dfsr, wfar, single_step_on_p, pc, executed, handled, told>>

Executes ==
  /\ at = "user" /\ ~Mismatch(pc) /\ pc \in Code
  /\ Len(executed) < StepMax
  /\ executed' = Note(executed, pc)
  /\ pc' \in Flow[pc]

Execute == /\ Executes
           /\ UNCHANGED <<debugregs, single_step_on_p, at, handled, happened, told>>

\* The instruction loads or stores at the watched address, or at a wrong one.
DataAbort ==
  /\ Executes
  /\ \/ /\ MonitorMode /\ 0 \in wcr0
        /\ DebugException({1}) /\ wfar' = pc + 8
        /\ \E store \in BOOLEAN :
             /\ dfsr' = IF store THEN {1, 11} ELSE {1}
             /\ happened' = [what |-> IF store THEN "store" ELSE "load", pc |-> pc]
     \/ /\ dfsr' = {0, 2}
        /\ happened' = [what |-> "data", pc |-> pc']
        /\ UNCHANGED <<dscr, wfar>>
  /\ at' = "data"
  /\ UNCHANGED <<bcr0, wcr0, bvr0, ifsr, single_step_on_p, handled, told>>

\* The instruction cannot be fetched.
FetchAbort ==
  /\ at = "user" /\ ~Mismatch(pc) /\ pc \notin Code \cup {OnExit}
  /\ ifsr' = {0, 2}
  /\ happened' = [what |-> "prefetch", pc |-> pc]
  /\ at' = "abort"
  /\ UNCHANGED <<dscr, bcr0, wcr0, bvr0, dfsr, wfar, single_step_on_p, pc, executed, handled, told>>

MiniStepNext ==
  \/ mini_step_init \/ mini_step_run \/ mini_step_return \/ mismatch_fault \/ data_abort
  \/ Client \/ Prefetch \/ Execute \/ DataAbort \/ FetchAbort

MiniStepSpec == MiniStepInit /\ [][MiniStepNext]_msvars
-----------------------------------------------------------------------------
\* The handler has seen every instruction once, in the order they are executed
\* and before it is (mini-step.c:90-123, 165-200): the first one too, and none
\* of the caller.  Only an instruction that branches to itself is seen once for
\* all its executions, since its address does not mismatch, and one that
\* cannot be fetched is handled over and over: mismatch_fault asks nobody why
\* it was called.
\* What the tests of armv6-debug-impl.h:206-247 say of an exception is what
\* happened, with registers that keep what earlier exceptions left in them.
SteppingExact ==
  /\ at # "panic"
  /\ at \in {"user", "data", "back", "returned"} =>
       handled = executed \/ handled = Append(executed, pc)
  /\ at \in {"ready", "returned"} => ~single_step_on_p /\ ~cp14_bcr0_is_enabled
  /\ at \in {"user", "back", "returned"} => told = happened
=============================================================================
