----------------------------------- MODULE Mmu -----------------------------------
(***************************************************************************)
(* mmu.c and the sequences of your-mmu-asm.S it calls, followed for one    *)
(* virtual page.  Every address space has a page table; entry number v of  *)
(* a table is its v-th modification.  Between any two operations of a      *)
(* sequence the hardware, which is external, may walk a table, follow a    *)
(* prediction or prefetch, with whatever is visible to it at that moment.  *)
(***************************************************************************)
EXTENDS Integers, Sequences, FiniteSets

CONSTANTS Asids,      \* address space identifiers; each stands for its page table too
          MmuMax      \* bound on calls of the client

ASSUME AsidsNotZero == 0 \notin Asids /\ Asids # {}

VARIABLES ops,        \* the operations left of the running sequence
          ctl,        \* control register 1: the set of its ones among MMU, C, I, XP
          newctl,     \* the value a sequence is to write
          asid, ttbr, \* the context registers
          ctls, asids, ttbrs,   \* the values that may still be in effect
          pte,        \* pte[a]: the entry last stored in a's table
          reach,      \* reach[a]: the entries a table walk may read
          dirty,      \* the data cache holds stores that memory lacks
          cleaning,   \* a clean has been issued that no barrier has waited for
          tlb,        \* translations: [asid, table, entry]
          doomed,     \* those that an invalidation will have removed at the next barrier
          flushing,   \* the BTB is being flushed: empty at the next barrier or prefetch flush
          btb, pbuf,  \* predicted targets and prefetched instructions, by the translation they came by
          synced,     \* no entry was stored since the last mmu_sync_pte_mods
          mcalls

regs == <<ctl, newctl, asid, ttbr>>
visible == <<ctls, asids, ttbrs>>
memory == <<pte, reach, dirty, cleaning>>
caches == <<tlb, doomed, flushing, btb, pbuf>>
mmuvars == <<ops, regs, visible, memory, caches, synced, mcalls>>

\* Translation off: addresses are physical.
Flat == [table |-> 0, entry |-> 0]

-----------------------------------------------------------------------------
(* The sequences of your-mmu-asm.S.                                        *)

cp15_ctrl_reg1_wr == <<"ControlWr", "PrefetchFlush">>

mmu_reset == <<"InvTlb", "InvDcache", "InvIcache", "Dsb", "PrefetchFlush">>

cp15_set_procid_ttbr0 ==
  <<"Dsb", "Asid0", "PrefetchFlush", "Ttbr", "PrefetchFlush", "FlushBtb", "PrefetchFlush",
    "Asid", "PrefetchFlush">>

mmu_disable_set_asm ==
  <<"CleanInvDcache", "Dsb", "PrefetchFlush", "ControlWr", "PrefetchFlush",
    "InvIcache", "Dsb", "FlushBtb", "PrefetchFlush">>

mmu_enable_set_asm ==
  <<"IcacheOff", "PrefetchFlush", "InvIcache", "Dsb", "PrefetchFlush",
    "ControlWr", "PrefetchFlush", "FlushBtb", "PrefetchFlush">>

\* Wrong: the invalidations do not wait for the clean.
SyncWithoutFirstDsb ==
  <<"CleanInvDcache", "InvIcache", "InvTlb", "FlushBtb", "Dsb", "PrefetchFlush">>

mmu_sync_pte_mods ==
  <<"CleanInvDcache", "InvIcache", "Dsb", "InvTlb", "FlushBtb", "Dsb", "PrefetchFlush">>

-----------------------------------------------------------------------------
(* The operations.  A register's new value may come into effect at once,   *)
(* and has done so after the next prefetch flush.                          *)

Usable == tlb \cup doomed

NewControl(c) == ctl' = c /\ ctls' = ctls \cup {c} /\ UNCHANGED <<newctl, asid, ttbr, asids, ttbrs>>

Registers(op) ==
  CASE op = "ControlWr" -> NewControl(newctl)
    [] op = "IcacheOff" -> NewControl(ctl \ {"I"})
    [] op = "Asid0" -> asid' = 0 /\ asids' = asids \cup {0} /\ UNCHANGED <<ctl, newctl, ttbr, ctls, ttbrs>>
    [] op = "Asid" -> asid' = ttbr /\ asids' = asids \cup {ttbr} /\ UNCHANGED <<ctl, newctl, ttbr, ctls, ttbrs>>
    [] OTHER -> UNCHANGED <<regs, asids, ttbrs, ctls>>

BtbFlushed == flushing' = FALSE /\ btb' = IF flushing THEN {} ELSE btb

\* A barrier waits for the invalidations and cleans before it; with the data
\* cache off it waits for the stores themselves.
Barrier ==
  LET drained == cleaning \/ "C" \notin ctl
  IN  /\ doomed' = {} /\ BtbFlushed /\ UNCHANGED <<tlb, pbuf>>
      /\ reach' = IF drained THEN [a \in Asids |-> {pte[a]}] ELSE reach
      /\ dirty' = (dirty /\ ~cleaning)
      /\ cleaning' = FALSE
      /\ UNCHANGED pte

Operation(op) ==
  CASE op = "Dsb" -> Barrier
    [] op = "InvTlb" -> doomed' = Usable /\ tlb' = {} /\ UNCHANGED <<flushing, btb, pbuf, memory>>
    [] op = "FlushBtb" -> flushing' = TRUE /\ UNCHANGED <<tlb, doomed, btb, pbuf, memory>>
    [] op = "PrefetchFlush" -> pbuf' = {} /\ BtbFlushed /\ UNCHANGED <<tlb, doomed, memory>>
    [] op = "CleanInvDcache" -> cleaning' = TRUE /\ UNCHANGED <<caches, pte, reach, dirty>>
    \* An invalidation without a clean drops the stores it finds.
    [] op = "InvDcache" -> dirty' = FALSE /\ UNCHANGED <<caches, pte, reach, cleaning>>
    \* The instruction cache holds lines by physical address.
    [] OTHER -> UNCHANGED <<caches, memory>>

RunOp ==
  /\ ops # <<>> /\ Head(ops) # "Ttbr"
  /\ Operation(Head(ops))
  /\ IF Head(ops) = "PrefetchFlush"
     THEN ctls' = {ctl} /\ asids' = {asid} /\ ttbrs' = {ttbr} /\ UNCHANGED regs
     ELSE Registers(Head(ops))
  /\ ops' = Tail(ops)
  /\ UNCHANGED <<synced, mcalls>>

\* The table of the call's argument.
SetTtbr ==
  /\ ops # <<>> /\ Head(ops) = "Ttbr"
  /\ \E a \in Asids : ttbr' = a /\ ttbrs' = ttbrs \cup {a}
  /\ ops' = Tail(ops)
  /\ UNCHANGED <<ctl, newctl, asid, ctls, asids, memory, caches, synced, mcalls>>

-----------------------------------------------------------------------------
(* mmu.c.                                                                  *)

MmuInit ==
  /\ ops = <<>> /\ ctl = {} /\ newctl = {} /\ asid = 0 /\ ttbr \in Asids
  /\ ctls = {ctl} /\ asids = {asid} /\ ttbrs = {ttbr}
  /\ pte = [a \in Asids |-> 0] /\ reach = [a \in Asids |-> {0}]
  /\ dirty = FALSE /\ cleaning = FALSE
  /\ tlb = {[asid |-> a, table |-> a, entry |-> 7] : a \in Asids}   \* not yet reset
  /\ doomed = {} /\ flushing = FALSE /\ btb = {} /\ pbuf = {}
  /\ synced = TRUE
  /\ mcalls = 0

MmuCall == ops = <<>> /\ mcalls < MmuMax /\ mcalls' = mcalls + 1

Calls(sequence, c) == ops' = sequence /\ newctl' = c

\* mmu_reset, and then XP is set; the last reads are asserted.
mmu_init ==
  /\ MmuCall /\ "XP" \notin ctl
  /\ Calls(mmu_reset \o cp15_ctrl_reg1_wr, ctl \cup {"XP"})
  /\ UNCHANGED <<ctl, asid, ttbr, visible, memory, caches, synced>>

\* mmu_enable, or a client's own value, for which it has cleaned a data cache
\* that it switches off.
mmu_enable_set ==
  /\ MmuCall /\ "XP" \in ctl /\ "MMU" \notin ctl /\ synced
  /\ asid # 0
  /\ \E c \in {ctl, ctl \cup {"C"}, ctl \cup {"C", "I"}} : Calls(mmu_enable_set_asm, c \cup {"MMU"})
  /\ UNCHANGED <<ctl, asid, ttbr, visible, memory, caches, synced>>

\* mmu_disable, or a client's own value; the control register is written again
\* if that has the data cache on.
mmu_disable_set ==
  /\ MmuCall /\ "MMU" \in ctl
  /\ \E c \in {ctl, ctl \ {"C"}} :
       Calls(mmu_disable_set_asm \o IF "C" \in c THEN cp15_ctrl_reg1_wr ELSE <<>>, c \ {"MMU"})
  /\ UNCHANGED <<ctl, asid, ttbr, visible, memory, caches, synced>>

\* The arguments are asserted: 0 < asid < 64, and one table per asid.
set_procid_ttbr0 ==
  /\ MmuCall /\ "XP" \in ctl /\ synced
  /\ Calls(cp15_set_procid_ttbr0, ctl)
  /\ UNCHANGED <<ctl, asid, ttbr, visible, memory, caches, synced>>

\* A client stores an entry, which is visible to walks after a while.
StorePte ==
  /\ MmuCall /\ "XP" \in ctl
  /\ \E a \in Asids : /\ pte' = [pte EXCEPT ![a] = @ + 1]
                      /\ reach' = [reach EXCEPT ![a] = @ \cup {pte[a] + 1}]
  /\ dirty' = (dirty \/ "C" \in ctl)
  /\ synced' = FALSE
  /\ UNCHANGED <<ops, regs, visible, cleaning, caches>>

SyncPteMods ==
  /\ MmuCall /\ ~synced
  /\ Calls(mmu_sync_pte_mods, ctl)
  /\ synced' = TRUE
  /\ UNCHANGED <<ctl, asid, ttbr, visible, memory, caches>>

-----------------------------------------------------------------------------
(* The hardware, at any time.  With asid 0 only global mappings are used.  *)

On(c) == "MMU" \in c

Walk ==
  /\ \E c \in ctls : On(c)
  /\ \E a \in asids \ {0}, t \in ttbrs : \E v \in reach[t] :
       tlb' = tlb \cup {[asid |-> a, table |-> t, entry |-> v]}
  /\ UNCHANGED <<doomed, flushing, btb, pbuf>>

\* An instruction is fetched, and its branch remembered.
Fetch ==
  \E c \in ctls : \E x \in IF On(c) THEN {[table |-> e.table, entry |-> e.entry] :
                                           e \in {f \in Usable : f.asid \in asids \ {0}}}
                           ELSE {Flat} :
    pbuf' = pbuf \cup {x} /\ btb' = btb \cup {x} /\ UNCHANGED <<tlb, doomed, flushing>>

Predict == \E x \in btb : pbuf' = pbuf \cup {x} /\ UNCHANGED <<tlb, doomed, flushing, btb>>

Hardware == /\ Walk \/ Fetch \/ Predict
            /\ UNCHANGED <<ops, regs, visible, memory, synced, mcalls>>

MmuNext ==
  \/ mmu_init \/ mmu_enable_set \/ mmu_disable_set \/ set_procid_ttbr0 \/ StorePte \/ SyncPteMods
  \/ RunOp \/ SetTtbr \/ Hardware

MmuSpec == MmuInit /\ [][MmuNext]_mmuvars
-----------------------------------------------------------------------------
\* Behind every sequence the program runs on the translation it asked for: with
\* the MMU on, nothing that was translated, predicted or prefetched by another
\* table, by an entry since replaced, or without translation can be used, and
\* with it off nothing that was translated (your-mmu-asm.S:53-169).  No entry
\* of one table is ever kept under another's asid, though both registers cannot
\* be changed at once; and no store is left in a data cache that is off.
NothingStale ==
  LET used == btb \cup pbuf
      now_ == [table |-> ttbr, entry |-> pte[ttbr]]
  IN  /\ ops = <<>> /\ synced /\ "XP" \in ctl =>
           IF "MMU" \in ctl
           THEN /\ used \subseteq {now_}
                /\ \A e \in Usable : e.entry = pte[e.table]
           ELSE used \subseteq {Flat}
      /\ "XP" \in ctl => \A e \in Usable : e.asid = e.table
      /\ ops = <<>> /\ "C" \notin ctl => ~dirty
=============================================================================
