-------------------------------- MODULE PreYield --------------------------------
(***************************************************************************)
(* pre_yield of project/preemptive-thread.c against the timer interrupt.   *)
(* It runs in the thread's own mode, user mode, with interrupts enabled,   *)
(* and works on the same run queue and the same cur_thread as              *)
(* interrupt_handler and scheduler, which run with interrupts disabled.    *)
(* So each action of a yield is one access to memory, in the order of the  *)
(* build, and the handler and the scheduler are one action each.           *)
(*                                                                         *)
(* The run queue is the linked list of EqQueue.  A register file is the    *)
(* thread it belongs to, the number of yields it has finished, the place   *)
(* in pre_yield and the pointers the registers hold there.  The adjustment *)
(* of the pc and the system calls are in PreThread.                        *)
(***************************************************************************)
EXTENDS Naturals, Sequences, FiniteSets, SequencesExt

CONSTANTS
  Thread,         \* the forked threads
  Null,           \* the null pointer
  SchedulerThread,
  Priority,       \* Priority[t]: fixed when t is forked
  Order,          \* the run queue when pre_run is called
  Yields,         \* Yields[t]: calls of pre_yield t makes, then it exits
  MaxInterrupts,  \* bound: timer interrupts
  Equiv           \* the values of equiv

ASSUME PointerAssumption ==
  Null \notin Thread /\ SchedulerThread \notin Thread \cup {Null}
ASSUME PriorityAssumption == Priority \in [Thread -> Nat]
\* pre_fork inserts each thread once, by its priority; pre_run panics on an
\* empty queue.
ASSUME OrderAssumption ==
  /\ Order \in Seq(Thread) /\ ToSet(Order) = Thread /\ Order # <<>>
  /\ IsInjective(Order)
  /\ \A i, j \in 1..Len(Order) : i < j => Priority[Order[i]] >= Priority[Order[j]]
ASSUME YieldsAssumption == Yields \in [Thread -> Nat]
ASSUME BoundAssumption == MaxInterrupts \in Nat /\ Equiv \subseteq BOOLEAN

VARIABLES
  equiv,             \* single-stepping is on: every instruction traps first
  head, tail, next,  \* runq and the links of the TCBs
  cur,               \* cur_thread
  saved,             \* saved[t]: the regs field of t's TCB
  cpu,               \* the registers of the CPU in user mode
  mode,              \* "user", "scheduler", "main" after pre_run, or a stop
  exited,            \* the threads that called sys_equiv_exit
  interrupts,        \* counts to MaxInterrupts
  left,              \* history: left[t], the registers t stopped with
  hit                \* history: an interrupt came inside a yield (see Exposed)

vars == <<equiv, head, tail, next, cur, saved, cpu, mode, exited, interrupts, left, hit>>
queue == <<head, tail, next>>
history == <<interrupts, left, hit>>

Pointer == Thread \cup {Null}

\* The registers between two calls of pre_yield, n calls made.
Body(t, n) ==
  [th |-> t, n |-> n, pc |-> "body", e |-> Null, c |-> Null, p |-> Null, old |-> Null]

Live == Thread \ exited
Running == mode = "user"

\* The places of a yield where it holds nothing it read of the queue, or has
\* popped its own thread again: an interrupt there does no harm.
Exposed(r) ==
  ~ \/ r.pc \in {"body", "empty", "emptytail", "first"}
    \/ r.pc \in {"setcur", "compare"} /\ r.e = r.th

-----------------------------------------------------------------------------
\* The threads are forked; pre_run calls the scheduler.
Init ==
  /\ equiv \in Equiv
  /\ head = Order[1]
  /\ tail = Order[Len(Order)]
  /\ next = [t \in Thread |->
               IF t = Order[Len(Order)] THEN Null
               ELSE Order[1 + CHOOSE i \in 1..Len(Order) : Order[i] = t]]
  /\ cur = SchedulerThread
  /\ saved = [t \in Thread |-> Body(t, 0)]
  /\ cpu = Body(Null, 0)
  /\ mode = "scheduler"
  /\ exited = {}
  /\ interrupts = 0
  /\ left = [t \in Thread |-> Body(t, 0)]
  /\ hit = FALSE

\* scheduler: eq_empty with its demand, eq_pop, and the switch to user mode.
PopKeepsTail == tail' = tail
PopHead == tail' = IF next[head] = Null THEN Null ELSE tail
Scheduler ==
  /\ mode = "scheduler"
  /\ IF head = Null
       THEN /\ mode' = IF tail = Null THEN "main" ELSE "panic"
            /\ UNCHANGED <<queue, cur, cpu>>
       ELSE /\ head' = next[head]
            /\ PopHead
            /\ cur' = head
            /\ cpu' = saved[head]
            /\ mode' = "user"
            /\ UNCHANGED next
  /\ UNCHANGED <<saved, exited, history>>

\* The k-th pointer the loop of eq_insert_with_priority looks at.
Scanned ==
  LET s[k \in 1..Cardinality(Thread)+1] ==
        IF k = 1 THEN head ELSE IF s[k-1] = Null THEN Null ELSE next[s[k-1]]
  IN  s

Stops(k, e) == Scanned[k] = Null \/ Priority[e] > Priority[Scanned[k]]

\* eq_insert_with_priority on whatever the queue has become.  The loop does
\* not end when it enters a cycle of elements none of which e outranks.
AppendLast(e) ==
  LET cleared == [next EXCEPT ![e] = Null]
  IN  /\ next' = IF tail = Null THEN cleared ELSE [cleared EXCEPT ![tail] = e]
      /\ head' = IF tail = Null THEN e ELSE head
      /\ tail' = e
LinkInFront(e, k) ==
  /\ head' = IF k = 1 THEN e ELSE head
  /\ next' = [(IF k = 1 THEN next ELSE [next EXCEPT ![Scanned[k-1]] = e])
                EXCEPT ![e] = Scanned[k]]
  /\ UNCHANGED tail
InsertWithPriority(e) ==
  LET places == {k \in DOMAIN Scanned : Stops(k, e)}
  IN  IF head = Null /\ tail # Null
        THEN mode' = "panic" /\ UNCHANGED queue
      ELSE IF places = {}
        THEN mode' = "hung" /\ UNCHANGED queue
      ELSE /\ mode' = "scheduler"
           /\ LET k == CHOOSE k \in places : \A j \in places : k <= j
              IN  IF Scanned[k] = Null THEN AppendLast(e) ELSE LinkInFront(e, k)

\* The timer interrupt.
InterruptHandler ==
  /\ Running
  /\ interrupts < MaxInterrupts
  /\ saved' = [saved EXCEPT ![cur] = cpu]
  /\ InsertWithPriority(cur)
  /\ cur' = SchedulerThread
  /\ cpu' = Body(Null, 0)
  /\ interrupts' = interrupts + 1
  /\ left' = [left EXCEPT ![cpu.th] = cpu]
  /\ hit' = (hit \/ Exposed(cpu))
  /\ UNCHANGED exited

-----------------------------------------------------------------------------
(* One access of the thread that has the CPU. *)

\* In single-step mode equiv_hash_handler first saves the registers in the
\* TCB that cur_thread names now.
At(place) ==
  /\ Running
  /\ cpu.pc = place
  /\ saved' = IF equiv THEN [saved EXCEPT ![cur] = cpu] ELSE saved
  /\ UNCHANGED <<exited, history>>

Goto(place) == cpu' = [cpu EXCEPT !.pc = place]
\* ... having loaded v into field f.
Load(f, v, place) == cpu' = [cpu EXCEPT ![f] = v, !.pc = place]

\* The arguments: &runq and cur_thread.
Call ==
  /\ At("body")
  /\ cpu.n < Yields[cpu.th]
  /\ Load("e", cur, "empty")
  /\ UNCHANGED <<queue, cur, mode>>

Empty ==
  /\ At("empty")
  /\ Goto(IF head = Null THEN "emptytail" ELSE "first")
  /\ UNCHANGED <<queue, cur, mode>>

\* demand(!q->tail, invalid Q).
EmptyTail ==
  /\ At("emptytail")
  /\ mode' = IF tail = Null THEN "user" ELSE "panic"
  /\ Goto("append")
  /\ UNCHANGED <<queue, cur>>

First ==
  /\ At("first")
  /\ Load("c", head, "scan")
  /\ UNCHANGED <<queue, cur, mode>>

\* Wrong: no element stops the scan.
ScanToEnd ==
  /\ At("scan")
  /\ cpu.c # Null
  /\ cpu' = [cpu EXCEPT !.p = cpu.c, !.c = next[cpu.c]]
  /\ UNCHANGED <<queue, cur, mode>>
Scan ==
  /\ At("scan")
  /\ cpu.c # Null
  /\ Priority[cpu.e] <= Priority[cpu.c]
  /\ cpu' = [cpu EXCEPT !.p = cpu.c, !.c = next[cpu.c]]
  /\ UNCHANGED <<queue, cur, mode>>

\* Wrong: the new element overtakes its equals.
LinkBeforeEquals ==
  /\ At("scan")
  /\ cpu.c # Null
  /\ IF cpu.p # Null THEN next' = [next EXCEPT ![cpu.p] = cpu.e] /\ UNCHANGED head
                     ELSE head' = cpu.e /\ UNCHANGED next
  /\ Goto("link")
  /\ UNCHANGED <<tail, cur, mode>>
LinkPrevious ==
  /\ At("scan")
  /\ cpu.c # Null
  /\ Priority[cpu.e] > Priority[cpu.c]
  /\ IF cpu.p # Null THEN next' = [next EXCEPT ![cpu.p] = cpu.e] /\ UNCHANGED head
                     ELSE head' = cpu.e /\ UNCHANGED next
  /\ Goto("link")
  /\ UNCHANGED <<tail, cur, mode>>

Link ==
  /\ At("link")
  /\ next' = [next EXCEPT ![cpu.e] = cpu.c]
  /\ Goto("old")
  /\ UNCHANGED <<head, tail, cur, mode>>

EndOfScan ==
  /\ At("scan")
  /\ cpu.c = Null
  /\ Goto("append")
  /\ UNCHANGED <<queue, cur, mode>>

AppendClear ==
  /\ At("append")
  /\ next' = [next EXCEPT ![cpu.e] = Null]
  /\ Goto("appendtail")
  /\ UNCHANGED <<head, tail, cur, mode>>

AppendTail ==
  /\ At("appendtail")
  /\ Load("p", tail, "append1")
  /\ UNCHANGED <<queue, cur, mode>>

\* The two stores of an append, to a list and to an empty queue.
AppendFirstStore ==
  /\ At("append1")
  /\ IF cpu.p # Null THEN next' = [next EXCEPT ![cpu.p] = cpu.e] /\ UNCHANGED tail
                     ELSE tail' = cpu.e /\ UNCHANGED next
  /\ Goto("append2")
  /\ UNCHANGED <<head, cur, mode>>

AppendSecondStore ==
  /\ At("append2")
  /\ IF cpu.p # Null THEN tail' = cpu.e /\ UNCHANGED head
                     ELSE head' = cpu.e /\ UNCHANGED tail
  /\ Goto("old")
  /\ UNCHANGED <<next, cur, mode>>

Old ==
  /\ At("old")
  /\ Load("old", cur, "pop")
  /\ UNCHANGED <<queue, cur, mode>>

PopElement ==
  /\ At("pop")
  /\ Load("e", head, IF head = Null THEN "popempty" ELSE "popnext")
  /\ UNCHANGED <<queue, cur, mode>>

\* assert(eq_empty(q)), with its demand; a null pointer returned would be the
\* next cur_thread, and switched to.
PopEmpty ==
  /\ At("popempty")
  /\ mode' = IF tail = Null THEN "undefined" ELSE "panic"
  /\ UNCHANGED <<queue, cur, cpu>>

PopNext ==
  /\ At("popnext")
  /\ Load("c", next[cpu.e], "pophead")
  /\ UNCHANGED <<queue, cur, mode>>

\* Wrong: the tail is left behind.
StoreHeadOnly ==
  /\ At("pophead")
  /\ head' = cpu.c
  /\ Goto("setcur")
  /\ UNCHANGED <<tail, next, cur, mode>>
PopStoreHead ==
  /\ At("pophead")
  /\ head' = cpu.c
  /\ Goto(IF cpu.c = Null THEN "popclear" ELSE "setcur")
  /\ UNCHANGED <<tail, next, cur, mode>>

PopClearTail ==
  /\ At("popclear")
  /\ tail' = Null
  /\ Goto("setcur")
  /\ UNCHANGED <<head, next, cur, mode>>

SetCur ==
  /\ At("setcur")
  /\ cur' = cpu.e
  /\ Goto("compare")
  /\ UNCHANGED <<queue, mode>>

\* cur_thread == old: pre_yield returns.
Return ==
  /\ At("compare")
  /\ cur = cpu.old
  /\ cpu' = Body(cpu.th, cpu.n + 1)
  /\ UNCHANGED <<queue, cur, mode>>

Differ ==
  /\ At("compare")
  /\ cur # cpu.old
  /\ Goto("switch")
  /\ UNCHANGED <<queue, cur, mode>>

\* switchto in user mode: the CPU takes the registers of cur_thread's TCB,
\* the thread is left behind the call.  ldm with ^ and rfe are unpredictable
\* in user mode: they may also fault, and the program stops.
Switch ==
  /\ Running
  /\ cpu.pc = "switch"
  /\ IF equiv THEN saved' = [saved EXCEPT ![cur] = cpu] ELSE UNCHANGED saved
  /\ \/ /\ cpu' = saved'[cur]
        /\ left' = [left EXCEPT ![cpu.th] = Body(cpu.th, cpu.n + 1)]
        /\ UNCHANGED mode
     \/ mode' = "undefined" /\ UNCHANGED <<cpu, left>>
  /\ UNCHANGED <<queue, cur, exited, interrupts, hit>>

\* sys_equiv_exit: the system call resumes the scheduler.
Exit ==
  /\ Running
  /\ cpu.pc = "body"
  /\ cpu.n = Yields[cpu.th]
  /\ saved' = IF equiv THEN [saved EXCEPT ![cur] = cpu] ELSE saved
  /\ exited' = exited \cup {cpu.th}
  /\ cur' = SchedulerThread
  /\ cpu' = Body(Null, 0)
  /\ mode' = "scheduler"
  /\ UNCHANGED <<queue, history>>

-----------------------------------------------------------------------------
Insert ==
  \/ Call \/ Empty \/ EmptyTail \/ First
  \/ Scan \/ LinkPrevious \/ Link \/ EndOfScan
  \/ AppendClear \/ AppendTail \/ AppendFirstStore \/ AppendSecondStore

Pop ==
  \/ Old \/ PopElement \/ PopEmpty \/ PopNext
  \/ PopStoreHead \/ PopClearTail \/ SetCur

Stopped == mode \notin {"user", "scheduler"} /\ UNCHANGED vars

Next ==
  /\ UNCHANGED equiv
  /\ \/ Scheduler
     \/ InterruptHandler
     \/ Insert
     \/ Pop
     \/ Return
     \/ Differ
     \/ Switch
     \/ Exit
     \/ Stopped

Spec == Init /\ [][Next]_vars

-----------------------------------------------------------------------------
\* The links spell q.
Represents(q) ==
  /\ IF q = <<>> THEN head = Null /\ tail = Null
                 ELSE head = q[1] /\ tail = q[Len(q)]
  /\ \A i \in 1..Len(q) : next[q[i]] = IF i = Len(q) THEN Null ELSE q[i+1]

InYield == Running /\ cpu.pc # "body"

\* Only an interrupt at an exposed access of a yield damages the scheduler:
\* before one, whenever no yield is in progress, the run queue is a list of
\* every live thread but cur_thread, once each and in order of priority.
QueueWholeUntilHit ==
  ~hit /\ ~InYield /\ mode # "undefined" =>
    \E q \in SetToSeqs(Live \ {cur}) :
      /\ Represents(q)
      /\ \A i, j \in 1..Len(q) : i < j => Priority[q[i]] >= Priority[q[j]]

\* Nor does any demand or assertion fail, or any loop not end, before one.
StopsOnlyAfterHit == mode \in {"panic", "hung"} => hit

\* A thread outside a yield is the one cur_thread names and none outranks it.
RightThreadRuns ==
  ~hit /\ Running /\ ~InYield =>
    /\ cpu.th = cur
    /\ \A u \in Live : Priority[u] <= Priority[cur]

\* A yield goes behind its equals: it returns to its caller at once only when
\* every other live thread has a lower priority.
YieldGivesWay ==
  [][Return /\ ~hit => \A u \in Live \ {cpu.th} : Priority[u] < Priority[cpu.th]]_vars

-----------------------------------------------------------------------------
(* A statement of the repository the code contradicts. *)

\* "The registers of the current running thread are in turn saved onto the
\* queue" (README.md:61-62): a waiting thread resumes where it stopped.
RegistersSaved ==
  ~hit /\ Running /\ ~InYield => \A t \in Live \ {cur} : saved[t] = left[t]
=============================================================================
