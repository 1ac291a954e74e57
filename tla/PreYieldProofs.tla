----------------------------- MODULE PreYieldProofs -----------------------------
(***************************************************************************)
(* Before an interrupt comes at an exposed access, pre_yield, the timer    *)
(* interrupt and the scheduler keep the run queue whole: for every set of  *)
(* threads, every priority and every number of yields and interrupts.      *)
(*                                                                         *)
(* In the middle of a yield the queue is no list of the waiting threads,   *)
(* and the registers hold what the next stores need.  So the inductive     *)
(* invariant, Good, says for each place in pre_yield which sequence the    *)
(* links, with the stores still to come, spell: see Stage.                 *)
(***************************************************************************)
EXTENDS PreYield, QueueLemmas

\* The places of a yield an interrupt finds it at and does no harm.
Outside == {"body", "empty", "emptytail", "first"}

Place == Outside \cup
  {"scan", "link", "append", "appendtail", "append1", "append2", "old", "pop", "popempty",
   "popnext", "pophead", "popclear", "setcur", "compare", "switch"}
Regs ==
  [th : Pointer, n : Nat, pc : Place, e : Pointer, c : Pointer, p : Pointer, old : Pointer]

TypeOK ==
  /\ equiv \in BOOLEAN
  /\ {head, tail} \subseteq Pointer
  /\ next \in [Thread -> Pointer]
  /\ cur \in Thread \cup {SchedulerThread}
  /\ saved \in [Thread -> Regs]
  /\ cpu \in Regs
  /\ exited \subseteq Thread

\* q lists the threads of S once each, in order of priority ...
Proper(q, S) ==
  /\ q \in Seq(Thread) /\ IsInjective(q) /\ ToSet(q) = S
  /\ Descending(q, Priority)

\* ... and the links spell it.
Whole(q, S) == Proper(q, S) /\ Spells(head, tail, next, q, Null)

\* None outranks t; all others rank below it; q holds none of its equals behind it.
Top(t) == \A u \in Live : Priority[u] <= Priority[t]
GaveWay(t) == \A u \in Live \ {t} : Priority[u] < Priority[t]
Behind(q, t) ==
  \A i, j \in 1..Len(q) : q[i] = t /\ i < j => Priority[q[j]] < Priority[t]

\* Registers with which t can go on as soon as it is the current thread: it is
\* outside the insertion and the pop, or it has popped itself.
Resumable(r, t) ==
  /\ r.th = t
  /\ \/ /\ r.pc \in Outside
        /\ r.p = Null
        /\ r.pc # "body" => r.e = t
        /\ r.pc = "emptytail" => Live = {t}
     \/ /\ r.pc \in {"setcur", "compare"}
        /\ r.e = t /\ r.old = t
        /\ GaveWay(t)

\* Every live thread is saved with such registers, but for the two threads of
\* a switch when every instruction saves the registers.
SavedInv ==
  \A t \in Live : (equiv /\ t \in {cur, cpu.th}) \/ Resumable(saved[t], t)

Me == cpu.th
Others == Live \ {Me}

\* Outside the insertion and the pop.
Resting(q) == Resumable(cpu, Me) /\ cur = Me /\ Whole(q, Others)

\* The scan of the insertion is at the k-th element and outranks none before it.
ScanAt(q, k) ==
  /\ cpu.c = IF k = Len(q)+1 THEN Null ELSE q[k]
  /\ cpu.p = IF k = 1 THEN Null ELSE q[k-1]
  /\ \A i \in 1..k-1 : Priority[q[i]] >= Priority[Me]
Scanning(q) ==
  /\ cpu.pc = "scan" /\ cur = Me /\ cpu.e = Me
  /\ Whole(q, Others)
  /\ \E k \in 1..Len(q)+1 : ScanAt(q, k)

\* With the link of the new element stored, the insertion is complete.
Linking(q) ==
  /\ cpu.pc = "link" /\ cur = Me /\ cpu.e = Me
  /\ Proper(q, Live) /\ Behind(q, Me)
  /\ Spells(head, tail, [next EXCEPT ![Me] = cpu.c], q, Null)

\* The new element goes last.
Appending(q) ==
  /\ cpu.pc \in {"append", "appendtail", "append1"} /\ cur = Me /\ cpu.e = Me
  /\ Whole(q, Others)
  /\ \A i \in 1..Len(q) : Priority[q[i]] >= Priority[Me]
  /\ cpu.pc # "append" => next[Me] = Null
  /\ cpu.pc = "append1" => cpu.p = tail
Appended(q) ==
  /\ cpu.pc = "append2" /\ cur = Me /\ cpu.e = Me
  /\ Proper(q, Live) /\ Behind(q, Me)
  /\ Spells(IF cpu.p = Null THEN Me ELSE head, IF cpu.p = Null THEN tail ELSE Me,
            next, q, Null)

\* The thread is in the queue, behind its equals, and the head is to be taken.
Popping(q) ==
  /\ cpu.pc \in {"old", "pop", "popnext", "pophead"} /\ cur = Me
  /\ Whole(q, Live) /\ Behind(q, Me)
  /\ cpu.pc # "old" => cpu.old = Me
  /\ cpu.pc \in {"popnext", "pophead"} => cpu.e = head
  /\ cpu.pc = "pophead" => cpu.c = next[head]
Popped ==
  /\ cpu.pc = "popclear" /\ cur = Me /\ cpu.e = Me /\ cpu.old = Me
  /\ Live = {Me} /\ head = Null

\* Another thread was taken: the thread is about to switch to it.
Leaving(q) ==
  /\ cpu.pc \in {"setcur", "compare", "switch"}
  /\ cpu.e \in Others /\ Top(cpu.e) /\ cpu.old = Me
  /\ Whole(q, Live \ {cpu.e})
  /\ cur = IF cpu.pc = "setcur" THEN Me ELSE cpu.e

Stage ==
  \E q \in Seq(Thread) :
    \/ Resting(q) \/ Scanning(q) \/ Linking(q) \/ Appending(q) \/ Appended(q)
    \/ Popping(q) \/ Popped \/ Leaving(q)

\* What holds until an interrupt comes at an exposed access: see Exposed.
Good ==
  /\ TypeOK
  /\ SavedInv
  /\ mode \in {"user", "scheduler", "main", "undefined"}
  /\ mode = "user" => Me \in Live /\ Top(Me) /\ Stage
  /\ mode = "scheduler" => /\ cur = SchedulerThread /\ Me = Null
                           /\ \E q \in Seq(Thread) : Whole(q, Live)
  /\ mode = "main" => Live = {} /\ head = Null /\ tail = Null

\* The inductive invariant.
YieldInv == ~hit => Good

-----------------------------------------------------------------------------
(* Registers and lists. *)

\* A load changes one pointer register and the place.
LEMMA LoadE ==
  ASSUME cpu \in Regs, NEW v \in Pointer, NEW place \in Place, Load("e", v, place)
  PROVE  /\ cpu' \in Regs /\ cpu'.th = cpu.th /\ cpu'.pc = place
         /\ cpu'.e = v /\ cpu'.c = cpu.c /\ cpu'.p = cpu.p /\ cpu'.old = cpu.old
BY DEF Regs, Load
\* A load into c changes c and the place only.
LEMMA LoadC ==
  ASSUME cpu \in Regs, NEW v \in Pointer, NEW place \in Place, Load("c", v, place)
  PROVE  /\ cpu' \in Regs /\ cpu'.th = cpu.th /\ cpu'.pc = place
         /\ cpu'.e = cpu.e /\ cpu'.c = v /\ cpu'.p = cpu.p /\ cpu'.old = cpu.old
BY DEF Regs, Load
\* The same for p.
LEMMA LoadP ==
  ASSUME cpu \in Regs, NEW v \in Pointer, NEW place \in Place, Load("p", v, place)
  PROVE  /\ cpu' \in Regs /\ cpu'.th = cpu.th /\ cpu'.pc = place
         /\ cpu'.e = cpu.e /\ cpu'.c = cpu.c /\ cpu'.p = v /\ cpu'.old = cpu.old
BY DEF Regs, Load
\* The same for the local old thread.
LEMMA LoadOld ==
  ASSUME cpu \in Regs, NEW v \in Pointer, NEW place \in Place, Load("old", v, place)
  PROVE  /\ cpu' \in Regs /\ cpu'.th = cpu.th /\ cpu'.pc = place
         /\ cpu'.e = cpu.e /\ cpu'.c = cpu.c /\ cpu'.p = cpu.p /\ cpu'.old = v
BY DEF Regs, Load
\* A branch changes the place only.
LEMMA GotoProps ==
  ASSUME cpu \in Regs, NEW place \in Place, Goto(place)
  PROVE  /\ cpu' \in Regs /\ cpu'.th = cpu.th /\ cpu'.pc = place
         /\ cpu'.e = cpu.e /\ cpu'.c = cpu.c /\ cpu'.p = cpu.p /\ cpu'.old = cpu.old
BY DEF Regs, Goto
\* The registers of a thread in its own code.
LEMMA BodyProps ==
  ASSUME NEW t \in Pointer, NEW n \in Nat
  PROVE  /\ Body(t, n) \in Regs /\ Body(t, n).th = t /\ Body(t, n).pc = "body"
         /\ Body(t, n).p = Null
BY DEF Regs, Body, Pointer, Place, Outside

\* A thread inserted behind those it does not outrank, and in front of one it
\* does, keeps the list proper and has none of its equals behind it.
LEMMA ProperInsert ==
  ASSUME NEW S, NEW q \in Seq(Thread), Proper(q, S), NEW t \in Thread, t \notin S,
         NEW k \in 1..Len(q)+1,
         \A i \in 1..k-1 : Priority[q[i]] >= Priority[t],
         k <= Len(q) => Priority[q[k]] < Priority[t]
  PROVE  Proper(InsertAt(q, k, t), S \cup {t}) /\ Behind(InsertAt(q, k, t), t)
<1> DEFINE p == InsertAt(q, k, t)
<1>1. q \in Seq(Thread) /\ IsInjective(q) /\ ToSet(q) = S /\ Descending(q, Priority)
  BY DEF Proper
<1>2. /\ p \in Seq(Thread) /\ Len(p) = Len(q) + 1
      /\ \A i \in 1..Len(q)+1 : p[i] = IF i < k THEN q[i] ELSE IF i = k THEN t ELSE q[i-1]
  BY InsertAtProps
<1>3. ToSet(p) = S \cup {t} /\ IsInjective(p)
  BY <1>1, InsertAtSet
<1>4. /\ Descending(p, Priority)
      /\ \A j \in 1..Len(q)+1 : k < j => Priority[p[j]] < Priority[t]
  BY <1>1, DescendingInsert, PriorityAssumption
<1> HIDE DEF p
<1>5. p[k] = t
  BY <1>1, <1>2
<1>6. \A i \in 1..Len(p) : p[i] = t => i = k
  BY <1>1, <1>2, <1>3, <1>5 DEF IsInjective
<1>7. QED
  BY <1>2, <1>3, <1>4, <1>6 DEF Proper, Behind, p

\* Taking the head, which is one of the highest.
LEMMA ProperTail ==
  ASSUME NEW S, NEW q, Proper(q, S), q # <<>>
  PROVE  /\ Head(q) \in S /\ Head(q) \in Thread
         /\ Proper(Tail(q), S \ {Head(q)})
         /\ \A t \in S : Priority[t] <= Priority[Head(q)]
         /\ Behind(q, Head(q)) => \A t \in S \ {Head(q)} : Priority[t] < Priority[Head(q)]
<1>1. q \in Seq(Thread) /\ IsInjective(q) /\ ToSet(q) = S /\ Descending(q, Priority)
  BY DEF Proper
<1>2. /\ Len(q) \in Nat /\ DOMAIN q = 1..Len(q) /\ 1 \in 1..Len(q)
      /\ Head(q) = q[1] /\ q[1] \in Thread /\ Tail(q) \in Seq(Thread)
  BY <1>1
<1>3. Head(q) \in S
  BY <1>1, <1>2 DEF ToSet
<1>4. ToSet(Tail(q)) = S \ {Head(q)} /\ IsInjective(Tail(q))
  BY <1>1, TailSet
<1>5. Descending(Tail(q), Priority) /\ \A t \in S : Priority[t] <= Priority[Head(q)]
  BY <1>1, DescendingTail, PriorityAssumption
<1>6. ASSUME Behind(q, Head(q)), NEW t \in S \ {Head(q)}
      PROVE  Priority[t] < Priority[Head(q)]
  <2>1. PICK j \in 1..Len(q) : q[j] = t
    BY <1>1, <1>2 DEF ToSet
  <2>2. 1 < j
    BY <1>2, <1>6, <2>1
  <2>3. QED
    BY <1>2, <1>6, <2>1, <2>2 DEF Behind
<1>7. QED
  BY <1>2, <1>3, <1>4, <1>5, <1>6 DEF Proper

\* What a whole list says of its threads and links.
LEMMA WholeProps ==
  ASSUME NEW S, NEW q, Whole(q, S)
  PROVE  /\ q \in Seq(Thread) /\ Len(q) \in Nat /\ IsInjective(q) /\ ToSet(q) = S
         /\ \A i \in 1..Len(q) : q[i] \in Thread /\ q[i] # Null /\ q[i] \in S
         /\ q = <<>> <=> S = {}
         /\ head = Null <=> q = <<>>
         /\ tail = Null <=> q = <<>>
         /\ q # <<>> => /\ 1 \in 1..Len(q) /\ Len(q) \in 1..Len(q)
                        /\ head = q[1] /\ tail = q[Len(q)] /\ head = Head(q)
         /\ \A i \in 1..Len(q) : next[q[i]] = IF i = Len(q) THEN Null ELSE q[i+1]
<1>1. q \in Seq(Thread) /\ IsInjective(q) /\ ToSet(q) = S
      /\ Spells(head, tail, next, q, Null)
  BY DEF Whole, Proper
<1>2. Null \notin Thread
  BY PointerAssumption
<1>3. /\ Len(q) \in Nat /\ DOMAIN q = 1..Len(q)
      /\ \A i \in 1..Len(q) : q[i] \in Thread /\ q[i] # Null /\ q[i] \in ToSet(q)
      /\ head = Null <=> q = <<>>
      /\ tail = Null <=> q = <<>>
      /\ q # <<>> => /\ 1 \in 1..Len(q) /\ Len(q) \in 1..Len(q)
                     /\ head = q[1] /\ tail = q[Len(q)] /\ head = Head(q)
      /\ \A i \in 1..Len(q) : next[q[i]] = IF i = Len(q) THEN Null ELSE q[i+1]
  BY <1>1, <1>2, SpellsProps
<1>4. q = <<>> <=> S = {}
  <2>1. q = <<>> => S = {}
    BY <1>1 DEF ToSet
  <2>2. q # <<>> => S # {}
    BY <1>1, <1>3
  <2>3. QED
    BY <2>1, <2>2
<1>5. QED
  BY <1>1, <1>3, <1>4

\* The link of a thread outside the list is not the list's.
LEMMA WholeElsewhere ==
  ASSUME NEW S, NEW q, Whole(q, S), NEW t, t \notin S, NEW v,
         next \in [Thread -> Pointer], head' = head, tail' = tail,
         next' = [next EXCEPT ![t] = v]
  PROVE  Whole(q, S)'
<1>1. \A i \in 1..Len(q) : q[i] \in Thread /\ q[i] # t
  BY WholeProps
<1>2. \A i \in 1..Len(q) : next'[q[i]] = next[q[i]]
  BY <1>1
<1>3. QED
  BY <1>2 DEF Whole, Spells, Proper

\* A queue nobody touches stays whole.
LEMMA WholeUnchanged ==
  ASSUME NEW S, NEW q, Whole(q, S), UNCHANGED queue
  PROVE  Whole(q, S)'
BY DEF Whole, Spells, Proper, queue

-----------------------------------------------------------------------------
(* The steps of a yield. *)

\* Where a running thread is says which stage of a yield it is in.
LEMMA Places ==
  ASSUME Good, Running
  PROVE  /\ Me \in Live /\ Top(Me) /\ Me \in Thread /\ Me # Null
         /\ Live \subseteq Thread /\ Others \cup {Me} = Live /\ Me \notin Others
         /\ cpu.pc # "popempty"
         /\ cpu.pc \in Outside => \E q \in Seq(Thread) : Resting(q)
         /\ cpu.pc = "scan" => \E q \in Seq(Thread) : Scanning(q)
         /\ cpu.pc = "link" => \E q \in Seq(Thread) : Linking(q)
         /\ cpu.pc \in {"append", "appendtail", "append1"} =>
              \E q \in Seq(Thread) : Appending(q)
         /\ cpu.pc = "append2" => \E q \in Seq(Thread) : Appended(q)
         /\ cpu.pc \in {"old", "pop", "popnext", "pophead"} =>
              \E q \in Seq(Thread) : Popping(q)
         /\ cpu.pc = "popclear" => Popped
         /\ cpu.pc \in {"setcur", "compare"} =>
              \E q \in Seq(Thread) : Resting(q) \/ Leaving(q)
         /\ cpu.pc = "switch" => \E q \in Seq(Thread) : Leaving(q)
<1>1. Me \in Live /\ Top(Me) /\ Stage
  BY DEF Good, Running
<1>2. Me \in Thread /\ Me # Null /\ Live \subseteq Thread
      /\ Others \cup {Me} = Live /\ Me \notin Others
  BY <1>1, PointerAssumption DEF Live, Others
<1>3. ASSUME NEW q
      PROVE  /\ Resting(q) => cpu.pc \in Outside \cup {"setcur", "compare"}
             /\ Scanning(q) => cpu.pc = "scan"
             /\ Linking(q) => cpu.pc = "link"
             /\ Appending(q) => cpu.pc \in {"append", "appendtail", "append1"}
             /\ Appended(q) => cpu.pc = "append2"
             /\ Popping(q) => cpu.pc \in {"old", "pop", "popnext", "pophead"}
             /\ Popped => cpu.pc = "popclear"
             /\ Leaving(q) => cpu.pc \in {"setcur", "compare", "switch"}
  BY DEF Resting, Resumable, Scanning, Linking, Appending, Appended, Popping, Popped, Leaving
<1>4. PICK q \in Seq(Thread) :
        \/ Resting(q) \/ Scanning(q) \/ Linking(q) \/ Appending(q) \/ Appended(q)
        \/ Popping(q) \/ Popped \/ Leaving(q)
  BY <1>1 DEF Stage
<1>5. QED
  BY <1>1, <1>2, <1>3, <1>4 DEF Outside

\* What a step of a yield leaves alone, and what its change of the registers,
\* the queue and cur_thread has to establish.
LEMMA YieldStep ==
  ASSUME Good, Running, NEW place, At(place), equiv' = equiv,
         mode' = "user", cpu' \in Regs, cpu'.th = cpu.th,
         {head', tail'} \subseteq Pointer, next' \in [Thread -> Pointer],
         cur' \in Thread, cur' = cur \/ cur = Me,
         Stage'
  PROVE  Good'
<1>1. /\ saved' = IF equiv THEN [saved EXCEPT ![cur] = cpu] ELSE saved
      /\ UNCHANGED exited
  BY DEF At
<1>2. Live' = Live /\ Me' = Me
  BY <1>1 DEF Live, Me
<1>3. TypeOK'
  BY <1>1 DEF Good, TypeOK, Pointer
<1>4. \A t \in Live : t # cur => saved'[t] = saved[t]
  BY <1>1 DEF Good, TypeOK, Live
<1>5. SavedInv'
  <2> SUFFICES ASSUME NEW t \in Live, ~(equiv /\ t \in {cur', Me})
               PROVE  Resumable(saved[t], t)'
    BY <1>2 DEF SavedInv, Me
  <2>1. Resumable(saved[t], t)
    BY DEF Good, SavedInv, Me
  <2>2. saved'[t] = saved[t]
    BY <1>1, <1>4
  <2>3. QED
    BY <1>2, <2>1, <2>2 DEF Resumable, GaveWay
<1>6. (Me \in Live /\ Top(Me))'
  BY <1>2, Places DEF Top
<1>7. QED
  BY <1>3, <1>5, <1>6 DEF Good

\* A step that only moves the registers on.
LEMMA RegistersStep ==
  ASSUME Good, Running, NEW place, At(place), equiv' = equiv,
         UNCHANGED <<queue, cur>>, mode' = "user",
         cpu' \in Regs, cpu'.th = cpu.th, cur \in Thread, Stage'
  PROVE  Good'
<1>1. {head', tail'} \subseteq Pointer /\ next' \in [Thread -> Pointer]
  BY DEF queue, Good, TypeOK
<1>2. QED
  BY <1>1, YieldStep

\* The list is one of S and t, with t behind its equals.
Spliced(first, last, link, S, t) ==
  \E p \in Seq(Thread) :
    /\ Proper(p, S \cup {t}) /\ Behind(p, t)
    /\ Spells(first, last, link, p, Null)

\* The stores that put t into a whole list at the place the scan finds.
LEMMA InsertWhole ==
  ASSUME NEW S, NEW q \in Seq(Thread), Whole(q, S), NEW t \in Thread, t \notin S,
         NEW k \in 1..Len(q)+1,
         \A i \in 1..k-1 : Priority[q[i]] >= Priority[t],
         k <= Len(q) => Priority[q[k]] < Priority[t],
         NEW first, NEW last, NEW link,
         k = 1 => first = t, k > 1 => first = head,
         k = Len(q)+1 => last = t, k <= Len(q) => last = tail,
         link[t] = IF k = Len(q)+1 THEN Null ELSE q[k],
         k > 1 => link[q[k-1]] = t,
         \A x \in Thread : x # t /\ (k > 1 => x # q[k-1]) => link[x] = next[x]
  PROVE  Spliced(first, last, link, S, t)
<1>1. IsInjective(q) /\ ToSet(q) = S /\ Spells(head, tail, next, q, Null) /\ Proper(q, S)
  BY DEF Whole, Proper
<1>2. Proper(InsertAt(q, k, t), S \cup {t}) /\ Behind(InsertAt(q, k, t), t)
  BY <1>1, ProperInsert
<1>3. Spells(first, last, link, InsertAt(q, k, t), Null)
  BY <1>1, SpellsInsert
<1>4. InsertAt(q, k, t) \in Seq(Thread)
  BY InsertAtProps
<1>5. QED
  BY <1>2, <1>3, <1>4 DEF Spliced

\* Up to the scan.
LEMMA CallStep ==
  ASSUME Good, Call, equiv' = equiv
  PROVE  Good'
<1>1. Running /\ At("body") /\ UNCHANGED <<queue, cur, exited>> /\ mode' = "user"
      /\ cpu.pc = "body" /\ Load("e", cur, "empty")
  BY DEF Call, At, Running
<1>2. PICK q \in Seq(Thread) : Resting(q)
  BY <1>1, Places DEF Outside
<1>3. cur = Me /\ Me \in Thread /\ cpu \in Regs
  BY <1>1, <1>2, Places DEF Resting, Good, TypeOK
<1>4. /\ cpu' \in Regs /\ cpu'.th = cpu.th /\ cpu'.pc = "empty"
      /\ cpu'.e = cur /\ cpu'.p = cpu.p
  BY <1>1, <1>3, LoadE DEF Pointer, Place, Outside
<1>5. Live' = Live /\ Me' = Me /\ Others' = Others
  BY <1>1, <1>4 DEF Live, Me, Others
<1>6. Resting(q)'
  <2>1. Whole(q, Others)'
    BY <1>1, <1>2, <1>5, WholeUnchanged DEF Resting
  <2>2. cpu.p = Null
    BY <1>1, <1>2 DEF Resting, Resumable
  <2>3. QED
    BY <1>1, <1>3, <1>4, <1>5, <2>1, <2>2 DEF Resting, Resumable, Me, Outside
<1>7. QED
  BY <1>1, <1>3, <1>4, <1>6, RegistersStep DEF Stage

\* The test of the empty queue.
LEMMA EmptyStep ==
  ASSUME Good, Empty, equiv' = equiv
  PROVE  Good'
<1>1. Running /\ At("empty") /\ UNCHANGED <<queue, cur, exited>> /\ mode' = "user"
      /\ cpu.pc = "empty" /\ Goto(IF head = Null THEN "emptytail" ELSE "first")
  BY DEF Empty, At, Running
<1>2. PICK q \in Seq(Thread) : Resting(q)
  BY <1>1, Places DEF Outside
<1>3. cur = Me /\ cur \in Thread /\ cpu \in Regs
  BY <1>1, <1>2, Places DEF Resting, Good, TypeOK
<1>4. /\ cpu' \in Regs /\ cpu'.th = cpu.th
      /\ cpu'.pc = (IF head = Null THEN "emptytail" ELSE "first")
      /\ cpu'.e = cpu.e /\ cpu'.p = cpu.p
  BY <1>1, <1>3, GotoProps DEF Place, Outside
<1>5. Live' = Live /\ Me' = Me /\ Others' = Others
  BY <1>1, <1>4 DEF Live, Me, Others
<1>6. Whole(q, Others) /\ cpu.p = Null /\ cpu.e = Me
  BY <1>1, <1>2 DEF Resting, Resumable
<1>7. head = Null => Live = {Me}
  BY <1>1, <1>6, Places, WholeProps
<1>8. Resting(q)'
  <2>1. Whole(q, Others)'
    BY <1>1, <1>5, <1>6, WholeUnchanged
  <2>2. QED
    BY <1>1, <1>3, <1>4, <1>5, <1>6, <1>7, <2>1 DEF Resting, Resumable, Me, Outside
<1>9. QED
  BY <1>1, <1>3, <1>4, <1>8, RegistersStep DEF Stage

\* The demand holds: with no head there is no tail.
LEMMA EmptyTailStep ==
  ASSUME Good, EmptyTail, equiv' = equiv
  PROVE  Good'
<1>1. Running /\ At("emptytail") /\ UNCHANGED <<queue, cur, exited>>
      /\ mode' = (IF tail = Null THEN "user" ELSE "panic")
      /\ cpu.pc = "emptytail" /\ Goto("append")
  BY DEF EmptyTail, At, Running
<1>2. PICK q \in Seq(Thread) : Resting(q)
  BY <1>1, Places DEF Outside
<1>3. cur = Me /\ cur \in Thread /\ cpu \in Regs
  BY <1>1, <1>2, Places DEF Resting, Good, TypeOK
<1>4. cpu' \in Regs /\ cpu'.th = cpu.th /\ cpu'.pc = "append" /\ cpu'.e = cpu.e
  BY <1>1, <1>3, GotoProps DEF Place, Outside
<1>5. Live' = Live /\ Me' = Me /\ Others' = Others
  BY <1>1, <1>4 DEF Live, Me, Others
<1>6. Whole(q, Others) /\ Live = {Me} /\ cpu.e = Me
  BY <1>1, <1>2 DEF Resting, Resumable
<1>7. q = <<>> /\ tail = Null
  BY <1>6, WholeProps DEF Others
<1>8. \A i \in 1..Len(q) : FALSE
  BY <1>7
<1>9. Appending(q)'
  BY <1>1, <1>3, <1>4, <1>5, <1>6, <1>8, WholeUnchanged DEF Appending
<1>10. QED
  BY <1>1, <1>3, <1>4, <1>7, <1>9, RegistersStep DEF Stage

\* The load of the first element.
LEMMA FirstStep ==
  ASSUME Good, First, equiv' = equiv
  PROVE  Good'
<1>1. Running /\ At("first") /\ UNCHANGED <<queue, cur, exited>> /\ mode' = "user"
      /\ cpu.pc = "first" /\ Load("c", head, "scan")
  BY DEF First, At, Running
<1>2. PICK q \in Seq(Thread) : Resting(q)
  BY <1>1, Places DEF Outside
<1>3. cur = Me /\ cur \in Thread /\ cpu \in Regs /\ head \in Pointer
  BY <1>1, <1>2, Places DEF Resting, Good, TypeOK
<1>4. /\ cpu' \in Regs /\ cpu'.th = cpu.th /\ cpu'.pc = "scan"
      /\ cpu'.e = cpu.e /\ cpu'.p = cpu.p /\ cpu'.c = head
  BY <1>1, <1>3, LoadC DEF Place
<1>5. Live' = Live /\ Me' = Me /\ Others' = Others
  BY <1>1, <1>4 DEF Live, Me, Others
<1>6. Whole(q, Others) /\ cpu.e = Me /\ cpu.p = Null
  BY <1>1, <1>2 DEF Resting, Resumable
<1>7. 1 \in 1..Len(q)+1 /\ (1 = Len(q)+1 <=> q = <<>>)
  BY <1>6, WholeProps
<1>8. head = IF 1 = Len(q)+1 THEN Null ELSE q[1]
  BY <1>6, <1>7, WholeProps
<1>9. \A i \in 1..1-1 : FALSE
  OBVIOUS
<1>10. ScanAt(q, 1)'
  BY <1>4, <1>6, <1>8, <1>9 DEF ScanAt
<1>11. Scanning(q)'
  BY <1>1, <1>3, <1>4, <1>5, <1>6, <1>7, <1>10, WholeUnchanged DEF Scanning
<1>12. QED
  BY <1>1, <1>3, <1>4, <1>11, RegistersStep DEF Stage

\* What the scan has found.
LEMMA ScanProps ==
  ASSUME Good, Running, cpu.pc = "scan"
  PROVE  \E q \in Seq(Thread), k \in Nat :
           /\ Scanning(q) /\ Whole(q, Others) /\ k \in 1..Len(q)+1 /\ ScanAt(q, k)
           /\ cpu.e = Me /\ cur = Me /\ Len(q) \in Nat
           /\ cpu.c = Null => k = Len(q)+1
           /\ cpu.c # Null => k \in 1..Len(q) /\ k # Len(q)+1 /\ cpu.c = q[k]
           /\ k > 1 => /\ k-1 \in 1..Len(q) /\ cpu.p = q[k-1] /\ cpu.p # Null
                       /\ cpu.p \in Thread /\ cpu.p # Me
           /\ k = 1 => cpu.p = Null
<1>1. PICK q \in Seq(Thread) : Scanning(q)
  BY Places
<1>2. Whole(q, Others) /\ cpu.e = Me /\ cur = Me
  BY <1>1 DEF Scanning
<1>3. PICK k \in 1..Len(q)+1 : ScanAt(q, k)
  BY <1>1 DEF Scanning
<1>4. Len(q) \in Nat /\ \A i \in 1..Len(q) : q[i] \in Thread /\ q[i] # Null /\ q[i] # Me
  BY <1>2, WholeProps, Places
<1>5. k \in Nat /\ (k > 1 => k-1 \in 1..Len(q)) /\ (k # Len(q)+1 => k \in 1..Len(q))
      /\ (k = Len(q)+1 => k \notin 1..Len(q))
  BY <1>3, <1>4
<1>6. /\ cpu.c = IF k = Len(q)+1 THEN Null ELSE q[k]
      /\ cpu.p = IF k = 1 THEN Null ELSE q[k-1]
  BY <1>3 DEF ScanAt
<1>7. QED
  BY <1>1, <1>2, <1>3, <1>4, <1>5, <1>6

\* A step of the scan.
LEMMA ScanStep ==
  ASSUME Good, Scan, equiv' = equiv
  PROVE  Good'
<1>1. Running /\ At("scan") /\ UNCHANGED <<queue, cur, exited>> /\ mode' = "user"
      /\ cpu.pc = "scan" /\ cpu.c # Null /\ Priority[cpu.e] <= Priority[cpu.c]
      /\ cpu' = [cpu EXCEPT !.p = cpu.c, !.c = next[cpu.c]]
  BY DEF Scan, At, Running
<1>2. PICK q \in Seq(Thread), k \in Nat :
        /\ Whole(q, Others) /\ k \in 1..Len(q) /\ ScanAt(q, k)
        /\ cpu.e = Me /\ cur = Me /\ Len(q) \in Nat /\ cpu.c = q[k]
  BY <1>1, ScanProps
<1>3. Me \in Thread /\ q[k] \in Thread /\ next[q[k]] = IF k = Len(q) THEN Null ELSE q[k+1]
  BY <1>2, Places, WholeProps, <1>1
<1>4. cpu \in Regs /\ next[q[k]] \in Pointer
  BY <1>3 DEF Good, TypeOK
<1>5. /\ cpu' \in Regs /\ cpu'.th = cpu.th /\ cpu'.pc = cpu.pc /\ cpu'.e = cpu.e
      /\ cpu'.p = q[k] /\ cpu'.c = next[q[k]]
  BY <1>1, <1>2, <1>3, <1>4 DEF Regs, Pointer
<1>6. Live' = Live /\ Me' = Me /\ Others' = Others
  BY <1>1, <1>5 DEF Live, Me, Others
<1>7. /\ k+1 \in 1..Len(q)+1 /\ k+1 # 1 /\ (k+1)-1 = k
      /\ k+1 = Len(q)+1 <=> k = Len(q)
  BY <1>2
<1>8. \A i \in 1..k : Priority[q[i]] >= Priority[Me]
  <2>1. \A i \in 1..k-1 : Priority[q[i]] >= Priority[Me]
    BY <1>2 DEF ScanAt
  <2>2. Priority[q[k]] >= Priority[Me]
    BY <1>1, <1>2, <1>3, PriorityAssumption
  <2>3. \A i \in 1..k : i \in 1..k-1 \/ i = k
    BY <1>2
  <2>4. QED
    BY <2>1, <2>2, <2>3
<1>9. ScanAt(q, k+1)'
  BY <1>3, <1>5, <1>6, <1>7, <1>8 DEF ScanAt
<1>10. Scanning(q)'
  <2>1. Whole(q, Others)'
    BY <1>1, <1>2, <1>6, WholeUnchanged
  <2>2. QED
    BY <1>1, <1>2, <1>5, <1>6, <1>7, <1>9, <2>1 DEF Scanning
<1>11. QED
  BY <1>1, <1>2, <1>3, <1>5, <1>10, RegistersStep DEF Stage

\* The first store of an insertion in front of an element: with the second,
\* the links spell the queue with the thread in its place.
LEMMA LinkPreviousStep ==
  ASSUME Good, LinkPrevious, equiv' = equiv
  PROVE  Good'
<1>1. Running /\ At("scan") /\ UNCHANGED <<tail, cur, exited>> /\ mode' = "user"
      /\ cpu.pc = "scan" /\ cpu.c # Null /\ Priority[cpu.e] > Priority[cpu.c]
      /\ (cpu.p # Null => next' = [next EXCEPT ![cpu.p] = cpu.e] /\ head' = head)
      /\ (cpu.p = Null => head' = cpu.e /\ next' = next)
      /\ Goto("link")
  BY DEF LinkPrevious, At, Running
<1>2. PICK q \in Seq(Thread), k \in Nat :
        /\ Whole(q, Others) /\ k \in 1..Len(q) /\ k # Len(q)+1 /\ ScanAt(q, k)
        /\ cpu.e = Me /\ cur = Me /\ Len(q) \in Nat /\ cpu.c = q[k]
        /\ k > 1 => /\ k-1 \in 1..Len(q) /\ cpu.p = q[k-1] /\ cpu.p # Null
                    /\ cpu.p \in Thread /\ cpu.p # Me
        /\ k = 1 => cpu.p = Null
  BY <1>1, ScanProps
<1>3. /\ cpu \in Regs /\ next \in [Thread -> Pointer] /\ {head, tail} \subseteq Pointer
      /\ Me \in Thread /\ Me \notin Others /\ Others \cup {Me} = Live /\ q[k] \in Thread
  BY <1>1, <1>2, Places, WholeProps DEF Good, TypeOK
<1>4. /\ cpu' \in Regs /\ cpu'.th = cpu.th /\ cpu'.pc = "link"
      /\ cpu'.e = cpu.e /\ cpu'.c = cpu.c
  BY <1>1, <1>3, GotoProps DEF Place
<1>5. Live' = Live /\ Me' = Me
  BY <1>1, <1>4 DEF Live, Me
<1>6. head' \in Pointer /\ next' \in [Thread -> Pointer]
  BY <1>1, <1>2, <1>3 DEF Pointer
<1> DEFINE link == [next' EXCEPT ![Me] = cpu.c]
<1>7. /\ k = 1 => head' = Me
      /\ k > 1 => head' = head
      /\ link[Me] = q[k]
      /\ k > 1 => link[q[k-1]] = Me
      /\ \A x \in Thread : x # Me /\ (k > 1 => x # q[k-1]) => link[x] = next[x]
  <2>1. k = 1 \/ k > 1
    BY <1>2
  <2>2. \A x \in Thread : x # Me => link[x] = next'[x]
    BY <1>6
  <2>3. link[Me] = q[k]
    BY <1>2, <1>3, <1>6
  <2> HIDE DEF link
  <2>4. CASE k = 1
    BY <1>1, <1>2, <2>2, <2>3, <2>4
  <2>5. CASE k > 1
    BY <1>1, <1>2, <1>3, <2>2, <2>3, <2>5
  <2>6. QED
    BY <2>1, <2>4, <2>5
<1>8. \A i \in 1..k-1 : Priority[q[i]] >= Priority[Me]
  BY <1>2 DEF ScanAt
<1>9. Priority[q[k]] < Priority[Me] /\ k \in 1..Len(q)+1 /\ k <= Len(q)
  BY <1>1, <1>2, <1>3, PriorityAssumption
<1> HIDE DEF link
<1>10. PICK p \in Seq(Thread) :
         /\ Proper(p, Live) /\ Behind(p, Me)
         /\ Spells(head', tail, link, p, Null)
  <2>1. Spliced(head', tail, link, Others, Me)
    BY <1>2, <1>3, <1>7, <1>8, <1>9, InsertWhole
  <2>2. QED
    BY <1>3, <2>1 DEF Spliced
<1>11. Linking(p)'
  <2>1. Spells(head, tail, [next EXCEPT ![Me] = cpu.c], p, Null)'
    BY <1>1, <1>4, <1>5, <1>10 DEF link
  <2>2. QED
    BY <1>1, <1>2, <1>4, <1>5, <1>10, <2>1 DEF Linking, Proper, Behind
<1>12. QED
  BY <1>1, <1>2, <1>3, <1>4, <1>6, <1>11, YieldStep DEF Stage

\* The yielding thread is linked to the one it goes in front of.
LEMMA LinkStep ==
  ASSUME Good, Link, equiv' = equiv
  PROVE  Good'
<1>1. Running /\ At("link") /\ UNCHANGED <<head, tail, cur, exited>> /\ mode' = "user"
      /\ cpu.pc = "link" /\ next' = [next EXCEPT ![cpu.e] = cpu.c] /\ Goto("old")
  BY DEF Link, At, Running
<1>2. PICK q \in Seq(Thread) : Linking(q)
  BY <1>1, Places
<1>3. cur = Me /\ cur \in Thread /\ cpu \in Regs /\ cpu.e = Me /\ cpu.c \in Pointer
  BY <1>1, <1>2, Places DEF Linking, Good, TypeOK, Regs
<1>4. cpu' \in Regs /\ cpu'.th = cpu.th /\ cpu'.pc = "old"
  BY <1>1, <1>3, GotoProps DEF Place
<1>5. Live' = Live /\ Me' = Me
  BY <1>1, <1>4 DEF Live, Me
<1>6. {head', tail'} \subseteq Pointer /\ next' \in [Thread -> Pointer]
  BY <1>1, <1>3 DEF Good, TypeOK
<1>7. Popping(q)'
  <2>1. Proper(q, Live) /\ Behind(q, Me)
        /\ Spells(head, tail, [next EXCEPT ![Me] = cpu.c], q, Null)
    BY <1>2 DEF Linking
  <2>2. Spells(head, tail, next, q, Null)'
    BY <1>1, <1>3, <2>1
  <2>3. QED
    BY <1>1, <1>3, <1>4, <1>5, <2>1, <2>2 DEF Popping, Whole, Proper, Behind
<1>8. QED
  BY <1>1, <1>3, <1>4, <1>6, <1>7, YieldStep DEF Stage

\* The scan ends: the thread goes to the end.
LEMMA EndOfScanStep ==
  ASSUME Good, EndOfScan, equiv' = equiv
  PROVE  Good'
<1>1. Running /\ At("scan") /\ UNCHANGED <<queue, cur, exited>> /\ mode' = "user"
      /\ cpu.pc = "scan" /\ cpu.c = Null /\ Goto("append")
  BY DEF EndOfScan, At, Running
<1>2. PICK q \in Seq(Thread), k \in Nat :
        /\ Whole(q, Others) /\ ScanAt(q, k) /\ k = Len(q)+1
        /\ cpu.e = Me /\ cur = Me /\ Len(q) \in Nat
  BY <1>1, ScanProps
<1>3. cur \in Thread /\ cpu \in Regs
  BY <1>1, <1>2, Places DEF Good, TypeOK
<1>4. cpu' \in Regs /\ cpu'.th = cpu.th /\ cpu'.pc = "append" /\ cpu'.e = cpu.e
  BY <1>1, <1>3, GotoProps DEF Place
<1>5. Live' = Live /\ Me' = Me /\ Others' = Others
  BY <1>1, <1>4 DEF Live, Me, Others
<1>6. \A i \in 1..Len(q) : Priority[q[i]] >= Priority[Me]
  BY <1>2 DEF ScanAt
<1>7. Appending(q)'
  <2>1. Whole(q, Others)'
    BY <1>1, <1>2, <1>5, WholeUnchanged
  <2>2. QED
    BY <1>1, <1>2, <1>4, <1>5, <1>6, <2>1 DEF Appending
<1>8. QED
  BY <1>1, <1>3, <1>4, <1>7, RegistersStep DEF Stage

\* The append: the next field is cleared.
LEMMA AppendClearStep ==
  ASSUME Good, AppendClear, equiv' = equiv
  PROVE  Good'
<1>1. Running /\ At("append") /\ UNCHANGED <<head, tail, cur, exited>> /\ mode' = "user"
      /\ cpu.pc = "append" /\ next' = [next EXCEPT ![cpu.e] = Null] /\ Goto("appendtail")
  BY DEF AppendClear, At, Running
<1>2. PICK q \in Seq(Thread) : Appending(q)
  BY <1>1, Places
<1>3. cur = Me /\ cur \in Thread /\ cpu \in Regs /\ cpu.e = Me /\ Me \notin Others
      /\ next \in [Thread -> Pointer]
  BY <1>1, <1>2, Places DEF Appending, Good, TypeOK
<1>4. cpu' \in Regs /\ cpu'.th = cpu.th /\ cpu'.pc = "appendtail" /\ cpu'.e = cpu.e
  BY <1>1, <1>3, GotoProps DEF Place
<1>5. Live' = Live /\ Me' = Me /\ Others' = Others
  BY <1>1, <1>4 DEF Live, Me, Others
<1>6. {head', tail'} \subseteq Pointer /\ next' \in [Thread -> Pointer] /\ next'[Me] = Null
  BY <1>1, <1>3 DEF Good, TypeOK, Pointer
<1>7. Appending(q)'
  <2>1. Whole(q, Others) /\ \A i \in 1..Len(q) : Priority[q[i]] >= Priority[Me]
    BY <1>2 DEF Appending
  <2>2. Whole(q, Others)'
    BY <1>1, <1>3, <1>5, <2>1, WholeElsewhere
  <2>3. QED
    BY <1>1, <1>3, <1>4, <1>5, <1>6, <2>1, <2>2 DEF Appending
<1>8. QED
  BY <1>1, <1>3, <1>4, <1>6, <1>7, YieldStep DEF Stage

\* The load of the tail.
LEMMA AppendTailStep ==
  ASSUME Good, AppendTail, equiv' = equiv
  PROVE  Good'
<1>1. Running /\ At("appendtail") /\ UNCHANGED <<queue, cur, exited>> /\ mode' = "user"
      /\ cpu.pc = "appendtail" /\ Load("p", tail, "append1")
  BY DEF AppendTail, At, Running
<1>2. PICK q \in Seq(Thread) : Appending(q)
  BY <1>1, Places
<1>3. cur = Me /\ cur \in Thread /\ cpu \in Regs /\ cpu.e = Me /\ tail \in Pointer
  BY <1>1, <1>2, Places DEF Appending, Good, TypeOK
<1>4. /\ cpu' \in Regs /\ cpu'.th = cpu.th /\ cpu'.pc = "append1"
      /\ cpu'.e = cpu.e /\ cpu'.p = tail
  BY <1>1, <1>3, LoadP DEF Place
<1>5. Live' = Live /\ Me' = Me /\ Others' = Others
  BY <1>1, <1>4 DEF Live, Me, Others
<1>6. Appending(q)'
  <2>1. /\ Whole(q, Others) /\ \A i \in 1..Len(q) : Priority[q[i]] >= Priority[Me]
        /\ next[Me] = Null
    BY <1>1, <1>2 DEF Appending
  <2>2. Whole(q, Others)' /\ next' = next /\ tail' = tail
    BY <1>1, <1>5, <2>1, WholeUnchanged DEF queue
  <2>3. QED
    BY <1>1, <1>3, <1>4, <1>5, <2>1, <2>2 DEF Appending
<1>7. QED
  BY <1>1, <1>3, <1>4, <1>6, RegistersStep DEF Stage

\* The first of its two stores.
LEMMA AppendFirstStep ==
  ASSUME Good, AppendFirstStore, equiv' = equiv
  PROVE  Good'
<1>1. Running /\ At("append1") /\ UNCHANGED <<head, cur, exited>> /\ mode' = "user"
      /\ cpu.pc = "append1" /\ Goto("append2")
      /\ (cpu.p # Null => next' = [next EXCEPT ![cpu.p] = cpu.e] /\ tail' = tail)
      /\ (cpu.p = Null => tail' = cpu.e /\ next' = next)
  BY DEF AppendFirstStore, At, Running
<1>2. PICK q \in Seq(Thread) : Appending(q)
  BY <1>1, Places
<1>3. /\ cur = Me /\ cur \in Thread /\ cpu \in Regs /\ cpu.e = Me /\ cpu.p = tail
      /\ next[Me] = Null /\ Whole(q, Others)
      /\ \A i \in 1..Len(q) : Priority[q[i]] >= Priority[Me]
      /\ next \in [Thread -> Pointer] /\ {head, tail} \subseteq Pointer
      /\ Me \notin Others /\ Others \cup {Me} = Live
  BY <1>1, <1>2, Places DEF Appending, Good, TypeOK
<1>4. cpu' \in Regs /\ cpu'.th = cpu.th /\ cpu'.pc = "append2" /\ cpu'.e = cpu.e /\ cpu'.p = cpu.p
  BY <1>1, <1>3, GotoProps DEF Place
<1>5. Live' = Live /\ Me' = Me
  BY <1>1, <1>4 DEF Live, Me
<1> DEFINE n == Len(q)
           first == IF cpu.p = Null THEN Me ELSE head
           last == IF cpu.p = Null THEN tail' ELSE Me
<1>6. /\ n \in Nat /\ (tail = Null <=> n = 0)
      /\ n > 0 => tail = q[n] /\ q[n] \in Thread /\ q[n] # Me /\ (n+1)-1 = n
      /\ n = 0 => q = <<>>
  BY <1>3, WholeProps
<1>7. {head', tail'} \subseteq Pointer /\ next' \in [Thread -> Pointer]
  BY <1>1, <1>3, <1>6 DEF Pointer
<1>8. /\ n+1 = 1 => first = Me
      /\ n+1 > 1 => first = head
      /\ last = Me
      /\ next'[Me] = Null
      /\ n+1 > 1 => next'[q[(n+1)-1]] = Me
      /\ \A x \in Thread : x # Me /\ (n+1 > 1 => x # q[(n+1)-1]) => next'[x] = next[x]
  <2>1. CASE tail = Null
    BY <1>1, <1>3, <1>6, <2>1
  <2>2. CASE tail # Null
    BY <1>1, <1>3, <1>6, <2>2
  <2>3. QED
    BY <2>1, <2>2
<1>9. PICK p \in Seq(Thread) :
        Proper(p, Live) /\ Behind(p, Me) /\ Spells(first, last, next', p, Null)
  <2>1. /\ n+1 \in 1..Len(q)+1 /\ ~(n+1 <= Len(q))
        /\ \A i \in 1..(n+1)-1 : Priority[q[i]] >= Priority[Me]
    BY <1>3, <1>6
  <2> HIDE DEF first, last
  <2>2. Spliced(first, last, next', Others, Me)
    BY <1>3, <1>8, <2>1, InsertWhole
  <2>3. QED
    BY <1>3, <2>2 DEF Spliced
<1>10. Appended(p)'
  BY <1>1, <1>3, <1>4, <1>5, <1>9 DEF Appended, Proper, Behind
<1>11. QED
  BY <1>1, <1>3, <1>4, <1>7, <1>10, YieldStep DEF Stage

\* The second.
LEMMA AppendSecondStep ==
  ASSUME Good, AppendSecondStore, equiv' = equiv
  PROVE  Good'
<1>1. Running /\ At("append2") /\ UNCHANGED <<next, cur, exited>> /\ mode' = "user"
      /\ cpu.pc = "append2" /\ Goto("old")
      /\ (cpu.p # Null => tail' = cpu.e /\ head' = head)
      /\ (cpu.p = Null => head' = cpu.e /\ tail' = tail)
  BY DEF AppendSecondStore, At, Running
<1>2. PICK q \in Seq(Thread) : Appended(q)
  BY <1>1, Places
<1>3. cur = Me /\ cur \in Thread /\ cpu \in Regs /\ cpu.e = Me
  BY <1>1, <1>2, Places DEF Appended, Good, TypeOK
<1>4. cpu' \in Regs /\ cpu'.th = cpu.th /\ cpu'.pc = "old"
  BY <1>1, <1>3, GotoProps DEF Place
<1>5. Live' = Live /\ Me' = Me
  BY <1>1, <1>4 DEF Live, Me
<1>6. {head', tail'} \subseteq Pointer /\ next' \in [Thread -> Pointer]
  BY <1>1, <1>3 DEF Good, TypeOK, Pointer
<1>7. Popping(q)'
  <2>1. Proper(q, Live) /\ Behind(q, Me)
        /\ Spells(IF cpu.p = Null THEN Me ELSE head, IF cpu.p = Null THEN tail ELSE Me,
                  next, q, Null)
    BY <1>2 DEF Appended
  <2>2. Spells(head, tail, next, q, Null)'
    BY <1>1, <1>3, <2>1 DEF Spells
  <2>3. QED
    BY <1>1, <1>3, <1>4, <1>5, <2>1, <2>2 DEF Popping, Whole, Proper, Behind
<1>8. QED
  BY <1>1, <1>3, <1>4, <1>6, <1>7, YieldStep DEF Stage

\* The pop: the thread is in the queue, so the queue is not empty.
LEMMA OldStep ==
  ASSUME Good, Old, equiv' = equiv
  PROVE  Good'
<1>1. Running /\ At("old") /\ UNCHANGED <<queue, cur, exited>> /\ mode' = "user"
      /\ cpu.pc = "old" /\ Load("old", cur, "pop")
  BY DEF Old, At, Running
<1>2. PICK q \in Seq(Thread) : Popping(q)
  BY <1>1, Places
<1>3. cur = Me /\ cur \in Thread /\ cpu \in Regs /\ Whole(q, Live) /\ Behind(q, Me)
  BY <1>1, <1>2, Places DEF Popping, Good, TypeOK
<1>4. cpu' \in Regs /\ cpu'.th = cpu.th /\ cpu'.pc = "pop" /\ cpu'.old = Me
  BY <1>1, <1>3, LoadOld DEF Place, Pointer
<1>5. Live' = Live /\ Me' = Me
  BY <1>1, <1>4 DEF Live, Me
<1>6. Popping(q)'
  <2>1. Whole(q, Live)'
    BY <1>1, <1>3, <1>5, WholeUnchanged
  <2>2. QED
    BY <1>1, <1>3, <1>4, <1>5, <2>1 DEF Popping, Behind
<1>7. QED
  BY <1>1, <1>3, <1>4, <1>6, RegistersStep DEF Stage

\* What the pop finds.
LEMMA PoppingProps ==
  ASSUME Good, Running, NEW q \in Seq(Thread), Popping(q)
  PROVE  /\ cur = Me /\ Me \in Thread /\ cpu \in Regs
         /\ Whole(q, Live) /\ Behind(q, Me) /\ q # <<>>
         /\ head = Head(q) /\ head \in Thread /\ head # Null /\ head \in Live
         /\ next[head] \in Pointer
<1>1. cur = Me /\ Me \in Thread /\ Me \in Live /\ cpu \in Regs
      /\ Whole(q, Live) /\ Behind(q, Me) /\ next \in [Thread -> Pointer]
  BY Places DEF Popping, Good, TypeOK
<1>2. q # <<>>
  BY <1>1, WholeProps
<1>3. head = Head(q) /\ head = q[1] /\ q[1] \in Thread /\ q[1] # Null /\ q[1] \in Live
  BY <1>1, <1>2, WholeProps
<1>4. QED
  BY <1>1, <1>2, <1>3

\* The pop: the load of the head.
LEMMA PopElementStep ==
  ASSUME Good, PopElement, equiv' = equiv
  PROVE  Good'
<1>1. Running /\ At("pop") /\ UNCHANGED <<queue, cur, exited>> /\ mode' = "user"
      /\ cpu.pc = "pop" /\ Load("e", head, IF head = Null THEN "popempty" ELSE "popnext")
  BY DEF PopElement, At, Running
<1>2. PICK q \in Seq(Thread) : Popping(q)
  BY <1>1, Places
<1>3. /\ cur = Me /\ Me \in Thread /\ cpu \in Regs /\ Whole(q, Live) /\ Behind(q, Me)
      /\ head \in Pointer /\ head # Null
  BY <1>1, <1>2, PoppingProps DEF Pointer
<1>4. /\ cpu' \in Regs /\ cpu'.th = cpu.th /\ cpu'.pc = "popnext" /\ cpu'.e = head
      /\ cpu'.old = cpu.old
  BY <1>1, <1>3, LoadE DEF Place
<1>5. Live' = Live /\ Me' = Me /\ cpu.old = Me
  BY <1>1, <1>2, <1>4 DEF Live, Me, Popping
<1>6. Popping(q)'
  <2>1. Whole(q, Live)' /\ head' = head
    BY <1>1, <1>3, <1>5, WholeUnchanged DEF queue
  <2>2. QED
    BY <1>1, <1>3, <1>4, <1>5, <2>1 DEF Popping, Behind
<1>7. QED
  BY <1>1, <1>3, <1>4, <1>6, RegistersStep DEF Stage

\* The head moves on.
LEMMA PopNextStep ==
  ASSUME Good, PopNext, equiv' = equiv
  PROVE  Good'
<1>1. Running /\ At("popnext") /\ UNCHANGED <<queue, cur, exited>> /\ mode' = "user"
      /\ cpu.pc = "popnext" /\ Load("c", next[cpu.e], "pophead")
  BY DEF PopNext, At, Running
<1>2. PICK q \in Seq(Thread) : Popping(q)
  BY <1>1, Places
<1>3. /\ cur = Me /\ Me \in Thread /\ cpu \in Regs /\ Whole(q, Live) /\ Behind(q, Me)
      /\ next[head] \in Pointer
  BY <1>1, <1>2, PoppingProps
<1>4. cpu.e = head /\ cpu.old = Me
  BY <1>1, <1>2 DEF Popping
<1>5. /\ cpu' \in Regs /\ cpu'.th = cpu.th /\ cpu'.pc = "pophead" /\ cpu'.e = head
      /\ cpu'.old = cpu.old /\ cpu'.c = next[head]
  BY <1>1, <1>3, <1>4, LoadC DEF Place
<1>6. Live' = Live /\ Me' = Me
  BY <1>1, <1>5 DEF Live, Me
<1>7. Popping(q)'
  <2>1. Whole(q, Live)' /\ head' = head /\ next' = next
    BY <1>1, <1>3, <1>6, WholeUnchanged DEF queue
  <2>2. QED
    BY <1>1, <1>3, <1>4, <1>5, <1>6, <2>1 DEF Popping, Behind
<1>8. QED
  BY <1>1, <1>3, <1>5, <1>7, RegistersStep DEF Stage

\* The thread popped is itself, behind which none of its equals waits, or one
\* of the highest of the others; with the last one the tail is to be reset.
LEMMA PopStoreHeadStep ==
  ASSUME Good, PopStoreHead, equiv' = equiv
  PROVE  Good'
<1>1. Running /\ At("pophead") /\ UNCHANGED <<tail, next, cur, exited>> /\ mode' = "user"
      /\ cpu.pc = "pophead" /\ head' = cpu.c
      /\ Goto(IF cpu.c = Null THEN "popclear" ELSE "setcur")
  BY DEF PopStoreHead, At, Running
<1>2. PICK q \in Seq(Thread) : Popping(q)
  BY <1>1, Places
<1>3. /\ cur = Me /\ Me \in Thread /\ cpu \in Regs /\ Whole(q, Live) /\ Behind(q, Me)
      /\ q # <<>> /\ head = Head(q) /\ head \in Thread /\ head \in Live
      /\ next[head] \in Pointer
  BY <1>1, <1>2, PoppingProps
<1>4. cpu.e = head /\ cpu.old = Me /\ cpu.c = next[head]
  BY <1>1, <1>2 DEF Popping
<1>5. /\ cpu' \in Regs /\ cpu'.th = cpu.th /\ cpu'.e = head /\ cpu'.old = Me
      /\ cpu'.pc = (IF next[head] = Null THEN "popclear" ELSE "setcur")
  BY <1>1, <1>3, <1>4, GotoProps DEF Place
<1>6. Live' = Live /\ Me' = Me /\ Others' = Others
  BY <1>1, <1>5 DEF Live, Me, Others
<1>7. {head', tail'} \subseteq Pointer /\ next' \in [Thread -> Pointer]
  BY <1>1, <1>3, <1>4 DEF Good, TypeOK
<1>8. Proper(q, Live) /\ Spells(head, tail, next, q, Null) /\ Null \notin Thread
  BY <1>3, PointerAssumption DEF Whole
<1>9. /\ Proper(Tail(q), Live \ {head}) /\ Top(head) /\ Tail(q) \in Seq(Thread)
      /\ head = Me => GaveWay(Me)
  <2>1. /\ Proper(Tail(q), Live \ {head})
        /\ \A t \in Live : Priority[t] <= Priority[head]
        /\ Behind(q, head) => \A t \in Live \ {head} : Priority[t] < Priority[head]
    BY <1>3, <1>8, ProperTail
  <2>2. Tail(q) \in Seq(Thread)
    BY <2>1 DEF Proper
  <2>3. QED
    BY <1>3, <2>1, <2>2 DEF Top, GaveWay
<1>10. /\ next[head] = Null <=> Tail(q) = <<>>
       /\ Spells(next[head], IF next[head] = Null THEN Null ELSE tail, next, Tail(q), Null)
  BY <1>3, <1>8, SpellsTail
<1>11. CASE next[head] = Null
  <2>1. Live \ {head} = {}
    BY <1>9, <1>10, <1>11 DEF Proper, ToSet
  <2>2. head = Me /\ Live = {Me}
    BY <1>3, <2>1, <1>1, Places
  <2>3. Popped'
    BY <1>1, <1>3, <1>4, <1>5, <1>6, <1>11, <2>2 DEF Popped
  <2>4. QED
    BY <1>1, <1>2, <1>3, <1>5, <1>7, <2>3, YieldStep DEF Stage
<1>12. CASE next[head] # Null
  <2>1. PICK p \in Seq(Thread) : p = Tail(q)
    BY <1>9
  <2>2. Proper(p, Live \ {head}) /\ Spells(head', tail', next', p, Null)
    BY <1>1, <1>4, <1>9, <1>10, <1>12, <2>1
  <2>3. CASE head = Me
    <3>1. Whole(p, Others)'
      BY <1>6, <2>2, <2>3 DEF Whole, Proper, Others
    <3>2. Resting(p)'
      BY <1>1, <1>3, <1>5, <1>6, <1>9, <1>12, <2>3, <3>1
         DEF Resting, Resumable, GaveWay, Me
    <3>3. QED
      BY <1>1, <1>3, <1>5, <1>7, <3>2, YieldStep DEF Stage
  <2>4. CASE head # Me
    <3>1. head \in Others /\ cpu'.e = head
      BY <1>3, <1>5, <2>4 DEF Others
    <3>2. Whole(p, Live \ {cpu.e})'
      BY <1>6, <2>2, <3>1 DEF Whole, Proper
    <3>3. Leaving(p)'
      BY <1>1, <1>3, <1>5, <1>6, <1>9, <1>12, <3>1, <3>2 DEF Leaving, Top
    <3>4. QED
      BY <1>1, <1>3, <1>5, <1>7, <3>3, YieldStep DEF Stage
  <2>5. QED
    BY <2>3, <2>4
<1>13. QED
  BY <1>11, <1>12

\* A queue that became empty loses its tail.
LEMMA PopClearStep ==
  ASSUME Good, PopClearTail, equiv' = equiv
  PROVE  Good'
<1>1. Running /\ At("popclear") /\ UNCHANGED <<head, next, cur, exited>> /\ mode' = "user"
      /\ cpu.pc = "popclear" /\ tail' = Null /\ Goto("setcur")
  BY DEF PopClearTail, At, Running
<1>2. Popped /\ cpu \in Regs /\ Me \in Thread
  BY <1>1, Places DEF Good, TypeOK
<1>3. cur = Me /\ cpu.e = Me /\ cpu.old = Me /\ Live = {Me} /\ head = Null
  BY <1>2 DEF Popped
<1>4. /\ cpu' \in Regs /\ cpu'.th = cpu.th /\ cpu'.pc = "setcur" /\ cpu'.e = cpu.e
      /\ cpu'.old = cpu.old
  BY <1>1, <1>2, GotoProps DEF Place
<1>5. Live' = Live /\ Me' = Me /\ Others' = {}
  BY <1>1, <1>3, <1>4 DEF Live, Me, Others
<1>6. {head', tail'} \subseteq Pointer /\ next' \in [Thread -> Pointer]
  BY <1>1 DEF Good, TypeOK, Pointer
<1>7. <<>> \in Seq(Thread) /\ Len(<<>>) = 0 /\ ToSet(<<>>) = {} /\ IsInjective(<<>>)
  BY EmptySeq DEF ToSet, IsInjective
<1>8. Whole(<<>>, Others)'
  BY <1>1, <1>3, <1>5, <1>7 DEF Whole, Proper, Descending, Spells
<1>9. Resting(<<>>)'
  BY <1>1, <1>3, <1>4, <1>5, <1>8 DEF Resting, Resumable, GaveWay, Me
<1>10. QED
  BY <1>1, <1>2, <1>3, <1>4, <1>6, <1>7, <1>9, YieldStep DEF Stage

\* A popped queue is impossible here.
LEMMA PopEmptyStep ==
  ASSUME Good, PopEmpty
  PROVE  FALSE
BY Places DEF PopEmpty, At

\* cur_thread is assigned.
LEMMA SetCurStep ==
  ASSUME Good, SetCur, equiv' = equiv
  PROVE  Good'
<1>1. Running /\ At("setcur") /\ UNCHANGED <<queue, exited>> /\ mode' = "user"
      /\ cpu.pc = "setcur" /\ cur' = cpu.e /\ Goto("compare")
  BY DEF SetCur, At, Running
<1>2. PICK q \in Seq(Thread) : Resting(q) \/ Leaving(q)
  BY <1>1, Places
<1>3. cpu \in Regs /\ Me \in Thread /\ Live \subseteq Thread
  BY <1>1, Places DEF Good, TypeOK
<1>4. /\ cpu' \in Regs /\ cpu'.th = cpu.th /\ cpu'.pc = "compare" /\ cpu'.e = cpu.e
      /\ cpu'.old = cpu.old /\ cpu'.p = cpu.p
  BY <1>1, <1>3, GotoProps DEF Place
<1>5. Live' = Live /\ Me' = Me /\ Others' = Others
  BY <1>1, <1>4 DEF Live, Me, Others
<1>6. {head', tail'} \subseteq Pointer /\ next' \in [Thread -> Pointer]
  BY <1>1 DEF Good, TypeOK, queue
<1>7. CASE Resting(q)
  <2>1. cpu.e = Me /\ cpu.old = Me /\ GaveWay(Me) /\ cur = Me /\ Whole(q, Others)
    BY <1>1, <1>7 DEF Resting, Resumable, Outside
  <2>2. Whole(q, Others)'
    BY <1>1, <1>5, <2>1, WholeUnchanged
  <2>3. Resting(q)'
    BY <1>1, <1>4, <1>5, <2>1, <2>2 DEF Resting, Resumable, GaveWay, Me
  <2>4. QED
    BY <1>1, <1>3, <1>4, <1>6, <2>1, <2>3, YieldStep DEF Stage
<1>8. CASE Leaving(q)
  <2>1. cpu.e \in Others /\ Top(cpu.e) /\ cpu.old = Me /\ cur = Me /\ Whole(q, Live \ {cpu.e})
    BY <1>1, <1>8 DEF Leaving
  <2>2. Whole(q, Live \ {cpu.e})'
    BY <1>1, <1>4, <1>5, <2>1, WholeUnchanged
  <2>3. Leaving(q)'
    BY <1>1, <1>4, <1>5, <2>1, <2>2 DEF Leaving, Top
  <2>4. cpu.e \in Thread
    BY <1>3, <2>1 DEF Others
  <2>5. QED
    BY <1>1, <1>3, <1>4, <1>6, <2>1, <2>3, <2>4, YieldStep DEF Stage
<1>9. QED
  BY <1>2, <1>7, <1>8

\* pre_yield returns to its caller: it popped itself.
LEMMA ReturnProps ==
  ASSUME Good, Return
  PROVE  /\ GaveWay(Me) /\ cur = Me /\ Me \in Thread /\ cpu \in Regs
         /\ \E q \in Seq(Thread) : Whole(q, Others)
<1>1. Running /\ cpu.pc = "compare" /\ cur = cpu.old
  BY DEF Return, At
<1>2. PICK q \in Seq(Thread) : Resting(q) \/ Leaving(q)
  BY <1>1, Places
<1>3. ~Leaving(q)
  BY <1>1 DEF Leaving, Others
<1>4. Resting(q)
  BY <1>2, <1>3
<1>5. QED
  BY <1>1, <1>4, Places DEF Resting, Resumable, Outside, Good, TypeOK

\* pre_yield returns at once.
LEMMA ReturnStep ==
  ASSUME Good, Return, equiv' = equiv
  PROVE  Good'
<1>1. Running /\ At("compare") /\ UNCHANGED <<queue, cur, exited>> /\ mode' = "user"
      /\ cpu' = Body(cpu.th, cpu.n + 1)
  BY DEF Return, At, Running
<1>2. cur = Me /\ Me \in Thread /\ cpu \in Regs
  BY ReturnProps
<1>3. PICK q \in Seq(Thread) : Whole(q, Others)
  BY ReturnProps
<1>4. cpu' \in Regs /\ cpu'.th = cpu.th /\ cpu'.pc = "body" /\ cpu'.p = Null
  <2>1. cpu.n + 1 \in Nat /\ cpu.th \in Pointer
    BY <1>2 DEF Regs
  <2>2. QED
    BY <1>1, <2>1, BodyProps
<1>5. Live' = Live /\ Me' = Me /\ Others' = Others
  BY <1>1, <1>4 DEF Live, Me, Others
<1>6. Resting(q)'
  <2>1. Whole(q, Others)'
    BY <1>1, <1>3, <1>5, WholeUnchanged
  <2>2. QED
    BY <1>1, <1>2, <1>4, <1>5, <2>1 DEF Resting, Resumable, Me, Outside
<1>7. QED
  BY <1>1, <1>2, <1>4, <1>6, RegistersStep DEF Stage

\* It popped another thread.
LEMMA DifferStep ==
  ASSUME Good, Differ, equiv' = equiv
  PROVE  Good'
<1>1. Running /\ At("compare") /\ UNCHANGED <<queue, cur, exited>> /\ mode' = "user"
      /\ cpu.pc = "compare" /\ cur # cpu.old /\ Goto("switch")
  BY DEF Differ, At, Running
<1>2. PICK q \in Seq(Thread) : Resting(q) \/ Leaving(q)
  BY <1>1, Places
<1>3. Leaving(q)
  BY <1>1, <1>2 DEF Resting, Resumable, Outside
<1>4. /\ cpu.e \in Others /\ Top(cpu.e) /\ cpu.old = Me /\ cur = cpu.e
      /\ Whole(q, Live \ {cpu.e}) /\ cpu \in Regs /\ cur \in Thread
  BY <1>1, <1>3, Places DEF Leaving, Others, Good, TypeOK
<1>5. /\ cpu' \in Regs /\ cpu'.th = cpu.th /\ cpu'.pc = "switch" /\ cpu'.e = cpu.e
      /\ cpu'.old = cpu.old
  BY <1>1, <1>4, GotoProps DEF Place
<1>6. Live' = Live /\ Me' = Me /\ Others' = Others
  BY <1>1, <1>5 DEF Live, Me, Others
<1>7. Leaving(q)'
  <2>1. Whole(q, Live \ {cpu.e})'
    BY <1>1, <1>4, <1>5, <1>6, WholeUnchanged
  <2>2. QED
    BY <1>1, <1>4, <1>5, <1>6, <2>1 DEF Leaving, Top
<1>8. QED
  BY <1>1, <1>4, <1>5, <1>7, RegistersStep DEF Stage

\* switchto resumes the thread it popped where that one was interrupted; in
\* single-step mode it takes up its own registers, saved in that one's TCB.
LEMMA SwitchStep ==
  ASSUME Good, Switch, equiv' = equiv
  PROVE  Good'
<1>1. /\ Running /\ cpu.pc = "switch" /\ UNCHANGED <<queue, cur, exited>>
      /\ saved' = IF equiv THEN [saved EXCEPT ![cur] = cpu] ELSE saved
      /\ \/ cpu' = saved'[cur] /\ mode' = "user"
         \/ cpu' = cpu /\ mode' = "undefined"
  BY DEF Switch, Running
<1>2. PICK q \in Seq(Thread) : Leaving(q)
  BY <1>1, Places
<1>3. /\ cpu.e \in Others /\ Top(cpu.e) /\ cpu.old = Me /\ cur = cpu.e
      /\ Whole(q, Live \ {cpu.e}) /\ cpu \in Regs /\ cur \in Live /\ cur \in Thread
      /\ cur # Me /\ saved \in [Thread -> Regs]
  BY <1>1, <1>2, Places DEF Leaving, Others, Good, TypeOK
<1>4. Live' = Live
  BY <1>1 DEF Live
<1>5. saved' \in [Thread -> Regs] /\ (equiv => saved'[cur] = cpu)
      /\ \A t \in Live : t # cur => saved'[t] = saved[t]
  BY <1>1, <1>3 DEF Live
<1>6. TypeOK'
  BY <1>1, <1>3, <1>5 DEF Good, TypeOK, queue
<1>7. Resumable(saved[cur], cur) \/ equiv
  BY <1>3 DEF Good, SavedInv
<1>8. CASE equiv
  <2>1. cpu' = cpu /\ Me' = Me /\ Others' = Others
    BY <1>1, <1>4, <1>5, <1>8 DEF Me, Others
  <2>2. SavedInv'
    <3> SUFFICES ASSUME NEW t \in Live, t # cur, t # Me
                 PROVE  Resumable(saved[t], t)'
      BY <1>1, <1>4, <1>8, <2>1 DEF SavedInv, Me
    <3>1. Resumable(saved[t], t) /\ saved'[t] = saved[t]
      BY <1>5 DEF Good, SavedInv, Me
    <3>2. QED
      BY <1>4, <3>1 DEF Resumable, GaveWay
  <2>3. CASE mode' = "user"
    <3>1. Whole(q, Live \ {cpu.e})'
      BY <1>1, <1>3, <1>4, <2>1, WholeUnchanged
    <3>2. Leaving(q)'
      BY <1>1, <1>3, <1>4, <2>1, <3>1 DEF Leaving, Top
    <3>3. (Me \in Live /\ Top(Me))'
      BY <1>1, <1>4, <2>1, Places DEF Top
    <3>4. QED
      BY <1>6, <2>2, <2>3, <3>2, <3>3 DEF Good, Stage
  <2>4. CASE mode' = "undefined"
    BY <1>6, <2>2, <2>4 DEF Good
  <2>5. QED
    BY <1>1, <2>3, <2>4
<1>9. CASE ~equiv
  <2>1. saved' = saved
    BY <1>1, <1>9
  <2>2. SavedInv'
    <3> SUFFICES ASSUME NEW t \in Live
                 PROVE  Resumable(saved[t], t)'
      BY <1>4 DEF SavedInv
    <3>1. Resumable(saved[t], t)
      BY <1>9 DEF Good, SavedInv
    <3>2. QED
      BY <1>4, <2>1, <3>1 DEF Resumable, GaveWay
  <2>3. CASE mode' = "user"
    <3>1. cpu' = saved[cur] /\ Resumable(saved[cur], cur)
      BY <1>1, <1>7, <1>9, <2>1, <2>3
    <3>2. Me' = cur /\ Others' = Live \ {cur}
      BY <1>4, <3>1 DEF Me, Others, Resumable
    <3>3. Whole(q, Others)'
      BY <1>1, <1>3, <3>2, WholeUnchanged
    <3>4. Resumable(cpu, Me)'
      BY <1>4, <3>1, <3>2 DEF Resumable, GaveWay
    <3>5. Resting(q)'
      BY <1>1, <3>2, <3>3, <3>4 DEF Resting
    <3>6. (Me \in Live /\ Top(Me))'
      BY <1>3, <1>4, <3>2 DEF Top
    <3>7. QED
      BY <1>6, <2>2, <2>3, <3>5, <3>6 DEF Good, Stage
  <2>4. CASE mode' = "undefined"
    BY <1>6, <2>2, <2>4 DEF Good
  <2>5. QED
    BY <1>1, <2>3, <2>4
<1>10. QED
  BY <1>8, <1>9

-----------------------------------------------------------------------------
(* The kernel. *)

\* The thread that exits was in its own code; the others are queued.
LEMMA ExitStep ==
  ASSUME Good, Exit, equiv' = equiv
  PROVE  Good'
<1>1. /\ Running /\ cpu.pc = "body" /\ UNCHANGED queue
      /\ saved' = IF equiv THEN [saved EXCEPT ![cur] = cpu] ELSE saved
      /\ exited' = exited \cup {Me} /\ cur' = SchedulerThread
      /\ cpu' = Body(Null, 0) /\ mode' = "scheduler"
  BY DEF Exit, Me
<1>2. PICK q \in Seq(Thread) : Resting(q)
  BY <1>1, Places DEF Outside
<1>3. cur = Me /\ Whole(q, Others) /\ Me \in Thread
  BY <1>1, <1>2, Places DEF Resting
<1>4. Live' = Others
  BY <1>1 DEF Live, Others
<1>5. cpu' \in Regs /\ cpu'.th = Null
  BY <1>1, BodyProps DEF Pointer
<1>6. TypeOK'
  BY <1>1, <1>3, <1>5 DEF Good, TypeOK, queue
<1>7. SavedInv'
  <2> SUFFICES ASSUME NEW t \in Others
               PROVE  Resumable(saved[t], t)'
    BY <1>4 DEF SavedInv
  <2>1. t \in Live /\ t # cur /\ t # Me /\ t \in Thread
    BY <1>1, <1>3, Places DEF Others
  <2>2. Resumable(saved[t], t) /\ saved'[t] = saved[t]
    BY <1>1, <2>1 DEF Good, SavedInv, TypeOK, Me
  <2>3. Others \subseteq Live
    BY DEF Others
  <2>4. saved[t].pc = "emptytail" => Live = {t}
    BY <2>2 DEF Resumable, Outside
  <2>5. saved[t].pc # "emptytail"
    BY <1>1, <2>1, <2>4, Places
  <2>6. QED
    BY <1>4, <2>2, <2>3, <2>5 DEF Resumable, GaveWay
<1>8. Whole(q, Live)'
  BY <1>1, <1>3, <1>4, WholeUnchanged
<1>9. QED
  BY <1>1, <1>5, <1>6, <1>7, <1>8 DEF Good, Me

\* The scheduler takes the head, one of the highest, and resumes it.
LEMMA SchedulerStep ==
  ASSUME Good, Scheduler, equiv' = equiv
  PROVE  Good'
<1>1. mode = "scheduler" /\ UNCHANGED <<saved, exited>>
  BY DEF Scheduler, history
<1>2. cur = SchedulerThread /\ Me = Null
  BY <1>1 DEF Good
<1>3. PICK q \in Seq(Thread) : Whole(q, Live)
  BY <1>1 DEF Good
<1>4. Live' = Live /\ Live \subseteq Thread
  BY <1>1 DEF Live
<1>5. \A t \in Live : Resumable(saved[t], t)
  BY <1>2, <1>4, PointerAssumption DEF Good, SavedInv, Me
<1>6. \A t \in Live : Resumable(saved[t], t)'
  BY <1>1, <1>4, <1>5 DEF Resumable, GaveWay
<1>7. SavedInv'
  BY <1>4, <1>6 DEF SavedInv
<1>8. CASE head = Null
  <2>1. q = <<>> /\ tail = Null /\ Live = {}
    BY <1>3, <1>8, WholeProps
  <2>2. mode' = "main" /\ UNCHANGED <<queue, cur, cpu>>
    BY <1>8, <2>1 DEF Scheduler
  <2>3. TypeOK'
    BY <1>1, <2>2 DEF Good, TypeOK, queue
  <2>4. QED
    BY <1>4, <1>7, <1>8, <2>1, <2>2, <2>3 DEF Good, queue
<1>9. CASE head # Null
  <2>1. /\ head' = next[head] /\ tail' = (IF next[head] = Null THEN Null ELSE tail)
        /\ cur' = head /\ cpu' = saved[head] /\ mode' = "user" /\ next' = next
    BY <1>9 DEF Scheduler, PopHead
  <2>2. q # <<>> /\ head = Head(q) /\ Proper(q, Live) /\ Null \notin Thread
        /\ Spells(head, tail, next, q, Null)
    BY <1>3, <1>9, WholeProps, PointerAssumption DEF Whole
  <2>3. /\ head \in Live /\ head \in Thread /\ Top(head)
        /\ Proper(Tail(q), Live \ {head})
    BY <2>2, ProperTail DEF Top
  <2>4. PICK p \in Seq(Thread) : p = Tail(q)
    BY <2>3 DEF Proper
  <2>5. Spells(head', tail', next', p, Null)
    BY <2>1, <2>2, <2>4, SpellsTail
  <2>6. cpu' \in Regs /\ Resumable(saved[head], head)
    BY <1>5, <2>1, <2>3 DEF Good, TypeOK
  <2>7. Me' = head /\ Others' = Live \ {head}
    BY <1>4, <2>1, <2>6 DEF Resumable, Me, Others
  <2>8. TypeOK'
    BY <1>1, <2>1, <2>3, <2>6 DEF Good, TypeOK, Pointer
  <2>9. Whole(p, Others)'
    BY <2>3, <2>4, <2>5, <2>7 DEF Whole, Proper
  <2>10. Resumable(cpu, Me)'
    BY <1>4, <2>1, <2>6, <2>7 DEF Resumable, GaveWay
  <2>11. Resting(p)' /\ (Me \in Live /\ Top(Me))'
    BY <1>4, <2>1, <2>3, <2>7, <2>9, <2>10 DEF Resting, Top
  <2>12. QED
    BY <1>7, <2>1, <2>8, <2>11 DEF Good, Stage
<1>10. QED
  BY <1>8, <1>9

\* The pointers the loop of eq_insert_with_priority looks at are the list.
LEMMA ScannedProps ==
  ASSUME NEW S, NEW q \in Seq(Thread), Whole(q, S)
  PROVE  /\ DOMAIN Scanned = 1..Cardinality(Thread)+1 /\ Cardinality(Thread) \in Nat
         /\ Len(q)+1 \in DOMAIN Scanned /\ DOMAIN Scanned \subseteq Nat \ {0}
         /\ \A k \in DOMAIN Scanned : Scanned[k] = IF k <= Len(q) THEN q[k] ELSE Null
<1> DEFINE n == Len(q)
           D == 1..Cardinality(Thread)+1
           listed == [k \in D |-> IF k <= n THEN q[k] ELSE Null]
           Follows(s) == s = [k \in D |-> IF k = 1 THEN head
                                          ELSE IF s[k-1] = Null THEN Null ELSE next[s[k-1]]]
<1>1. /\ n \in Nat /\ IsInjective(q) /\ \A i \in 1..n : q[i] # Null
      /\ head = IF n = 0 THEN Null ELSE q[1]
      /\ \A i \in 1..n : next[q[i]] = IF i = n THEN Null ELSE q[i+1]
  <2>1. q = <<>> <=> n = 0
    OBVIOUS
  <2>2. QED
    BY <2>1, WholeProps
<1>2. Cardinality(Thread) \in Nat /\ n <= Cardinality(Thread)
  <2>1. IsFiniteSet(Thread)
    BY OrderAssumption, DistinctCount
  <2>2. ToSet(q) \in SUBSET Thread /\ Cardinality(ToSet(q)) = n
    <3>1. DOMAIN q = 1..n /\ \A i \in 1..n : q[i] \in Thread
      BY <1>1
    <3>2. ToSet(q) \in SUBSET Thread
      BY <3>1 DEF ToSet
    <3>3. QED
      BY <1>1, <3>2, DistinctCount
  <2>3. QED
    BY <2>1, <2>2, FS_Subset, FS_CardinalityType
<1> HIDE DEF n
<1>3. /\ D \subseteq Nat \ {0} /\ n+1 \in D /\ 1 \in D
      /\ \A k \in D : k # 1 => k-1 \in D /\ k-1 < k
  BY <1>1, <1>2
<1>4. Follows(listed)
  <2>1. ASSUME NEW k \in D
        PROVE  listed[k] = IF k = 1 THEN head
                           ELSE IF listed[k-1] = Null THEN Null ELSE next[listed[k-1]]
    <3>1. CASE k = 1
      BY <1>1, <1>3, <3>1
    <3>2. CASE k # 1
      <4>1. listed[k-1] = IF k-1 <= n THEN q[k-1] ELSE Null
        BY <1>3, <3>2
      <4>2. CASE k-1 <= n
        <5>1. k-1 \in 1..n /\ (k-1 = n <=> ~(k <= n)) /\ (k-1)+1 = k
          BY <1>1, <1>3, <3>2, <4>2
        <5>2. next[q[k-1]] = IF k-1 = n THEN Null ELSE q[(k-1)+1]
          BY <1>1, <5>1
        <5>3. QED
          BY <1>1, <3>2, <4>1, <4>2, <5>1, <5>2
      <4>3. CASE ~(k-1 <= n)
        <5>1. ~(k <= n)
          BY <1>1, <1>3, <4>3
        <5>2. QED
          BY <3>2, <4>1, <4>3, <5>1
      <4>4. QED
        BY <4>2, <4>3
    <3>3. QED
      BY <3>1, <3>2
  <2>2. QED
    BY <2>1
<1>5. Scanned = CHOOSE s : Follows(s)
  BY DEF Scanned
<1>6. Follows(Scanned)
  <2> HIDE DEF Follows
  <2>1. \E s : Follows(s)
    BY <1>4
  <2>2. QED
    BY <1>5, <2>1
<1>7. DOMAIN Scanned = D
  BY <1>6
<1>8. \A k \in D : Scanned[k] = IF k = 1 THEN head
                                ELSE IF Scanned[k-1] = Null THEN Null ELSE next[Scanned[k-1]]
  BY <1>6
<1>9. \A k \in D : Scanned[k] = listed[k]
  <2> DEFINE wrong == {k \in D : Scanned[k] # listed[k]}
  <2>1. SUFFICES ASSUME wrong # {} PROVE FALSE
    OBVIOUS
  <2>2. wrong \subseteq Nat
    BY <1>3
  <2> HIDE DEF wrong
  <2>3. PICK m \in wrong : \A j \in wrong : m <= j
    BY <2>1, <2>2, LeastNumber
  <2> USE DEF wrong
  <2>4. m \in D /\ Scanned[m] # listed[m]
    BY <2>3
  <2>5. \A k \in D : listed[k] = IF k = 1 THEN head
                                 ELSE IF listed[k-1] = Null THEN Null ELSE next[listed[k-1]]
    BY <1>4
  <2> HIDE DEF listed, Follows
  <2>6. m # 1
    BY <1>8, <2>4, <2>5
  <2>7. m-1 \in D /\ m-1 < m /\ m \in Nat
    BY <1>3, <2>4, <2>6
  <2>8. m-1 \notin wrong
    <3>1. m-1 \in Nat /\ ~(m <= m-1)
      BY <1>3, <2>7
    <3>2. QED
      BY <2>3, <3>1
  <2>9. Scanned[m-1] = listed[m-1]
    BY <2>7, <2>8
  <2>10. QED
    BY <1>8, <2>4, <2>5, <2>6, <2>9
<1>10. QED
  BY <1>2, <1>3, <1>7, <1>9 DEF n

\* The timer interrupt puts the thread back, behind its equals.
LEMMA InsertProps ==
  ASSUME Good, NEW S, NEW q \in Seq(Thread), Whole(q, S), NEW t \in Thread, t \notin S,
         InsertWithPriority(t)
  PROVE  /\ mode' = "scheduler"
         /\ {head', tail'} \subseteq Pointer /\ next' \in [Thread -> Pointer]
         /\ \E p \in Seq(Thread) : Proper(p, S \cup {t}) /\ Spells(head', tail', next', p, Null)
<1> DEFINE n == Len(q)
           places == {k \in DOMAIN Scanned : Stops(k, t)}
           k == CHOOSE k \in places : \A j \in places : k <= j
<1>1. /\ n \in Nat /\ \A i \in 1..n : q[i] \in Thread /\ q[i] # Null /\ q[i] # t
      /\ head = Null => tail = Null
      /\ tail = Null <=> n = 0
      /\ n > 0 => tail = q[n] /\ n \in 1..n
  <2>1. q = <<>> <=> n = 0
    OBVIOUS
  <2>2. QED
    BY <2>1, WholeProps
<1>2. /\ n+1 \in DOMAIN Scanned /\ DOMAIN Scanned \subseteq Nat \ {0}
      /\ DOMAIN Scanned = 1..Cardinality(Thread)+1 /\ Cardinality(Thread) \in Nat
      /\ \A j \in DOMAIN Scanned : Scanned[j] = IF j <= n THEN q[j] ELSE Null
  BY ScannedProps
<1>3. n+1 \in places /\ places \subseteq Nat
  BY <1>1, <1>2 DEF Stops
<1> HIDE DEF places
<1>4. k \in places /\ \A j \in places : k <= j
  BY <1>3, LeastNumber
<1>5. PICK m : m = k
  OBVIOUS
<1>6. m \in 1..n+1 /\ m \in DOMAIN Scanned /\ Stops(m, t)
      /\ \A j \in DOMAIN Scanned : j < m => ~Stops(j, t)
  <2>1. m \in places /\ \A j \in places : m <= j
    BY <1>4, <1>5
  <2>2. m <= n+1
    BY <1>3, <2>1
  <2> USE DEF places
  <2>3. m \in DOMAIN Scanned /\ Stops(m, t)
    BY <2>1
  <2>4. m \in 1..n+1
    BY <1>1, <1>2, <2>2, <2>3
  <2>5. ASSUME NEW j \in DOMAIN Scanned, j < m, Stops(j, t)
        PROVE  FALSE
    <3>1. j \in places /\ j \in Nat /\ m \in Nat
      BY <1>2, <2>3, <2>5
    <3>2. QED
      BY <2>1, <2>5, <3>1
  <2>6. QED
    BY <2>3, <2>4, <2>5
<1>7. /\ mode' = "scheduler"
      /\ IF Scanned[m] = Null THEN AppendLast(t) ELSE LinkInFront(t, m)
  <2>1. ~(head = Null /\ tail # Null) /\ places # {}
    BY <1>1, <1>3
  <2> USE DEF places
  <2>2. QED
    BY <1>5, <2>1 DEF InsertWithPriority
<1> HIDE DEF k
<1>8. \A i \in 1..m-1 : Priority[q[i]] >= Priority[t]
  <2> TAKE i \in 1..m-1
  <2>1. i \in 1..n /\ i < m /\ i <= n
    BY <1>1, <1>6
  <2>2. i \in DOMAIN Scanned
    BY <1>2, <1>6, <2>1
  <2>3. Scanned[i] = q[i] /\ ~Stops(i, t)
    BY <1>2, <1>6, <2>1, <2>2
  <2>4. Priority[q[i]] \in Nat /\ Priority[t] \in Nat
    BY <1>1, <2>1, PriorityAssumption
  <2>5. QED
    BY <2>3, <2>4 DEF Stops
<1>9. m <= n => Scanned[m] = q[m] /\ Scanned[m] # Null /\ Priority[q[m]] < Priority[t]
  <2> SUFFICES ASSUME m <= n
               PROVE  Scanned[m] = q[m] /\ Scanned[m] # Null /\ Priority[q[m]] < Priority[t]
    OBVIOUS
  <2>1. m \in 1..n /\ Scanned[m] = q[m]
    BY <1>1, <1>2, <1>6
  <2>2. Priority[q[m]] \in Nat /\ Priority[t] \in Nat /\ q[m] # Null
    BY <1>1, <2>1, PriorityAssumption
  <2>3. QED
    BY <1>6, <2>1, <2>2 DEF Stops
<1>10. m > n => m = n+1 /\ Scanned[m] = Null
  BY <1>1, <1>2, <1>6
<1>11. next \in [Thread -> Pointer] /\ {head, tail} \subseteq Pointer /\ {t, Null} \subseteq Pointer
       /\ \A i \in 1..n : q[i] \in Pointer
  BY <1>1 DEF Good, TypeOK, Pointer
<1>12. CASE m > n
  <2>1. /\ next' = IF tail = Null THEN [next EXCEPT ![t] = Null]
                   ELSE [[next EXCEPT ![t] = Null] EXCEPT ![tail] = t]
        /\ head' = IF tail = Null THEN t ELSE head
        /\ tail' = t
    BY <1>7, <1>10, <1>12 DEF AppendLast
  <2>2. {head', tail'} \subseteq Pointer /\ next' \in [Thread -> Pointer]
    BY <1>11, <2>1
  <2>3. /\ m = n+1 /\ ~(m <= n) /\ (m = 1 <=> n = 0) /\ m-1 = n
    BY <1>1, <1>10, <1>12
  <2>4. /\ m = 1 => head' = t
        /\ m > 1 => head' = head
        /\ next'[t] = Null
        /\ m > 1 => next'[q[m-1]] = t
        /\ \A x \in Thread : x # t /\ (m > 1 => x # q[m-1]) => next'[x] = next[x]
    <3>1. CASE n = 0
      BY <1>1, <1>11, <2>1, <2>3, <3>1
    <3>2. CASE n > 0
      BY <1>1, <1>11, <2>1, <2>3, <3>2
    <3>3. QED
      BY <1>1, <3>1, <3>2
  <2>5. Spliced(head', tail', next', S, t)
    <3>1. /\ m \in 1..Len(q)+1 /\ m = Len(q)+1 /\ ~(m <= Len(q))
      BY <1>6, <2>3
    <3>2. tail' = t /\ (m = Len(q)+1 => tail' = t)
      BY <2>1
    <3>3. QED
      BY <1>8, <2>4, <3>1, <3>2, InsertWhole
  <2>6. QED
    BY <1>7, <2>2, <2>5 DEF Spliced
<1>13. CASE m <= n
  <2>1. /\ head' = IF m = 1 THEN t ELSE head
        /\ next' = [(IF m = 1 THEN next ELSE [next EXCEPT ![Scanned[m-1]] = t])
                      EXCEPT ![t] = q[m]]
        /\ tail' = tail
    BY <1>7, <1>9, <1>13 DEF LinkInFront
  <2>2. m # 1 => Scanned[m-1] = q[m-1] /\ m-1 \in 1..n
    <3> SUFFICES ASSUME m # 1 PROVE Scanned[m-1] = q[m-1] /\ m-1 \in 1..n
      OBVIOUS
    <3>1. m-1 \in 1..n /\ m-1 <= n
      BY <1>1, <1>6, <1>13
    <3>2. m-1 \in DOMAIN Scanned
      BY <1>2, <1>6, <3>1
    <3>3. QED
      BY <1>2, <3>1, <3>2
  <2>3. m \in 1..n /\ m # n+1
    BY <1>1, <1>6, <1>13
  <2>4. {head', tail'} \subseteq Pointer /\ next' \in [Thread -> Pointer]
    BY <1>11, <2>1, <2>2, <2>3
  <2>5. /\ m = 1 => head' = t
        /\ m > 1 => head' = head
        /\ next'[t] = q[m]
        /\ m > 1 => next'[q[m-1]] = t
        /\ \A x \in Thread : x # t /\ (m > 1 => x # q[m-1]) => next'[x] = next[x]
    <3>1. CASE m = 1
      BY <1>11, <2>1, <2>3, <3>1
    <3>2. CASE m # 1
      BY <1>1, <1>11, <2>1, <2>2, <2>3, <3>2
    <3>3. QED
      BY <3>1, <3>2
  <2>6. Spliced(head', tail', next', S, t)
    <3>1. m \in 1..Len(q)+1 /\ m # Len(q)+1 /\ m <= Len(q)
      BY <1>6, <1>13, <2>3
    <3>2. Priority[q[m]] < Priority[t] /\ tail' = tail
      BY <1>9, <1>13, <2>1
    <3>3. QED
      BY <1>8, <2>5, <3>1, <3>2, InsertWhole
  <2>7. QED
    BY <1>7, <2>4, <2>6 DEF Spliced
<1>14. m > n \/ m <= n
  BY <1>1, <1>6
<1>15. QED
  BY <1>12, <1>13, <1>14

\* An interrupt at no exposed access finds the thread outside the insertion and
\* the pop, and the other threads queued.
LEMMA InterruptStep ==
  ASSUME Good, InterruptHandler, ~Exposed(cpu), equiv' = equiv
  PROVE  Good'
<1>1. /\ Running /\ saved' = [saved EXCEPT ![cur] = cpu] /\ InsertWithPriority(cur)
      /\ cur' = SchedulerThread /\ cpu' = Body(Null, 0) /\ exited' = exited
  BY DEF InterruptHandler
<1>2. PICK q \in Seq(Thread) : Resting(q)
  <2>1. CASE cpu.pc \in Outside
    BY <1>1, <2>1, Places
  <2>2. CASE cpu.pc \notin Outside
    <3>1. cpu.pc \in {"setcur", "compare"} /\ cpu.e = Me
      BY <2>2 DEF Exposed, Outside, Me
    <3>2. PICK q \in Seq(Thread) : Resting(q) \/ Leaving(q)
      BY <1>1, <3>1, Places
    <3>3. ~Leaving(q)
      BY <1>1, <3>1, Places DEF Leaving
    <3>4. QED
      BY <3>2, <3>3
  <2>3. QED
    BY <2>1, <2>2
<1>3. /\ cur = Me /\ Me \in Thread /\ Me \in Live /\ Me \notin Others /\ Others \cup {Me} = Live
      /\ Whole(q, Others) /\ Resumable(cpu, Me)
  BY <1>1, <1>2, Places DEF Resting
<1>4. /\ mode' = "scheduler" /\ {head', tail'} \subseteq Pointer
      /\ next' \in [Thread -> Pointer]
      /\ \E p \in Seq(Thread) : Proper(p, Others \cup {Me}) /\ Spells(head', tail', next', p, Null)
  BY <1>1, <1>3, InsertProps
<1>5. Live' = Live
  BY <1>1 DEF Live
<1>6. \E p \in Seq(Thread) : Whole(p, Live)'
  BY <1>3, <1>4, <1>5 DEF Whole, Proper
<1>7. cpu' \in Regs /\ cpu'.th = Null
  BY <1>1, BodyProps DEF Pointer
<1>8. saved' \in [Thread -> Regs] /\ cpu \in Regs
  BY <1>1, <1>3 DEF Good, TypeOK
<1>9. TypeOK'
  BY <1>1, <1>4, <1>7, <1>8 DEF Good, TypeOK
<1>10. SavedInv'
  <2> SUFFICES ASSUME NEW t \in Live
               PROVE  Resumable(saved[t], t)'
    BY <1>5 DEF SavedInv
  <2>1. t \in Thread
    BY DEF Live
  <2>2. Resumable(saved'[t], t)
    <3>1. CASE t = Me
      BY <1>1, <1>3, <2>1, <3>1 DEF Good, TypeOK
    <3>2. CASE t # Me
      <4>1. Resumable(saved[t], t) /\ saved'[t] = saved[t]
        BY <1>1, <1>3, <2>1, <3>2 DEF Good, SavedInv, Me, TypeOK
      <4>2. QED
        BY <4>1
    <3>3. QED
      BY <3>1, <3>2
  <2>3. QED
    BY <1>5, <2>2 DEF Resumable, GaveWay
<1>11. QED
  BY <1>1, <1>4, <1>6, <1>7, <1>9, <1>10 DEF Good, Me

-----------------------------------------------------------------------------
(* The theorems. *)

\* pre_fork has made the run queue a list of all threads.
LEMMA InitGood ==
  ASSUME Init
  PROVE  Good
<1>1. /\ Order \in Seq(Thread) /\ ToSet(Order) = Thread /\ Order # <<>> /\ IsInjective(Order)
      /\ Descending(Order, Priority)
  BY OrderAssumption DEF Descending
<1>2. /\ Len(Order) \in 1..Len(Order) /\ 1 \in 1..Len(Order) /\ DOMAIN Order = 1..Len(Order)
      /\ \A i \in 1..Len(Order) : Order[i] \in Thread
      /\ \A i, j \in 1..Len(Order) : Order[i] = Order[j] => i = j
      /\ \A t \in Thread : \E i \in 1..Len(Order) : Order[i] = t
  <2>1. Len(Order) \in 1..Len(Order) /\ 1 \in 1..Len(Order) /\ DOMAIN Order = 1..Len(Order)
        /\ \A i \in 1..Len(Order) : Order[i] \in Thread
    BY <1>1
  <2>2. QED
    BY <1>1, <2>1 DEF ToSet, IsInjective
<1>3. Live = Thread /\ exited = {}
  BY DEF Init, Live
<1> DEFINE place(t) == CHOOSE i \in 1..Len(Order) : Order[i] = t
<1>4. \A t \in Thread : place(t) \in 1..Len(Order) /\ Order[place(t)] = t
  BY <1>2
<1>5. \A i \in 1..Len(Order) : place(Order[i]) = i
  BY <1>2, <1>4
<1>6. next = [t \in Thread |-> IF t = Order[Len(Order)] THEN Null ELSE Order[1 + place(t)]]
  BY DEF Init
<1> HIDE DEF place
<1>7. \A i \in 1..Len(Order) : next[Order[i]] = IF i = Len(Order) THEN Null ELSE Order[i+1]
  <2> TAKE i \in 1..Len(Order)
  <2>1. next[Order[i]] = IF Order[i] = Order[Len(Order)] THEN Null ELSE Order[1 + i]
    BY <1>2, <1>5, <1>6
  <2>2. Order[i] = Order[Len(Order)] <=> i = Len(Order)
    BY <1>2
  <2>3. 1 + i = i+1
    OBVIOUS
  <2>4. QED
    BY <2>1, <2>2, <2>3
<1>8. Whole(Order, Live)
  BY <1>1, <1>3, <1>7 DEF Whole, Proper, Spells, Init
<1>9. next \in [Thread -> Pointer] /\ {head, tail} \subseteq Pointer
  <2>1. ASSUME NEW t \in Thread, t # Order[Len(Order)]
        PROVE  Order[1 + place(t)] \in Thread
    <3>1. place(t) \in 1..Len(Order) /\ place(t) # Len(Order)
      BY <1>4, <2>1
    <3>2. 1 + place(t) \in 1..Len(Order)
      BY <1>1, <3>1
    <3>3. QED
      BY <1>2, <3>2
  <2>2. next \in [Thread -> Pointer]
    BY <1>6, <2>1 DEF Pointer
  <2>3. QED
    BY <1>2, <2>2 DEF Init, Pointer
<1>10. \A t \in Pointer : Body(t, 0) \in Regs
  BY BodyProps
<1>11. TypeOK
  BY <1>3, <1>9, <1>10, BoundAssumption DEF Init, TypeOK, Pointer
<1>12. SavedInv
  <2>1. \A t \in Thread : Resumable(saved[t], t)
    BY DEF Init, Resumable, Body, Outside
  <2>2. QED
    BY <1>3, <2>1 DEF SavedInv
<1>13. cur = SchedulerThread /\ Me = Null /\ mode = "scheduler"
  BY DEF Init, Me, Body
<1>14. QED
  BY <1>1, <1>8, <1>11, <1>12, <1>13 DEF Good

\* Every access of a yield, the scheduler, the timer interrupt and the system
\* call of exit keep the inductive invariant.
LEMMA InvariantStep ==
  ASSUME YieldInv, [Next]_vars
  PROVE  YieldInv'
<1> SUFFICES ASSUME ~hit' PROVE Good'
  BY DEF YieldInv
<1>1. CASE UNCHANGED vars
  <2>1. /\ UNCHANGED <<equiv, head, tail, next, cur, saved, cpu, mode, exited, hit>>
        /\ UNCHANGED <<Live, Me, Others>>
    BY <1>1 DEF vars, Live, Me, Others
  <2>2. Good
    BY <2>1 DEF YieldInv
  <2>3. TypeOK'
    BY <2>1, <2>2 DEF Good, TypeOK
  <2>4. SavedInv'
    BY <2>1, <2>2 DEF Good, SavedInv, Resumable, GaveWay
  <2>5. ASSUME NEW S, NEW q
        PROVE  Whole(q, S)' = Whole(q, S)
    BY <2>1 DEF Whole, Spells, Proper
  <2>6. Stage => Stage'
    <3> SUFFICES ASSUME NEW q \in Seq(Thread),
                   \/ Resting(q) \/ Scanning(q) \/ Linking(q) \/ Appending(q) \/ Appended(q)
                   \/ Popping(q) \/ Popped \/ Leaving(q)
                 PROVE  Stage'
      BY DEF Stage
    <3>1. Resting(q) => Resting(q)'
      BY <2>1, <2>5 DEF Resting, Resumable, GaveWay
    <3>2. Scanning(q) => Scanning(q)'
      BY <2>1, <2>5 DEF Scanning, ScanAt
    <3>3. Linking(q) => Linking(q)'
      BY <2>1 DEF Linking, Proper, Behind
    <3>4. Appending(q) => Appending(q)'
      BY <2>1, <2>5 DEF Appending
    <3>5. Appended(q) => Appended(q)'
      BY <2>1 DEF Appended, Proper, Behind
    <3>6. Popping(q) => Popping(q)'
      BY <2>1, <2>5 DEF Popping, Behind
    <3>7. Popped => Popped'
      BY <2>1 DEF Popped
    <3>8. Leaving(q) => Leaving(q)'
      BY <2>1, <2>5 DEF Leaving, Top
    <3>9. QED
      BY <3>1, <3>2, <3>3, <3>4, <3>5, <3>6, <3>7, <3>8 DEF Stage
  <2>7. Top(Me) => Top(Me)'
    BY <2>1 DEF Top
  <2>8. (\E q \in Seq(Thread) : Whole(q, Live)) => \E q \in Seq(Thread) : Whole(q, Live)'
    BY <2>1, <2>5
  <2>9. QED
    BY <2>1, <2>2, <2>3, <2>4, <2>6, <2>7, <2>8 DEF Good
<1>2. CASE Next /\ ~UNCHANGED vars
  <2>1. equiv' = equiv /\ ~hit
    <3>1. Insert => ~hit
      BY DEF Insert, Call, Empty, EmptyTail, First, Scan, LinkPrevious, Link, EndOfScan,
        AppendClear, AppendTail, AppendFirstStore, AppendSecondStore, At, history
    <3>2. Pop => ~hit
      BY DEF Pop, Old, PopElement, PopEmpty, PopNext, PopStoreHead, PopClearTail, SetCur,
        At, history
    <3>3. Scheduler \/ Return \/ Differ \/ Switch \/ Exit => ~hit
      BY DEF Scheduler, Return, Differ, Switch, Exit, At, history
    <3>4. InterruptHandler => ~hit
      BY DEF InterruptHandler
    <3>5. QED
      BY <1>2, <3>1, <3>2, <3>3, <3>4 DEF Next, Stopped
  <2>2. Good
    BY <2>1 DEF YieldInv
  <2>3. CASE Scheduler
    BY <2>1, <2>2, <2>3, SchedulerStep
  <2>4. CASE InterruptHandler
    <3>1. ~Exposed(cpu)
      BY <2>4 DEF InterruptHandler
    <3>2. QED
      BY <2>1, <2>2, <2>4, <3>1, InterruptStep
  <2>5. CASE Insert
    BY <2>1, <2>2, <2>5, CallStep, EmptyStep, EmptyTailStep, FirstStep, ScanStep,
      LinkPreviousStep, LinkStep, EndOfScanStep, AppendClearStep, AppendTailStep,
      AppendFirstStep, AppendSecondStep DEF Insert
  <2>6. CASE Pop
    BY <2>1, <2>2, <2>6, OldStep, PopElementStep, PopEmptyStep, PopNextStep,
      PopStoreHeadStep, PopClearStep, SetCurStep DEF Pop
  <2>7. CASE Return
    BY <2>1, <2>2, <2>7, ReturnStep
  <2>8. CASE Differ
    BY <2>1, <2>2, <2>8, DifferStep
  <2>9. CASE Switch
    BY <2>1, <2>2, <2>9, SwitchStep
  <2>10. CASE Exit
    BY <2>1, <2>2, <2>10, ExitStep
  <2>11. QED
    BY <1>2, <2>3, <2>4, <2>5, <2>6, <2>7, <2>8, <2>9, <2>10 DEF Next, Stopped
<1>3. QED
  BY <1>1, <1>2

\* Until an interrupt comes at an exposed access, each place in pre_yield finds
\* the run queue, cur_thread, the registers and the saved registers as the
\* stores before it left them.
THEOREM YieldInvariant == Spec => []YieldInv
<1>1. Init => YieldInv
  BY InitGood DEF YieldInv
<1>2. YieldInv /\ [Next]_vars => YieldInv'
  BY InvariantStep
<1>3. QED
  BY <1>1, <1>2, PTL DEF Spec

\* eq_insert_with_priority and eq_pop as called by pre_yield, the handler and
\* the scheduler keep every waiting thread in the run queue once, in order.
THEOREM QueueStaysWhole == Spec => []QueueWholeUntilHit
<1>1. ASSUME NEW S, NEW q \in Seq(Thread), Whole(q, S), S = Live \ {cur}
      PROVE  \E p \in SetToSeqs(Live \ {cur}) :
               /\ Represents(p)
               /\ \A i, j \in 1..Len(p) : i < j => Priority[p[i]] >= Priority[p[j]]
  <2>1. /\ IsInjective(q) /\ ToSet(q) = S /\ Descending(q, Priority)
        /\ Spells(head, tail, next, q, Null)
    BY <1>1 DEF Whole, Proper
  <2>2. Cardinality(S) = Len(q) /\ q \in [1..Len(q) -> S]
    BY <2>1, DistinctCount
  <2>3. \A i, j \in 1..Len(q) : i # j => q[i] # q[j]
    BY <2>1, <2>2 DEF IsInjective
  <2>4. q \in SetToSeqs(S)
    BY <2>2, <2>3 DEF SetToSeqs, IsInjective
  <2>5. Represents(q)
    BY <2>1 DEF Represents, Spells
  <2>6. QED
    BY <1>1, <2>1, <2>4, <2>5 DEF Descending
<1>2. YieldInv => QueueWholeUntilHit
  <2> SUFFICES ASSUME Good, ~InYield, mode # "undefined"
               PROVE  \E q \in SetToSeqs(Live \ {cur}) :
                        /\ Represents(q)
                        /\ \A i, j \in 1..Len(q) : i < j => Priority[q[i]] >= Priority[q[j]]
    BY DEF YieldInv, QueueWholeUntilHit
  <2>1. CASE mode = "user"
    <3>1. Running /\ cpu.pc = "body"
      BY <2>1 DEF InYield, Running
    <3>2. PICK q \in Seq(Thread) : Resting(q)
      BY <3>1, Places DEF Outside
    <3>3. Whole(q, Others) /\ Others = Live \ {cur}
      BY <3>2 DEF Resting, Others
    <3>4. QED
      BY <1>1, <3>3
  <2>2. CASE mode = "scheduler"
    <3>1. cur = SchedulerThread /\ \E q \in Seq(Thread) : Whole(q, Live)
      BY <2>2 DEF Good
    <3>2. Live = Live \ {cur}
      BY <3>1, PointerAssumption DEF Live
    <3>3. QED
      BY <1>1, <3>1, <3>2
  <2>3. CASE mode = "main"
    <3>1. Live = {} /\ head = Null /\ tail = Null
      BY <2>3 DEF Good
    <3>2. <<>> \in Seq(Thread) /\ Len(<<>>) = 0 /\ ToSet(<<>>) = {}
      BY DEF ToSet
    <3>3. Whole(<<>>, {})
      BY <3>1, <3>2 DEF Whole, Proper, Spells, IsInjective, Descending
    <3>4. QED
      BY <1>1, <3>1, <3>2, <3>3
  <2>4. QED
    BY <2>1, <2>2, <2>3 DEF Good
<1>3. QED
  BY <1>2, YieldInvariant, PTL

\* No demand or assertion of the queue fails and no scan of it runs in a
\* circle before such an interrupt.
THEOREM DemandsHold == Spec => []StopsOnlyAfterHit
<1>1. YieldInv => StopsOnlyAfterHit
  BY DEF YieldInv, Good, StopsOnlyAfterHit
<1>2. QED
  BY <1>1, YieldInvariant, PTL

\* A thread in its own code is cur_thread and one of the highest priority.
THEOREM RunsTheRightThread == Spec => []RightThreadRuns
<1>1. YieldInv => RightThreadRuns
  <2> SUFFICES ASSUME Good, Running, ~InYield
               PROVE  cpu.th = cur /\ \A u \in Live : Priority[u] <= Priority[cur]
    BY DEF YieldInv, RightThreadRuns
  <2>1. cpu.pc = "body" /\ Top(Me)
    BY Places DEF InYield
  <2>2. PICK q \in Seq(Thread) : Resting(q)
    BY <2>1, Places DEF Outside
  <2>3. QED
    BY <2>1, <2>2 DEF Resting, Top, Me
<1>2. QED
  BY <1>1, YieldInvariant, PTL

\* pre_yield returns at once only to a thread all others rank below: it inserts
\* its thread behind its equals before it takes the head.
THEOREM YieldsGiveWay == Spec => YieldGivesWay
<1>1. YieldInv /\ [Next]_vars =>
        [Return /\ ~hit => \A u \in Live \ {cpu.th} : Priority[u] < Priority[cpu.th]]_vars
  <2> SUFFICES ASSUME Good, Return
               PROVE  \A u \in Live \ {cpu.th} : Priority[u] < Priority[cpu.th]
    BY DEF YieldInv
  <2>1. GaveWay(Me)
    BY ReturnProps
  <2>2. QED
    BY <2>1 DEF GaveWay, Me
<1>2. QED
  BY <1>1, YieldInvariant, PTL DEF Spec, YieldGivesWay
=================================================================================
