------------------------------ MODULE MCLibrary ------------------------------
(***************************************************************************)
(* The modules of libpi's code that drives no hardware, and the spin lock, *)
(* checked in one run.  They share no state: unit says which of them moves *)
(* in a behaviour, so that the state spaces add up instead of multiplying. *)
(***************************************************************************)
EXTENDS MCRandom, Checksums, Strings, Format, DropQueue, Containers, CircularQueue, SpinLock, TLC

CONSTANTS e1, e2, e3, null, \* elements of a list
          t1, t2, t3, t4    \* threads

VARIABLE unit

MCMessages ==
  {[i \in DOMAIN s |-> ToWord(s[i])] :
     s \in {<<49, 50, 51, 52, 53, 54, 55, 56, 57>>, <<255, 0, 128, 1>>, <<0, 0, 0, 0>>,
            <<7, 250, 3>>, <<200, 3, 9, 1, 200, 199>>, <<1>>}}

\* Strings of lengths 0 to 4 that begin alike, two of them one behind the other.
MCMemories == {[i \in 0 .. 23 |-> IF i < 12 THEN <<1, 2, 0, 1, 2, 1, 0, 1, 2, 0, 2, 0>>[i + 1] ELSE i]}

Num(conv, n) == [conv |-> conv, num |-> n]
Str(conv, s) == [conv |-> conv, str |-> s]
Llx(hi, lo) == [conv |-> "llx", hi |-> hi, lo |-> lo]

MCFormats ==
  {<<i>> : i \in {Num("u", 255), Num("d", 128), Num("d", 127), Num("x", 0), Num("b", 5),
                  Num("p", 171), Llx(1, 10), Llx(0, 10), Llx(2, 171), Str("s", <<>>)}}
  \cup {<<Str("text", <<"a", "b">>), Num("u", 10)>>,
        <<Str("text", <<"a">>), Str("c", <<"z">>)>>,
        <<Str("text", <<"a">>), Str("bogus", <<>>)>>}

\* t1, t2 and t3 are equals, t4 outranks them.
Ranks == [t \in Thread |-> IF t = t4 THEN 2 ELSE 1]

\* task1 of priority-test-3.c increments, task2 decrements.
UpAndDown == [t \in Thread |-> IF t = t2 THEN -1 ELSE 1]

-----------------------------------------------------------------------------
Units == {"random", "sums", "strings", "format", "drop", "links", "arrays", "circular", "lock"}

\* A module with several initial states has them in its own unit only.
LibInit ==
  /\ unit \in Units
  /\ RandomInit /\ (unit # "random" => gen.state = a)
  /\ SumsInit /\ StringsInit /\ FormatInit /\ DropInit /\ ContainersInit
  /\ Init        \* CircularQueue's
  /\ LockInit

purevars == <<rvars, hvars, mvars, fvars, qvars, cvars>>
libvars == <<unit, purevars, vars, lockvars>>

Pure ==
  /\ UNCHANGED <<unit, vars, lockvars>>
  /\ \/ unit = "random" /\ RandomNext /\ UNCHANGED <<hvars, mvars, fvars, qvars, cvars>>
     \/ unit = "sums" /\ SumsNext /\ UNCHANGED <<rvars, mvars, fvars, qvars, cvars>>
     \/ unit = "strings" /\ StringsNext /\ UNCHANGED <<rvars, hvars, fvars, qvars, cvars>>
     \/ unit = "format" /\ FormatNext /\ UNCHANGED <<rvars, hvars, mvars, qvars, cvars>>
     \/ unit = "drop" /\ DropNext /\ UNCHANGED <<rvars, hvars, mvars, fvars, cvars>>
     \/ unit = "links" /\ LinkNext /\ UNCHANGED <<rvars, hvars, mvars, fvars, qvars>>
     \/ unit = "arrays" /\ ArrayNext /\ UNCHANGED <<rvars, hvars, mvars, fvars, qvars>>

\* An action of one side of the circular queue, and of a thread under the lock.
OnQueue(A) == unit = "circular" /\ A /\ UNCHANGED <<unit, purevars, lockvars>>
OnLock(A) == unit = "lock" /\ A /\ UNCHANGED <<unit, purevars, vars>>

LibNext == Pure \/ OnQueue(Next) \/ OnLock(LockNext)

\* What FairSpec and LockFairSpec ask for.
LibFairness ==
  /\ WF_libvars(OnQueue(Producer)) /\ WF_libvars(OnQueue(NoPanic /\ ConsumerStep))
  /\ \A t \in Thread : WF_libvars(OnLock(Step(t)))

LibSpec == LibInit /\ [][LibNext]_libvars /\ LibFairness
=============================================================================
