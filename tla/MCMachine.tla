------------------------------ MODULE MCMachine ------------------------------
(***************************************************************************)
(* The modules of the code that drives hardware, and the linked queue, in  *)
(* one run, with one of them moving in a behaviour.                        *)
(***************************************************************************)
EXTENDS I2c, Time, MiniStep, Mmu, Exceptions, EqQueue, TLC

CONSTANTS drv, other,
          e1, e2, e3, e4

VARIABLE unit

MCFlow == (4 :> {8}) @@ (8 :> {4, 8, 12, 200}) @@ (12 :> {100})

\* Two elements of the same priority.
Ranks == e1 :> 1 @@ e2 :> 1 @@ e3 :> 2 @@ e4 :> 0

MachineInit ==
  /\ unit \in {"gpio", "bus", "timeout", "delay", "watchdog", "step", "mmu", "except", "queue"}
  /\ GpioInit /\ I2cInit /\ TimeInit
  /\ MiniStepInit /\ (unit # "step" => dscr = {} /\ bcr0 = {})
  /\ MmuInit /\ (unit # "mmu" => ttbr = 1)
  /\ ExceptionsInit /\ (unit # "except" => enabled = {})
  /\ Init        \* EqQueue's

gpiounit == unit = "gpio" /\ GpioNext /\ UNCHANGED <<unit, busvars, tvars, msvars, mmuvars, exvars, vars>>

\* A step of the bus, or of a thread that sets pin 1 once meanwhile: its
\* function select register is the one of the bus's pins.
OnBus(A) == unit = "bus" /\ A /\ UNCHANGED <<unit, tvars, msvars, mmuvars, exvars, vars>>
Drive == OnBus(DriverNext)
Control == OnBus(ControllerNext)
OtherPin == OnBus(/\ gcalls = 0 \/ setting[other].active
                  /\ GpioSetFunction(other) \/ GpioStore(other)
                  /\ setting'[other].pin \in {0, 1}     \* 0: no call
                  /\ UNCHANGED busvars)

OnTime(u, A) == unit = u /\ A /\ UNCHANGED <<unit, gpiovars, busvars, msvars, mmuvars, exvars, vars>>

\* An operation of the linked queue, or a turn of its loop.
OnQueue(A) ==
  unit = "queue" /\ A /\ UNCHANGED <<unit, gpiovars, busvars, tvars, msvars, mmuvars, exvars>>

Other ==
  /\ UNCHANGED <<unit, gpiovars, busvars, tvars, vars>>
  /\ \/ unit = "step" /\ MiniStepNext /\ UNCHANGED <<mmuvars, exvars>>
     \/ unit = "mmu" /\ MmuNext /\ UNCHANGED <<msvars, exvars>>
     \/ unit = "except" /\ ExceptionsNext /\ UNCHANGED <<msvars, mmuvars>>

MachineNext ==
  \/ gpiounit \/ Drive \/ Control \/ OtherPin
  \/ OnTime("timeout", Advance \/ TimeoutNext)
  \/ OnTime("delay", Advance \/ DelayNext)
  \/ OnTime("watchdog", Advance \/ WatchdogCall)
  \/ Other
  \/ OnQueue(Next)

machinevars == <<unit, gpiovars, busvars, tvars, msvars, mmuvars, exvars, vars>>

\* The driver's loops and the controller go on, and the loop over the queue,
\* as FairSpec asks.
Fairness == WF_machinevars(Drive) /\ WF_machinevars(Control) /\ WF_machinevars(OnQueue(Scan))

MachineSpec == MachineInit /\ [][MachineNext]_machinevars /\ Fairness
=============================================================================
