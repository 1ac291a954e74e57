--------------------------------- MODULE Gpio ---------------------------------
(***************************************************************************)
(* gpio.c.  The registers are words of Words; GET32 and PUT32 are single   *)
(* accesses, so a preemption may fall between the load of a function       *)
(* select register and its store.                                          *)
(***************************************************************************)
EXTENDS Words

CONSTANTS GpioThreads,  \* the threads that use pins
          GpioPins,     \* the pins they use
          GpioFuncs,    \* the functions they ask for
          GpioMax       \* bound on calls

ASSUME PinsAreUnsigned == GpioPins \subseteq Nat

VARIABLES fsel,         \* fsel[0 .. 4]: the function select registers, three bits per pin
          latch,        \* latch[0 .. 1]: the output latches behind set and clr
          setting,      \* setting[t]: the call t is in, with the register's value it loaded
          want,         \* want[pin]: the function last set
          lost,         \* pins set while another call had already loaded their register
          level,        \* level[pin]: what was last written to it
          gcalls

gpiovars == <<fsel, latch, setting, want, lost, level, gcalls>>

PinNumbers == 0 .. 49
GPIO_FUNC_INPUT == 0
GPIO_FUNC_OUTPUT == 1
GPIO_FUNC_ALT0 == 4

NoCall == [pin |-> 0, function |-> 0, val |-> {}, active |-> FALSE, during |-> {}]

\* The functions as the bits of a field.
FuncBits == [f \in 0 .. 7 |-> ToWord(f)]

Bank(pin) == pin \div 10
Shift(pin) == 3 * (pin % 10)
Field(regs, pin) == bits_get(regs[Bank(pin)], Shift(pin), Shift(pin) + 2)

GpioInit ==
  /\ fsel = [r \in 0 .. 4 |-> {}] /\ latch = [b \in 0 .. 1 |-> {}]
  /\ setting = [t \in GpioThreads |-> NoCall]
  /\ want = [p \in PinNumbers |-> GPIO_FUNC_INPUT] /\ lost = {}
  /\ level = [p \in PinNumbers |-> 0]
  /\ gcalls = 0

\* gpio_set_function returns without an access for any other pin or function.
Supported(pin) == pin < 32 \/ pin = 47
Accepted(pin, function) == function \in 0 .. 7 /\ Supported(pin)

GetFsel(t, pin, function) ==
  /\ ~setting[t].active
  /\ setting' = [setting EXCEPT ![t] = [pin |-> pin, function |-> function, val |-> fsel[Bank(pin)],
                                        active |-> TRUE, during |-> {}]]

\* Wrong: the pin's old function is not cleared.
FselOred(s) == s.val \cup Shl(FuncBits[s.function], Shift(s.pin))

NewFsel(s) == bits_clr(s.val, Shift(s.pin), Shift(s.pin) + 2) \cup Shl(FuncBits[s.function], Shift(s.pin))

\* Other calls of this register have loaded it already: what is set now they
\* will set back.
PutFsel(t) ==
  LET s == setting[t]
      same == {p \in s.during : Bank(p) = Bank(s.pin)}
  IN  /\ s.active
      /\ fsel' = [fsel EXCEPT ![Bank(s.pin)] = NewFsel(s)]
      /\ setting' = [u \in GpioThreads |->
                       IF u = t THEN NoCall
                       ELSE [setting[u] EXCEPT !.during = IF setting[u].active THEN @ \cup {s.pin} ELSE @]]
      /\ want' = [want EXCEPT ![s.pin] = s.function]
      /\ lost' = (lost \cup same) \ {s.pin}

\* gpio_set_input and gpio_set_output are the calls with functions 0 and 1.
GpioSetFunction(t) ==
  /\ gcalls < GpioMax /\ gcalls' = gcalls + 1
  /\ \E pin \in GpioPins, f \in GpioFuncs :
       IF Accepted(pin, f) THEN GetFsel(t, pin, f) ELSE ~setting[t].active /\ UNCHANGED setting
  /\ UNCHANGED <<fsel, latch, want, lost, level>>

GpioStore(t) == PutFsel(t) /\ UNCHANGED <<latch, level, gcalls>>

\* A one in set or clr changes its own pin only.
SetOn(pin) == IF pin = 47 THEN [latch EXCEPT ![1] = bit_set(@, pin - 32)]
              ELSE IF pin < 32 THEN [latch EXCEPT ![0] = bit_set(@, pin)] ELSE latch
SetOff(pin) == IF pin = 47 THEN [latch EXCEPT ![1] = bit_clr(@, pin - 32)]
               ELSE IF pin < 32 THEN [latch EXCEPT ![0] = bit_clr(@, pin)] ELSE latch

GpioWrite(t) ==
  /\ ~setting[t].active
  /\ gcalls < GpioMax /\ gcalls' = gcalls + 1
  /\ \E pin \in GpioPins, v \in 0 .. 1 :
       /\ latch' = IF v = 1 THEN SetOn(pin) ELSE SetOff(pin)
       /\ level' = IF Supported(pin) THEN [level EXCEPT ![pin] = v] ELSE level
  /\ UNCHANGED <<fsel, setting, want, lost>>

\* gpio_read of a pin that is an output: the level is the latch.
GpioRead(pin) == IF pin >= 32 THEN -1 ELSE IF bit_is_on(latch[0], pin) THEN 1 ELSE 0

GpioNext == \E t \in GpioThreads : GpioSetFunction(t) \/ GpioStore(t) \/ GpioWrite(t)

GpioSpec == GpioInit /\ [][GpioNext]_gpiovars
-----------------------------------------------------------------------------
\* "Settings for other pins should be unchanged" (gpio.h:23-24): every pin has
\* the function last set for it, unless that was set while another thread was
\* between the load and the store of the same register (gpio.c:189-222).  An
\* output reads as what was last written to it, whatever was written to other
\* pins.
PinsKept ==
  /\ \A p \in PinNumbers \ lost : Field(fsel, p) = FuncBits[want[p]]
  /\ \A p \in PinNumbers : p < 32 => GpioRead(p) = level[p]
=============================================================================
