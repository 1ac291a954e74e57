---------------------------------- MODULE I2c ----------------------------------
(***************************************************************************)
(* i2c.c and the controller it drives.  The status register is a set of    *)
(* bit positions; every read of it in the code is a read of its own where  *)
(* the controller may change it in between.  The controller and the device *)
(* are external: they do what the driver's waits and comments expect.      *)
(***************************************************************************)
EXTENDS Gpio, SequencesExt

CONSTANTS Driver,      \* the thread that uses the bus
          FifoSize,    \* bytes the controller buffers (16)
          Lengths,     \* nbytes of the calls
          Transfers    \* bound on calls

ASSUME LengthsAreNumbers == Lengths \subseteq Nat

VARIABLES step,        \* where the driver is
          function,    \* the function it runs: "read" or "write"
          nbytes,      \* bytes still to be moved by the loop
          moved,       \* the bytes it moved: read from or written to the FIFO
          seen,        \* what the poll for the start has read of TA and DONE
          control, dlen,
          flags,       \* status bits that are stored: TA, DONE, ERR, CLKT
          fifo,
          engine,      \* the controller: "off", "idle", "begin", "address", "bytes"
          device,      \* bytes the device sent or got in this transfer
          sent,        \* bytes of all transfers, numbered so that each is different
          whole,       \* a whole round of the poll fell within this transfer
          transfers

busvars == <<step, function, nbytes, moved, seen, control, dlen, flags, fifo, engine, device, sent, whole, transfers>>
drivervars == <<step, function, nbytes, moved, seen, transfers>>
controllervars == <<flags, engine, device>>

\* Bits of the status register, and of the control register.
TA == 0
DONE == 1
TXD == 4
RXD == 5
TXE == 6
ERR == 8
CLKT == 9
READ == 0
ST == 7
I2CEN == 15

\* The status register as it reads now.
Status == flags \cup (IF fifo = <<>> THEN {TXE} ELSE {RXD})
                \cup (IF Len(fifo) < FifoSize THEN {TXD} ELSE {})

I2cInit ==
  /\ step = "off" /\ function = "read" /\ nbytes = 0 /\ moved = <<>> /\ seen = [b \in {} |-> {}]
  /\ control = {} /\ dlen = 0 /\ flags = {} /\ fifo = <<>>
  /\ engine = "off" /\ device = <<>> /\ sent = 0 /\ whole = FALSE
  /\ transfers = 0

Step(from, to) == step = from /\ step' = to

-----------------------------------------------------------------------------
(* i2c_init.                                                               *)

\* gpio_set_function(2, alt0), then 3.
InitPin(pin, from, to) ==
  \/ /\ Step(from, from) /\ ~setting[Driver].active /\ GetFsel(Driver, pin, GPIO_FUNC_ALT0)
     /\ UNCHANGED <<fsel, want, lost>>
  \/ /\ Step(from, to) /\ PutFsel(Driver)

\* The controller is enabled and its FIFO cleared; status = 0 clears nothing,
\* since its bits are cleared by ones.
InitController ==
  /\ Step("control", "ready")
  /\ control' = {I2CEN} /\ fifo' = <<>> /\ engine' = "idle"
  /\ UNCHANGED <<fsel, setting, want, lost, flags>>

I2c_init ==
  /\ \/ Step("off", "pin2") /\ UNCHANGED <<fsel, setting, want, lost, control, fifo, engine, flags>>
     \/ InitPin(2, "pin2", "pin3") /\ UNCHANGED <<control, fifo, engine, flags>>
     \/ InitPin(3, "pin3", "control") /\ UNCHANGED <<control, fifo, engine, flags>>
     \/ InitController
  /\ UNCHANGED <<function, nbytes, moved, seen, dlen, device, sent, whole, transfers, latch, level, gcalls>>

-----------------------------------------------------------------------------
(* i2c_read and i2c_write.                                                 *)

\* Wait until no transfer is active, and until the FIFO is empty.
Call ==
  /\ transfers < Transfers /\ transfers' = transfers + 1
  /\ \E rd \in BOOLEAN, n \in Lengths :
       /\ step = "ready" /\ step' = "launch"
       /\ function' = IF rd THEN "read" ELSE "write"
       /\ nbytes' = n
  /\ moved' = <<>> /\ device' = <<>> /\ whole' = FALSE
  /\ UNCHANGED <<seen, control, dlen, flags, fifo, engine, sent, gpiovars>>

\* Wrong: the bits are not written back; READ stays as the last call left it.
DoneKept == flags
WriteKeepsRead == control \cup {ST}

\* status |= DONE writes back every bit it read, which clears them.
ClearDone == flags \ ({DONE} \cup (flags \cap {ERR, CLKT}))
WriteControl == (control \cup {ST}) \ {READ}
ReadControl == control \cup {ST, READ}

\* No transfer is active, so nothing changes between the test of the errors
\* and the store that starts the transfer.
Launch ==
  /\ step = "launch"
  /\ TA \notin Status /\ TXE \in Status
  /\ IF {ERR, CLKT} \cap Status = {}
     THEN /\ flags' = ClearDone
          /\ dlen' = nbytes
          /\ control' = (IF function = "read" THEN ReadControl ELSE WriteControl) \ {ST}
          /\ engine' = "begin"
          /\ step' = "poll" /\ seen' = [b \in {} |-> {}]
     ELSE step' = "panic" /\ UNCHANGED <<flags, dlen, control, engine, seen>>
  /\ UNCHANGED <<function, nbytes, moved, fifo, device, sent, whole, transfers, gpiovars>>

\* The first operand of ^ is 0 whatever the bits are (the & of 0 or 1 with 0
\* or 2), so the poll ends when one read has TA and another lacks DONE; their
\* order is not defined.
Poll ==
  /\ step = "poll"
  /\ IF DOMAIN seen = {TA, DONE}
     THEN /\ step' = IF TA \in seen[TA] /\ ~(DONE \in seen[DONE]) THEN "data" ELSE "poll"
          /\ seen' = [b \in {} |-> {}]
     ELSE /\ \E b \in {TA, DONE} \ DOMAIN seen :
               seen' = [c \in DOMAIN seen \cup {b} |-> IF c = b THEN Status ELSE seen[c]]
          /\ UNCHANGED step
  /\ whole' = (whole \/ \A c \in {TA, DONE} : c \in DOMAIN seen' /\ TA \in seen'[c])
  /\ UNCHANGED <<function, nbytes, moved, control, dlen, flags, fifo, engine, device, sent, transfers, gpiovars>>

\* The loop over the bytes: one from the FIFO, or one into it.
GetByte ==
  /\ function = "read" /\ RXD \in Status
  /\ moved' = Append(moved, Head(fifo)) /\ fifo' = Tail(fifo)
  /\ UNCHANGED sent

PutByte ==
  /\ function = "write" /\ TXD \in Status
  /\ moved' = Append(moved, sent) /\ fifo' = Append(fifo, sent)
  /\ sent' = sent + 1

MoveByte ==
  /\ step = "data" /\ nbytes > 0
  /\ nbytes' = nbytes - 1
  /\ GetByte \/ PutByte
  /\ UNCHANGED <<step, function, seen, control, dlen, flags, engine, device, whole, transfers, gpiovars>>

\* DONE, and then the four bits; a transfer that is done stays so.
Finish ==
  /\ step = "data" /\ nbytes = 0
  /\ DONE \in Status
  /\ step' = IF {TA, ERR, CLKT} \cap Status = {} THEN "ready" ELSE "panic"
  /\ UNCHANGED <<function, nbytes, moved, seen, control, dlen, flags, fifo, engine, device, sent, whole, transfers, gpiovars>>

DriverNext == I2c_init \/ Call \/ Launch \/ Poll \/ MoveByte \/ Finish

-----------------------------------------------------------------------------
(* The controller.                                                         *)

Reading == READ \in control

End(errors) == /\ engine' = "idle"
               /\ flags' = (flags \ {TA}) \cup {DONE} \cup errors

BeginTransfer == /\ engine = "begin" /\ engine' = "address"
                 /\ flags' = flags \cup {TA}
                 /\ UNCHANGED <<fifo, device, sent>>

\* The device acknowledges its address or not; without its pins the bus is dead.
Address == /\ engine = "address"
           /\ \/ /\ \A p \in {2, 3} : Field(fsel, p) = FuncBits[GPIO_FUNC_ALT0]
                 /\ engine' = "bytes" /\ UNCHANGED flags
              \/ \E e \in {ERR, CLKT} : End({e})
           /\ UNCHANGED <<fifo, device, sent>>

TransferByte ==
  /\ engine = "bytes" /\ Len(device) < dlen
  /\ IF Reading
     THEN /\ Len(fifo) < FifoSize
          /\ fifo' = Append(fifo, sent) /\ device' = Append(device, sent) /\ sent' = sent + 1
     ELSE /\ fifo # <<>>
          /\ device' = Append(device, Head(fifo)) /\ fifo' = Tail(fifo)
          /\ UNCHANGED sent
  /\ UNCHANGED <<engine, flags>>

EndTransfer == /\ engine = "bytes" /\ Len(device) = dlen
               /\ End({})
               /\ UNCHANGED <<fifo, device, sent>>

ControllerNext ==
  /\ BeginTransfer \/ Address \/ TransferByte \/ EndTransfer
  /\ UNCHANGED <<step, function, nbytes, moved, seen, control, dlen, whole, transfers, gpiovars>>

I2cNext == DriverNext \/ ControllerNext

\* Other threads use their pins meanwhile.
OtherPins ==
  /\ \E t \in GpioThreads \ {Driver} : GpioSetFunction(t) \/ GpioStore(t) \/ GpioWrite(t)
  /\ UNCHANGED busvars

I2cSpec == GpioInit /\ I2cInit /\ [][I2cNext \/ OtherPins]_<<busvars, gpiovars>>
-----------------------------------------------------------------------------
InTransfer == step \in {"launch", "poll", "data"}

\* A call that returns has moved exactly the device's bytes, in order, and
\* left nothing in the FIFO, in each direction and whatever a call before it
\* left in the status and control registers; it panics only if the device or
\* the bus failed (i2c.c:118-126, 195-204).
TransferExact ==
  /\ step = "ready" /\ transfers > 0 => moved = device /\ Len(device) = dlen /\ fifo = <<>>
  /\ step = "panic" => {ERR, CLKT} \cap flags # {}

\* The calls that never come back.  The transfer is over before a round of the
\* poll fell into it (i2c.c:93, 170): the device answered a read that fits the
\* FIFO, or did not answer, or nbytes is 0.  Or it failed with bytes still to
\* move, which the loop waits to move (i2c.c:102, 180).
MissedStart ==
  /\ step = "poll" /\ TA \notin flags /\ DONE \in flags /\ ~whole
  /\ \/ {ERR, CLKT} \cap flags # {}
     \/ dlen = 0
     \/ function = "read" /\ dlen <= FifoSize
Unanswered == step = "data" /\ nbytes > 0 /\ {ERR, CLKT} \cap flags # {}

\* Every other call returns or panics.
TransferEnds == InTransfer ~> (~InTransfer \/ MissedStart \/ Unanswered)
=============================================================================
