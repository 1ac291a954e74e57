---------------------------------- MODULE Time ----------------------------------
(***************************************************************************)
(* timer.c, timeout.h, watchdog.c and rpi_reboot: what the program makes   *)
(* of a microsecond counter of one word that wraps around.  The word and   *)
(* the factors are scaled down: in the code TimeWord is 2^32, Thousand     *)
(* 1000, Tick 16 and WdogMask 2^24.                                        *)
(***************************************************************************)
EXTENDS Integers

CONSTANTS TimeWord, Thousand, Tick,
          WdogMask,   \* the numbers of ticks that the mask 0xffffff lets through
          WdogWidth,  \* those that the hardware's counter has: 2^20, external
          Waits,      \* arguments of delays, timeouts and the watchdog
          Passing,    \* how far the time may advance between two steps
          TimeMax     \* bound on the time

\* How long the watchdog can count.
WdogSpan == WdogWidth * Tick

\* Word, mask and counter are powers of two, each narrower than the one before.
ASSUME TimeConstants ==
  /\ TimeWord \in Nat \ {0} /\ Thousand \in Nat /\ Tick \in Nat \ {0}
  /\ WdogMask \in Nat \ {0} /\ WdogWidth \in Nat \ {0, 1}
  /\ WdogMask % WdogWidth = 0 /\ TimeWord % WdogSpan = 0
  /\ Waits \subseteq Nat /\ Passing \subseteq Nat

VARIABLES now,        \* the time; the counter shows it modulo TimeWord
          timeout,    \* timeout_t, with the times of its start and of the last check, and how many
                      \* whole wraps of the counter have passed between two checks
          expired,    \* the last timeout_usec: its limit, and what it returned
          delay,      \* the delay in progress
          wdog,       \* PM_WDOG and PM_RSTC, as the time left and whether it runs
          heartbeat,
          fed,        \* when the watchdog was last fed, for how long the client asked, and how much
                      \* of that was over when it was stopped
          machine     \* "up", "rebooting", "reset", "panic"

timeouts == <<timeout, expired>>
watchdogs == <<wdog, heartbeat, fed, machine>>
tvars == <<now, timeouts, delay, watchdogs>>

Counter == now % TimeWord
Less(a, b) == (a - b) % TimeWord          \* a difference of two words

TimeInit ==
  /\ now = 0
  /\ timeout = [on |-> FALSE, time_last |-> 0, time_usecs |-> 0, start |-> 0, last |-> 0, wraps |-> 0]
  /\ expired = [limit |-> 0, ret |-> FALSE, at |-> 0]
  /\ delay = [state |-> "none", s |-> 0, us |-> 0, asked |-> 0, start |-> 0]
  /\ wdog = [left |-> 0, on |-> FALSE]
  /\ heartbeat = 0 /\ fed = [at |-> 0, us |-> 0, held |-> 0]
  /\ machine = "up"

\* Time passes, and the watchdog counts down; at zero it resets the machine.
Advance ==
  \E d \in Passing :
    /\ now + d <= TimeMax /\ now' = now + d
    /\ machine # "reset"
    /\ IF wdog.on THEN /\ wdog' = [wdog EXCEPT !.left = IF @ > d THEN @ - d ELSE 0]
                       /\ machine' = IF wdog.left > d THEN machine ELSE "reset"
       ELSE UNCHANGED <<wdog, machine>>
    /\ UNCHANGED <<timeouts, delay, heartbeat, fed>>

-----------------------------------------------------------------------------
(* timeout.h.                                                              *)

timeout_start ==
  /\ ~timeout.on
  /\ timeout' = [on |-> TRUE, time_last |-> Counter, time_usecs |-> 0,
                 start |-> now, last |-> now, wraps |-> 0]
  /\ UNCHANGED <<now, expired, delay, watchdogs>>

\* Wrong: time_last stays the time of the start.
UsecKeepsLast(t) ==
  [t EXCEPT !.time_usecs = @ + Less(Counter, t.time_last),
            !.last = now, !.wraps = @ + ((now - t.last) \div TimeWord)]

\* The difference of two counters is a word; the sum has 64 bits.
timeout_get_usec(t) ==
  [t EXCEPT !.time_usecs = @ + Less(Counter, t.time_last), !.time_last = Counter,
            !.last = now, !.wraps = @ + ((now - t.last) \div TimeWord)]

timeout_usec ==
  /\ timeout.on
  /\ timeout' = timeout_get_usec(timeout)
  /\ \E max_usec \in Waits : expired' = [limit |-> max_usec, at |-> now,
                                         ret |-> timeout'.time_usecs >= max_usec]
  /\ UNCHANGED <<now, delay, watchdogs>>

-----------------------------------------------------------------------------
(* timer.c: delay_us, which delay_ms and delay_sec call with a product.    *)

DelayBegin ==
  /\ delay.state # "waiting"
  /\ \E n \in Waits, factor \in {1, Thousand, Thousand * Thousand} :
       delay' = [state |-> "waiting", s |-> Counter, us |-> (n * factor) % TimeWord,
                 asked |-> n * factor, start |-> now]
  /\ UNCHANGED <<now, timeouts, watchdogs>>

DelayPoll ==
  /\ delay.state = "waiting"
  /\ Less(Counter, delay.s) >= delay.us
  /\ delay' = [delay EXCEPT !.state = "over"]
  /\ UNCHANGED <<now, timeouts, watchdogs>>

-----------------------------------------------------------------------------
(* watchdog.c.                                                             *)

\* The code masks the value, and the counter keeps the bits it has.
StartTicks(ticks) == wdog' = [left |-> ((ticks % WdogMask) % WdogWidth) * Tick, on |-> TRUE]

watchdog_start_ticks(n) == /\ heartbeat' = n
                           /\ StartTicks(n)
                           /\ fed' = [at |-> now, us |-> n * Tick, held |-> 0]
                           /\ UNCHANGED machine

\* watchdog_start_us, watchdog_start_ms and watchdog_start_sec.
watchdog_start(n, factor) ==
  LET us == (n * factor) % TimeWord
  IN  /\ heartbeat' = us \div Tick
      /\ StartTicks(us \div Tick)
      /\ fed' = [at |-> now, us |-> n * factor, held |-> 0]
      /\ UNCHANGED machine

\* heartbeat is asserted, and the last start is repeated.
watchdog_feed ==
  IF heartbeat = 0 THEN machine' = "panic" /\ UNCHANGED <<wdog, heartbeat, fed>>
  ELSE /\ StartTicks(heartbeat)
       /\ fed' = [fed EXCEPT !.at = now]
       /\ UNCHANGED <<heartbeat, machine>>

\* While it is stopped the client need not feed it.
watchdog_stop == /\ wdog.on
                 /\ wdog' = [wdog EXCEPT !.on = FALSE]
                 /\ fed' = [fed EXCEPT !.held = now - fed.at]
                 /\ UNCHANGED <<heartbeat, machine>>

watchdog_resume == /\ wdog.left > 0 /\ ~wdog.on
                   /\ wdog' = [wdog EXCEPT !.on = TRUE]
                   /\ fed' = [fed EXCEPT !.at = now - fed.held]
                   /\ UNCHANGED <<heartbeat, machine>>

\* rpi_reboot sets one tick and waits for ever.  watchdog_reboot does the same
\* without the wait, and so does watchdog_shutdown: PM_RSTS gets what is read
\* from an address with the password in it.
rpi_reboot == /\ wdog' = [left |-> Tick, on |-> TRUE]
              /\ machine' = "rebooting"
              /\ fed' = [at |-> now, us |-> Tick, held |-> 0]
              /\ UNCHANGED heartbeat

watchdog_shutdown == watchdog_start_ticks(1)

WatchdogCall ==
  /\ machine = "up"
  /\ \/ \E n \in Waits, factor \in {1, Thousand, Thousand * Thousand} : watchdog_start(n, factor)
     \/ \E n \in Waits : watchdog_start_ticks(n)
     \/ watchdog_feed \/ watchdog_stop \/ watchdog_resume \/ watchdog_shutdown \/ rpi_reboot
  /\ UNCHANGED <<now, timeouts, delay>>

TimeoutNext == timeout_start \/ timeout_usec
DelayNext == DelayBegin \/ DelayPoll

TimeNext == Advance \/ TimeoutNext \/ DelayNext \/ WatchdogCall
TimeSpec == TimeInit /\ [][TimeNext]_tvars
-----------------------------------------------------------------------------
\* A timeout counts every microsecond but the whole wraps of the counter that
\* passed between two checks (timeout.h:11-13), and so never expires early.
TimeoutExact ==
  timeout.on =>
    /\ timeout.time_usecs = timeout.last - timeout.start - timeout.wraps * TimeWord
    /\ expired.ret => expired.at - timeout.start >= expired.limit

\* A delay is not over before the time its caller asked for, as much of it as
\* the word holds after delay_ms or delay_sec has multiplied it, across a wrap
\* of the counter too (timer.c:18-35).
DelayLongEnough == delay.state = "over" => now - delay.start >= delay.asked % TimeWord

\* The machine is reset when it has not been fed for the time the client asked
\* for, modulo what the counter can count and rounded down by less than a tick,
\* and neither earlier nor later, whatever starts, feeds, stops and resumes
\* went before, and whatever overflowed on the way to the register
\* (watchdog.c:16-44, 62-74).
WatchdogExact ==
  LET due == fed.at + (fed.us % WdogSpan)
  IN  /\ machine # "reset" /\ wdog.on => now + wdog.left > due - Tick /\ now + wdog.left <= due
      /\ machine = "reset" => now > due - Tick

TimesExact == TimeoutExact /\ DelayLongEnough /\ WatchdogExact

\* What watchdog.h says of the calls: the watchdog is started for the specified
\* duration, whether that is in ticks, microseconds, milliseconds or seconds, and
\* only truncated to a tick (watchdog.h:4-29).
WatchdogNotEarly == machine = "reset" => now > fed.at + fed.us - Tick
=============================================================================
