------------------------------- MODULE Timers -------------------------------
(***************************************************************************)
(* What becomes of the configured sleep time (src/Configuration.h,         *)
(* config::sleepTime): Tracker::begin() arms the wake-up timer with it and *)
(* MqttClient::connect() derives the keepalive interval from it, which     *)
(* tells the broker how long a silent tracker is still alive.              *)
(*                                                                         *)
(* The products are computed in a long of 32 bits.  TLC's integers are no  *)
(* wider, so that times are counted in units of 64 microseconds: a second  *)
(* is Factor = 1000000 / 64 of them and a long wraps at 2^32 / 64, and     *)
(* the arithmetic is exact.                                                *)
(***************************************************************************)
EXTENDS Integers

CONSTANTS
  Factor,           \* uS_TO_S_FACTOR, in units: 15625
  LongModulus,      \* of a long, in units: 2^26
  KeepAliveModulus  \* of the keepalive, 16 bits, in units of 128 s: 2^9

ASSUME TimersConstantsOK ==
  Factor \in Nat \ {0} /\ LongModulus \in Nat \ {0} /\ KeepAliveModulus \in Nat \ {0}

\* Mutant: the product is computed in an int of 16 bits, 2^10 units.
SignedInt16(x) == LET r == x % 1024 IN IF 2 * r >= 1024 THEN r - 1024 ELSE r

\* A product as a signed 32-bit integer holds it.
SignedLong(x) ==
  LET r == x % LongModulus IN IF 2 * r >= LongModulus THEN r - LongModulus ELSE r

\* What the timer is armed with; what is negative here is taken for a time
\* of more than 2^63 by esp_sleep_enable_timer_wakeup().
WakeAfter(s) == SignedLong(Factor * s)

\* Mutant: milliseconds, as everywhere in Tasker.
KeepAliveOfMillis(s) == (2000 * s) % 65536

\* sleepTime * uS_TO_S_FACTOR * 2 as a uint16_t, in seconds: 2000000 is 128
\* times Factor.  0 stands for no keepalive.
KeepAlive(s) == 128 * ((Factor * s) % KeepAliveModulus)

\* A broker gives up after one and a half intervals of silence, here the
\* whole seconds the timer leaves the tracker asleep.
OutlastsPatience(s) ==
  /\ KeepAlive(s) # 0
  /\ WakeAfter(s) < 0 \/ 2 * (WakeAfter(s) \div Factor) > 3 * KeepAlive(s)

\* A short sleep time is one whose product with the factor is a long.
FitsALong(s) == 2 * (Factor * s) < LongModulus
=============================================================================
