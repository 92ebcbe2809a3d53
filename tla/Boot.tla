-------------------------------- MODULE Boot --------------------------------
(***************************************************************************)
(* The start of the firmware (src/main.cpp, setup()): the reset counter    *)
(* "rc" in the non-volatile preferences, which is raised by every boot and *)
(* cleared half a second later, so that who switches the tracker on and    *)
(* off three times in a row gets the service mode instead of the tracker.  *)
(***************************************************************************)
EXTENDS Naturals

CONSTANTS
  ServiceResets,  \* 3
  MaxResets       \* bound: the reset counter

VARIABLES
  bootPc,  \* "off", "window" while the counter is up, "toService", "service",
           \* or "tracker" once the counter is cleared
  rc,      \* the preference "rc"
  quick    \* history: boots in a row, up to the last reset, cut off before
           \* they had cleared the counter

vars == <<bootPc, rc, quick>>

TypeOK ==
  /\ bootPc \in {"off", "window", "toService", "service", "tracker"}
  /\ rc \in 0 .. MaxResets
  /\ quick \in 0 .. MaxResets

Init == bootPc = "off" /\ rc = 0 /\ quick = 0

\* Mutant: the counter is cleared first, and by mistake before it is raised.
PowerOnClearing ==
  /\ bootPc = "off"
  /\ rc' = 1
  /\ bootPc' = IF rc' >= ServiceResets THEN "toService" ELSE "window"
  /\ UNCHANGED quick

\* Power comes, or esp_restart() has reset the chip: the counter is raised.
PowerOn ==
  /\ bootPc = "off"
  /\ rc' = rc + 1
  /\ bootPc' = IF rc' >= ServiceResets THEN "toService" ELSE "window"
  /\ UNCHANGED quick

\* putInt("rc", 0), and the OTA updater is started.
EnterService ==
  /\ bootPc = "toService"
  /\ bootPc' = "service"
  /\ rc' = 0
  /\ UNCHANGED quick

\* Mutant: the counter is left as it is.
LeaveWindowCounting ==
  /\ bootPc = "window"
  /\ bootPc' = "tracker"
  /\ UNCHANGED <<rc, quick>>

\* delay(500), Bluetooth and Wi-Fi off, putInt("rc", 0).
LeaveWindow ==
  /\ bootPc = "window"
  /\ bootPc' = "tracker"
  /\ rc' = 0
  /\ UNCHANGED quick

\* The chip is reset, by whatever.
Cut ==
  /\ bootPc # "off"
  /\ bootPc = "toService" => rc < MaxResets
  /\ bootPc' = "off"
  /\ quick' = IF bootPc \notin {"window", "toService"} THEN 0
              ELSE IF quick < MaxResets THEN quick + 1 ELSE quick
  /\ UNCHANGED rc

Next == PowerOn \/ EnterService \/ LeaveWindow \/ Cut

Spec == Init /\ [][Next]_vars

\* The service mode is entered exactly on the boot that follows enough
\* boots in a row cut off in their first half second: the tracker's own
\* restarts do not add up to it, and nothing but it can come out then.
ServiceIffQuickResets ==
  /\ bootPc \in {"toService", "service"} => quick + 1 >= ServiceResets
  /\ bootPc \in {"window", "tracker"} => quick + 1 < ServiceResets

\* Makes it inductive: while the counter is up it counts the quick resets.
CounterCounts ==
  /\ bootPc = "off" => rc = quick /\ rc < MaxResets
  /\ bootPc \in {"window", "toService"} => rc = quick + 1
  /\ bootPc \in {"tracker", "service"} => rc = 0

BootInv == TypeOK /\ CounterCounts /\ ServiceIffQuickResets
=============================================================================
