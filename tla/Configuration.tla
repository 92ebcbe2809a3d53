---------------------------- MODULE Configuration ---------------------------
(***************************************************************************)
(* The file system of the tracker over its life: config.json, read by      *)
(* every boot (src/Configuration.h), beside the state file of the game,    *)
(* and the uploads that replace the two together - over the wire, or over  *)
(* the air in the service mode (src/OtaUpdater.cpp) that Boot leads to.    *)
(*                                                                         *)
(* Of a running tracker only what depends on the configuration is here:    *)
(* the index into WAYPOINTS that the state file survives as, and the timer *)
(* and the session with the broker that the sleep time decides about.      *)
(***************************************************************************)
EXTENDS Boot, Timers

CONSTANTS
  MaxWaypoints,  \* bound: the waypoints in a config.json
  FitsDocument,  \* the waypoints that fit the 2048 bytes it is parsed into
  SleepTimes     \* the sleep times in a config.json

ASSUME ConfigurationConstantsOK ==
  /\ MaxWaypoints \in Nat /\ FitsDocument \in Nat
  /\ SleepTimes \subseteq Nat
  /\ ServiceResets \in Nat \ {0} /\ MaxResets \in Nat /\ MaxResets > ServiceResets

VARIABLES
  image,    \* the file system as last uploaded
  saved,    \* what loadPersistState() finds in it: a number of waypoints
  begun,    \* begin() has read both files
  size,     \* configuration->WAYPOINTS.size()
  gsm,      \* configuration->GSM_CONFIG.enable
  sleepTime, \* configuration->CONFIG.sleepTime
  visited,  \* visitedWaypoints
  loop,     \* the loop task: "none", "awake" or "asleep"
  wakeAfter, \* the time the wake-up timer is armed with
  session   \* the broker keeps the session: "none", "open" or "closed"

flash  == <<image, saved>>
config == <<begun, size, gsm, sleepTime>>
ram    == <<config, visited, loop, wakeAfter, session>>
configVars == <<vars, flash, ram>>

\* A member of a JSON object that is left out is null.
Flags == {"true", "false", "null"}

\* File systems: what is wrong with one that has no readable config.json,
\* or what the file says.
Images ==
  [file : {"noFileSystem", "noJson"}] \union
  [file : {"ok"}, waypoints : 0 .. MaxWaypoints, enable : Flags, sleepTime : SleepTimes]

FileSystemTypeOK ==
  /\ image \in Images /\ saved \in 0 .. MaxWaypoints
  /\ begun \in BOOLEAN /\ gsm \in BOOLEAN
  /\ size \in 0 .. MaxWaypoints /\ visited \in 0 .. MaxWaypoints
  /\ sleepTime \in SleepTimes \union {0}
  /\ loop \in {"none", "awake", "asleep"}
  /\ wakeAfter \in Int
  /\ session \in {"none", "open", "closed"}

ConfigTypeOK == TypeOK /\ FileSystemTypeOK

ConfigInit ==
  /\ Init
  /\ image \in Images /\ saved = 0
  /\ begun = FALSE /\ size = 0 /\ gsm = FALSE /\ sleepTime = 0
  /\ visited = 0 /\ loop = "none" /\ wakeAfter = 0 /\ session = "none"

-----------------------------------------------------------------------------
(* The tracker *)

\* SPIFFS.begin() and read() succeed: a document that is cut short, is no
\* JSON or does not fit is an error all the same.
Readable == image.file = "ok" /\ image.waypoints <= FitsDocument

\* as<bool>(): null is FALSE, not the initial value of the member.
AsBool(flag) == flag = "true"

\* persistState() with v waypoints visited: each step of it can fail, so that
\* what was there may be left, or nothing.
PersistState(v) == saved' \in {v, saved, 0}

\* initSPIFFS(), initConfiguration(), initStateManager(), which does not notice
\* a state file that cannot be read.
Read ==
  /\ bootPc = "tracker" /\ ~begun /\ Readable
  /\ begun' = TRUE
  /\ size' = image.waypoints
  /\ gsm' = AsBool(image.enable)
  /\ sleepTime' = image.sleepTime
  /\ visited' \in {saved, 0}
  /\ UNCHANGED <<vars, flash, loop, wakeAfter, session>>

\* The rest of begin(): connect(), then esp_sleep_enable_timer_wakeup() and
\* the loop task.  With GSM disabled it succeeds as well, to no use.
Begin ==
  /\ begun /\ gsm /\ loop = "none"
  /\ wakeAfter' = WakeAfter(sleepTime)
  /\ session' = "open"
  /\ loop' = "awake"
  /\ UNCHANGED <<vars, flash, config, visited>>

\* Mutant: the counter is not compared with the size.
ReachBeyondLast ==
  /\ loop = "awake"
  /\ visited' = visited + 1
  /\ PersistState(visited')
  /\ UNCHANGED <<vars, image, config, loop, wakeAfter, session>>

\* checkCollision(), which then saves the state.
ReachWaypoint ==
  /\ loop = "awake" /\ visited < size
  /\ visited' = visited + 1
  /\ PersistState(visited')
  /\ UNCHANGED <<vars, image, config, loop, wakeAfter, session>>

\* setLastFastFixFileUpdate(), in begin() already or in a round of the loop.
SaveFastFix ==
  /\ begun /\ gsm /\ loop # "asleep"
  /\ PersistState(visited)
  /\ UNCHANGED <<vars, image, ram>>

\* esp_light_sleep_start(), after a message that reached the broker.
Sleep ==
  /\ loop = "awake" /\ session = "open"
  /\ loop' = "asleep"
  /\ UNCHANGED <<vars, flash, config, visited, wakeAfter, session>>

\* The broker's patience ends before the timer's.
GivesUp ==
  /\ loop = "asleep" /\ OutlastsPatience(sleepTime)
  /\ session' = "closed"
  /\ UNCHANGED <<vars, flash, config, visited, loop, wakeAfter>>

WakeUp ==
  /\ loop = "asleep"
  /\ loop' = "awake"
  /\ UNCHANGED <<vars, flash, config, visited, wakeAfter, session>>

\* The next round of the loop: reconnect() mends the session.
Reconnect ==
  /\ loop = "awake" /\ session = "closed"
  /\ session' = "open"
  /\ UNCHANGED <<vars, flash, config, visited, loop, wakeAfter>>

TrackerStep ==
  \/ Read \/ Begin \/ ReachWaypoint \/ SaveFastFix
  \/ Sleep \/ GivesUp \/ WakeUp \/ Reconnect

\* The chip is reset.
ResetChip ==
  /\ Cut
  /\ begun' = FALSE /\ size' = 0 /\ gsm' = FALSE /\ sleepTime' = 0
  /\ visited' = 0 /\ loop' = "none" /\ wakeAfter' = 0 /\ session' = "none"

\* begin() fails, or the loop task gives up: esp_restart().
GiveUp ==
  /\ bootPc = "tracker" /\ loop # "asleep"
  /\ ~begun => ~Readable
  /\ ResetChip
  /\ UNCHANGED flash

\* The power is cut, of a running tracker perhaps in the middle of a save.
CutPower ==
  /\ ResetChip
  /\ saved' \in {saved} \union {n \in {0} : begun}
  /\ UNCHANGED image

BootStep == (PowerOn \/ EnterService \/ LeaveWindow) /\ UNCHANGED <<flash, ram>>

-----------------------------------------------------------------------------
(* Uploads *)

\* Mutant: the files are uploaded one by one beside the others.
OverwriteFiles(i) == image' = i /\ UNCHANGED saved

\* A file system made of data/, which has no state file, replaces the old
\* one; one that did not get through does not mount.
ReplaceFileSystem(i) == image' = i /\ saved' = 0

\* pio run -t uploadfs, of a tracker in any state.
UploadOverWire(i) ==
  /\ ResetChip \/ (bootPc = "off" /\ UNCHANGED <<vars, ram>>)
  /\ ReplaceFileSystem(i)

\* AsyncElegantOTA, which restarts the chip afterwards.
UploadOverAir(i) ==
  /\ bootPc = "service"
  /\ ResetChip
  /\ ReplaceFileSystem(i)

ConfigNext ==
  \/ BootStep \/ TrackerStep \/ GiveUp \/ CutPower
  \/ \E i \in Images : UploadOverWire(i) \/ UploadOverAir(i)

\* setup() runs, esp_restart() restarts a tracker that cannot begin, and
\* somebody who wants the service mode cuts the power of a tracker, once it
\* runs and then in its first half second, and goes on doing it.
ConfigFairness ==
  /\ WF_configVars(BootStep) /\ SF_configVars(EnterService /\ UNCHANGED <<flash, ram>>)
  /\ WF_configVars(~begun /\ GiveUp)
  /\ WF_configVars(bootPc \in {"window", "tracker"} /\ CutPower)

ConfigSpec == ConfigInit /\ [][ConfigNext]_configVars /\ ConfigFairness

-----------------------------------------------------------------------------
(* Properties *)

\* checkCollision() and distanceToNextWaypoint() index WAYPOINTS with a number
\* that an earlier boot wrote, perhaps under another configuration, and test
\* it only for being the size: it never is beyond it.
IndexInBounds == begun => visited <= size

\* Up to 2147 seconds, the longest whose microseconds are a long, the
\* tracker sleeps for as long as configured.
SleepsAsConfiguredIfShort ==
  loop = "asleep" /\ FitsALong(sleepTime) => wakeAfter = Factor * sleepTime

\* The cut to 16 bits makes the keepalive an erratic function of the sleep
\* time, shorter than the sleep itself for some; up to 312 seconds, though,
\* the broker never closes the session of a tracker that is only asleep.
SessionSurvivesShortSleep == sleepTime <= 312 => session # "closed"

\* Whatever is wrong with the file system, however often the tracker restarts
\* for it, who is quick enough reaches the service mode in which it can be
\* replaced.
ServiceReachable == <>[][~LeaveWindow]_configVars => <>(bootPc = "service")

\* What makes the first one inductive: nor is the number in the file beyond
\* the last waypoint of the configuration beside it ...
SavedInBounds ==
  /\ saved \in Nat
  /\ image.file = "ok" => /\ image.waypoints \in Nat /\ saved <= image.waypoints
                          /\ image.sleepTime \in Nat
  /\ image.file # "ok" => saved = 0

\* ... of which the running tracker has a copy ...
CopyIsCurrent ==
  /\ begun => bootPc = "tracker" /\ image.file = "ok" /\ size = image.waypoints
  /\ begun => visited \in Nat /\ visited <= size
  /\ ~begun => loop = "none" /\ session = "none"

\* ... and the others: the timer's setting follows from that copy.
TimerMatchesConfig ==
  /\ sleepTime \in Nat
  /\ loop # "none" => wakeAfter = WakeAfter(sleepTime)
  /\ session = "closed" => OutlastsPatience(sleepTime)

ConfigInv == SavedInBounds /\ CopyIsCurrent /\ TimerMatchesConfig

\* Configuration.h:111 "in seconds": the tracker sleeps for as many seconds
\* as configured.
SleepsAsConfigured == loop = "asleep" => wakeAfter = Factor * sleepTime
=============================================================================
