------------------------------- MODULE System -------------------------------
(***************************************************************************)
(* The tracker on the modem driver itself: the "loop", "mqtt" and sound    *)
(* tasks, the state file, the network and the team that carries the        *)
(* tracker.  Where Tracker has a call of ISim that may do and return what  *)
(* ISim allows, the call is carried out here by Modem, step by step.       *)
(*                                                                         *)
(* GSM is enabled: without it the tracker gets nowhere                     *)
(* (Modem!NothingWithoutGsm).                                              *)
(***************************************************************************)
EXTENDS Tracker

CONSTANTS
  Enabled, FastFix, ClockModulus, FastFixAge, MaxClock, ClockMayFail  \* as in Modem

VARIABLES
  enabled, net, broker, fix, modem, clock,  \* the world, as in Modem
  lock, mqttTask,                  \* SERIAL_LOCK and the keepalive task
  modemPc, tries, gpsFails         \* where the driver is, and its counters

driverVars == <<enabled, net, broker, fix, modem, clock, lock, mqttTask, modemPc, tries, gpsFails>>
SystemVars == <<vars, driverVars>>

M == INSTANCE Modem WITH pc <- modemPc

ASSUME SystemConstantsOK ==
  /\ Enabled \in {{"GSM"}, {"GSM", "GPS"}}
  /\ M!ModemConstantsOK /\ Timestamps = 0 .. ClockModulus - 1

SystemInit == Init /\ M!Init /\ enabled = Enabled

-----------------------------------------------------------------------------
(* The loop task, and setup() before it *)

\* The driver waits for updatePosition() and setLastFastFixFileUpdate().
StateManagerDone == pc = "idle"

\* The calls of the driver.
CallDriver ==
  \/ Start /\ M!BeginInit
  \/ SendActPosition /\ M!CallSend

\* To the tracker, a step inside the driver is nothing or the driver's return.
SeenFromLoop == UNCHANGED vars \/ InitModemReturns(res') \/ SendReturns(res')

DriverLocks == StateManagerDone /\ M!CallerLocks /\ SeenFromLoop
DriverSteps == StateManagerDone /\ modemPc # "save" /\ M!CallerStep /\ SeenFromLoop

\* What the driver does for the tracker: the timestamp, the position and the
\* message.
DriverServes ==
  \/ \E t \in Timestamps : SaveFastFix(t) /\ M!SaveFastFix
  \/ \E p \in Positions : UpdatePosition(p) /\ M!Update
  \/ Publish /\ StateManagerDone /\ M!Deliver

\* sim->sleep(), and a tenth of a second later the light sleep.
ModemToSleep ==
  /\ loopPc = "goToSleep" /\ modem # "sleep"
  /\ M!Sleep
  /\ UNCHANGED vars

FallAsleep == modem = "sleep" /\ GoToSleep /\ UNCHANGED driverVars

\* The steps that do not touch the modem.
TrackerOnly ==
  /\ ReachWaypoint \/ Persist \/ SleepCheck
  /\ UNCHANGED driverVars

LoopTask ==
  \/ CallDriver \/ DriverLocks \/ DriverSteps \/ DriverServes
  \/ ModemToSleep \/ FallAsleep \/ TrackerOnly

-----------------------------------------------------------------------------
(* Everything else *)

MusicEnds == WaitQuiet /\ UNCHANGED driverVars
TimerFires == Wake /\ UNCHANGED driverVars
Plays == SoundTask /\ UNCHANGED driverVars

\* The keepalive task, on a chip that is not asleep.
MqttTask ==
  /\ loopPc # "asleep"
  /\ UNCHANGED vars
  /\ M!MqttWakes \/ M!MqttLocks \/ M!MqttUnlocks

World == UNCHANGED vars /\ (M!Drops \/ M!FixFound \/ M!Tick)

SelfRestart == Restart /\ M!ChipReset
PowerCuts == PowerCut /\ M!ChipReset

SystemNext ==
  \/ LoopTask \/ MusicEnds \/ TimerFires \/ Plays \/ MqttTask \/ World
  \/ SelfRestart \/ PowerCuts

\* As in Tracker and in Modem, except that the network owes nobody anything:
\* the properties say when they count on it.
SystemFairness ==
  /\ WF_SystemVars(LoopTask) /\ SF_SystemVars(DriverLocks)
  /\ WF_SystemVars(MqttTask) /\ SF_SystemVars(Plays)
  /\ WF_SystemVars(MusicEnds) /\ WF_SystemVars(TimerFires)
  /\ WF_SystemVars(SelfRestart) /\ WF_SystemVars(UNCHANGED vars /\ M!FixFound)

SystemSpec == SystemInit /\ [][SystemNext]_SystemVars /\ SystemFairness

-----------------------------------------------------------------------------
(* Properties *)

\* The loop keeps to what the driver takes for granted of its caller: a chip
\* that runs on after a call that failed would send over a modem that
\* reconnect() has switched off, or put it to sleep with a message unsent.
DriverCalledRight ==
  /\ loopPc \in {"loop", "sleepCheck"} => call = "none" /\ res \in M!Resumable
  /\ loopPc \in {"goToSleep", "asleep"} => res \in {"Ok", "GPS_ACCURACY_TOO_LOW"}
  /\ loopPc \in {"loop", "sending", "sleepCheck", "goToSleep", "asleep"} => modem # "off"

\* The broker is never told of progress that a power cut could still take
\* back, unless the flash failed.
ToldIsSaved ==
  [][published' /\ ~published => SM!Restored(file).visited = visited \/ flashFailed]_SystemVars

\* What can go wrong outside the program: a link drops, other than by the
\* driver's own modem.restart(); a command to the modem fails or times out; a
\* call ends with a code other than Ok; the power is cut.
LinkLost ==
  /\ modemPc' = modemPc
  /\ (net /\ ~net') \/ (fix /\ ~fix') \/ (broker /\ ~broker' /\ loopPc' # "off")

CallFails ==
  \/ tries' > tries \/ gpsFails' > gpsFails
  \/ modemPc = "attach" /\ modemPc' = "network"
  \/ call # "none" /\ call' = "none" /\ loopPc' # "off" /\ res' # "Ok"

PowerLost == loopPc \notin {"off", "restart"} /\ loopPc' = "off"

Trouble == LinkLost \/ CallFails \/ PowerLost

\* Whatever state a time of trouble leaves the modem, the tasks and the chip
\* in, once it is over the broker hears from the tracker again and again:
\* through reconnect(), a restart or a sleep.
HeardAgain ==
  <>[][~Trouble]_SystemVars => []<><<published' /\ ~published>>_SystemVars

\* A position read at the next waypoint, if there is one left.
AtNext == handed' /\ ~handed /\ visited < NumWaypoints => SM!NextIsReachedAt(actPosition')

\* All waypoints are visited, and the music of those visited since the last
\* boot was started, in order.
AllVisitedWithMusic ==
  /\ visited = NumWaypoints
  /\ started = [i \in 1 .. NumWaypoints - progressAtBoot |-> progressAtBoot + i]

\* A team that waits at each next waypoint gets to the last one with all the
\* music started, however late, once the trouble is over.
MusicStarts ==
  <>[][~Trouble /\ AtNext]_SystemVars => <>[]AllVisitedWithMusic

=============================================================================
