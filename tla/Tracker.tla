------------------------------ MODULE Tracker -------------------------------
(***************************************************************************)
(* The tracker (src/Tracker.cpp): begin() and the "loop" task, composed of *)
(* the state manager, the audio player with its own task, and the modem as *)
(* ISim describes it.                                                      *)
(*                                                                         *)
(* setup() runs begin() up to the creation of the loop task, the loop task *)
(* everything later, so that there is one caller of the modem and of the   *)
(* state manager at a time; it is inside the state manager while pc is     *)
(* neither "off" nor "idle".                                               *)
(***************************************************************************)
EXTENDS Naturals, Sequences

CONSTANTS
  NumWaypoints, Positions, Distance, NaN, Unset, MaxDistance, Accuracy,
  Timestamps, FlashMayFail,    \* as in StateManager
  SleepDistance                \* 150 m: nearer to the waypoint, stay awake

VARIABLES
  visited, lastFix, actPosition, file, pc, announced, flashFailed,  \* StateManager
  fileQueue, running, isPlaying, soundPc, requested, started,      \* Player
  call, handed, published, res,                                    \* ISim
  loopPc,      \* where setup(), then the loop task, is
  shouldSleep,
  heard,       \* history: the broker got a message since boot or wake-up
  progressAtBoot  \* history: visited, as begin() loaded it

smVars == <<visited, lastFix, actPosition, file, pc, announced, flashFailed>>
apVars == <<fileQueue, running, isPlaying, soundPc, requested, started>>
simVars == <<call, handed, published, res>>
vars == <<smVars, apVars, simVars, loopPc, shouldSleep, heard, progressAtBoot>>

SM  == INSTANCE StateManager
AP  == INSTANCE Player WITH Sounds <- 1 .. NumWaypoints, MaxRequests <- NumWaypoints
Sim == INSTANCE ISim

ASSUME TrackerConstantsOK ==
  SM!ConstantsOK /\ SleepDistance \in Nat /\ SleepDistance < MaxDistance

TypeOK ==
  /\ SM!TypeOK /\ AP!TypeOK /\ Sim!TypeOK
  /\ loopPc \in {"off", "setup", "loop", "sending", "sleepCheck", "goToSleep",
                 "asleep", "waitQuiet", "restart"}
  /\ shouldSleep \in BOOLEAN
  /\ heard \in BOOLEAN
  /\ progressAtBoot \in 0 .. NumWaypoints

Init ==
  /\ SM!Init /\ AP!Init /\ Sim!Init
  /\ loopPc = "off"
  /\ shouldSleep = FALSE
  /\ heard = FALSE
  /\ progressAtBoot = 0

-----------------------------------------------------------------------------
(* Setup *)

\* begin() up to initModem(): a fresh state manager loads the file, if it can,
\* and the modem is initialised.  A filesystem or configuration that cannot be
\* read means another restart, with nothing changed.
Start ==
  /\ loopPc = "off"
  /\ SM!Begin \/ SM!BeginUnread
  /\ Sim!Call("init")
  /\ loopPc' = "setup"
  /\ progressAtBoot' = visited'
  /\ UNCHANGED <<apVars, shouldSleep, heard>>

\* initModem() returns.  initAudio() starts the sound task, then the callback
\* is registered and the loop task created; or begin() is FALSE.
InitModemReturns(code) ==
  /\ loopPc = "setup" /\ pc = "idle"
  /\ Sim!Return(code)
  /\ IF code = "Ok" THEN AP!Play /\ loopPc' = "loop"
                    ELSE loopPc' = "restart" /\ UNCHANGED apVars
  /\ UNCHANGED <<smVars, shouldSleep, heard, progressAtBoot>>

-----------------------------------------------------------------------------
(* One round of the loop task *)

SendActPosition ==
  /\ loopPc = "loop"
  /\ Sim!Call("send")
  /\ loopPc' = "sending"
  /\ UNCHANGED <<smVars, apVars, shouldSleep, heard, progressAtBoot>>

\* connectGPS() downloaded the assistance file: in init(), or on reconnecting.
SaveFastFix(t) ==
  /\ loopPc \in {"setup", "sending"} /\ ~handed
  /\ SM!SetLastFastFixFileUpdate(t)
  /\ UNCHANGED <<apVars, simVars, loopPc, shouldSleep, heard, progressAtBoot>>

UpdatePosition(p) ==
  /\ loopPc = "sending"
  /\ Sim!HandPosition
  /\ SM!UpdatePosition(p)
  /\ UNCHANGED <<apVars, loopPc, shouldSleep, heard, progressAtBoot>>

\* Mutant: the callback registered does not enqueue.
ReachInSilence ==
  /\ SM!ReachWaypoint
  /\ UNCHANGED <<apVars, simVars, loopPc, shouldSleep, heard, progressAtBoot>>

\* checkCollision() calls the callback, which enqueues the waypoint's file.
ReachWaypoint ==
  /\ SM!ReachWaypoint
  /\ AP!EnqueueFile(SM!ReachedWaypoint)
  /\ UNCHANGED <<simVars, loopPc, shouldSleep, heard, progressAtBoot>>

Persist ==
  /\ SM!PersistStep
  /\ UNCHANGED <<apVars, simVars, loopPc, shouldSleep, heard, progressAtBoot>>

\* sendMessage(): the message reaches the broker.
Publish ==
  /\ loopPc = "sending" /\ pc = "idle"
  /\ Sim!Publish
  /\ heard' = TRUE
  /\ UNCHANGED <<smVars, apVars, loopPc, shouldSleep, progressAtBoot>>

FarFromNext == SM!MoreThan(SM!DistanceToNext(visited, actPosition), SleepDistance)

\* sendActPosition() returns: the switch on its status code.
SendReturns(code) ==
  /\ loopPc = "sending" /\ pc = "idle"
  /\ Sim!Return(code)
  /\ shouldSleep' = CASE code = "Ok" /\ FarFromNext -> TRUE
                      [] code = "SENDING_DATA_FAILED" -> FALSE
                      [] OTHER -> shouldSleep
  /\ loopPc' = IF code \in {"Ok", "GPS_ACCURACY_TOO_LOW", "SENDING_DATA_FAILED"}
                 THEN "sleepCheck" ELSE "waitQuiet"
  /\ UNCHANGED <<smVars, apVars, heard, progressAtBoot>>

\* Mutant: no esp_restart(), as "TODO (un)comment?" beside it considers.
WaitQuietAndGoOn ==
  /\ loopPc = "waitQuiet" /\ ~isPlaying
  /\ loopPc' = "sleepCheck"
  /\ UNCHANGED <<smVars, apVars, simVars, shouldSleep, heard, progressAtBoot>>

\* default: while (audioPlayer->playing()) sleep; delay(100).
WaitQuiet ==
  /\ loopPc = "waitQuiet" /\ ~isPlaying
  /\ loopPc' = "restart"
  /\ UNCHANGED <<smVars, apVars, simVars, shouldSleep, heard, progressAtBoot>>

\* The condition for sleeping; couldSleep() is always TRUE, nothing ever
\* calling setNumberOfConnectedDevices().
SleepCheck ==
  /\ loopPc = "sleepCheck"
  /\ loopPc' = IF ~isPlaying /\ shouldSleep THEN "goToSleep" ELSE "loop"
  /\ UNCHANGED <<smVars, apVars, simVars, shouldSleep, heard, progressAtBoot>>

\* sim->sleep(), delay(100), esp_light_sleep_start(): both cores stop.
GoToSleep ==
  /\ loopPc = "goToSleep"
  /\ loopPc' = "asleep"
  /\ UNCHANGED <<smVars, apVars, simVars, shouldSleep, heard, progressAtBoot>>

\* Mutant: shouldSleep is not reset after the wake-up.
WakeStillSleepy ==
  /\ loopPc = "asleep"
  /\ loopPc' = "loop"
  /\ heard' = FALSE
  /\ UNCHANGED <<smVars, apVars, simVars, shouldSleep, progressAtBoot>>

\* The timer: esp_light_sleep_start() returns.
Wake ==
  /\ loopPc = "asleep"
  /\ loopPc' = "loop"
  /\ shouldSleep' = FALSE
  /\ heard' = FALSE
  /\ UNCHANGED <<smVars, apVars, simVars, progressAtBoot>>

-----------------------------------------------------------------------------
(* The sound task and the power *)

SoundTask ==
  /\ loopPc # "asleep"
  /\ AP!SoundTask
  /\ UNCHANGED <<smVars, simVars, loopPc, shouldSleep, heard, progressAtBoot>>

\* Everything in RAM is gone, whatever the tasks were doing.
Reset ==
  /\ SM!PowerLoss
  /\ AP!PowerDown
  /\ Sim!PowerDown
  /\ loopPc' = "off"
  /\ shouldSleep' = FALSE
  /\ heard' = FALSE
  /\ progressAtBoot' = 0

\* esp_restart(), after a failed begin() or in the default branch.
Restart == loopPc = "restart" /\ Reset

PowerCut == Reset

\* What the tracker does with the power on.
Run ==
  \/ Start \/ SendActPosition \/ ReachWaypoint \/ Persist \/ Publish
  \/ \E code \in Sim!Codes : InitModemReturns(code) \/ SendReturns(code)
  \/ \E t \in Timestamps : SaveFastFix(t)
  \/ \E p \in Positions : UpdatePosition(p)
  \/ WaitQuiet \/ SleepCheck \/ GoToSleep \/ Wake
  \/ SoundTask

Next == Run \/ Restart \/ PowerCut

\* Both cores run whenever the chip is not asleep, however often it sleeps;
\* sounds end, the timer fires, and esp_restart() restarts.
Fairness == SF_vars(SoundTask) /\ WF_vars(WaitQuiet) /\ WF_vars(Wake) /\ WF_vars(Restart)

Spec == Init /\ [][Next]_vars /\ Fairness

-----------------------------------------------------------------------------
(* Properties *)

\* The music asked for since the last boot is that of the waypoints counted
\* since then, each once and in order.
MusicFollowsProgress ==
  /\ requested = [i \in 1 .. Len(requested) |-> progressAtBoot + i]
  /\ loopPc # "off" => progressAtBoot + Len(requested) = visited

\* The tracker does not sleep unless the broker has heard from it since it
\* booted or woke up.
NeverSleepsUnheard == loopPc = "asleep" => heard

\* A restart the tracker makes by itself never costs progress, unless the
\* flash failed in the last save, or in the loading if nothing was saved since:
\* no save is under way then.
RestartKeepsProgress ==
  [][Restart => SM!Progress' = visited \/ flashFailed]_vars

\* What makes these inductive, with the invariants of the components: which
\* component is at work in which part of the loop ...
PhasesFit ==
  /\ loopPc = "off" <=> pc = "off"
  /\ loopPc \notin {"off", "setup", "sending"} => pc = "idle"
  /\ call = "init" <=> loopPc = "setup"
  /\ call = "send" <=> loopPc = "sending"
  /\ loopPc = "off" => requested = <<>>

\* ... and that the wish to sleep comes of a message that arrived, and does
\* not outlive the sleep.
SleepyIfHeard ==
  (loopPc = "sending" /\ published) \/ shouldSleep \/ loopPc = "goToSleep" => heard

TrackerInv ==
  /\ TypeOK /\ SM!IInv /\ AP!PlayerInv
  /\ PhasesFit /\ MusicFollowsProgress /\ SleepyIfHeard /\ NeverSleepsUnheard

\* Waiting for the music to end before a restart ends.
RestartHappens == loopPc = "waitQuiet" ~> loopPc = "off"

\* Whatever the tracker sleeps through, the sounds asked for are all
\* started in order while the power stays on.
SQ == INSTANCE SoundQueue WITH Sounds <- 1 .. NumWaypoints
MusicPlays == SQ!Spec

\* Tracker.cpp:54 "don't sleep if the waypoint is close", and the log line
\* "Distance from next waypoint is too short, sleeping will be skipped".
AwakeNearWaypoint == loopPc = "asleep" => FarFromNext

\* README.md:6 "When the tracker reaches the waypoint, the music starts to
\* play": the tracker, which waits for playing() to become FALSE, does not
\* restart with music still to come.
RestartLosesNoMusic == loopPc = "restart" => AP!Pending = <<>>
=============================================================================
