---------------------------- MODULE SystemProofs ----------------------------
(***************************************************************************)
(* Proofs about the tracker on the modem driver itself: whatever the       *)
(* driver, the keepalive task and the network do, the tracker inside makes *)
(* the steps that Tracker allows it, so that what was proved of it with    *)
(* the modem's interface holds with the driver; and the loop keeps to what *)
(* the driver takes for granted.                                           *)
(***************************************************************************)
EXTENDS System, TrackerProofs

MP == INSTANCE ModemProofs WITH pc <- modemPc

-----------------------------------------------------------------------------
(* The tracker inside the system *)

\* The driver's return has one of the codes of the interface.
LEMMA ReturnsACode ==
  TrackerInv /\ (InitModemReturns(res') \/ SendReturns(res')) => res' \in Sim!Codes
<1> SUFFICES ASSUME TrackerInv, InitModemReturns(res') \/ SendReturns(res')
             PROVE  res' \in Sim!Codes
  OBVIOUS
<1>1. call \in {"init", "send"} /\ handed \in BOOLEAN
  BY DEF TrackerInv, TypeOK, Sim!TypeOK, PhasesFit, InitModemReturns, SendReturns
<1>2. res' \in Sim!ReturnCodes
  BY DEF InitModemReturns, SendReturns, Sim!Return
<1>3. Sim!ReturnCodes \subseteq Sim!Codes
  <2>1. CASE call = "init"
    BY <2>1 DEF Sim!ReturnCodes, Sim!Codes
  <2>2. CASE call = "send" /\ ~handed
    BY <2>2 DEF Sim!ReturnCodes, Sim!Codes
  <2>3. CASE call = "send" /\ handed
    BY <2>3 DEF Sim!ReturnCodes, Sim!Codes, Sim!InitCodes
  <2>4. QED
    BY <1>1, <2>1, <2>2, <2>3
<1>4. QED
  BY <1>2, <1>3

\* Whatever the system does is a step of the tracker or leaves it alone.
LEMMA SystemStepIsTracker == TrackerInv /\ [SystemNext]_SystemVars => [Next]_vars
<1> SUFFICES ASSUME TrackerInv, [SystemNext]_SystemVars PROVE [Next]_vars
  OBVIOUS
<1>1. CASE CallDriver
  BY <1>1 DEF CallDriver, Next, Run
<1>2. CASE DriverLocks \/ DriverSteps
  <2>1. CASE InitModemReturns(res') \/ SendReturns(res')
    <3>1. res' \in Sim!Codes
      BY <2>1, ReturnsACode
    <3>2. QED
      BY <2>1, <3>1 DEF Next, Run
  <2>2. QED
    BY <1>2, <2>1 DEF DriverLocks, DriverSteps, SeenFromLoop
<1>3. CASE DriverServes
  BY <1>3 DEF DriverServes, Next, Run
<1>4. CASE FallAsleep \/ TrackerOnly \/ MusicEnds \/ TimerFires \/ Plays
  BY <1>4 DEF FallAsleep, TrackerOnly, MusicEnds, TimerFires, Plays, Next, Run
<1>5. CASE ModemToSleep \/ MqttTask \/ World
  BY <1>5 DEF ModemToSleep, MqttTask, World
<1>6. CASE SelfRestart \/ PowerCuts
  BY <1>6 DEF SelfRestart, PowerCuts, Next
<1>7. CASE UNCHANGED SystemVars
  BY <1>7 DEF SystemVars
<1>8. QED
  BY <1>1, <1>2, <1>3, <1>4, <1>5, <1>6, <1>7 DEF SystemNext, LoopTask

\* The system keeps the tracker's inductive invariant.
LEMMA SystemKeepsTrackerInv == SystemSpec => []TrackerInv
<1>1. SystemInit => TrackerInv
  BY InitTrackerInv DEF SystemInit
<1>2. TrackerInv /\ [SystemNext]_SystemVars => TrackerInv'
  BY StepTrackerInv, SystemStepIsTracker
<1>3. QED
  BY <1>1, <1>2, PTL DEF SystemSpec

\* The tracker on the driver implements the tracker on the interface: each
\* of its steps is one of Tracker's, or nothing to it.
THEOREM SystemIsTracker == SystemSpec => Init /\ [][Next]_vars
<1>1. SystemInit => Init
  BY DEF SystemInit
<1>2. TrackerInv /\ [SystemNext]_SystemVars => [Next]_vars
  BY SystemStepIsTracker
<1>3. QED
  BY <1>1, <1>2, SystemKeepsTrackerInv, PTL DEF SystemSpec

\* With the driver, too, music follows the progress, no waypoint is skipped,
\* and the tracker does not sleep unheard.
THEOREM SystemKeepsTrackerSafe ==
  SystemSpec => [](MusicFollowsProgress /\ NeverSleepsUnheard /\ SM!NeverSkip)
<1>1. TrackerInv => MusicFollowsProgress /\ NeverSleepsUnheard /\ SM!NeverSkip
  BY DEF TrackerInv, SM!IInv
<1>2. QED
  BY <1>1, SystemKeepsTrackerInv, PTL

\* So the tracker keeps all its promises on the driver itself, whatever the
\* network, the modem and the keepalive task do.
THEOREM SystemKeepsPromises == SystemSpec => TrackerPromises
BY SystemIsTracker, TrackerStepsKeepPromises

\* The sound task and the timer are scheduled here, too.
SystemSoundGuardsEnable ==
  /\ ~TaskHalted => ENABLED <<Plays>>_SystemVars
  /\ Asleep => ENABLED <<TimerFires>>_SystemVars
  /\ ENABLED <<SQ!Start>>_(SQ!vars) => Waiting

\* The music of every waypoint reached is started in the end, and in its
\* turn, whatever the network does to the loop task, which sends and sleeps
\* on the other core.
THEOREM SystemPlaysTheMusic == SystemSpec /\ []SystemSoundGuardsEnable => MusicPlays
<1>1. /\ <<Plays>>_SystemVars => <<SoundTask>>_vars
      /\ <<TimerFires>>_SystemVars => <<Wake>>_vars
  BY DEF Plays, TimerFires, SystemVars
<1>2. SystemSpec /\ []SystemSoundGuardsEnable => SoundGoesOn
  BY <1>1, PTL DEF SystemSpec, SystemFairness, SystemSoundGuardsEnable, SoundGoesOn
<1>3. SystemSpec /\ []SystemSoundGuardsEnable => NextIsStarted
  BY <1>2, SystemIsTracker, NextIsStartedInTheEnd, PTL
<1>4. []SystemSoundGuardsEnable /\ NextIsStarted => WF_(SQ!vars)(SQ!Start)
  BY PTL DEF SystemSoundGuardsEnable, NextIsStarted
<1>5. SystemSpec => SQ!Init /\ [][SQ!Next]_(SQ!vars)
  BY SystemKeepsPromises, PTL DEF TrackerPromises
<1>6. QED
  BY <1>3, <1>4, <1>5, PTL DEF MusicPlays, SQ!Spec

-----------------------------------------------------------------------------
(* What the broker is told *)

\* Only Publish tells the broker.
LEMMA OnlyPublishTells ==
  [Next]_vars /\ published' /\ ~published => Publish
<1> SUFFICES ASSUME [Next]_vars, published' # published, published', ~Publish PROVE FALSE
  OBVIOUS
<1> USE DEF simVars
<1>1. CASE Start \/ SendActPosition
  BY <1>1 DEF Start, SendActPosition, Sim!Call
<1>2. ASSUME NEW code \in Sim!Codes, InitModemReturns(code) \/ SendReturns(code) PROVE FALSE
  BY <1>2 DEF InitModemReturns, SendReturns, Sim!Return
<1>3. ASSUME NEW t \in Timestamps, SaveFastFix(t) PROVE FALSE
  BY <1>3 DEF SaveFastFix
<1>4. ASSUME NEW p \in Positions, UpdatePosition(p) PROVE FALSE
  BY <1>4 DEF UpdatePosition, Sim!HandPosition
<1>5. CASE ReachWaypoint \/ Persist \/ WaitQuiet \/ SleepCheck \/ GoToSleep \/ Wake \/ SoundTask
  BY <1>5 DEF ReachWaypoint, Persist, WaitQuiet, SleepCheck, GoToSleep, Wake, SoundTask
<1>6. CASE Restart \/ PowerCut
  BY <1>6 DEF Restart, PowerCut, Reset, Sim!PowerDown
<1>7. CASE UNCHANGED vars
  BY <1>7 DEF vars
<1>8. QED
  BY <1>1, <1>2, <1>3, <1>4, <1>5, <1>6, <1>7 DEF Next, Run

\* A message is sent with no save under way: what the broker is told, a
\* restart would find on flash, unless the flash failed.
THEOREM BrokerToldIsSaved == SystemSpec => ToldIsSaved
<1>1. TrackerInv /\ Publish => SM!Restored(file).visited = visited \/ flashFailed
  BY DEF TrackerInv, SM!IInv, SM!QuiescentIsDurable, Publish
<1>2. TrackerInv /\ [SystemNext]_SystemVars =>
        [published' /\ ~published =>
           SM!Restored(file).visited = visited \/ flashFailed]_SystemVars
  BY <1>1, SystemStepIsTracker, OnlyPublishTells
<1>3. QED
  BY <1>2, SystemKeepsTrackerInv, PTL DEF SystemSpec, ToldIsSaved

-----------------------------------------------------------------------------
(* The driver inside the system *)

\* What the driver's own proofs need, with the tracker around it: the
\* timestamp is the state manager's.
DriverInv == M!ModemInv /\ M!OffOnlyBeforeWakeUp /\ enabled = Enabled

\* The driver's own lemmas, as they apply here.
LEMMA DriverLemmas ==
  /\ M!Init => M!ModemInv /\ M!OffOnlyBeforeWakeUp
  /\ M!ModemInv /\ M!OffOnlyBeforeWakeUp /\ [M!Next]_(M!vars)
       => /\ M!ModemInv' /\ M!OffOnlyBeforeWakeUp' /\ enabled' = enabled
          /\ modem = "off" /\ modem' # "off" /\ enabled # {} => call = "init"
  /\ M!ModemInv /\ M!OffOnlyBeforeWakeUp /\ M!BeginInit /\ lastFix' \in Timestamps
       => M!ModemInv' /\ M!OffOnlyBeforeWakeUp'
<1>1. /\ M!ModemInv = MP!ModemInv /\ M!ModemInv' = MP!ModemInv'
      /\ M!OffOnlyBeforeWakeUp = MP!OffOnlyBeforeWakeUp
      /\ M!OffOnlyBeforeWakeUp' = MP!OffOnlyBeforeWakeUp'
      /\ M!BeginInit = MP!BeginInit
  BY Zenon DEF
     M!ModemInv, MP!ModemInv, M!TypeOK, MP!TypeOK, M!LockMatchesCode, MP!LockMatchesCode,
     M!Locked, MP!Locked, M!CallMatchesCode, MP!CallMatchesCode, M!TriesInRange,
     MP!TriesInRange, M!InMqtt, MP!InMqtt, M!MqttAttempts, MP!MqttAttempts,
     M!KeepaliveCreated, MP!KeepaliveCreated, M!Resumable, MP!Resumable, M!GpsPart,
     MP!GpsPart, M!GsmEnabled, MP!GsmEnabled, M!OffOnlyBeforeWakeUp,
     MP!OffOnlyBeforeWakeUp, M!BeginInit, MP!BeginInit, M!Begin, MP!Begin, M!Goto, MP!Goto,
     M!world, MP!world, M!locks, MP!locks
<1>2. M!Init = MP!Init
  BY Zenon DEF M!Init, MP!Init
<1>3. [M!Next]_(M!vars) = [MP!Next]_(MP!vars)
  BY Zenon DEF
     M!world, MP!world, M!locks, MP!locks, M!sim, MP!sim, M!local, MP!local,
     M!vars, MP!vars, M!MqttAttempts, MP!MqttAttempts, M!GsmEnabled, MP!GsmEnabled,
     M!GpsEnabled, MP!GpsEnabled, M!SerialBegun, MP!SerialBegun, M!Answer,
     MP!Answer, M!Drops, MP!Drops, M!FixFound, MP!FixFound, M!Tick, MP!Tick,
     M!Goto, MP!Goto, M!Acquire, MP!Acquire, M!Release, MP!Release, M!Return,
     MP!Return, M!WakeUp, MP!WakeUp, M!Begin, MP!Begin, M!BeginInit, MP!BeginInit,
     M!CallInit, MP!CallInit, M!Resumable, MP!Resumable, M!CallSend, MP!CallSend,
     M!EnterGprs, MP!EnterGprs, M!GprsFailed, MP!GprsFailed, M!RestartModem,
     MP!RestartModem, M!SetUpGprs, MP!SetUpGprs, M!WaitForNetwork, MP!WaitForNetwork, M!AttachFails,
     MP!AttachFails, M!Attach, MP!Attach, M!EnterMqtt, MP!EnterMqtt, M!InMqtt,
     MP!InMqtt, M!ClientSetUp, MP!ClientSetUp, M!MqttConnect, MP!MqttConnect,
     M!MqttConnectFails, MP!MqttConnectFails, M!CreateMqttTask, MP!CreateMqttTask,
     M!MqttConnected, MP!MqttConnected, M!EnterGps, MP!EnterGps, M!GpsFailed,
     MP!GpsFailed, M!ActTime, MP!ActTime, M!FastFixDue, MP!FastFixDue, M!StartGps,
     MP!StartGps, M!SaveFastFix, MP!SaveFastFix, M!FixLacking, MP!FixLacking,
     M!FixAcquired, MP!FixAcquired, M!EnterReconnect, MP!EnterReconnect, M!Check,
     MP!Check, M!CheckGprs, MP!CheckGprs, M!CheckGps, MP!CheckGps, M!CheckMqtt,
     MP!CheckMqtt, M!PositionCodes, MP!PositionCodes, M!ActualPosition,
     MP!ActualPosition, M!Update, MP!Update, M!SendMessage, MP!SendMessage,
     M!Deliver, MP!Deliver, M!Acknowledged, MP!Acknowledged, M!PublishFails,
     MP!PublishFails, M!Sleep, MP!Sleep, M!MqttWakes, MP!MqttWakes, M!MqttLocks,
     MP!MqttLocks, M!MqttUnlocks, MP!MqttUnlocks, M!ChipReset, MP!ChipReset,
     M!PowerDown, MP!PowerDown, M!Panics, MP!Panics, M!CallerStep, MP!CallerStep,
     M!CallerLocks, MP!CallerLocks, M!Next, MP!Next
<1>4. MP!Init => MP!ModemInv /\ MP!OffOnlyBeforeWakeUp
  BY SystemConstantsOK, MP!InitModemInv
     DEF M!ModemConstantsOK, MP!ModemConstantsOK, MP!Init, MP!OffOnlyBeforeWakeUp, MP!Resumable
<1>5. MP!ModemInv /\ MP!OffOnlyBeforeWakeUp /\ [MP!Next]_(MP!vars)
        => /\ MP!ModemInv' /\ MP!OffOnlyBeforeWakeUp' /\ enabled' = enabled
           /\ modem = "off" /\ modem' # "off" /\ enabled # {} => call = "init"
  <2>1. MP!ModemInv /\ MP!OffOnlyBeforeWakeUp /\ [MP!Next]_(MP!vars) =>
          /\ MP!OffOnlyBeforeWakeUp'
          /\ modem = "off" /\ modem' # "off" /\ enabled # {} => call = "init"
    BY SystemConstantsOK, MP!StepOff DEF M!ModemConstantsOK, MP!ModemConstantsOK
  <2>2. QED
    BY <2>1, SystemConstantsOK, MP!StepModemInv, MP!ConfigurationKept
       DEF M!ModemConstantsOK, MP!ModemConstantsOK
<1>6. MP!ModemInv /\ MP!OffOnlyBeforeWakeUp /\ MP!BeginInit /\ lastFix' \in Timestamps
        => MP!ModemInv' /\ MP!OffOnlyBeforeWakeUp'
  BY SystemConstantsOK, MP!BeginInitInv DEF M!ModemConstantsOK, MP!ModemConstantsOK
<1>7. QED
  BY <1>1, <1>2, <1>3, <1>4, <1>5, <1>6

\* A step of the system that leaves the driver's variables alone but is not
\* one of the driver's.
LEMMA TrackerAlone ==
  TrackerOnly \/ FallAsleep \/ MusicEnds \/ TimerFires \/ Plays => UNCHANGED M!vars
<1> USE DEF driverVars, simVars, smVars, M!vars, M!world, M!locks, M!sim, M!local
<1>1. TrackerOnly => UNCHANGED M!vars
  BY DEF TrackerOnly, ReachWaypoint, SM!ReachWaypoint, Persist, SM!PersistStep, SM!RemoveFile,
     SM!RemoveFails, SM!OpenFile, SM!OpenFails, SM!WriteFile, SM!WriteFails, SM!ram, SleepCheck
<1>2. FallAsleep \/ MusicEnds \/ TimerFires \/ Plays => UNCHANGED M!vars
  BY DEF FallAsleep, GoToSleep, MusicEnds, WaitQuiet, TimerFires, Wake, Plays, SoundTask
<1>3. QED
  BY <1>1, <1>2

\* Every step but begin()'s is a step of the driver or leaves it alone.
LEMMA StepOfDriver ==
  [SystemNext]_SystemVars => [M!Next]_(M!vars) \/ (Start /\ M!BeginInit)
<1> SUFFICES ASSUME [SystemNext]_SystemVars, ~(Start /\ M!BeginInit)
             PROVE  [M!Next]_(M!vars)
  OBVIOUS
<1>1. CASE CallDriver
  BY <1>1 DEF CallDriver, M!Next
<1>2. CASE DriverLocks \/ DriverSteps \/ DriverServes
  BY <1>2 DEF DriverLocks, DriverSteps, DriverServes, M!Next, M!CallerStep
<1>3. CASE ModemToSleep \/ MqttTask \/ World
  BY <1>3 DEF ModemToSleep, MqttTask, World, M!Next
<1>4. CASE SelfRestart \/ PowerCuts
  <2>1. lastFix' = 0
    BY <1>4 DEF SelfRestart, PowerCuts, Restart, PowerCut, Reset, SM!PowerLoss
  <2>2. M!ChipReset
    BY <1>4 DEF SelfRestart, PowerCuts
  <2>3. QED
    BY <2>1, <2>2 DEF M!PowerDown, M!Next
<1>5. CASE TrackerOnly \/ FallAsleep \/ MusicEnds \/ TimerFires \/ Plays
  BY <1>5, TrackerAlone
<1>6. CASE UNCHANGED SystemVars
  BY <1>6 DEF SystemVars, vars, smVars, simVars, driverVars,
     M!vars, M!world, M!locks, M!sim, M!local
<1>7. QED
  BY <1>1, <1>2, <1>3, <1>4, <1>5, <1>6 DEF SystemNext, LoopTask

\* The system keeps the driver's inductive invariants.
LEMMA SystemKeepsDriverInv == SystemSpec => []DriverInv
<1>1. SystemInit => DriverInv
  BY DriverLemmas DEF SystemInit, DriverInv
<1>2. DriverInv /\ TrackerInv' /\ [SystemNext]_SystemVars => DriverInv'
  <2> SUFFICES ASSUME DriverInv, TrackerInv', [SystemNext]_SystemVars PROVE DriverInv'
    OBVIOUS
  <2>1. CASE [M!Next]_(M!vars)
    BY <2>1, DriverLemmas DEF DriverInv
  <2>2. CASE Start /\ M!BeginInit
    <3>1. lastFix' \in Timestamps
      BY DEF TrackerInv, TypeOK, SM!TypeOK
    <3>2. enabled' = enabled
      BY <2>2 DEF M!BeginInit, M!Begin, M!world
    <3>3. QED
      BY <2>2, <3>1, <3>2, DriverLemmas DEF DriverInv
  <2>3. QED
    BY <2>1, <2>2, StepOfDriver
<1>3. QED
  BY <1>1, <1>2, SystemKeepsTrackerInv, PTL DEF SystemSpec

\* After which codes the loop is where: with the wish to sleep, none after
\* which a message is still unsent.
CodesFit ==
  /\ loopPc \in {"loop", "sleepCheck"} => res \in {"Ok", "GPS_ACCURACY_TOO_LOW", "SENDING_DATA_FAILED"}
  /\ loopPc \in {"goToSleep", "asleep"} \/ (loopPc = "sleepCheck" /\ shouldSleep)
       => res \in {"Ok", "GPS_ACCURACY_TOO_LOW"}

\* The switch on the status code keeps it.
LEMMA StepCodes == TrackerInv /\ CodesFit /\ [Next]_vars => CodesFit'
<1> SUFFICES ASSUME CodesFit, [Next]_vars PROVE CodesFit'
  OBVIOUS
<1> USE DEF CodesFit, simVars
<1>1. CASE Start \/ SendActPosition
  BY <1>1 DEF Start, SendActPosition
<1>2. ASSUME NEW code \in Sim!Codes, InitModemReturns(code) PROVE CodesFit'
  BY <1>2 DEF InitModemReturns, Sim!Return
<1>3. ASSUME NEW code \in Sim!Codes, SendReturns(code) PROVE CodesFit'
  BY <1>3 DEF SendReturns, Sim!Return
<1>4. ASSUME NEW t \in Timestamps, SaveFastFix(t) PROVE CodesFit'
  BY <1>4 DEF SaveFastFix
<1>5. ASSUME NEW p \in Positions, UpdatePosition(p) PROVE CodesFit'
  BY <1>5 DEF UpdatePosition, Sim!HandPosition
<1>6. CASE ReachWaypoint \/ Persist \/ WaitQuiet \/ SleepCheck \/ GoToSleep \/ Wake \/ SoundTask
  BY <1>6 DEF ReachWaypoint, Persist, WaitQuiet, SleepCheck, GoToSleep, Wake, SoundTask
<1>7. CASE Publish
  BY <1>7 DEF Publish, Sim!Publish
<1>8. CASE Restart \/ PowerCut
  BY <1>8 DEF Restart, PowerCut, Reset
<1>9. CASE UNCHANGED vars
  BY <1>9 DEF vars
<1>10. QED
  BY <1>1, <1>2, <1>3, <1>4, <1>5, <1>6, <1>7, <1>8, <1>9 DEF Next, Run

\* The loop never calls the driver after a call that left it half-way, never
\* sends over a modem that reconnect() has switched off, and never puts it
\* to sleep with a message unsent.
THEOREM LoopCallsDriverRight == SystemSpec => []DriverCalledRight
<1>1. SystemInit => CodesFit
  BY DEF SystemInit, Init, CodesFit
<1>2. TrackerInv /\ CodesFit /\ [SystemNext]_SystemVars => CodesFit'
  BY StepCodes, SystemStepIsTracker
<1>3. TrackerInv /\ DriverInv /\ CodesFit => DriverCalledRight
  <2> SUFFICES ASSUME TrackerInv, DriverInv, CodesFit PROVE DriverCalledRight
    OBVIOUS
  <2>1. /\ call \in {"none", "init", "send"}
        /\ call = "init" <=> loopPc = "setup"
        /\ call = "send" <=> loopPc = "sending"
    BY DEF TrackerInv, TypeOK, Sim!TypeOK, PhasesFit
  <2>2. enabled # {}
    BY SystemConstantsOK DEF DriverInv
  <2>3. modem = "off" => call # "send" /\ res \notin M!Resumable
    BY <2>2 DEF DriverInv, M!OffOnlyBeforeWakeUp
  <2>4. QED
    BY <2>1, <2>3 DEF DriverCalledRight, CodesFit, M!Resumable
<1>4. QED
  BY <1>1, <1>2, <1>3, SystemKeepsTrackerInv, SystemKeepsDriverInv, PTL DEF SystemSpec

\* SERIAL_LOCK is held by whom the code says, with the tracker's sleeps,
\* restarts and power cuts around it, and reconnect() finds the keepalive
\* task it resumes.
THEOREM SystemLocksRight == SystemSpec => [](M!LockMatchesCode /\ M!KeepaliveExists)
<1>1. DriverInv => M!LockMatchesCode /\ M!KeepaliveExists
  BY DEF DriverInv, M!ModemInv, M!KeepaliveExists, M!KeepaliveCreated
<1>2. QED
  BY <1>1, SystemKeepsDriverInv, PTL

\* The tracker restarts after a modem that reconnect() switched off: neither
\* the loop task nor the keepalive task, nor the sleep between two sends,
\* wakes it up behind init()'s back.
THEOREM SystemPoweredOffForGood == SystemSpec => M!PowerOffIsFinal
<1>1. DriverInv /\ [SystemNext]_SystemVars =>
        [modem = "off" /\ modem' # "off" /\ enabled # {} => call = "init"]_(M!vars)
  <2>1. M!BeginInit => modem' = modem
    BY DEF M!BeginInit, M!Begin, M!world
  <2>2. QED
    BY <2>1, StepOfDriver, DriverLemmas DEF DriverInv
<1>2. QED
  BY <1>1, SystemKeepsDriverInv, PTL DEF SystemSpec, M!PowerOffIsFinal

\* The driver inside the system keeps to its interface, with the timestamp,
\* the callback and the restarts of the tracker around it: from the tracker,
\* which the system implements.
THEOREM SystemDriverIsISim == SystemSpec => Sim!Spec
<1>1. Init => Sim!Init
  BY DEF Init
<1>2. [Next]_vars => [Sim!Next]_(Sim!vars)
  BY StepOfISim
<1>3. QED
  BY <1>1, <1>2, SystemIsTracker, PTL DEF Sim!Spec
=============================================================================
