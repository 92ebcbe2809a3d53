---------------------------- MODULE DeviceProofs ----------------------------
(***************************************************************************)
(* Proofs about the whole device: about the reset counter, for any number  *)
(* of resets that the service mode may ask for, whatever the tracker does; *)
(* and that what was proved of the tracker holds behind the counter.       *)
(***************************************************************************)
EXTENDS Device, TrackerProofs

\* The first boot finds the counter clear.
LEMMA BootInit == B!Init => B!BootInv
BY DeviceConstantsOK
   DEF B!Init, B!BootInv, B!TypeOK, B!CounterCounts, B!ServiceIffQuickResets

\* setup(), its end and every reset keep the counter and the history equal.
LEMMA BootStepInv == B!BootInv /\ [B!Next]_bootVars => B!BootInv'
<1> SUFFICES ASSUME B!BootInv, [B!Next]_bootVars PROVE B!BootInv'
  OBVIOUS
<1> USE DeviceConstantsOK
    DEF B!BootInv, B!TypeOK, B!CounterCounts, B!ServiceIffQuickResets
<1>1. CASE B!PowerOn
  BY <1>1 DEF B!PowerOn
<1>2. CASE B!EnterService
  BY <1>2 DEF B!EnterService
<1>3. CASE B!LeaveWindow
  BY <1>3 DEF B!LeaveWindow
<1>4. CASE B!Cut
  BY <1>4 DEF B!Cut
<1>5. CASE UNCHANGED bootVars
  BY <1>5 DEF bootVars
<1>6. QED
  BY <1>1, <1>2, <1>3, <1>4, <1>5 DEF B!Next

\* Whatever the device does is a step of setup() or leaves its state alone.
LEMMA DeviceStepIsBoot == [DeviceNext]_DeviceVars => [B!Next]_bootVars
BY DEF DeviceNext, DeviceVars, BootStep, TrackerStep, SelfRestart,
       DevicePowerCut, B!Next, bootVars

\* The service mode is entered exactly after enough boots in a row were cut
\* off in their first half second, whatever the tracker did before: its own
\* restarts never add up to it.
THEOREM ServiceModeNeedsQuickResets == DeviceSpec => []ServiceIffQuickResets
<1>1. DeviceInit => B!BootInv
  BY BootInit DEF DeviceInit
<1>2. B!BootInv /\ [DeviceNext]_DeviceVars => B!BootInv'
  BY BootStepInv, DeviceStepIsBoot
<1>3. B!BootInv => ServiceIffQuickResets
  BY DEF B!BootInv, ServiceIffQuickResets
<1>4. QED
  BY <1>1, <1>2, <1>3, PTL DEF DeviceSpec

-----------------------------------------------------------------------------
(* The tracker inside the device *)

\* Whatever the device does is a step of the tracker or leaves it alone.
LEMMA DeviceStepIsTracker == [DeviceNext]_DeviceVars => [Next]_vars
BY DEF DeviceNext, DeviceVars, BootStep, TrackerStep, SelfRestart, DevicePowerCut, Next

\* The device keeps the tracker's inductive invariant.
LEMMA DeviceKeepsTrackerInv == DeviceSpec => []TrackerInv
<1>1. DeviceInit => TrackerInv
  BY InitTrackerInv DEF DeviceInit
<1>2. TrackerInv /\ [DeviceNext]_DeviceVars => TrackerInv'
  BY StepTrackerInv, DeviceStepIsTracker
<1>3. QED
  BY <1>1, <1>2, PTL DEF DeviceSpec

\* With setup(), its reset counter and the service mode before every start,
\* music still follows the progress, no waypoint is skipped, and the tracker
\* does not sleep unheard.
THEOREM DeviceKeepsTrackerSafe ==
  DeviceSpec => [](MusicFollowsProgress /\ NeverSleepsUnheard /\ SM!NeverSkip)
<1>1. TrackerInv => MusicFollowsProgress /\ NeverSleepsUnheard /\ SM!NeverSkip
  BY DEF TrackerInv, SM!IInv
<1>2. QED
  BY <1>1, DeviceKeepsTrackerInv, PTL

\* Behind the reset counter the tracker keeps all its promises: those of the
\* state manager and of the sound queue, over any number of boots, visits of
\* the service mode and power cuts in the middle of either.
THEOREM DeviceKeepsPromises == DeviceSpec => TrackerPromises
<1>1. DeviceInit => Init
  BY DEF DeviceInit
<1>2. DeviceSpec => Init /\ [][Next]_vars
  BY <1>1, DeviceStepIsTracker, PTL DEF DeviceSpec
<1>3. QED
  BY <1>2, TrackerStepsKeepPromises

-----------------------------------------------------------------------------
(* A tracker that restarts itself comes back *)

\* A tracker runs only behind the reset counter.
RunsBehindCounter == loopPc # "off" => bootPc = "tracker"

\* Nothing runs before the first boot ...
LEMMA InitBehindCounter == DeviceInit => RunsBehindCounter
BY DEF DeviceInit, Init, RunsBehindCounter

\* ... nor before setup() is through in any other.
LEMMA StepBehindCounter ==
  RunsBehindCounter /\ [DeviceNext]_DeviceVars => RunsBehindCounter'
<1> SUFFICES ASSUME RunsBehindCounter, [DeviceNext]_DeviceVars PROVE RunsBehindCounter'
  OBVIOUS
<1> USE DEF RunsBehindCounter
<1>1. CASE BootStep
  BY <1>1 DEF BootStep, vars, B!PowerOn, B!EnterService, B!LeaveWindow
<1>2. CASE TrackerStep
  BY <1>2 DEF TrackerStep, bootVars
<1>3. CASE SelfRestart
  BY <1>3 DEF SelfRestart, Restart, Reset
<1>4. CASE DevicePowerCut
  BY <1>4 DEF DevicePowerCut, PowerCut, Reset, vars
<1>5. CASE UNCHANGED DeviceVars
  BY <1>5 DEF DeviceVars, vars, bootVars
<1>6. QED
  BY <1>1, <1>2, <1>3, <1>4, <1>5 DEF DeviceNext

\* The stations of a restart: given up, reset, in the half second before the
\* counter is cleared, and back.
GivenUp == loopPc = "restart"
WasReset == bootPc = "off" /\ loopPc = "off" /\ quick = 0
InWindow == bootPc = "window" /\ loopPc = "off" /\ quick = 0
Back == (bootPc = "tracker" /\ loopPc = "off") \/ quick > 0

\* Nothing happens in a tracker that has given up but music, and its reset.
LEMMA StepGivenUp ==
  ASSUME TrackerInv, B!BootInv, RunsBehindCounter, [DeviceNext]_DeviceVars, GivenUp
  PROVE  /\ GivenUp' \/ WasReset'
         /\ SelfRestart => WasReset'
<1> USE DEF GivenUp, WasReset
<1>0. bootPc = "tracker"
  BY DEF RunsBehindCounter
<1>1. B!Cut => bootPc' = "off" /\ quick' = 0
  BY <1>0 DEF B!Cut
<1>2. SelfRestart \/ DevicePowerCut => WasReset'
  BY <1>1 DEF SelfRestart, DevicePowerCut, Restart, PowerCut, Reset
<1>3. TrackerStep => loopPc' = "restart"
  BY DEF TrackerStep, Run, Start, InitModemReturns, SendActPosition, SaveFastFix, UpdatePosition,
     ReachWaypoint, Persist, Publish, SendReturns, WaitQuiet, SleepCheck, GoToSleep, Wake,
     SoundTask
<1>4. BootStep \/ UNCHANGED DeviceVars => loopPc' = "restart"
  BY DEF BootStep, DeviceVars, vars
<1>5. QED
  BY <1>2, <1>3, <1>4 DEF DeviceNext

\* The first boot after it does not count as a quick reset.
LEMMA StepWasReset ==
  ASSUME ServiceResets > 1, B!BootInv, [DeviceNext]_DeviceVars, WasReset
  PROVE  /\ WasReset' \/ InWindow'
         /\ BootStep => InWindow'
<1> USE DEF WasReset, InWindow
<1>1. rc = 0
  BY DEF B!BootInv, B!CounterCounts
<1>2. B!PowerOn => bootPc' = "window" /\ quick' = 0
  BY <1>1, DeviceConstantsOK DEF B!PowerOn
<1>3. BootStep => InWindow'
  BY <1>2 DEF BootStep, vars, B!EnterService, B!LeaveWindow
<1>4. ~TrackerStep /\ ~SelfRestart /\ ~DevicePowerCut
  BY DEF TrackerStep, SelfRestart, DevicePowerCut, B!Cut
<1>5. UNCHANGED DeviceVars => WasReset'
  BY DEF DeviceVars, vars, bootVars
<1>6. QED
  BY <1>3, <1>4, <1>5 DEF DeviceNext

\* The window is left for the tracker, or by somebody's quick reset.
LEMMA StepInWindow ==
  ASSUME [DeviceNext]_DeviceVars, InWindow
  PROVE  /\ InWindow' \/ Back'
         /\ BootStep => Back'
<1> USE DEF InWindow, Back
<1>1. BootStep => Back'
  BY DEF BootStep, vars, B!PowerOn, B!EnterService, B!LeaveWindow
<1>2. B!Cut => quick' > 0
  BY DeviceConstantsOK DEF B!Cut
<1>3. ~TrackerStep
  BY DEF TrackerStep
<1>4. UNCHANGED DeviceVars => InWindow'
  BY DEF DeviceVars, vars, bootVars
<1>5. QED
  BY <1>1, <1>2, <1>3, <1>4 DEF DeviceNext, SelfRestart, DevicePowerCut

\* DeviceFairness with the guards for ENABLED: setup() goes on while it is
\* under way, and a tracker that has given up restarts in the end.
SetupUnderWay == bootPc \in {"off", "window", "toService"}

SetupGoesOn ==
  /\ []<>~SetupUnderWay \/ []<><<BootStep>>_DeviceVars
  /\ []<>~GivenUp \/ []<><<SelfRestart>>_DeviceVars

\* What the guards say of ENABLED, of which the provers know nothing.
DeviceGuardsEnable ==
  /\ SetupUnderWay => ENABLED <<BootStep>>_DeviceVars
  /\ GivenUp => ENABLED <<SelfRestart>>_DeviceVars

\* The guards and DeviceSpec's fairness together.
LEMMA SetupIsScheduled == DeviceSpec /\ []DeviceGuardsEnable => SetupGoesOn
BY PTL DEF DeviceSpec, DeviceFairness, DeviceGuardsEnable, SetupGoesOn

\* A tracker that restarts itself runs again without anyone's help, for any
\* game, any number of restarts before, and any threshold of the service mode
\* but one, with which the tracker would never run at all.
THEOREM RestartedTrackerComesBack ==
  ASSUME ServiceResets > 1
  PROVE  DeviceSpec /\ []DeviceGuardsEnable => TrackerComesBack
<1>1. DeviceSpec => [](TrackerInv /\ B!BootInv /\ RunsBehindCounter)
  <2>1. DeviceInit => TrackerInv /\ B!BootInv /\ RunsBehindCounter
    BY InitTrackerInv, BootInit, InitBehindCounter DEF DeviceInit
  <2>2. TrackerInv /\ B!BootInv /\ RunsBehindCounter /\ [DeviceNext]_DeviceVars
          => TrackerInv' /\ B!BootInv' /\ RunsBehindCounter'
    BY StepTrackerInv, DeviceStepIsTracker, BootStepInv, DeviceStepIsBoot, StepBehindCounter
  <2>3. QED
    BY <2>1, <2>2, PTL DEF DeviceSpec
<1>2. TrackerInv /\ B!BootInv /\ RunsBehindCounter /\ [DeviceNext]_DeviceVars /\ GivenUp
        => /\ GivenUp' \/ WasReset'
           /\ <<SelfRestart>>_DeviceVars => WasReset'
  BY StepGivenUp
<1>3. B!BootInv /\ [DeviceNext]_DeviceVars /\ WasReset
        => /\ WasReset' \/ InWindow'
           /\ <<BootStep>>_DeviceVars => InWindow'
  BY StepWasReset
<1>4. [DeviceNext]_DeviceVars /\ InWindow
        => /\ InWindow' \/ Back'
           /\ <<BootStep>>_DeviceVars => Back'
  BY StepInWindow
<1>5. WasReset \/ InWindow => SetupUnderWay
  BY DEF WasReset, InWindow, SetupUnderWay
<1>6. DeviceSpec /\ []DeviceGuardsEnable => (GivenUp ~> Back)
  BY <1>1, <1>2, <1>3, <1>4, <1>5, SetupIsScheduled, PTL DEF DeviceSpec, SetupGoesOn
<1>7. QED
  BY <1>6 DEF TrackerComesBack, GivenUp, Back
=============================================================================
