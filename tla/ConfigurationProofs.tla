------------------------ MODULE ConfigurationProofs -------------------------
(***************************************************************************)
(* Proofs about the file system, the index into the waypoints and the      *)
(* timers, for any configuration, any order of uploads and resets and, but *)
(* for the last theorem, any width of the integers.                        *)
(***************************************************************************)
EXTENDS Configuration, TLAPS

\* A product below half the modulus is itself as a signed integer.
LEMMA SignedLongExact ==
  ASSUME NEW x \in Nat, 2 * x < LongModulus
  PROVE  SignedLong(x) = x
<1>1. x % LongModulus = x
  BY TimersConstantsOK
<1>2. QED
  BY <1>1, TimersConstantsOK DEF SignedLong

\* What a readable config.json says is a number where one is expected.
LEMMA ReadableImages ==
  ASSUME NEW i \in Images, i.file = "ok"
  PROVE  /\ i.waypoints \in Nat /\ i.sleepTime \in Nat
         /\ i.waypoints \in 0 .. MaxWaypoints /\ i.sleepTime \in SleepTimes
<1>1. CASE i \in [file : {"noFileSystem", "noJson"}]
  BY <1>1
<1>2. CASE i \in [file : {"ok"}, waypoints : 0 .. MaxWaypoints, enable : Flags,
                  sleepTime : SleepTimes]
  <2>1. i.waypoints \in 0 .. MaxWaypoints /\ i.sleepTime \in SleepTimes
    BY <1>2
  <2>2. i.sleepTime \in Nat
    BY <2>1, ConfigurationConstantsOK
  <2>3. 0 .. MaxWaypoints \subseteq Nat
    BY ConfigurationConstantsOK
  <2>4. QED
    BY <2>1, <2>2, <2>3
<1>3. QED
  BY <1>1, <1>2 DEF Images

\* Any file system may be there at the first boot.
LEMMA InitConfigInv == ConfigInit => ConfigInv
<1> SUFFICES ASSUME ConfigInit PROVE ConfigInv
  OBVIOUS
<1>1. SavedInBounds
  BY ReadableImages DEF ConfigInit, SavedInBounds
<1>2. CopyIsCurrent /\ TimerMatchesConfig
  BY DEF ConfigInit, CopyIsCurrent, TimerMatchesConfig
<1>3. QED
  BY <1>1, <1>2 DEF ConfigInv

\* A reset leaves nothing of the tracker.
LEMMA ResetForgets ==
  ASSUME ResetChip
  PROVE  CopyIsCurrent' /\ TimerMatchesConfig'
BY DEF ResetChip, CopyIsCurrent, TimerMatchesConfig

\* A file system is uploaded without a state file.
LEMMA UploadStartsAnew ==
  ASSUME NEW i \in Images, ReplaceFileSystem(i)
  PROVE  SavedInBounds'
BY ReadableImages DEF ReplaceFileSystem, SavedInBounds

\* Every step keeps the inductive invariant.
LEMMA StepConfigInv == ConfigInv /\ [ConfigNext]_configVars => ConfigInv'
<1> SUFFICES ASSUME ConfigInv, [ConfigNext]_configVars PROVE ConfigInv'
  OBVIOUS
<1> USE DEF ConfigInv, flash, config, ram
<1>1. CASE UNCHANGED configVars
  BY <1>1 DEF configVars, vars, SavedInBounds, CopyIsCurrent, TimerMatchesConfig
<1>2. CASE BootStep
  <2>1. bootPc # "tracker" /\ UNCHANGED <<flash, ram>>
    BY <1>2 DEF BootStep, PowerOn, EnterService, LeaveWindow
  <2>2. QED
    BY <2>1 DEF SavedInBounds, CopyIsCurrent, TimerMatchesConfig
<1>3. CASE Read
  <2>1. image.file = "ok" /\ sleepTime' \in Nat
    BY <1>3 DEF Read, Readable, SavedInBounds
  <2>2. QED
    BY <1>3, <2>1 DEF Read, vars, SavedInBounds, CopyIsCurrent, TimerMatchesConfig
<1>4. CASE Begin
  BY <1>4 DEF Begin, vars, SavedInBounds, CopyIsCurrent, TimerMatchesConfig
<1>5. CASE ReachWaypoint
  <2>1. saved' \in {visited + 1, saved, 0} /\ visited' = visited + 1
    BY <1>5 DEF ReachWaypoint, PersistState
  <2>2. QED
    BY <1>5, <2>1 DEF ReachWaypoint, vars, SavedInBounds, CopyIsCurrent, TimerMatchesConfig
<1>5a. CASE SaveFastFix
  BY <1>5a DEF SaveFastFix, PersistState, vars, SavedInBounds, CopyIsCurrent, TimerMatchesConfig
<1>6. CASE Sleep \/ WakeUp \/ Reconnect
  BY <1>6 DEF Sleep, WakeUp, Reconnect, vars, SavedInBounds, CopyIsCurrent, TimerMatchesConfig
<1>7. CASE GivesUp
  BY <1>7 DEF GivesUp, vars, SavedInBounds, CopyIsCurrent, TimerMatchesConfig
<1>8. CASE GiveUp
  BY <1>8, ResetForgets DEF GiveUp, SavedInBounds
<1>9. CASE CutPower
  BY <1>9, ResetForgets DEF CutPower, SavedInBounds
<1>10. ASSUME NEW i \in Images, UploadOverWire(i) PROVE ConfigInv'
  <2>1. SavedInBounds'
    BY <1>10, UploadStartsAnew DEF UploadOverWire
  <2>2. CASE ResetChip
    BY <2>1, <2>2, ResetForgets
  <2>3. CASE bootPc = "off" /\ UNCHANGED <<vars, ram>>
    BY <2>1, <2>3 DEF CopyIsCurrent, TimerMatchesConfig
  <2>4. QED
    BY <1>10, <2>2, <2>3 DEF UploadOverWire
<1>11. ASSUME NEW i \in Images, UploadOverAir(i) PROVE ConfigInv'
  BY <1>11, UploadStartsAnew, ResetForgets DEF UploadOverAir
<1>12. QED
  BY <1>1, <1>2, <1>3, <1>4, <1>5, <1>5a, <1>6, <1>7, <1>8, <1>9, <1>10, <1>11
     DEF ConfigNext, TrackerStep

\* The inductive invariant holds through all uploads and boots.
THEOREM ConfigInvHolds == ConfigSpec => []ConfigInv
<1>1. ConfigInv /\ [ConfigNext]_configVars => ConfigInv'
  BY StepConfigInv
<1>2. QED
  BY <1>1, InitConfigInv, PTL DEF ConfigSpec

\* The index that survives a restart in the state file never leaves the
\* vector of waypoints that the next boot reads, whatever was uploaded.
THEOREM IndexStaysInBounds == ConfigSpec => []IndexInBounds
<1>1. ConfigInv => IndexInBounds
  BY DEF ConfigInv, CopyIsCurrent, IndexInBounds
<1>2. QED
  BY <1>1, ConfigInvHolds, PTL

\* For every sleep time whose product with the factor is a long, and every
\* width of a long, the tracker sleeps for exactly the time configured.
THEOREM ShortSleepsExact == ConfigSpec => []SleepsAsConfiguredIfShort
<1>1. ConfigInv => SleepsAsConfiguredIfShort
  <2> SUFFICES ASSUME ConfigInv, FitsALong(sleepTime), loop = "asleep"
               PROVE  wakeAfter = Factor * sleepTime
    BY DEF SleepsAsConfiguredIfShort
  <2>1. wakeAfter = SignedLong(Factor * sleepTime) /\ sleepTime \in Nat
    BY DEF ConfigInv, TimerMatchesConfig, WakeAfter
  <2>2. Factor * sleepTime \in Nat
    BY <2>1, TimersConstantsOK
  <2>3. 2 * (Factor * sleepTime) < LongModulus
    BY DEF FitsALong
  <2>4. QED
    BY <2>1, <2>2, <2>3, SignedLongExact
<1>2. QED
  BY <1>1, ConfigInvHolds, PTL

\* A product that is not a long is no longer itself.
LEMMA ExactIfShortOnly ==
  ASSUME NEW s \in Nat
  PROVE  WakeAfter(s) = Factor * s <=> FitsALong(s)
<1> DEFINE x == Factor * s
           r == x % LongModulus
<1>1. x \in Nat /\ r \in 0 .. LongModulus - 1
  BY TimersConstantsOK
<1> HIDE DEF x
<1>2. ASSUME WakeAfter(s) = x PROVE 2 * x < LongModulus
  <2>1. x = IF 2 * r >= LongModulus THEN r - LongModulus ELSE r
    BY <1>2 DEF WakeAfter, SignedLong, x
  <2> HIDE DEF r
  <2>2. QED
    BY <1>1, <2>1, TimersConstantsOK
<1>3. ASSUME 2 * x < LongModulus PROVE WakeAfter(s) = x
  BY <1>1, <1>3, SignedLongExact DEF WakeAfter, x
<1>4. QED
  BY <1>2, <1>3 DEF FitsALong, x

\* The sleep is the one configured for exactly the sleep times that fit: the
\* run SleepsAsConfigured shows one that does not, and all others beyond
\* 2147 seconds go wrong as well.
THEOREM LongSleepsNeverExact ==
  ConfigSpec => [](loop = "asleep" => (SleepsAsConfigured <=> FitsALong(sleepTime)))
<1>1. ConfigInv => (loop = "asleep" => (SleepsAsConfigured <=> FitsALong(sleepTime)))
  <2> SUFFICES ASSUME ConfigInv, loop = "asleep"
               PROVE  SleepsAsConfigured <=> FitsALong(sleepTime)
    OBVIOUS
  <2>1. wakeAfter = WakeAfter(sleepTime) /\ sleepTime \in Nat
    BY DEF ConfigInv, TimerMatchesConfig
  <2>2. QED
    BY <2>1, ExactIfShortOnly DEF SleepsAsConfigured
<1>2. QED
  BY <1>1, ConfigInvHolds, PTL

-----------------------------------------------------------------------------
(* Types, and the reset counter *)

\* Uploads and all: whatever happens to the file system is a step of setup(),
\* a reset, or nothing to the reset counter.
LEMMA ConfigStepIsBoot == [ConfigNext]_configVars => [Next]_vars
<1>1. TrackerStep => UNCHANGED vars
  BY DEF TrackerStep, Read, Begin, ReachWaypoint, SaveFastFix, Sleep, GivesUp, WakeUp, Reconnect
<1>2. GiveUp \/ CutPower => Cut
  BY DEF GiveUp, CutPower, ResetChip
<1>3. (\E i \in Images : UploadOverWire(i) \/ UploadOverAir(i)) => Cut \/ UNCHANGED vars
  BY DEF UploadOverWire, UploadOverAir, ResetChip
<1>4. QED
  BY <1>1, <1>2, <1>3 DEF ConfigNext, BootStep, Next, configVars

\* The invariant of the boot, of its own steps.
LEMMA StepBootInv == BootInv /\ [Next]_vars => BootInv'
<1> SUFFICES ASSUME BootInv, [Next]_vars PROVE BootInv'
  OBVIOUS
<1> USE ConfigurationConstantsOK DEF BootInv, TypeOK, CounterCounts, ServiceIffQuickResets
<1>1. CASE PowerOn
  BY <1>1 DEF PowerOn
<1>2. CASE EnterService
  BY <1>2 DEF EnterService
<1>3. CASE LeaveWindow
  BY <1>3 DEF LeaveWindow
<1>4. CASE Cut
  BY <1>4 DEF Cut
<1>5. CASE UNCHANGED vars
  BY <1>5 DEF vars
<1>6. QED
  BY <1>1, <1>2, <1>3, <1>4, <1>5 DEF Next

\* File system and timer keep their types.
LEMMA StepFileSystemType ==
  ConfigInv /\ FileSystemTypeOK /\ [ConfigNext]_configVars => FileSystemTypeOK'
<1> SUFFICES ASSUME ConfigInv, FileSystemTypeOK, [ConfigNext]_configVars
             PROVE  FileSystemTypeOK'
  OBVIOUS
<1> USE DEF FileSystemTypeOK, flash, config, ram
<1>0. 0 \in 0 .. MaxWaypoints
  BY ConfigurationConstantsOK
<1>r. ResetChip => /\ begun' \in BOOLEAN /\ gsm' \in BOOLEAN
                   /\ size' \in 0 .. MaxWaypoints /\ visited' \in 0 .. MaxWaypoints
                   /\ sleepTime' \in SleepTimes \union {0} /\ loop' = "none"
                   /\ wakeAfter' \in Int /\ session' = "none"
  <2>1. ResetChip => begun' \in BOOLEAN /\ gsm' \in BOOLEAN
    BY DEF ResetChip
  <2>2. ResetChip => /\ size' = 0 /\ visited' = 0 /\ sleepTime' = 0 /\ wakeAfter' = 0
                     /\ loop' = "none" /\ session' = "none"
    BY DEF ResetChip
  <2>3. QED
    BY <2>1, <2>2, <1>0
<1>1. CASE UNCHANGED configVars
  BY <1>1 DEF configVars
<1>2. CASE BootStep
  BY <1>2 DEF BootStep
<1>3. CASE Read
  <2>1. size' \in 0 .. MaxWaypoints /\ sleepTime' \in SleepTimes \union {0}
    BY <1>3, ReadableImages DEF Read, Readable
  <2>2. gsm' \in BOOLEAN /\ begun' \in BOOLEAN
    BY <1>3 DEF Read, AsBool
  <2>3. visited' \in {saved, 0} /\ UNCHANGED <<flash, loop, wakeAfter, session>>
    BY <1>3 DEF Read
  <2>4. QED
    BY <2>1, <2>2, <2>3, <1>0
<1>4. CASE Begin
  <2>1. wakeAfter' \in Int
    BY <1>4, TimersConstantsOK DEF Begin, WakeAfter, SignedLong, ConfigInv, TimerMatchesConfig
  <2>2. QED
    BY <1>4, <2>1 DEF Begin
<1>5. CASE ReachWaypoint
  <2>1. visited' \in 0 .. MaxWaypoints
    BY <1>5, ConfigurationConstantsOK DEF ReachWaypoint
  <2>2. saved' \in 0 .. MaxWaypoints
    BY <1>5, <2>1, <1>0 DEF ReachWaypoint, PersistState
  <2>3. QED
    BY <1>5, <2>1, <2>2 DEF ReachWaypoint
<1>5a. CASE SaveFastFix
  BY <1>5a, <1>0 DEF SaveFastFix, PersistState
<1>6. CASE Sleep \/ WakeUp \/ Reconnect \/ GivesUp
  BY <1>6 DEF Sleep, WakeUp, Reconnect, GivesUp
<1>7. CASE GiveUp
  BY <1>7, <1>r DEF GiveUp
<1>8. CASE CutPower
  BY <1>8, <1>r, <1>0 DEF CutPower
<1>9. ASSUME NEW i \in Images, UploadOverWire(i) \/ UploadOverAir(i)
      PROVE  FileSystemTypeOK'
  <2>1. image' \in Images /\ saved' \in 0 .. MaxWaypoints
    BY <1>9, <1>0 DEF UploadOverWire, UploadOverAir, ReplaceFileSystem
  <2>2. ResetChip \/ UNCHANGED ram
    BY <1>9 DEF UploadOverWire, UploadOverAir
  <2>3. QED
    BY <2>1, <2>2, <1>r
<1>10. QED
  BY <1>1, <1>2, <1>3, <1>4, <1>5, <1>5a, <1>6, <1>7, <1>8, <1>9 DEF ConfigNext, TrackerStep

\* All variables keep their types, the numbers of waypoints their limit.
THEOREM ConfigTypeCorrect == ConfigSpec => []ConfigTypeOK
<1>1. ASSUME ConfigInit PROVE BootInv /\ FileSystemTypeOK
  <2>1. BootInv
    BY <1>1, ConfigurationConstantsOK
       DEF ConfigInit, Init, BootInv, TypeOK, CounterCounts, ServiceIffQuickResets
  <2>2. begun \in BOOLEAN /\ gsm \in BOOLEAN
    BY <1>1 DEF ConfigInit
  <2>3. /\ image \in Images /\ saved = 0 /\ size = 0 /\ visited = 0 /\ sleepTime = 0
        /\ loop = "none" /\ wakeAfter = 0 /\ session = "none"
    BY <1>1 DEF ConfigInit
  <2>4. 0 \in 0 .. MaxWaypoints
    BY ConfigurationConstantsOK
  <2>5. QED
    BY <2>1, <2>2, <2>3, <2>4 DEF FileSystemTypeOK
<1>2. BootInv /\ [ConfigNext]_configVars => BootInv'
  BY ConfigStepIsBoot, StepBootInv
<1>3. ConfigInv /\ FileSystemTypeOK /\ [ConfigNext]_configVars => FileSystemTypeOK'
  BY StepFileSystemType
<1>4. BootInv /\ FileSystemTypeOK => ConfigTypeOK
  BY DEF BootInv, ConfigTypeOK
<1>5. QED
  BY <1>1, <1>2, <1>3, <1>4, ConfigInvHolds, PTL DEF ConfigSpec

\* Nor do uploads, of files that are good or bad, or the restarts of a tracker
\* that cannot begin for them, add up to the service mode or keep it away.
THEOREM UploadsLeaveResetCounter ==
  ConfigSpec => Init /\ [][Next]_vars /\ []ServiceIffQuickResets
<1>1. Init => BootInv
  BY ConfigurationConstantsOK
     DEF Init, BootInv, TypeOK, CounterCounts, ServiceIffQuickResets
<1>2. BootInv /\ [ConfigNext]_configVars => BootInv' /\ [Next]_vars
  BY ConfigStepIsBoot, StepBootInv
<1>3. BootInv => ServiceIffQuickResets
  BY DEF BootInv
<1>4. QED
  BY <1>1, <1>2, <1>3, PTL DEF ConfigSpec, ConfigInit

-----------------------------------------------------------------------------
(* The way to the service mode, with the three resets of main.cpp *)

\* The stations of somebody who is quick enough: the tracker runs, and with
\* one reset after the other the counter is left to rise.
Tracking == bootPc = "tracker"
Off0 == bootPc = "off" /\ rc = 0
Window1 == bootPc = "window" /\ rc = 1
Off1 == bootPc = "off" /\ rc = 1
Window2 == bootPc = "window" /\ rc = 2
Off2 == bootPc = "off" /\ rc >= 2
Chosen == bootPc = "toService"
Serving == bootPc = "service"

\* From each the next one, unless the counter is cleared: a reset that comes
\* while the service mode is being chosen only postpones it.
LEMMA StepToService ==
  ASSUME ServiceResets = 3, BootInv, PowerOn \/ EnterService \/ Cut \/ UNCHANGED vars
  PROVE  /\ Tracking => (Tracking' \/ Off0') /\ (Cut => Off0')
         /\ Off0 => (Off0' \/ Window1') /\ (PowerOn => Window1')
         /\ Window1 => (Window1' \/ Off1') /\ (Cut => Off1')
         /\ Off1 => (Off1' \/ Window2') /\ (PowerOn => Window2')
         /\ Window2 => (Window2' \/ Off2') /\ (Cut => Off2')
         /\ Off2 => (Off2' \/ Chosen') /\ (PowerOn => Chosen')
         /\ Chosen => Chosen' \/ Off2' \/ Serving'
<1> USE DEF BootInv, TypeOK, CounterCounts, ServiceIffQuickResets,
        Tracking, Off0, Window1, Off1, Window2, Off2, Chosen, Serving
<1>0. rc \in Nat /\ quick \in Nat
  BY ConfigurationConstantsOK
<1>1. CASE PowerOn
  BY <1>0, <1>1 DEF PowerOn, Cut
<1>2. CASE EnterService
  BY <1>0, <1>2 DEF EnterService, PowerOn, Cut
<1>3. CASE Cut
  BY <1>0, <1>3 DEF Cut, PowerOn
<1>4. CASE UNCHANGED vars
  BY <1>0, <1>4 DEF vars, PowerOn, Cut
<1>5. QED
  BY <1>1, <1>2, <1>3, <1>4

\* Where somebody may be at the start of it.
LEMMA Stations ==
  ASSUME ServiceResets = 3, BootInv
  PROVE  Tracking \/ Off0 \/ Window1 \/ Off1 \/ Window2 \/ Off2 \/ Chosen \/ Serving
BY ConfigurationConstantsOK
   DEF BootInv, TypeOK, CounterCounts, ServiceIffQuickResets,
       Tracking, Off0, Window1, Off1, Window2, Off2, Chosen, Serving

\* What the guards say of ENABLED, of which the provers know nothing.
Starting == Off0 \/ Off1 \/ Off2
MayCut == bootPc \in {"window", "tracker"}
QuickCut == MayCut /\ CutPower
ServiceStep == EnterService /\ UNCHANGED <<flash, ram>>

ServiceGuardsEnable ==
  /\ Starting => ENABLED <<BootStep>>_configVars
  /\ Chosen => ENABLED <<ServiceStep>>_configVars
  /\ MayCut => ENABLED <<QuickCut>>_configVars

\* ConfigFairness, as far as it is needed, with these names.
LEMMA ServiceFairness ==
  ConfigSpec => /\ WF_configVars(BootStep) /\ SF_configVars(ServiceStep)
                /\ WF_configVars(QuickCut)
BY PTL DEF ConfigSpec, ConfigFairness, ServiceStep, QuickCut, MayCut

\* With any file system, good or bad, any uploads and any other resets in
\* between, who goes on cutting the power in the first half second gets to
\* the service mode.
THEOREM ServiceModeIsReached ==
  ASSUME ServiceResets = 3
  PROVE  ConfigSpec /\ []ServiceGuardsEnable => ServiceReachable
<1>1. ConfigSpec => []BootInv
  <2>1. Init => BootInv
    BY ConfigurationConstantsOK
       DEF Init, BootInv, TypeOK, CounterCounts, ServiceIffQuickResets
  <2>2. BootInv /\ [ConfigNext]_configVars => BootInv'
    BY ConfigStepIsBoot, StepBootInv
  <2>3. QED
    BY <2>1, <2>2, PTL DEF ConfigSpec, ConfigInit
<1>2. [ConfigNext]_configVars /\ [~LeaveWindow]_configVars
        => PowerOn \/ EnterService \/ Cut \/ UNCHANGED vars
  BY ConfigStepIsBoot DEF Next, configVars
<1>3. BootInv /\ [ConfigNext]_configVars /\ [~LeaveWindow]_configVars =>
        /\ Tracking => (Tracking' \/ Off0') /\ (<<QuickCut>>_configVars => Off0')
        /\ Off0 => (Off0' \/ Window1') /\ (<<BootStep>>_configVars => Window1')
        /\ Window1 => (Window1' \/ Off1') /\ (<<QuickCut>>_configVars => Off1')
        /\ Off1 => (Off1' \/ Window2') /\ (<<BootStep>>_configVars => Window2')
        /\ Window2 => (Window2' \/ Off2') /\ (<<QuickCut>>_configVars => Off2')
        /\ Off2 => (Off2' \/ Chosen') /\ (<<BootStep>>_configVars => Chosen')
        /\ Chosen => Chosen' \/ Off2' \/ Serving'
  <2>1. QuickCut => Cut
    BY DEF QuickCut, CutPower, ResetChip
  <2>2. BootStep /\ Starting => PowerOn
    BY DEF BootStep, EnterService, LeaveWindow, Starting, Off0, Off1, Off2
  <2>3. QED
    BY <1>2, <2>1, <2>2, StepToService DEF Starting
<1>4. BootInv => Tracking \/ Off0 \/ Window1 \/ Off1 \/ Window2 \/ Off2 \/ Chosen \/ Serving
  BY Stations
<1>5. /\ Off0 \/ Off1 \/ Off2 => Starting
      /\ Tracking \/ Window1 \/ Window2 => MayCut
  BY DEF Starting, MayCut, Tracking, Window1, Window2
<1>6. <<ServiceStep>>_configVars => Serving'
  BY DEF ServiceStep, EnterService, Serving
<1>7. ConfigSpec /\ []ServiceGuardsEnable => (<>[][~LeaveWindow]_configVars => <>Serving)
  BY <1>1, <1>3, <1>4, <1>5, <1>6, ServiceFairness, PTL DEF ConfigSpec, ServiceGuardsEnable
<1>8. QED
  BY <1>7 DEF ServiceReachable, Serving

-----------------------------------------------------------------------------
(* The units of the chip, a keepalive of 16 bits, and a long that holds 312
   seconds *)

\* The first sleep time that leaves the broker a keepalive of a single unit
\* of 128 seconds is 313 seconds: 15625 has that inverse modulo 512.
LEMMA FirstSmallKeepAlive ==
  ASSUME NEW s \in 0 .. 312
  PROVE  (15625 * s) % 512 # 1
<1> SUFFICES ASSUME (15625 * s) % 512 = 1 PROVE FALSE
  OBVIOUS
<1>1. PICK k \in Int : 15625 * s = 512 * k + 1
  <2>1. 15625 * s = 512 * ((15625 * s) \div 512) + ((15625 * s) % 512)
    OBVIOUS
  <2>2. (15625 * s) \div 512 \in Int
    OBVIOUS
  <2>3. QED
    BY <2>1, <2>2
<1>2. s - 313 = 512 * (313 * k - 9552 * s)
  BY <1>1
<1>3. QED
  BY <1>2

\* Up to 312 seconds the timer wakes the tracker before the broker gives it
\* up, every single one of them.
THEOREM ShortSleepsKeepTheSession ==
  ASSUME Factor = 15625, KeepAliveModulus = 512, FitsALong(312)
  PROVE  ConfigSpec => []SessionSurvivesShortSleep
<1>1. ASSUME NEW s \in 0 .. 312 PROVE ~OutlastsPatience(s)
  <2> DEFINE r == (15625 * s) % 512
  <2>1. KeepAlive(s) = 128 * r /\ r \in 0 .. 511
    BY DEF KeepAlive
  <2>2. WakeAfter(s) = 15625 * s
    <3>1. 15625 * s \in Nat /\ 2 * (15625 * s) < LongModulus
      BY TimersConstantsOK DEF FitsALong
    <3>2. QED
      BY <3>1, SignedLongExact DEF WakeAfter
  <2>3. WakeAfter(s) >= 0 /\ WakeAfter(s) \div Factor = s
    BY <2>2
  <2>4. r # 1
    BY FirstSmallKeepAlive
  <2> HIDE DEF r
  <2>5. r = 0 \/ ~(2 * s > 3 * (128 * r))
    BY <2>1, <2>4
  <2>6. QED
    BY <2>1, <2>2, <2>3, <2>5 DEF OutlastsPatience
<1>2. ConfigInv => SessionSurvivesShortSleep
  <2> SUFFICES ASSUME ConfigInv, sleepTime <= 312 PROVE session # "closed"
    BY DEF SessionSurvivesShortSleep
  <2>1. sleepTime \in 0 .. 312
    BY DEF ConfigInv, TimerMatchesConfig
  <2>2. QED
    BY <2>1, <1>1 DEF ConfigInv, TimerMatchesConfig
<1>3. QED
  BY <1>2, ConfigInvHolds, PTL
=============================================================================
