--------------------------- MODULE TrackerProofs ----------------------------
(***************************************************************************)
(* Proofs about the tracker's loop with its components, for any number of  *)
(* waypoints and any positions.  The invariants of the state manager and   *)
(* of the player are taken from the proofs about these: the tracker's      *)
(* steps are steps of theirs, or leave them alone.                         *)
(***************************************************************************)
EXTENDS Tracker, SequenceTheorems, TLAPS

SMP == INSTANCE StateManagerProofs
APP == INSTANCE PlayerProofs WITH Sounds <- 1 .. NumWaypoints, MaxRequests <- NumWaypoints

-----------------------------------------------------------------------------
(* The components' own theorems, as they apply here *)

\* The number of waypoints bounds the sounds that are asked for.
LEMMA ConstantsFit == NumWaypoints \in Nat /\ SM!ConstantsOK /\ AP!PlayerConstantsOK
BY TrackerConstantsOK DEF SM!ConstantsOK, AP!PlayerConstantsOK

\* The state manager its proofs are about is the one composed here.
LEMMA StateManagerIsProved ==
  /\ SM!IInv = SMP!IInv /\ SM!IInv' = SMP!IInv'
  /\ SM!Init = SMP!Init
  /\ [SM!Next]_(SM!vars) = [SMP!Next]_(SMP!vars)
<1>1. SM!IInv = SMP!IInv /\ SM!IInv' = SMP!IInv'
  BY Zenon DEF
     SM!IInv, SMP!IInv, SM!TypeOK, SMP!TypeOK, SM!SavePoint, SMP!SavePoint,
     SM!NeverSkip, SMP!NeverSkip, SM!QuiescentIsDurable, SMP!QuiescentIsDurable,
     SM!AtMostOneBehind, SMP!AtMostOneBehind, SM!Progress, SMP!Progress, SM!Restored,
     SMP!Restored, SM!Files, SMP!Files, SM!Absent, SMP!Absent, SM!Torn, SMP!Torn
<1>2. SM!Init = SMP!Init
  BY Zenon DEF SM!Init, SMP!Init, SM!Absent, SMP!Absent
<1>3. [SM!Next]_(SM!vars) = [SMP!Next]_(SMP!vars)
  BY Zenon DEF
     SM!Next, SMP!Next, SM!vars, SMP!vars, SM!ram, SMP!ram, SM!Begin, SMP!Begin,
     SM!BeginUnread, SMP!BeginUnread, SM!RemoveFails, SMP!RemoveFails, SM!Restored, SMP!Restored, SM!UpdatePosition, SMP!UpdatePosition,
     SM!NextIsReachedAt, SMP!NextIsReachedAt, SM!DistanceToNext, SMP!DistanceToNext,
     SM!AtMost, SMP!AtMost, SM!ReachWaypoint, SMP!ReachWaypoint, SM!ReachedWaypoint,
     SMP!ReachedWaypoint, SM!SetLastFastFixFileUpdate, SMP!SetLastFastFixFileUpdate,
     SM!PersistStep, SMP!PersistStep, SM!RemoveFile, SMP!RemoveFile, SM!OpenFile,
     SMP!OpenFile, SM!OpenFails, SMP!OpenFails, SM!WriteFile, SMP!WriteFile,
     SM!WriteFails, SMP!WriteFails, SM!Absent, SMP!Absent, SM!Torn, SMP!Torn, SM!Whole,
     SMP!Whole, SM!PowerLoss, SMP!PowerLoss
<1>4. QED
  BY <1>1, <1>2, <1>3

\* The state manager keeps its inductive invariant.
LEMMA StateManagerInv ==
  /\ SM!Init => SM!IInv
  /\ SM!IInv /\ [SM!Next]_(SM!vars) => SM!IInv'
BY StateManagerIsProved, ConstantsFit, SMP!InitIInv, SMP!StepIInv DEF SM!ConstantsOK

\* The player its proofs are about is the one composed here.
LEMMA PlayerIsProved ==
  /\ AP!PlayerInv = APP!PlayerInv /\ AP!PlayerInv' = APP!PlayerInv'
  /\ AP!Init = APP!Init
  /\ [AP!Next]_(AP!vars) = [APP!Next]_(APP!vars)
<1>1. AP!PlayerInv = APP!PlayerInv /\ AP!PlayerInv' = APP!PlayerInv'
  BY Zenon DEF
     AP!PlayerInv, APP!PlayerInv, AP!TypeOK, APP!TypeOK, AP!SoundsInOrder,
     APP!SoundsInOrder, AP!PlayingFlagFaithful, APP!PlayingFlagFaithful, AP!Pending,
     APP!Pending
<1>2. AP!Init = APP!Init
  BY Zenon DEF AP!Init, APP!Init
<1>3. [AP!Next]_(AP!vars) = [APP!Next]_(APP!vars)
  BY Zenon DEF
     AP!Next, APP!Next, AP!vars, APP!vars, AP!Play, APP!Play, AP!SoundTask,
     APP!SoundTask, AP!GeneratorEnds, APP!GeneratorEnds, AP!StopGenerator,
     APP!StopGenerator, AP!QueueEmpty, APP!QueueEmpty, AP!SelectFile, APP!SelectFile,
     AP!FinishSelect, APP!FinishSelect, AP!EnqueueFile, APP!EnqueueFile, AP!PowerDown,
     APP!PowerDown
<1>4. QED
  BY <1>1, <1>2, <1>3

\* The player keeps its inductive invariant.
LEMMA PlayerInvariant ==
  /\ AP!Init => AP!PlayerInv
  /\ AP!PlayerInv /\ [AP!Next]_(AP!vars) => AP!PlayerInv'
BY PlayerIsProved, ConstantsFit, APP!InitPlayerInv, APP!StepPlayerInv DEF AP!PlayerConstantsOK

-----------------------------------------------------------------------------
(* What a step of the tracker is to its components *)

\* Every step is a step of the state manager, or leaves it alone.
LEMMA StepOfStateManager == [Next]_vars => [SM!Next]_(SM!vars)
<1> SUFFICES ASSUME [Next]_vars PROVE [SM!Next]_(SM!vars)
  OBVIOUS
<1>1. CASE UNCHANGED smVars
  BY <1>1 DEF smVars, SM!vars, SM!ram
<1>2. CASE Start
  BY <1>2 DEF Start, SM!Next
<1>3. ASSUME NEW t \in Timestamps, SaveFastFix(t) PROVE SM!Next
  BY <1>3 DEF SaveFastFix, SM!Next
<1>4. ASSUME NEW p \in Positions, UpdatePosition(p) PROVE SM!Next
  BY <1>4 DEF UpdatePosition, SM!Next
<1>5. CASE ReachWaypoint \/ Persist
  BY <1>5 DEF ReachWaypoint, Persist, SM!Next
<1>6. CASE Restart \/ PowerCut
  BY <1>6 DEF Restart, PowerCut, Reset, SM!Next
<1>7. CASE SendActPosition \/ Publish \/ WaitQuiet \/ SleepCheck \/ GoToSleep \/ Wake \/ SoundTask
  BY <1>7, <1>1 DEF SendActPosition, Publish, WaitQuiet, SleepCheck, GoToSleep, Wake, SoundTask
<1>8. ASSUME NEW code \in Sim!Codes, InitModemReturns(code) \/ SendReturns(code)
      PROVE  UNCHANGED smVars
  BY <1>8 DEF InitModemReturns, SendReturns
<1>9. CASE UNCHANGED vars
  BY <1>9, <1>1 DEF vars
<1>10. QED
  BY <1>1, <1>2, <1>3, <1>4, <1>5, <1>6, <1>7, <1>8, <1>9 DEF Next, Run

\* The waypoint the callback is called with is one of the configured ones.
LEMMA ReachedIsWaypoint ==
  SM!IInv /\ SM!ReachWaypoint => SM!ReachedWaypoint \in 1 .. NumWaypoints
BY ConstantsFit
   DEF SM!IInv, SM!TypeOK, SM!SavePoint, SM!ReachWaypoint, SM!ReachedWaypoint

\* Every step is a step of the player, or leaves it alone.
LEMMA StepOfPlayer == SM!IInv /\ [Next]_vars => [AP!Next]_(AP!vars)
<1> SUFFICES ASSUME SM!IInv, [Next]_vars PROVE [AP!Next]_(AP!vars)
  OBVIOUS
<1>1. CASE UNCHANGED apVars
  BY <1>1 DEF apVars, AP!vars
<1>2. CASE ReachWaypoint
  BY <1>2, ReachedIsWaypoint DEF ReachWaypoint, AP!Next
<1>3. CASE SoundTask
  BY <1>3 DEF SoundTask, AP!Next
<1>4. CASE Restart \/ PowerCut
  BY <1>4 DEF Restart, PowerCut, Reset, AP!Next
<1>5. CASE Start \/ SendActPosition \/ Persist \/ Publish \/ WaitQuiet \/ SleepCheck \/ GoToSleep
           \/ Wake
  BY <1>5, <1>1 DEF Start, SendActPosition, Persist, Publish, WaitQuiet, SleepCheck, GoToSleep, Wake
<1>6. ASSUME NEW code \in Sim!Codes, InitModemReturns(code) \/ SendReturns(code)
      PROVE  [AP!Next]_(AP!vars)
  BY <1>6, <1>1 DEF InitModemReturns, SendReturns, AP!Next
<1>7. ASSUME NEW t \in Timestamps, SaveFastFix(t) PROVE UNCHANGED apVars
  BY <1>7 DEF SaveFastFix
<1>8. ASSUME NEW p \in Positions, UpdatePosition(p) PROVE UNCHANGED apVars
  BY <1>8 DEF UpdatePosition
<1>9. CASE UNCHANGED vars
  BY <1>9, <1>1 DEF vars
<1>10. QED
  BY <1>1, <1>2, <1>3, <1>4, <1>5, <1>6, <1>7, <1>8, <1>9 DEF Next, Run

\* Every step is a step of the modem's interface, or leaves it alone.
LEMMA StepOfISim == [Next]_vars => [Sim!Next]_(Sim!vars)
<1> SUFFICES ASSUME [Next]_vars PROVE [Sim!Next]_(Sim!vars)
  OBVIOUS
<1>1. CASE UNCHANGED simVars
  BY <1>1 DEF simVars, Sim!vars
<1>2. CASE Start \/ SendActPosition \/ Publish
  BY <1>2 DEF Start, SendActPosition, Publish, Sim!Next
<1>3. ASSUME NEW p \in Positions, UpdatePosition(p) PROVE Sim!Next
  BY <1>3 DEF UpdatePosition, Sim!Next
<1>4. ASSUME NEW code \in Sim!Codes, InitModemReturns(code) \/ SendReturns(code)
      PROVE  Sim!Next
  BY <1>4 DEF InitModemReturns, SendReturns, Sim!Next
<1>5. CASE Restart \/ PowerCut
  BY <1>5 DEF Restart, PowerCut, Reset, Sim!Next
<1>6. CASE ReachWaypoint \/ Persist \/ WaitQuiet \/ SleepCheck \/ GoToSleep \/ Wake \/ SoundTask
  BY <1>6, <1>1 DEF ReachWaypoint, Persist, WaitQuiet, SleepCheck, GoToSleep, Wake, SoundTask
<1>7. ASSUME NEW t \in Timestamps, SaveFastFix(t) PROVE UNCHANGED simVars
  BY <1>7 DEF SaveFastFix
<1>8. CASE UNCHANGED vars
  BY <1>8, <1>1 DEF vars
<1>9. QED
  BY <1>1, <1>2, <1>3, <1>4, <1>5, <1>6, <1>7, <1>8 DEF Next, Run

\* The modem's interface keeps its types.
LEMMA SimTypes ==
  /\ Sim!Init => Sim!TypeOK
  /\ Sim!TypeOK /\ [Sim!Next]_(Sim!vars) => Sim!TypeOK'
<1> USE DEF Sim!TypeOK
<1>1. Sim!Init => Sim!TypeOK
  BY DEF Sim!Init, Sim!Codes
<1>2. ASSUME Sim!TypeOK, [Sim!Next]_(Sim!vars) PROVE Sim!TypeOK'
  <2>1. CASE UNCHANGED Sim!vars
    BY <1>2, <2>1 DEF Sim!vars
  <2>2. CASE Sim!Call("init") \/ Sim!Call("send")
    BY <1>2, <2>2 DEF Sim!Call
  <2>3. CASE Sim!HandPosition \/ Sim!Publish
    BY <1>2, <2>3 DEF Sim!HandPosition, Sim!Publish
  <2>4. ASSUME NEW code \in Sim!Codes, Sim!Return(code) PROVE Sim!TypeOK'
    BY <1>2, <2>4 DEF Sim!Return
  <2>5. CASE Sim!PowerDown
    BY <1>2, <2>5 DEF Sim!PowerDown, Sim!Codes
  <2>6. QED
    BY <1>2, <2>1, <2>2, <2>3, <2>4, <2>5 DEF Sim!Next
<1>3. QED
  BY <1>1, <1>2

-----------------------------------------------------------------------------
(* The inductive invariant *)

\* The tracker starts in a state of the inductive invariant.
LEMMA InitTrackerInv == Init => TrackerInv
<1> SUFFICES ASSUME Init PROVE TrackerInv
  OBVIOUS
<1>1. SM!IInv /\ AP!PlayerInv /\ Sim!TypeOK
  BY StateManagerInv, PlayerInvariant, SimTypes DEF Init
<1>2. TypeOK
  <2>1. SM!TypeOK /\ AP!TypeOK
    BY <1>1 DEF SM!IInv, AP!PlayerInv
  <2>2. shouldSleep \in BOOLEAN /\ heard \in BOOLEAN
    BY DEF Init
  <2>3. progressAtBoot \in 0 .. NumWaypoints
    BY ConstantsFit DEF Init
  <2>4. QED
    BY <1>1, <2>1, <2>2, <2>3 DEF Init, TypeOK
<1>3. PhasesFit /\ SleepyIfHeard /\ NeverSleepsUnheard
  BY DEF Init, SM!Init, AP!Init, Sim!Init, PhasesFit, SleepyIfHeard, NeverSleepsUnheard
<1>4. MusicFollowsProgress
  <2>1. requested = <<>> /\ Len(requested) = 0
    BY DEF Init, AP!Init
  <2>2. requested = [i \in 1 .. Len(requested) |-> progressAtBoot + i]
    BY <2>1
  <2>3. QED
    BY <2>2 DEF Init, MusicFollowsProgress
<1>5. QED
  BY <1>1, <1>2, <1>3, <1>4 DEF TrackerInv

\* What every step but those to and from "off" keeps of the loop's place.
LEMMA StepPhases ==
  TrackerInv /\ [Next]_vars => PhasesFit' /\ SleepyIfHeard' /\ NeverSleepsUnheard'
<1> SUFFICES ASSUME TrackerInv, [Next]_vars
             PROVE  PhasesFit' /\ SleepyIfHeard' /\ NeverSleepsUnheard'
  OBVIOUS
<1>0. PhasesFit /\ SleepyIfHeard /\ NeverSleepsUnheard
  BY DEF TrackerInv
<1> USE <1>0 DEF PhasesFit, SleepyIfHeard, NeverSleepsUnheard, smVars, apVars, simVars
<1>1. CASE Start
  BY <1>1 DEF Start, SM!Begin, SM!BeginUnread, Sim!Call
<1>2. ASSUME NEW code \in Sim!Codes, InitModemReturns(code)
      PROVE  PhasesFit' /\ SleepyIfHeard' /\ NeverSleepsUnheard'
  BY <1>2 DEF InitModemReturns, Sim!Return, AP!Play
<1>3. CASE SendActPosition
  BY <1>3 DEF SendActPosition, Sim!Call
<1>4. ASSUME NEW t \in Timestamps, SaveFastFix(t)
      PROVE  PhasesFit' /\ SleepyIfHeard' /\ NeverSleepsUnheard'
  BY <1>4 DEF SaveFastFix, SM!SetLastFastFixFileUpdate
<1>5. ASSUME NEW p \in Positions, UpdatePosition(p)
      PROVE  PhasesFit' /\ SleepyIfHeard' /\ NeverSleepsUnheard'
  BY <1>5 DEF UpdatePosition, SM!UpdatePosition, Sim!HandPosition
<1>6. CASE ReachWaypoint
  BY <1>6 DEF ReachWaypoint, SM!ReachWaypoint
<1>7. CASE Persist
  BY <1>7 DEF Persist, SM!PersistStep, SM!RemoveFile, SM!RemoveFails, SM!OpenFile,
     SM!OpenFails, SM!WriteFile, SM!WriteFails
<1>8. CASE Publish
  BY <1>8 DEF Publish, Sim!Publish
<1>9. ASSUME NEW code \in Sim!Codes, SendReturns(code)
      PROVE  PhasesFit' /\ SleepyIfHeard' /\ NeverSleepsUnheard'
  <2>1. /\ loopPc = "sending" /\ call = "send" /\ call' = "none" /\ pc = "idle"
        /\ loopPc' \in {"sleepCheck", "waitQuiet"}
        /\ UNCHANGED <<smVars, apVars, heard>>
    BY <1>9 DEF SendReturns, Sim!Return
  <2>2. code = "Ok" => published
    BY <1>9, <2>1 DEF SendReturns, Sim!Return, Sim!ReturnCodes, Sim!NoPositionCodes
  <2>3. shouldSleep' => shouldSleep \/ code = "Ok"
    BY <1>9 DEF SendReturns
  <2>4. QED
    BY <2>1, <2>2, <2>3
<1>10. CASE WaitQuiet \/ SleepCheck \/ GoToSleep \/ Wake
  BY <1>10 DEF WaitQuiet, SleepCheck, GoToSleep, Wake
<1>11. CASE SoundTask
  BY <1>11 DEF SoundTask, AP!SoundTask, AP!GeneratorEnds, AP!StopGenerator, AP!QueueEmpty,
     AP!SelectFile, AP!FinishSelect
<1>12. CASE Restart \/ PowerCut
  BY <1>12 DEF Restart, PowerCut, Reset, SM!PowerLoss, AP!PowerDown, Sim!PowerDown
<1>13. CASE UNCHANGED vars
  BY <1>13 DEF vars
<1>14. QED
  BY <1>1, <1>2, <1>3, <1>4, <1>5, <1>6, <1>7, <1>8, <1>9, <1>10, <1>11, <1>12, <1>13
     DEF Next, Run

\* What the loop adds to its components keeps its type.
LEMMA StepTypes ==
  TrackerInv /\ SM!IInv' /\ AP!PlayerInv' /\ Sim!TypeOK' /\ [Next]_vars => TypeOK'
<1> SUFFICES ASSUME TrackerInv, SM!IInv', AP!PlayerInv', Sim!TypeOK', [Next]_vars
             PROVE  TypeOK'
  OBVIOUS
<1>0. /\ TypeOK
      /\ SM!TypeOK' /\ AP!TypeOK' /\ Sim!TypeOK'
      /\ visited' \in 0 .. NumWaypoints
  BY DEF TrackerInv, SM!IInv, SM!TypeOK, AP!PlayerInv
<1>1. progressAtBoot' \in {progressAtBoot, visited', 0}
  BY DEF Next, Run, vars, Start, InitModemReturns, SendActPosition, SaveFastFix,
     UpdatePosition, ReachWaypoint, Persist, Publish, SendReturns, WaitQuiet,
     SleepCheck, GoToSleep, Wake, SoundTask, Restart, PowerCut, Reset
<1>2. progressAtBoot' \in 0 .. NumWaypoints
  BY <1>0, <1>1, ConstantsFit DEF TypeOK
<1>3. heard' \in BOOLEAN /\ shouldSleep' \in BOOLEAN
  BY <1>0 DEF TypeOK, Next, Run, vars, Start, InitModemReturns, SendActPosition, SaveFastFix,
     UpdatePosition, ReachWaypoint, Persist, Publish, SendReturns, WaitQuiet,
     SleepCheck, GoToSleep, Wake, SoundTask, Restart, PowerCut, Reset
<1>4. loopPc' \in {"off", "setup", "loop", "sending", "sleepCheck", "goToSleep",
                   "asleep", "waitQuiet", "restart"}
  BY <1>0 DEF TypeOK, Next, Run, vars, Start, InitModemReturns, SendActPosition, SaveFastFix,
     UpdatePosition, ReachWaypoint, Persist, Publish, SendReturns, WaitQuiet,
     SleepCheck, GoToSleep, Wake, SoundTask, Restart, PowerCut, Reset
<1>5. QED
  BY <1>0, <1>2, <1>3, <1>4 DEF TypeOK

-----------------------------------------------------------------------------
(* Music and progress *)

\* One more number makes a run of them one longer.
LEMMA RunAppend ==
  ASSUME NEW k \in Nat, NEW n \in Nat
  PROVE  Append([i \in 1 .. n |-> k + i], k + n + 1) = [i \in 1 .. n + 1 |-> k + i]
<1> DEFINE r == [i \in 1 .. n |-> k + i]
           s == [i \in 1 .. n + 1 |-> k + i]
<1>1. /\ r \in Seq(Nat) /\ Len(r) = n /\ \A i \in 1 .. n : r[i] = k + i
      /\ s \in Seq(Nat) /\ Len(s) = n + 1 /\ \A i \in 1 .. n + 1 : s[i] = k + i
  OBVIOUS
<1> HIDE DEF r, s
<1>2. /\ Append(r, k + n + 1) \in Seq(Nat)
      /\ Len(Append(r, k + n + 1)) = n + 1
      /\ \A i \in 1 .. n : Append(r, k + n + 1)[i] = r[i]
      /\ Append(r, k + n + 1)[n + 1] = k + n + 1
  BY <1>1, AppendProperties
<1>3. \A i \in 1 .. n + 1 : Append(r, k + n + 1)[i] = s[i]
  BY <1>1, <1>2
<1>4. Append(r, k + n + 1) = s
  BY <1>1, <1>2, <1>3, SeqEqual
<1>5. QED
  BY <1>4 DEF r, s

\* Only begin(), a waypoint reached and a reset change what
\* MusicFollowsProgress relates.
LEMMA StepOthers ==
  [Next]_vars => \/ Start \/ ReachWaypoint \/ Restart \/ PowerCut
                 \/ /\ UNCHANGED <<requested, visited, progressAtBoot>>
                    /\ loopPc' # "off" => loopPc # "off"
<1> SUFFICES ASSUME [Next]_vars, ~Start, ~ReachWaypoint, ~Restart, ~PowerCut
             PROVE  /\ UNCHANGED <<requested, visited, progressAtBoot>>
                    /\ loopPc' # "off" => loopPc # "off"
  OBVIOUS
<1> USE DEF smVars, apVars, simVars
<1>1. CASE SendActPosition \/ Publish \/ WaitQuiet \/ SleepCheck \/ GoToSleep \/ Wake
  BY <1>1 DEF SendActPosition, Publish, WaitQuiet, SleepCheck, GoToSleep, Wake
<1>2. ASSUME NEW code \in Sim!Codes, InitModemReturns(code) \/ SendReturns(code)
      PROVE  UNCHANGED <<requested, visited, progressAtBoot>> /\ loopPc # "off"
  BY <1>2 DEF InitModemReturns, SendReturns, AP!Play
<1>3. ASSUME NEW t \in Timestamps, SaveFastFix(t)
      PROVE  UNCHANGED <<requested, visited, progressAtBoot, loopPc>>
  BY <1>3 DEF SaveFastFix, SM!SetLastFastFixFileUpdate
<1>4. ASSUME NEW p \in Positions, UpdatePosition(p)
      PROVE  UNCHANGED <<requested, visited, progressAtBoot, loopPc>>
  BY <1>4 DEF UpdatePosition, SM!UpdatePosition
<1>5. CASE Persist
  BY <1>5 DEF Persist, SM!PersistStep, SM!RemoveFile, SM!RemoveFails, SM!OpenFile,
     SM!OpenFails, SM!WriteFile, SM!WriteFails, SM!ram
<1>6. CASE SoundTask
  BY <1>6 DEF SoundTask, AP!SoundTask, AP!GeneratorEnds, AP!StopGenerator, AP!QueueEmpty,
     AP!SelectFile, AP!FinishSelect
<1>7. CASE UNCHANGED vars
  BY <1>7 DEF vars
<1>8. QED
  BY <1>1, <1>2, <1>3, <1>4, <1>5, <1>6, <1>7 DEF Next, Run

\* A waypoint reached adds its sound, and one to the progress.
LEMMA StepMusic == TrackerInv /\ [Next]_vars => MusicFollowsProgress'
<1> SUFFICES ASSUME TrackerInv, [Next]_vars PROVE MusicFollowsProgress'
  OBVIOUS
<1>0. /\ visited \in Nat /\ progressAtBoot \in Nat
      /\ requested \in Seq(1 .. NumWaypoints) /\ Len(requested) \in Nat
  <2>1. requested \in Seq(1 .. NumWaypoints)
    BY DEF TrackerInv, AP!PlayerInv, AP!TypeOK
  <2>2. Len(requested) \in Nat
    BY <2>1, LenProperties
  <2>3. QED
    BY <2>1, <2>2, ConstantsFit DEF TrackerInv, TypeOK, SM!TypeOK
<1>1. CASE Start
  <2>1. requested = <<>> /\ requested' = requested
    BY <1>1 DEF Start, TrackerInv, PhasesFit, apVars
  <2>2. progressAtBoot' = visited' /\ visited' \in Nat
    <3>1. SM!IInv'
      BY StateManagerInv, StepOfStateManager DEF TrackerInv
    <3>2. QED
      BY <3>1, <1>1, ConstantsFit DEF Start, SM!IInv, SM!TypeOK
  <2>3. requested' = [i \in 1 .. 0 |-> progressAtBoot' + i]
    BY <2>1
  <2>9. Len(requested') = 0
    BY <2>1
  <2>4. requested' = [i \in 1 .. Len(requested') |-> progressAtBoot' + i]
    BY <2>3, <2>9, Zenon
  <2>5. progressAtBoot' + Len(requested') = visited'
    <3>1. \A n \in Nat : n + 0 = n
      OBVIOUS
    <3>2. QED
      BY <3>1, <2>2, <2>9, Zenon
  <2>6. QED
    BY <2>4, <2>5 DEF MusicFollowsProgress
<1>2. CASE ReachWaypoint
  <2> DEFINE n == Len(requested)
  <2>1. /\ requested' = Append(requested, visited + 1)
        /\ visited' = visited + 1 /\ UNCHANGED <<progressAtBoot, loopPc>>
        /\ pc # "off"
    BY <1>2 DEF ReachWaypoint, SM!ReachWaypoint, AP!EnqueueFile, SM!ReachedWaypoint
  <2>2. /\ requested = [i \in 1 .. n |-> progressAtBoot + i]
        /\ progressAtBoot + n = visited
    BY <2>1 DEF TrackerInv, MusicFollowsProgress, PhasesFit
  <2>3. requested' = [i \in 1 .. n + 1 |-> progressAtBoot + i]
    BY <2>1, <2>2, <1>0, RunAppend
  <2>4. Len(requested') = n + 1
    BY <2>3, <1>0
  <2>5. QED
    BY <2>1, <2>2, <2>3, <2>4, <1>0 DEF MusicFollowsProgress
<1>3. CASE Restart \/ PowerCut
  <2>1. requested' = <<>> /\ loopPc' = "off"
    BY <1>3 DEF Restart, PowerCut, Reset, AP!PowerDown
  <2>2. Len(requested') = 0 /\ requested' = [i \in 1 .. 0 |-> progressAtBoot' + i]
    BY <2>1
  <2>3. QED
    BY <2>1, <2>2 DEF MusicFollowsProgress
<1>4. CASE UNCHANGED <<requested, visited, progressAtBoot>> /\ (loopPc' # "off" => loopPc # "off")
  BY <1>4 DEF TrackerInv, MusicFollowsProgress
<1>5. QED
  BY <1>1, <1>2, <1>3, <1>4, StepOthers

-----------------------------------------------------------------------------
(* The theorems *)

\* Every step of the tracker keeps the inductive invariant.
LEMMA StepTrackerInv == TrackerInv /\ [Next]_vars => TrackerInv'
<1> SUFFICES ASSUME TrackerInv, [Next]_vars PROVE TrackerInv'
  OBVIOUS
<1>1. SM!IInv'
  BY StateManagerInv, StepOfStateManager DEF TrackerInv
<1>2. AP!PlayerInv'
  BY PlayerInvariant, StepOfPlayer DEF TrackerInv
<1>3. Sim!TypeOK'
  BY SimTypes, StepOfISim DEF TrackerInv, TypeOK
<1>4. TypeOK'
  BY <1>1, <1>2, <1>3, StepTypes
<1>5. QED
  BY <1>1, <1>2, <1>4, StepPhases, StepMusic DEF TrackerInv

\* The inductive invariant holds of every behaviour of the tracker.
THEOREM TrackerInvHolds == Spec => []TrackerInv
<1>1. TrackerInv /\ [Next]_vars => TrackerInv'
  BY StepTrackerInv
<1>2. QED
  BY <1>1, InitTrackerInv, PTL DEF Spec

\* The tracker's and its components' variables keep their types.
THEOREM TrackerTypeCorrect == Spec => []TypeOK
<1>1. TrackerInv => TypeOK
  BY DEF TrackerInv
<1>2. QED
  BY <1>1, TrackerInvHolds, PTL

\* The music asked for since the boot is that of the waypoints counted since
\* then: the callback, the counter and the queue never part.
THEOREM MusicIsProgress == Spec => []MusicFollowsProgress
<1>1. TrackerInv => MusicFollowsProgress
  BY DEF TrackerInv
<1>2. QED
  BY <1>1, TrackerInvHolds, PTL

\* However rounds that succeed, fail, or are spoilt by music follow one
\* another, the tracker sleeps only after the broker has heard from it.
THEOREM SleepsHeard == Spec => []NeverSleepsUnheard
<1>1. TrackerInv => NeverSleepsUnheard
  BY DEF TrackerInv
<1>2. QED
  BY <1>1, TrackerInvHolds, PTL

\* In the tracker, too, no waypoint is skipped, and no sound lost or doubled.
THEOREM ComponentsKept == Spec => [](SM!NeverSkip /\ AP!SoundsInOrder)
<1>1. TrackerInv => SM!NeverSkip /\ AP!SoundsInOrder
  BY DEF TrackerInv, SM!IInv, AP!PlayerInv
<1>2. QED
  BY <1>1, TrackerInvHolds, PTL

\* At an esp_restart() no save is under way.
LEMMA RestartOfTracker ==
  TrackerInv /\ Restart => SM!Progress' = visited \/ flashFailed
<1> SUFFICES ASSUME TrackerInv, Restart PROVE SM!Progress' = visited \/ flashFailed
  OBVIOUS
<1>1. pc = "idle" /\ pc' = "off" /\ file' = file
  BY DEF TrackerInv, PhasesFit, Restart, Reset, SM!PowerLoss
<1>2. ~flashFailed => SM!Restored(file).visited = visited
  BY <1>1 DEF TrackerInv, SM!IInv, SM!QuiescentIsDurable
<1>3. SM!Progress' = SM!Restored(file).visited
  BY <1>1 DEF SM!Progress, SM!Restored
<1>4. QED
  BY <1>2, <1>3

\* esp_restart() finds no save under way, so that what begin() reads is what
\* was counted, unless the flash had failed.
THEOREM RestartsKeepProgress == Spec => RestartKeepsProgress
<1>1. TrackerInv /\ [Next]_vars => [Restart => SM!Progress' = visited \/ flashFailed]_vars
  BY RestartOfTracker
<1>2. QED
  BY <1>1, TrackerInvHolds, PTL DEF Spec, RestartKeepsProgress

\* The tracker calls the modem as its interface allows, and implements the
\* state manager: what is proved of that one holds of the tracker.
THEOREM TrackerIsComposition == Spec => SM!Spec /\ Sim!Spec
<1>1. Init => SM!Init /\ Sim!Init
  BY DEF Init
<1>2. [Next]_vars => [SM!Next]_(SM!vars) /\ [Sim!Next]_(Sim!vars)
  BY StepOfStateManager, StepOfISim
<1>3. QED
  BY <1>1, <1>2, PTL DEF Spec, SM!Spec, Sim!Spec

-----------------------------------------------------------------------------
(* The abstract specifications of the components, from the tracker *)

\* The tracker starts, and goes on, as WaypointProgress says.
LEMMA ProgressLemmas ==
  /\ Init => SM!WP!Init
  /\ TrackerInv /\ [Next]_vars => [SM!WP!Next]_(SM!WP!vars)
<1>1. SM!WP!Init = SMP!WP!Init
  BY Zenon DEF SM!WP!Init, SMP!WP!Init, SM!Progress, SMP!Progress, SM!AtRisk, SMP!AtRisk,
     SM!Restored, SMP!Restored
<1>2. [SM!WP!Next]_(SM!WP!vars) = [SMP!WP!Next]_(SMP!WP!vars)
  BY Zenon DEF
     SM!WP!Next, SMP!WP!Next, SM!WP!vars, SMP!WP!vars, SM!WP!Reach, SMP!WP!Reach,
     SM!WP!StartSave, SMP!WP!StartSave, SM!WP!Saved, SMP!WP!Saved, SM!WP!Restart,
     SMP!WP!Restart, SM!WP!Lose, SMP!WP!Lose, SM!WP!Forget, SMP!WP!Forget,
     SM!Progress, SMP!Progress, SM!AtRisk, SMP!AtRisk, SM!Restored, SMP!Restored
<1>3. /\ SM!Init => SM!WP!Init
      /\ SM!IInv /\ [SM!Next]_(SM!vars) => [SM!WP!Next]_(SM!WP!vars)
  BY <1>1, <1>2, StateManagerIsProved, ConstantsFit, SMP!InitImplements, SMP!StepImplements
     DEF SM!ConstantsOK
<1>4. QED
  BY <1>3, StepOfStateManager DEF Init, TrackerInv

\* Whatever interrupts it - failed rounds, restarts of its own, power cuts in
\* the middle of a save - the tracker's progress through the game is that of
\* WaypointProgress: in order; a restart goes on from what was saved last, which
\* is destroyed only by a save under way or by a flash that fails, and replaced by
\* nothing else.
THEOREM TrackerImplementsProgress == Spec => SM!ImplementsProgress
<1>1. Spec => SM!WP!Init /\ [][SM!WP!Next]_(SM!WP!vars)
  BY ProgressLemmas, TrackerInvHolds, PTL DEF Spec
<1>2. QED
  BY <1>1, PTL DEF SM!ImplementsProgress, SM!WP!Spec

\* The tracker starts, and goes on, as SoundQueue says.
LEMMA SoundQueueLemmas ==
  /\ Init => SQ!Init
  /\ TrackerInv /\ [Next]_vars => [SQ!Next]_(SQ!vars)
<1>1. /\ SQ!Init = APP!SQ!Init
      /\ [SQ!Next]_(SQ!vars) = [APP!SQ!Next]_(APP!SQ!vars)
  BY Zenon DEF
     SQ!Init, APP!SQ!Init, SQ!Next, APP!SQ!Next, SQ!vars, APP!SQ!vars, SQ!Request,
     APP!SQ!Request, SQ!Start, APP!SQ!Start, SQ!PowerOff, APP!SQ!PowerOff
<1>2. /\ AP!Init => SQ!Init
      /\ AP!PlayerInv /\ [AP!Next]_(AP!vars) => [SQ!Next]_(SQ!vars)
  BY <1>1, PlayerIsProved, ConstantsFit, APP!InitIsSoundQueue, APP!StepIsSoundQueue
     DEF AP!PlayerConstantsOK
<1>3. QED
  BY <1>2, StepOfPlayer DEF Init, TrackerInv

\* Whatever the loop does around it, sleeps included, the music is started
\* one sound at a time, each once, in the order of the waypoints: the safety
\* of the sound queue; TrackerPlaysTheMusic is its liveness.
THEOREM TrackerIsSoundQueue == Spec => SQ!Init /\ [][SQ!Next]_(SQ!vars)
BY SoundQueueLemmas, TrackerInvHolds, PTL DEF Spec

\* What the team gets to hear: since the boot, the music of the waypoints
\* from the one begin() found to be next, in their order and without a gap,
\* and never that of a waypoint that is not counted or not reached.
HeardInTurn ==
  /\ started = [i \in 1 .. Len(started) |-> progressAtBoot + i]
  /\ loopPc # "off" => progressAtBoot + Len(started) <= visited
  /\ {started[i] : i \in 1 .. Len(started)} \subseteq announced

\* The sounds started are the first of those asked for.
LEMMA StartedIsPrefix ==
  ASSUME AP!TypeOK, AP!SoundsInOrder, soundPc = "selected" => fileQueue # <<>>
  PROVE  /\ Len(started) \in Nat /\ Len(requested) \in Nat
         /\ Len(started) <= Len(requested)
         /\ \A i \in 1 .. Len(started) : started[i] = requested[i]
<1>1. /\ started \in Seq(1 .. NumWaypoints)
      /\ AP!Pending \in Seq(1 .. NumWaypoints)
  BY HeadTailProperties DEF AP!TypeOK, AP!Pending
<1>2. /\ Len(started) \in Nat /\ Len(AP!Pending) \in Nat
      /\ Len(started \o AP!Pending) = Len(started) + Len(AP!Pending)
      /\ \A i \in 1 .. Len(started) + Len(AP!Pending) :
           (started \o AP!Pending)[i] = IF i <= Len(started) THEN started[i]
                                        ELSE AP!Pending[i - Len(started)]
  BY <1>1, ConcatProperties, LenProperties
<1>3. QED
  BY <1>2 DEF AP!SoundsInOrder

\* The sounds asked for are those of the waypoints since the boot, all of
\* them counted and so announced.
LEMMA InvHeardInTurn == TrackerInv => HeardInTurn
<1> SUFFICES ASSUME TrackerInv PROVE HeardInTurn
  OBVIOUS
<1>1. /\ Len(started) \in Nat /\ Len(requested) \in Nat
      /\ Len(started) <= Len(requested)
      /\ \A i \in 1 .. Len(started) : started[i] = requested[i]
  BY StartedIsPrefix DEF TrackerInv, AP!PlayerInv
<1>2. /\ started \in Seq(1 .. NumWaypoints)
      /\ progressAtBoot \in Nat /\ visited \in Nat
  BY ConstantsFit DEF TrackerInv, TypeOK, SM!TypeOK, AP!TypeOK
<1>3. \A i \in 1 .. Len(requested) : requested[i] = progressAtBoot + i
  <2>1. requested = [i \in 1 .. Len(requested) |-> progressAtBoot + i]
    BY DEF TrackerInv, MusicFollowsProgress
  <2> DEFINE r == [i \in 1 .. Len(requested) |-> progressAtBoot + i]
  <2>2. \A i \in 1 .. Len(requested) : r[i] = progressAtBoot + i
    OBVIOUS
  <2> HIDE DEF r
  <2>3. QED
    BY <2>1, <2>2 DEF r
<1>4. \A i \in 1 .. Len(started) : started[i] = progressAtBoot + i
  BY <1>1, <1>3
<1>5. started = [i \in 1 .. Len(started) |-> progressAtBoot + i]
  <2> DEFINE r == [i \in 1 .. Len(started) |-> progressAtBoot + i]
  <2>1. r \in Seq(Nat) /\ Len(r) = Len(started) /\ \A i \in 1 .. Len(started) : r[i] = progressAtBoot + i
    BY <1>1, <1>2
  <2>2. started \in Seq(Nat)
    BY <1>2, ConstantsFit, SeqMonotonic
  <2> HIDE DEF r
  <2>3. started = r
    BY <2>1, <2>2, <1>4, SeqEqual
  <2>4. QED
    BY <2>3 DEF r
<1>6. loopPc # "off" => progressAtBoot + Len(started) <= visited
  BY <1>1, <1>2 DEF TrackerInv, MusicFollowsProgress
<1>7. ASSUME NEW i \in 1 .. Len(started) PROVE started[i] \in announced
  <2>1. loopPc # "off"
    BY <1>1, <1>7 DEF TrackerInv, PhasesFit
  <2>2. started[i] \in 1 .. visited
    BY <1>1, <1>2, <1>4, <1>6, <2>1, <1>7
  <2>3. 1 .. visited \subseteq announced
    BY <2>1 DEF TrackerInv, PhasesFit, SM!IInv, SM!NeverSkip, SM!Progress
  <2>4. QED
    BY <2>2, <2>3
<1>8. QED
  BY <1>5, <1>6, <1>7 DEF HeardInTurn

\* The music is that of the game: waypoint by waypoint, from where the last
\* boot found the team, never ahead of it.
THEOREM MusicHeardInTurn == Spec => []HeardInTurn
BY InvHeardInTurn, TrackerInvHolds, PTL

-----------------------------------------------------------------------------
(* The music is started in the end.  Fairness is about ENABLED, of which the *)
(* provers know nothing: what the guards say of it is a hypothesis.          *)

\* Nothing is asked for before the sound task is there to play it.
SilentBeforePlay ==
  /\ loopPc \notin {"off", "setup", "restart"} => soundPc # "off"
  /\ soundPc = "off" => requested = <<>>
  /\ pc = "reached" => loopPc = "sending"

\* Waypoints are reached while a position is being sent, after setup().
LEMMA StepSilent ==
  TrackerInv /\ SilentBeforePlay /\ [Next]_vars => SilentBeforePlay'
<1> SUFFICES ASSUME TrackerInv, SilentBeforePlay, [Next]_vars PROVE SilentBeforePlay'
  OBVIOUS
<1> USE DEF SilentBeforePlay, smVars, apVars
<1>1. CASE Start
  BY <1>1 DEF Start, SM!Begin, SM!BeginUnread
<1>2. ASSUME NEW code \in Sim!Codes, InitModemReturns(code) PROVE SilentBeforePlay'
  BY <1>2 DEF InitModemReturns, AP!Play
<1>3. CASE SendActPosition \/ Publish \/ WaitQuiet \/ SleepCheck \/ GoToSleep \/ Wake
  BY <1>3 DEF SendActPosition, Publish, WaitQuiet, SleepCheck, GoToSleep, Wake
<1>4. ASSUME NEW t \in Timestamps, SaveFastFix(t) PROVE SilentBeforePlay'
  BY <1>4 DEF SaveFastFix, SM!SetLastFastFixFileUpdate
<1>5. ASSUME NEW p \in Positions, UpdatePosition(p) PROVE SilentBeforePlay'
  BY <1>5 DEF UpdatePosition, SM!UpdatePosition
<1>6. CASE ReachWaypoint
  BY <1>6 DEF ReachWaypoint, SM!ReachWaypoint, AP!EnqueueFile
<1>7. CASE Persist
  BY <1>7 DEF Persist, SM!PersistStep, SM!RemoveFile, SM!RemoveFails, SM!OpenFile,
     SM!OpenFails, SM!WriteFile, SM!WriteFails
<1>8. ASSUME NEW code \in Sim!Codes, SendReturns(code) PROVE SilentBeforePlay'
  BY <1>8 DEF SendReturns
<1>9. CASE SoundTask
  BY <1>9 DEF SoundTask, AP!SoundTask, AP!GeneratorEnds, AP!StopGenerator, AP!QueueEmpty,
     AP!SelectFile, AP!FinishSelect
<1>10. CASE Restart \/ PowerCut
  BY <1>10 DEF Restart, PowerCut, Reset, SM!PowerLoss, AP!PowerDown
<1>11. CASE UNCHANGED vars
  BY <1>11 DEF vars
<1>12. QED
  BY <1>1, <1>2, <1>3, <1>4, <1>5, <1>6, <1>7, <1>8, <1>9, <1>10, <1>11 DEF Next, Run

\* A sound was asked for and not yet started.
Waiting == Len(started) < Len(requested)

\* The rounds of the sound task meanwhile, as they are in the player.
LEMMA SoundTaskRounds ==
  ASSUME TrackerInv, SilentBeforePlay, [Next]_vars, Waiting, Waiting'
  PROVE  /\ soundPc \in {"loop", "ended", "playNext", "selected"}
         /\ soundPc = "loop" => soundPc' \in {"loop", "ended"}
                                /\ (SoundTask => soundPc' = "ended")
         /\ soundPc = "ended" => soundPc' \in {"ended", "playNext"}
                                 /\ (SoundTask => soundPc' = "playNext")
         /\ soundPc = "playNext" => \/ ~SoundTask /\ soundPc' = "playNext"
                                    \/ <<SQ!Start>>_(SQ!vars)
         /\ soundPc = "selected" => soundPc' \in {"selected", "loop"}
                                    /\ (SoundTask => soundPc' = "loop")
<1>1. soundPc # "off"
  <2>1. requested = <<>> => ~Waiting
    BY LenProperties DEF Waiting, TrackerInv, AP!PlayerInv, AP!TypeOK
  <2>2. QED
    BY <2>1 DEF SilentBeforePlay
<1>2. soundPc \in {"off", "loop", "ended", "playNext", "selected"}
  BY DEF TrackerInv, AP!PlayerInv, AP!TypeOK
<1>3. APP!PlayerInv /\ [APP!Next]_(APP!vars) /\ APP!Waiting /\ APP!Waiting'
  BY PlayerIsProved, StepOfPlayer DEF TrackerInv, Waiting, APP!Waiting
<1>4. SoundTask => APP!SoundTask
  BY Zenon DEF SoundTask,
     AP!SoundTask, APP!SoundTask, AP!GeneratorEnds, APP!GeneratorEnds, AP!StopGenerator,
     APP!StopGenerator, AP!QueueEmpty, APP!QueueEmpty, AP!SelectFile, APP!SelectFile,
     AP!FinishSelect, APP!FinishSelect
<1>5. <<APP!SQ!Start>>_(APP!SQ!vars) => <<SQ!Start>>_(SQ!vars)
  BY Zenon DEF SQ!Start, APP!SQ!Start, SQ!vars, APP!SQ!vars
<1>6. QED
  BY <1>1, <1>2, <1>3, <1>4, <1>5, ConstantsFit, APP!StepWaiting DEF AP!PlayerConstantsOK

\* Fairness with the guards for ENABLED: the sound task goes on unless the
\* chip sleeps or the task is not there, and the timer ends each sleep.
TaskHalted == loopPc = "asleep" \/ soundPc = "off"
Asleep == loopPc = "asleep"

SoundGoesOn ==
  /\ <>[]TaskHalted \/ []<><<SoundTask>>_vars
  /\ []<>~Asleep \/ []<><<Wake>>_vars

\* The fairness of SoundQueue in the same form: a sound that waits is not
\* the next for ever.
NextIsStarted == []<>~Waiting \/ []<><<SQ!Start>>_(SQ!vars)

\* However often the chip sleeps in between, the next sound is started.
LEMMA NextIsStartedInTheEnd ==
  Init /\ [][Next]_vars /\ SoundGoesOn => NextIsStarted
<1> DEFINE Looping  == soundPc = "loop"
           Ended    == soundPc = "ended"
           Choosing == soundPc = "playNext"
           Selected == soundPc = "selected"
           I        == TrackerInv /\ SilentBeforePlay
<1>1. Init /\ [][Next]_vars => []I
  <2>1. Init => I
    BY InitTrackerInv DEF Init, SM!Init, AP!Init, SilentBeforePlay
  <2>2. I /\ [Next]_vars => I'
    BY StepTrackerInv, StepSilent
  <2> HIDE DEF I
  <2>3. QED
    BY <2>1, <2>2, PTL
<1>2. I /\ [Next]_vars /\ Waiting /\ Waiting' =>
        /\ Looping \/ Ended \/ Choosing \/ Selected
        /\ TaskHalted => Asleep
        /\ Looping => (Looping' \/ Ended') /\ (<<SoundTask>>_vars => Ended')
        /\ Ended => (Ended' \/ Choosing') /\ (<<SoundTask>>_vars => Choosing')
        /\ Selected => (Selected' \/ Looping') /\ (<<SoundTask>>_vars => Looping')
  BY SoundTaskRounds DEF TaskHalted, Asleep
<1>3. I /\ [Next]_vars /\ Waiting /\ Waiting' /\ Choosing =>
        /\ Choosing' \/ <<SQ!Start>>_(SQ!vars)
        /\ <<SoundTask>>_vars => <<SQ!Start>>_(SQ!vars)
  BY SoundTaskRounds
<1>4. <<Wake>>_vars => ~Asleep'
  BY DEF Wake, Asleep
<1> HIDE DEF Looping, Ended, Choosing, Selected, I
<1>5. QED
  BY <1>1, <1>2, <1>3, <1>4, PTL DEF SoundGoesOn, NextIsStarted

\* What the guards say of being enabled.
SoundGuardsEnable ==
  /\ ~TaskHalted => ENABLED <<SoundTask>>_vars
  /\ Asleep => ENABLED <<Wake>>_vars
  /\ ENABLED <<SQ!Start>>_(SQ!vars) => Waiting

\* Whatever the loop does around it, and however often the chip sleeps, the
\* music of every waypoint reached is started, in the end and in its turn,
\* while the power stays on: for any number of waypoints.
THEOREM TrackerPlaysTheMusic == Spec /\ []SoundGuardsEnable => MusicPlays
<1>1. Spec /\ []SoundGuardsEnable => SoundGoesOn
  BY PTL DEF Spec, Fairness, SoundGuardsEnable, SoundGoesOn
<1>2. Spec /\ []SoundGuardsEnable => NextIsStarted
  BY <1>1, NextIsStartedInTheEnd, PTL DEF Spec
<1>3. []SoundGuardsEnable /\ NextIsStarted => WF_(SQ!vars)(SQ!Start)
  BY PTL DEF SoundGuardsEnable, NextIsStarted
<1>4. QED
  BY <1>2, <1>3, TrackerIsSoundQueue, PTL DEF MusicPlays, SQ!Spec

-----------------------------------------------------------------------------
(* What the tracker promises wherever it is built in *)

\* The promises that do not rest on fairness, those of its components among
\* them.
TrackerPromises ==
  /\ SM!ImplementsProgress
  /\ SQ!Init /\ [][SQ!Next]_(SQ!vars)
  /\ [](MusicFollowsProgress /\ HeardInTurn /\ NeverSleepsUnheard)
  /\ RestartKeepsProgress

\* Whoever makes only the tracker's steps keeps them.
LEMMA TrackerStepsKeepPromises == Init /\ [][Next]_vars => TrackerPromises
<1>1. Init /\ [][Next]_vars => []TrackerInv
  BY InitTrackerInv, StepTrackerInv, PTL
<1>2. Init /\ [][Next]_vars => SM!ImplementsProgress
  <2>1. Init /\ [][Next]_vars => SM!WP!Init /\ [][SM!WP!Next]_(SM!WP!vars)
    BY <1>1, ProgressLemmas, PTL
  <2>2. QED
    BY <2>1, PTL DEF SM!ImplementsProgress, SM!WP!Spec
<1>3. Init /\ [][Next]_vars => SQ!Init /\ [][SQ!Next]_(SQ!vars)
  BY <1>1, SoundQueueLemmas, PTL
<1>4. Init /\ [][Next]_vars => [](MusicFollowsProgress /\ HeardInTurn /\ NeverSleepsUnheard)
  <2>1. TrackerInv => MusicFollowsProgress /\ HeardInTurn /\ NeverSleepsUnheard
    BY InvHeardInTurn DEF TrackerInv
  <2>2. QED
    BY <1>1, <2>1, PTL
<1>5. Init /\ [][Next]_vars => RestartKeepsProgress
  <2>1. TrackerInv /\ [Next]_vars => [Restart => SM!Progress' = visited \/ flashFailed]_vars
    BY RestartOfTracker
  <2>2. QED
    BY <1>1, <2>1, PTL DEF RestartKeepsProgress
<1>6. QED
  BY <1>2, <1>3, <1>4, <1>5, PTL DEF TrackerPromises
=============================================================================
