------------------------- MODULE StateManagerProofs -------------------------
(***************************************************************************)
(* Proofs about the state manager, for any number of waypoints, any map of *)
(* positions to distances and any set of timestamps.                       *)
(***************************************************************************)
EXTENDS StateManager, TLAPS

-----------------------------------------------------------------------------
(* The file *)

\* A file that was not written completely restores the default values.
LEMMA RestoredDefaults ==
  /\ Absent \in Files /\ Absent.kind = "absent"
  /\ Restored(Absent).visited = 0 /\ Restored(Absent).lastFix = 0
  /\ Torn \in Files /\ Torn.kind = "torn"
  /\ Restored(Torn).visited = 0 /\ Restored(Torn).lastFix = 0
BY DEF Files, Absent, Torn, Restored

\* A file that was restores what was written.
LEMMA RestoredWhole ==
  ASSUME NEW v \in 0 .. NumWaypoints, NEW t \in Timestamps
  PROVE  /\ Whole(v, t) \in Files
         /\ Whole(v, t).kind = "whole"
         /\ Whole(v, t).visited = v
         /\ Restored(Whole(v, t)).visited = v
         /\ Restored(Whole(v, t)).lastFix = t
BY DEF Files, Whole, Restored

\* What the next boot restores is a possible progress and a possible
\* timestamp, and the default progress unless the file is whole.
LEMMA RestoredType ==
  ASSUME NEW f \in Files
  PROVE  /\ Restored(f).visited \in 0 .. NumWaypoints
         /\ Restored(f).lastFix \in Timestamps
         /\ f.kind = "whole" => Restored(f).visited = f.visited
         /\ f.kind # "whole" => Restored(f).visited = 0
         /\ f.kind = "whole" => f.visited \in 0 .. NumWaypoints
<1>1. CASE f = Absent \/ f = Torn
  BY <1>1, RestoredDefaults, ConstantsOK
<1>2. ASSUME NEW v \in 0 .. NumWaypoints, NEW t \in Timestamps, f = Whole(v, t)
      PROVE  /\ Restored(f).visited = v /\ Restored(f).lastFix = t
             /\ f.kind = "whole" /\ f.visited = v
  BY <1>2, RestoredWhole
<1>3. f = Absent \/ f = Torn \/ \E v \in 0 .. NumWaypoints, t \in Timestamps : f = Whole(v, t)
  BY DEF Files, Whole
<1>4. QED
  BY <1>1, <1>2, <1>3

-----------------------------------------------------------------------------
(* The inductive invariant *)

\* The state manager starts in a state of the inductive invariant.
LEMMA InitIInv == Init => IInv
<1> SUFFICES ASSUME Init PROVE IInv
  OBVIOUS
<1> USE DEF Init
<1>0. NumWaypoints \in Nat /\ 0 \in Timestamps
  BY ConstantsOK
<1>1. TypeOK
  <2>1. file \in Files
    BY RestoredDefaults
  <2>2. visited \in 0 .. NumWaypoints /\ lastFix \in Timestamps
    BY <1>0
  <2>3. QED
    BY <2>1, <2>2 DEF TypeOK
<1>2. SavePoint /\ QuiescentIsDurable /\ AtMostOneBehind
  BY RestoredDefaults DEF SavePoint, QuiescentIsDurable, AtMostOneBehind
<1>3. NeverSkip
  BY RestoredDefaults DEF NeverSkip, Progress
<1>4. QED
  BY <1>1, <1>2, <1>3 DEF IInv

\* Every step of the state manager keeps the inductive invariant.
LEMMA StepIInv == IInv /\ [Next]_vars => IInv'
<1> SUFFICES ASSUME IInv, [Next]_vars PROVE IInv'
  OBVIOUS
<1> USE DEF IInv, TypeOK, SavePoint, NeverSkip, QuiescentIsDurable,
            AtMostOneBehind, Progress
<1>0. /\ NumWaypoints \in Nat
      /\ 0 \in Timestamps
      /\ Restored(file).visited \in 0 .. NumWaypoints
      /\ Restored(file).lastFix \in Timestamps
      /\ file.kind = "whole" => Restored(file).visited = file.visited
      /\ file.kind # "whole" => Restored(file).visited = 0
  BY ConstantsOK, RestoredType
<1>1. CASE Begin
  BY <1>0, <1>1 DEF Begin
<1>1a. CASE BeginUnread
  <2>1. visited' = 0 /\ lastFix' = 0
    BY <1>1a, RestoredDefaults DEF BeginUnread
  <2>2. QED
    BY <1>0, <1>1a, <2>1 DEF BeginUnread
<1>2. ASSUME NEW p \in Positions, UpdatePosition(p) PROVE IInv'
  BY <1>0, <1>2 DEF UpdatePosition, NextIsReachedAt
<1>3. CASE ReachWaypoint
  BY <1>0, <1>3 DEF ReachWaypoint, ReachedWaypoint
<1>4. ASSUME NEW t \in Timestamps, SetLastFastFixFileUpdate(t) PROVE IInv'
  BY <1>0, <1>4 DEF SetLastFastFixFileUpdate
<1>5. CASE RemoveFile
  BY <1>0, <1>5, RestoredDefaults DEF RemoveFile, ram
<1>5a. CASE RemoveFails
  BY <1>0, <1>5a DEF RemoveFails, ram
<1>6. CASE OpenFile
  BY <1>0, <1>6, RestoredDefaults DEF OpenFile, ram
<1>7. CASE OpenFails
  BY <1>0, <1>7 DEF OpenFails, ram
<1>8. CASE WriteFile
  BY <1>0, <1>8, RestoredWhole DEF WriteFile, ram
<1>9. CASE WriteFails
  BY <1>0, <1>9 DEF WriteFails, ram
<1>10. CASE PowerLoss
  <2> USE <1>0, <1>10 DEF PowerLoss
  <2>1. TypeOK'
    <3>1. visited' \in 0 .. NumWaypoints /\ lastFix' \in Timestamps
      OBVIOUS
    <3>2. QED
      BY <3>1
  <2>2. SavePoint' /\ QuiescentIsDurable' /\ AtMostOneBehind'
    OBVIOUS
  <2>3. NeverSkip'
    OBVIOUS
  <2>4. QED
    BY <2>1, <2>2, <2>3
<1>11. CASE UNCHANGED vars
  BY <1>11 DEF vars, ram
<1>12. QED
  BY <1>1, <1>1a, <1>2, <1>3, <1>4, <1>5, <1>5a, <1>6, <1>7, <1>8, <1>9, <1>10, <1>11
     DEF Next, PersistStep

\* The inductive invariant holds in every reachable state.
THEOREM IInvHolds == Spec => []IInv
BY InitIInv, StepIInv, PTL DEF Spec

\* Every variable keeps to the values the code's types and guards allow.
THEOREM TypeCorrect == Spec => []TypeOK
BY IInvHolds, PTL DEF IInv

\* A waypoint counted as visited, in RAM or by the file the next boot reads,
\* was announced by the callback: no power cut and no failure of the flash
\* makes the tracker skip one.
THEOREM NoWaypointSkipped == Spec => []NeverSkip
BY IInvHolds, PTL DEF IInv

\* With no save under way, and unless the flash failed last, a power cut
\* loses nothing.
THEOREM QuietPowerCutIsHarmless == Spec => []QuiescentIsDurable
BY IInvHolds, PTL DEF IInv

\* Unless the flash failed last, a readable state file is at most the
\* waypoint being saved behind RAM.
THEOREM FileAtMostOneBehind == Spec => []AtMostOneBehind
BY IInvHolds, PTL DEF IInv

-----------------------------------------------------------------------------
(* The state manager implements WaypointProgress *)

\* The constructor and loadPersistState() find what the file restores: the
\* progress of a tracker that is off.
LEMMA InitImplements == Init => WP!Init
BY RestoredDefaults DEF Init, WP!Init, Progress, AtRisk

\* A power cut is a restart of the abstract specification: the progress is
\* what the file restores.
LEMMA PowerLossImplements == IInv /\ PowerLoss => WP!Restart
<1> SUFFICES ASSUME IInv, PowerLoss PROVE WP!Restart
  OBVIOUS
<1>1. Progress' = Restored(file).visited /\ file' = file
  BY DEF PowerLoss, Progress
<1>2. AtRisk' = FALSE /\ announced' = announced
  BY DEF PowerLoss, AtRisk
<1>3. QED
  BY <1>1, <1>2 DEF WP!Restart

\* A removal and the opening for writing destroy what is saved, or find
\* nothing that restores any progress.
LEMMA DestroyImplements ==
  IInv /\ (RemoveFile \/ OpenFile) => WP!Lose
<1> SUFFICES ASSUME IInv, RemoveFile \/ OpenFile PROVE WP!Lose
  OBVIOUS
<1>1. Restored(file').visited = 0
  BY RestoredDefaults DEF RemoveFile, OpenFile
<1>2. AtRisk /\ AtRisk' = AtRisk
  BY DEF RemoveFile, OpenFile, AtRisk, IInv, TypeOK
<1>3. Progress' = Progress /\ announced' = announced
  BY DEF RemoveFile, OpenFile, ram, Progress
<1>4. QED
  BY <1>1, <1>2, <1>3 DEF WP!Lose

\* A boot that cannot read the file forgets the progress for now.
LEMMA BeginUnreadImplements == BeginUnread => WP!Forget
BY RestoredDefaults DEF BeginUnread, Progress, AtRisk, WP!Forget

\* A save that ends well has saved the progress.
LEMMA WriteImplements == IInv /\ WriteFile => WP!Saved
<1> SUFFICES ASSUME IInv, WriteFile PROVE WP!Saved
  OBVIOUS
<1>1. Restored(file').visited = visited
  BY RestoredWhole DEF WriteFile, IInv, TypeOK
<1>2. Progress = visited /\ Progress' = visited /\ AtRisk' = FALSE /\ announced' = announced
  BY DEF WriteFile, ram, Progress, AtRisk
<1>3. QED
  BY <1>1, <1>2 DEF WP!Saved

\* Every step of the state manager is a step of WaypointProgress or leaves
\* its variables alone.
LEMMA StepImplements == IInv /\ [Next]_vars => [WP!Next]_(WP!vars)
<1> SUFFICES ASSUME IInv, [Next]_vars PROVE [WP!Next]_(WP!vars)
  OBVIOUS
<1> USE DEF WP!Next, WP!vars
<1>1. CASE Begin
  BY <1>1 DEF Begin, Progress, AtRisk, IInv, SavePoint
<1>2. ASSUME NEW p \in Positions, UpdatePosition(p)
      PROVE  UNCHANGED WP!vars
  BY <1>2 DEF UpdatePosition, Progress, AtRisk
<1>3. CASE ReachWaypoint
  BY <1>3 DEF ReachWaypoint, ReachedWaypoint, Progress, AtRisk, WP!Reach, IInv, SavePoint
<1>4. ASSUME NEW t \in Timestamps, SetLastFastFixFileUpdate(t)
      PROVE  WP!StartSave
  BY <1>4 DEF SetLastFastFixFileUpdate, Progress, AtRisk, WP!StartSave
<1>5. CASE RemoveFails \/ OpenFails \/ WriteFails
  BY <1>5 DEF RemoveFails, OpenFails, WriteFails, ram, Progress, AtRisk, IInv, TypeOK
<1>6. CASE RemoveFile \/ OpenFile \/ BeginUnread \/ WriteFile
  BY <1>6, DestroyImplements, BeginUnreadImplements, WriteImplements
<1>7. CASE PowerLoss
  BY <1>7, PowerLossImplements
<1>8. CASE UNCHANGED vars
  BY <1>8 DEF vars, ram, Progress, AtRisk
<1>9. QED
  BY <1>1, <1>2, <1>3, <1>4, <1>5, <1>6, <1>7, <1>8 DEF Next, PersistStep

\* The file-by-file state manager keeps the promise of WaypointProgress.
THEOREM StateManagerImplementsProgress == Spec => ImplementsProgress
BY InitImplements, StepImplements, IInvHolds, PTL
   DEF Spec, ImplementsProgress, WP!Spec

\* What is said in WaypointProgress holds of every implementation of it: no
\* waypoint is counted that was not announced, and a restart keeps the
\* progress unless something is in doubt.
THEOREM ProgressKeepsPromises == ImplementsProgress => []WP!Promises
<1> USE DEF WP!Promises, WP!TypeOK, WP!NeverSkip, WP!RestartIsSafe
<1>0. NumWaypoints \in Nat
  BY ConstantsOK
<1>1. WP!Init => WP!Promises
  BY <1>0 DEF WP!Init, AtRisk
<1>2. WP!Promises /\ [WP!Next]_(WP!vars) => WP!Promises'
  <2> SUFFICES ASSUME WP!Promises, [WP!Next]_(WP!vars) PROVE WP!Promises'
    OBVIOUS
  <2>1. CASE WP!Reach
    BY <1>0, <2>1 DEF WP!Reach
  <2>2. CASE WP!StartSave \/ WP!Saved
    BY <1>0, <2>2 DEF WP!StartSave, WP!Saved
  <2>3. CASE WP!Lose
    <3>1. AtRisk /\ AtRisk' = AtRisk /\ AtRisk' \in BOOLEAN
      BY <2>3 DEF WP!Lose
    <3>2. /\ Progress' = Progress /\ announced' = announced
          /\ Restored(file').visited = 0
      BY <2>3 DEF WP!Lose
    <3>3. QED
      BY <1>0, <3>1, <3>2
  <2>3a. CASE WP!Forget
    <3>1. AtRisk' = TRUE
      BY <2>3a DEF WP!Forget
    <3>2. /\ Progress' = 0 /\ announced' = announced
          /\ Restored(file').visited = Restored(file).visited
      BY <2>3a DEF WP!Forget
    <3>3. QED
      BY <1>0, <3>1, <3>2
  <2>4. CASE WP!Restart \/ UNCHANGED WP!vars
    BY <1>0, <2>4 DEF WP!Restart, WP!vars
  <2>5. QED
    BY <2>1, <2>2, <2>3, <2>3a, <2>4 DEF WP!Next
<1>3. QED
  BY <1>1, <1>2, PTL DEF ImplementsProgress, WP!Spec
=============================================================================
