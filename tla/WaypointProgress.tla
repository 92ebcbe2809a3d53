-------------------------- MODULE WaypointProgress --------------------------
(***************************************************************************)
(* What the state manager promises about the game's progress, with no      *)
(* mention of files or of the order of the writes: waypoints are reached   *)
(* in the configured order; a restart goes on from the progress that was   *)
(* last saved, which is the tracker's own unless a save is under way or    *)
(* the flash failed; and in such a doubtful state what was saved can be    *)
(* lost altogether, but never replaced by anything else.                   *)
(***************************************************************************)
EXTENDS Naturals

CONSTANT NumWaypoints   \* configuration->WAYPOINTS.size(), a natural number

VARIABLES
  progress,   \* how many waypoints the tracker believes were visited
  saved,      \* the progress that a restart goes on from
  announced,  \* the waypoints the reached-callback was ever called with
  atRisk      \* TRUE while a restart may change the progress

vars == <<progress, saved, announced, atRisk>>

TypeOK ==
  /\ progress \in 0 .. NumWaypoints
  /\ saved \in 0 .. NumWaypoints
  /\ announced \subseteq 1 .. NumWaypoints
  /\ atRisk \in BOOLEAN

Init ==
  /\ progress = 0
  /\ saved = 0
  /\ announced = {}
  /\ atRisk = FALSE

\* The next waypoint is reached: it is announced and the progress grows.
Reach ==
  /\ progress < NumWaypoints
  /\ progress' = progress + 1
  /\ announced' = announced \union {progress + 1}
  /\ atRisk' = TRUE
  /\ UNCHANGED saved

\* The state is being saved again for a reason of its own.
StartSave ==
  /\ atRisk' = TRUE
  /\ UNCHANGED <<progress, saved, announced>>

Saved ==
  /\ saved' = progress
  /\ atRisk' = FALSE
  /\ UNCHANGED <<progress, announced>>

\* A save in doubt has destroyed what was saved before.
Lose ==
  /\ atRisk
  /\ saved' = 0
  /\ UNCHANGED <<progress, announced, atRisk>>

Restart ==
  /\ progress' = saved
  /\ atRisk' = FALSE
  /\ UNCHANGED <<saved, announced>>

\* What was saved is there but was not found: the game starts again.
Forget ==
  /\ progress' = 0
  /\ atRisk' = TRUE
  /\ UNCHANGED <<saved, announced>>

Next == Reach \/ StartSave \/ Saved \/ Lose \/ Restart \/ Forget

Spec == Init /\ [][Next]_vars

\* No waypoint is ever skipped: all those counted as visited were announced.
NeverSkip == 1 .. progress \union 1 .. saved \subseteq announced

\* When nothing is in doubt a restart keeps the progress.
RestartIsSafe == ~atRisk => saved = progress

\* The two, made inductive.
Promises == TypeOK /\ NeverSkip /\ RestartIsSafe
=============================================================================
