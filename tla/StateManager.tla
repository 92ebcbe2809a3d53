---------------------------- MODULE StateManager ----------------------------
(***************************************************************************)
(* The state manager (src/StateManager.cpp): which waypoints were visited, *)
(* when the GPS assistance file was last fetched, and the file             *)
(* /state.json on the SPIFFS flash that carries both over a restart.       *)
(*                                                                         *)
(* persistState() removes the file, creates it again and writes it, so     *)
(* every step of it is an action of its own: power may be cut between any  *)
(* two.  updatePosition() and setLastFastFixFileUpdate() are called from   *)
(* one task at a time; pc is what is left of the call in progress.         *)
(***************************************************************************)
EXTENDS Naturals, FiniteSets

CONSTANTS
  NumWaypoints,   \* configuration->WAYPOINTS.size()
  Positions,      \* the GPS positions updatePosition may be given
  Distance,       \* Distance[p][w]: metres from p to waypoint w, or NaN
  NaN,            \* what acos yields when rounding lifts its argument over 1
  Unset,          \* actPosition before the first updatePosition
  MaxDistance,    \* std::numeric_limits<double>::max()
  Accuracy,       \* CONFIG.accuracy, in metres
  Timestamps,     \* values of setLastFastFixFileUpdate, and the default 0
  FlashMayFail    \* whether operations on a file can fail

ASSUME ConstantsOK ==
  /\ NumWaypoints \in Nat
  /\ Distance \in [Positions -> [1 .. NumWaypoints -> Nat \union {NaN}]]
  /\ NaN \notin Nat
  /\ Unset \notin Positions
  /\ MaxDistance \in Nat
  /\ Accuracy \in Nat
  /\ 0 \in Timestamps
  /\ FlashMayFail \in BOOLEAN

VARIABLES
  visited,      \* visitedWaypoints
  lastFix,      \* lastFastFixFileUpdate
  actPosition,
  file,         \* /state.json as the flash holds it
  pc,           \* "off", "idle", or the next step of the call in progress
  announced,    \* history: waypoints the callback was ever called with
  flashFailed   \* history: what this boot did last with the file, loading it or
                \* saving it, did not succeed

ram   == <<visited, lastFix, actPosition>>
vars  == <<ram, file, pc, announced, flashFailed>>

-----------------------------------------------------------------------------
(* The file.  Created but not closed it is "torn": deserializeJson fails on *)
(* it exactly as on a missing one.                                          *)

Absent == [kind |-> "absent", visited |-> 0, lastFix |-> 0]
Torn   == [kind |-> "torn",   visited |-> 0, lastFix |-> 0]

\* Mutant: the next waypoint's number is saved instead of the count.
WholeOffByOne(v, t) == [kind |-> "whole", visited |-> v + 1, lastFix |-> t]

\* serialize(): the two members of the document that is written.
Whole(v, t) == [kind |-> "whole", visited |-> v, lastFix |-> t]

Files == {Absent, Torn} \union
           [kind : {"whole"}, visited : 0 .. NumWaypoints, lastFix : Timestamps]

\* deserialize(), or the member initialisers when the file cannot be parsed.
Restored(f) ==
  IF f.kind = "whole" THEN [visited |-> f.visited, lastFix |-> f.lastFix]
                      ELSE [visited |-> 0, lastFix |-> 0]

TypeOK ==
  /\ visited \in 0 .. NumWaypoints
  /\ lastFix \in Timestamps
  /\ actPosition \in Positions \union {Unset}
  /\ file \in Files
  /\ pc \in {"off", "idle", "reached", "remove", "open", "write"}
  /\ announced \subseteq 1 .. NumWaypoints
  /\ flashFailed \in BOOLEAN

Init ==
  /\ visited = 0 /\ lastFix = 0 /\ actPosition = Unset
  /\ file = Absent          \* a freshly uploaded filesystem has no state file
  /\ pc = "off"
  /\ announced = {}
  /\ flashFailed = FALSE

-----------------------------------------------------------------------------
(* Operations *)

\* Mutant: begin() without loadPersistState().
BeginWithoutLoad ==
  /\ pc = "off"
  /\ pc' = "idle"
  /\ UNCHANGED <<ram, file, announced, flashFailed>>

\* The constructor and begin(): loadPersistState().
Begin ==
  /\ pc = "off"
  /\ visited' = Restored(file).visited
  /\ lastFix' = Restored(file).lastFix
  /\ actPosition' = Unset
  /\ pc' = "idle"
  /\ UNCHANGED <<file, announced, flashFailed>>

\* The same with a file that is there but cannot be opened or read.
BeginUnread ==
  /\ pc = "off"
  /\ FlashMayFail
  /\ visited' = Restored(Absent).visited
  /\ lastFix' = Restored(Absent).lastFix
  /\ actPosition' = Unset
  /\ flashFailed' = TRUE
  /\ pc' = "idle"
  /\ UNCHANGED <<file, announced>>

\* distanceToNextWaypoint() with the member variables v and p.
DistanceToNext(v, p) == IF v = NumWaypoints THEN MaxDistance ELSE Distance[p][v + 1]

\* A comparison with NaN is false, in either direction.
AtMost(d, limit)   == d # NaN /\ d <= limit
MoreThan(d, limit) == d # NaN /\ d > limit

\* checkCollision()'s two conditions.
NextIsReachedAt(p) ==
  /\ visited < NumWaypoints
  /\ AtMost(DistanceToNext(visited, p), Accuracy)

\* updatePosition(): store the position, then checkCollision() up to the
\* callback.
UpdatePosition(p) ==
  /\ pc = "idle"
  /\ actPosition' = p
  /\ pc' = IF NextIsReachedAt(p) THEN "reached" ELSE "idle"
  /\ UNCHANGED <<visited, lastFix, file, announced, flashFailed>>

\* Mutant: visitedWaypoints++ moved before the callback.
ReachedAfterIncrement == visited + 2

\* The waypoint the callback is called with: WAYPOINTS[visitedWaypoints].
ReachedWaypoint == visited + 1

\* Mutant: the state is saved with the next timestamp only.
ReachWithoutSave ==
  /\ pc = "reached"
  /\ announced' = announced \union {ReachedWaypoint}
  /\ visited' = visited + 1
  /\ pc' = "idle"
  /\ UNCHANGED <<lastFix, actPosition, file, flashFailed>>

\* newWaypointReachedCallback(...); visitedWaypoints++; then persistState().
ReachWaypoint ==
  /\ pc = "reached"
  /\ announced' = announced \union {ReachedWaypoint}
  /\ visited' = visited + 1
  /\ pc' = "remove"
  /\ UNCHANGED <<lastFix, actPosition, file, flashFailed>>

\* Mutant: the setter only sets.
SetWithoutPersist(t) ==
  /\ pc = "idle"
  /\ lastFix' = t
  /\ UNCHANGED <<visited, actPosition, file, pc, announced, flashFailed>>

\* setLastFastFixFileUpdate(): the same file is rewritten for a timestamp.
SetLastFastFixFileUpdate(t) ==
  /\ pc = "idle"
  /\ lastFix' = t
  /\ pc' = "remove"
  /\ UNCHANGED <<visited, actPosition, file, announced, flashFailed>>

\* persistState(), first clearMemory().
RemoveFile ==
  /\ pc = "remove"
  /\ file' = Absent
  /\ pc' = "open"
  /\ UNCHANGED <<ram, announced, flashFailed>>

\* SPIFFS.remove() fails, and its result is not looked at: the old file stays.
RemoveFails ==
  /\ pc = "remove"
  /\ FlashMayFail
  /\ pc' = "open"
  /\ UNCHANGED <<ram, file, announced, flashFailed>>

\* SPIFFS.open(stateFile, FILE_WRITE), which cuts an old file to nothing.
OpenFile ==
  /\ pc = "open"
  /\ file' = Torn
  /\ pc' = "write"
  /\ UNCHANGED <<ram, announced, flashFailed>>

\* The open fails: serializeJson writes nothing, "Failed to write to file".
\* A file that could not be removed before is still whole.
OpenFails ==
  /\ pc = "open"
  /\ FlashMayFail
  /\ flashFailed' = TRUE
  /\ pc' = "idle"
  /\ UNCHANGED <<ram, file, announced>>

\* serializeJson and close() with everything written.
WriteFile ==
  /\ pc = "write"
  /\ file' = Whole(visited, lastFix)
  /\ flashFailed' = FALSE
  /\ pc' = "idle"
  /\ UNCHANGED <<ram, announced>>

\* The flash is full: the file is closed with too little in it.
WriteFails ==
  /\ pc = "write"
  /\ FlashMayFail
  /\ flashFailed' = TRUE
  /\ pc' = "idle"
  /\ UNCHANGED <<ram, file, announced>>

\* The file operations left of a persistState() in progress.
PersistStep ==
  RemoveFile \/ RemoveFails \/ OpenFile \/ OpenFails \/ WriteFile \/ WriteFails

\* Power is cut, or esp_restart(): what RAM held is gone.
PowerLoss ==
  /\ pc # "off"
  /\ visited' = 0 /\ lastFix' = 0 /\ actPosition' = Unset
  /\ flashFailed' = FALSE
  /\ pc' = "off"
  /\ UNCHANGED <<file, announced>>

Next ==
  \/ Begin \/ BeginUnread
  \/ \E p \in Positions : UpdatePosition(p)
  \/ ReachWaypoint
  \/ \E t \in Timestamps : SetLastFastFixFileUpdate(t)
  \/ PersistStep
  \/ PowerLoss

Spec == Init /\ [][Next]_vars

-----------------------------------------------------------------------------
(* Properties *)

\* The progress a player would find if the power were cut now, or has now.
Progress == IF pc = "off" THEN Restored(file).visited ELSE visited

\* No waypoint is skipped, whatever the power cuts and the failures of the
\* flash: every waypoint counted as visited - in RAM or in the file the next
\* boot reads - was announced by the callback at least once.
NeverSkip == 1 .. Progress \union 1 .. Restored(file).visited \subseteq announced

\* Unless a save is under way, or the flash failed in the last one or in the
\* loading before it, the file restores exactly what RAM holds: a power cut
\* then costs nothing.
QuiescentIsDurable ==
  (pc \in {"idle", "reached"} /\ ~flashFailed) =>
     Restored(file).visited = visited /\ Restored(file).lastFix = lastFix

\* Unless the flash failed last, a readable file is never more than the
\* waypoint being saved behind RAM, so that a restart in the middle of the save
\* announces at most this one a second time or has lost the file altogether.
\* A file that could neither be removed nor opened again may be any number of
\* waypoints older: persistState() does not notice, and goes on so.
AtMostOneBehind ==
  (pc # "off" /\ file.kind = "whole" /\ ~flashFailed) =>
     file.visited = visited \/ file.visited + 1 = visited

\* The conjunction that is inductive: the file at every step of a save.
SavePoint ==
  /\ pc = "off" => ~flashFailed
  /\ pc = "reached" => visited < NumWaypoints
  /\ pc = "write" => file.kind = "torn"

IInv == TypeOK /\ SavePoint /\ NeverSkip /\ QuiescentIsDurable /\ AtMostOneBehind

\* The abstract specification: what the file restores is what is saved, and
\* the progress of a tracker that is off.
AtRisk == flashFailed \/ pc \in {"remove", "open", "write"}

WP == INSTANCE WaypointProgress
        WITH progress <- Progress, saved <- Restored(file).visited, atRisk <- AtRisk

ImplementsProgress == WP!Spec
=============================================================================
