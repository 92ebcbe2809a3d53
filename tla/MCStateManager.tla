--------------------------- MODULE MCStateManager ---------------------------
(* Three waypoints; a position at each, one between the first two that is  *)
(* near but not at the second, one far from all, and one whose distance to *)
(* the first waypoint is NaN because the team stands exactly on it.        *)
EXTENDS StateManager

MCPositions == {"at1", "at2", "at3", "near2", "far", "exact1"}

MCDistance ==
  [p \in MCPositions |->
    [w \in 1 .. NumWaypoints |->
      CASE p = "exact1" /\ w = 1 -> NaN
        [] p = "at1"   /\ w = 1 -> 40
        [] p = "at2"   /\ w = 2 -> 100
        [] p = "at3"   /\ w = 3 -> 0
        [] p = "near2" /\ w = 2 -> 101
        [] OTHER -> 900]]
=============================================================================
