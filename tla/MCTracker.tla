----------------------------- MODULE MCTracker ------------------------------
(* Two waypoints; a position at each, one near the second (awake, but not  *)
(* reached), and one far from both.                                        *)
EXTENDS Tracker

MCPositions == {"at1", "at2", "near2", "far"}

MCDistance ==
  [p \in MCPositions |->
    [w \in 1 .. NumWaypoints |->
      CASE p = "at1"   /\ w = 1 -> 100
        [] p = "at2"   /\ w = 2 -> 0
        [] p = "near2" /\ w = 2 -> 150
        [] OTHER -> 151]]
=============================================================================
