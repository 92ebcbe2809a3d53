----------------------------- MODULE MCDevice -------------------------------
(* One waypoint; positions at it, near it (awake, but not reached), and     *)
(* far from it.                                                            *)
EXTENDS Device

MCPositions == {"at", "near", "far"}

MCDistance ==
  [p \in MCPositions |->
    [w \in 1 .. NumWaypoints |->
      CASE p = "at"   -> 100
        [] p = "near" -> 150
        [] OTHER -> 151]]
=============================================================================
