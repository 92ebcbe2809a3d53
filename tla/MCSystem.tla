------------------------------ MODULE MCSystem -------------------------------
(* One waypoint; a position at it and one far from it.                     *)
EXTENDS System

MCPositions == {"at", "far"}

MCDistance ==
  [p \in MCPositions |-> [w \in 1 .. NumWaypoints |-> IF p = "at" THEN 100 ELSE 151]]
=============================================================================
