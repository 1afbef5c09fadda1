----------------------------- MODULE MCPlantPolls -----------------------------
(* Model checking of PlantPolls.                                           *)
EXTENDS PlantPolls

CONSTANTS s1, s2
=============================================================================
