------------------------------ MODULE MCH2Client ------------------------------
(* Model checking of H2Client.                                             *)
EXTENDS H2Client

CONSTANT c1
=============================================================================
