---------------------------- MODULE MCSendCommand ----------------------------
(* Model checking of SendCommand with calls that overlap freely.           *)
EXTENDS SendCommand

CONSTANTS c1, c2

=============================================================================
