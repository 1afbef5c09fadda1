---------------------------- MODULE MCShutterEvents ----------------------------
(* Model checking of ShutterEvents: bytes of five bits, two of them for    *)
(* the wire type of a tag, and ids of three bytes with one dash.           *)
EXTENDS ShutterEvents, TLC

CONSTANTS w1, w2, w3, x1, x2

\* Two tasks wait for the one shutter, one for the other.
MCIdOf == x1 :> <<1, 15, 11>> @@ x2 :> <<1, 15, 13>>
MCShutterOf == w1 :> x1 @@ w2 :> x1 @@ w3 :> x2

MCMarker == <<9, 9>>

\* The instance is one that the theorems are about.
ASSUME TypicalInstance == IdsAreIds /\ IdsStandOut /\ MarkerStandsOut
=============================================================================
