--------------------------- MODULE MCCommandedPlant ---------------------------
(* Model checking of CommandedPlant: two calls, one after the other.       *)
EXTENDS CommandedPlant, TLC

CONSTANTS c1, c2, s1

\* Both calls are for the one shutter.
SameShutter == [c \in {c1, c2} |-> s1]

\* So they can be exchanged.
CallSymmetry == Permutations({c1, c2})

=============================================================================
