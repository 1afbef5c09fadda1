-------------------------- MODULE MCClientLifecycle --------------------------
(* Model checking of ClientLifecycle: two tasks and the unload.            *)
EXTENDS ClientLifecycle

CONSTANTS t1, t2

=============================================================================
