--------------------------- MODULE MCOrderIntake ---------------------------
(* An instance of OrderIntake: two requests, one and two rows, two copies. *)
EXTENDS OrderIntake

CONSTANTS c1, c2, d1, d2
=============================================================================
