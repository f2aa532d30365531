---------------------------- MODULE MCBackground ----------------------------
(***************************************************************************)
(* Background with two calls of kill_task that may overlap.                *)
(***************************************************************************)
EXTENDS Background, TLC

CONSTANTS k1, k2

MCKillers == {k1, k2}

=============================================================================
