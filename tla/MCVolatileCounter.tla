-------------------------- MODULE MCVolatileCounter --------------------------
(* Instances of VolatileCounter for TLC.                                   *)
EXTENDS VolatileCounter

CONSTANTS v1, v2, v3, v4

MCKind == [v \in Waiters |-> IF v \in {v1, v2} THEN "zero"
                             ELSE IF v = v3 THEN "toZero" ELSE "change"]
=============================================================================
