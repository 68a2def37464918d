--------------------------- MODULE MCServerEnqueue ---------------------------
(* Instances of ServerEnqueue for TLC.                                     *)
EXTENDS ServerEnqueue

CONSTANTS j1, j2, d1

\* All jobs edit one document.
MCOneDoc == [j \in Jobs |-> d1]
=============================================================================
