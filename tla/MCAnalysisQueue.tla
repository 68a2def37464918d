--------------------------- MODULE MCAnalysisQueue ---------------------------
(* Instances of AnalysisQueue for TLC.                                     *)
EXTENDS AnalysisQueue

CONSTANTS a1, a2, b1, r1, x1, n1, a, b, r, g

\* Two calls for one entry of a group, one for another, and one for an entry
\* without a group, like the item that reloads modules.
MCEntry == [c \in {a1, a2, b1, r1} |->
              CASE c \in {a1, a2} -> a [] c = b1 -> b [] OTHER -> r]

MCGroup == [e \in {a, b, r} |-> IF e = r THEN None ELSE g]
=============================================================================
