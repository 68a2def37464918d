--------------------- MODULE MCPriorityProducerConsumer ---------------------
(* Instances of PriorityProducerConsumer for TLC.                          *)
EXTENDS PriorityProducerConsumer

CONSTANTS i1, i2, i3, i4, k1, k2

\* Two values are equal for the comparer.
MCKey == [i \in Items |-> IF i \in {i1, i2} THEN k1 ELSE k2]
=============================================================================
