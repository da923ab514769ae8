--------------------------- MODULE MCMemoryBroker ---------------------------
(* MemoryBroker with small constants for TLC.                              *)
EXTENDS MemoryBroker

CONSTANTS c1, w1, w2, o1, o2

=============================================================================
