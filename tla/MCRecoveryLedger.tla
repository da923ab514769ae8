-------------------------- MODULE MCRecoveryLedger --------------------------
(* RecoveryLedger with small constants for TLC.                            *)
EXTENDS RecoveryLedger

CONSTANTS c1, c2, v1, r1, r2

=============================================================================
