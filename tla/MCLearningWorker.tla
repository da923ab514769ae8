-------------------------- MODULE MCLearningWorker --------------------------
(* LearningWorker with small constants for TLC.                            *)
EXTENDS LearningWorker

CONSTANTS w1, w2

=============================================================================
