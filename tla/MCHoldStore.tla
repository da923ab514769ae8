---------------------------- MODULE MCHoldStore ----------------------------
(* HoldStore with small constants for TLC.                                 *)
EXTENDS HoldStore, TLC

CONSTANTS x1, x2, k0, k1, k2

(* Sessions are interchangeable, and successor keys that no one names yet. *)
Symmetry == Permutations({x1, x2}) \cup Permutations(Ordinals)

=============================================================================
