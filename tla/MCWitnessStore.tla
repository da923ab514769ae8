--------------------------- MODULE MCWitnessStore ---------------------------
(* WitnessStore with small constants for TLC.                              *)
EXTENDS WitnessStore, TLC

CONSTANTS a1, a2, g

MCAuthIds == {a1, a2}
MCOneAuthId == {a1}
MCOneDigest == {g}
AuthSymmetry == Permutations(MCAuthIds)

(* No step of an operation reads the authorizations that it does not name, *)
(* so the owner may as well issue them between two operations; and what a  *)
(* reader lists changes only where scratch and pointer are written, so it  *)
(* may as well list it there, or where the service is stuck.               *)
(* A reply that is lost leaves the store as a reply that arrives does.     *)
ListedLate ==
  \/ pc \in {"scratch_open", "scratch_write", "pointer_replace", "scratch_remove", "state_fsync"}
  \/ pc = "idle" /\ ~Consistent

MCNext ==
  /\ Next
  /\ register' # register => svc = "serving" /\ pc = "idle"
  /\ view'.open /\ ~view.open => ListedLate
  /\ pc = "reply" /\ pc' = "idle" /\ svc' = svc =>
       acked' = doc \/ (doc = Genesis /\ ~Consistent)

MCSpec == Init /\ [][MCNext]_vars

=============================================================================
