--------------------------- MODULE SingleUseProof ---------------------------
(***************************************************************************)
(* What the memory broker promises of one owner confirmation: a challenge  *)
(* is opened once and ends once; one that was cancelled or ran out yields  *)
(* nothing; one whose proof was spent yields evidence at most once, for    *)
(* ever; and what the owner is told has happened, has happened.            *)
(***************************************************************************)
CONSTANTS Challenges

VARIABLES
  phase,        \* [Challenges -> Phases]
  confirmed     \* challenges the owner was told are committed

Phases == {"none", "open", "closed", "spent", "evidenced"}

vars == <<phase, confirmed>>

Init == /\ phase = [c \in Challenges |-> "none"]
        /\ confirmed = {}

Move(c, from, to) == /\ phase[c] = from
                     /\ phase' = [phase EXCEPT ![c] = to]
                     /\ UNCHANGED confirmed

Confirm(c) == /\ phase[c] = "evidenced"
              /\ confirmed' = confirmed \cup {c}
              /\ UNCHANGED phase

Next == \E c \in Challenges :
          \/ Move(c, "none", "open")
          \/ Move(c, "open", "closed")
          \/ Move(c, "open", "spent")
          \/ Move(c, "spent", "evidenced")
          \/ Confirm(c)

Spec == Init /\ [][Next]_vars

=============================================================================
