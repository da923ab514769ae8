-------------------------- MODULE ConsolidationLog --------------------------
(***************************************************************************)
(* What the learning ledger promises of its source: the candidates are     *)
(* exactly the source records up to the cursor, each of them once, none of *)
(* them invalid, and no more than the ledger may hold; the cursor only     *)
(* moves forward, and never past a record that is yet to be written.       *)
(***************************************************************************)
EXTENDS Integers, FiniteSets

CONSTANTS Invalid, Capacity

VARIABLES events, cursor, candidates

vars == <<events, cursor, candidates>>

Init == events = 0 /\ cursor = 0 /\ candidates = {}

Append ==
  /\ events' \in Nat /\ events' > events
  /\ UNCHANGED <<cursor, candidates>>

Consolidate ==
  /\ cursor' \in Nat /\ cursor' > cursor /\ cursor' <= events
  /\ candidates' = candidates \cup ((cursor + 1)..cursor')
  /\ candidates' \cap Invalid = {}
  /\ Cardinality(candidates') <= Capacity
  /\ UNCHANGED events

Spec == Init /\ [][Append \/ Consolidate]_vars

=============================================================================
