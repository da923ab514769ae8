------------------------- MODULE ForgettableMemory -------------------------
(***************************************************************************)
(* What the core API promises of one remembered identity once its owner    *)
(* asks that it be forgotten: from then on its value can change at most    *)
(* once more, by an admission that had passed its last look at the hold;   *)
(* and once it is erased it has no value, for ever, whatever backup the    *)
(* service is restored from.                                               *)
(***************************************************************************)
CONSTANTS Values, None

VARIABLES
  phase,   \* "open", "closing" or "forgotten"
  value,   \* the value served, or None
  late     \* an admission has slipped past the closing

vars == <<phase, value, late>>

Init == phase = "open" /\ value = None /\ late = FALSE

Change == /\ phase = "open"
          /\ value' \in Values \cup {None}
          /\ UNCHANGED <<phase, late>>

Close == /\ phase = "open"
         /\ phase' = "closing"
         /\ UNCHANGED <<value, late>>

LateAdmission == /\ phase = "closing" /\ ~late
                 /\ value' \in Values /\ late' = TRUE
                 /\ UNCHANGED phase

Hide == /\ phase = "closing"
        /\ value' = None
        /\ UNCHANGED <<phase, late>>

Forget == /\ phase = "closing"
          /\ phase' = "forgotten" /\ value' = None
          /\ UNCHANGED late

Next == Change \/ Close \/ LateAdmission \/ Hide \/ Forget

Spec == Init /\ [][Next]_vars

=============================================================================
