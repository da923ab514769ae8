-------------------------- MODULE MCSignerRecovery --------------------------
(* SignerRecovery with small constants for TLC.                            *)
EXTENDS SignerRecovery

CONSTANTS a1, a2, a3, a4, h1, h2, c, u

MCDigests == {NAMES, MARKS, KEEPS}

(* Authorizations are interchangeable, so one order of issue is enough;    *)
(* the fourth, the advance out of a second compromise, meets one handler.  *)
(* Handlers are interchangeable too: the second starts beside the first.   *)
(* The wire may hold a record, or lose it, as long as it likes: so the     *)
(* handler may as well send it, and end, at once.  A clock window that is  *)
(* over matters only while an adoption waits for its execution.            *)
MCInOrder ==
  /\ register'[a2] # NoAuth => register'[a1] # NoAuth
  /\ register'[a3] # NoAuth => register'[a2] # NoAuth
  /\ register'[a4] # NoAuth => /\ register'[a3] # NoAuth /\ handlers'[h2].pc = "idle"
                              /\ register'[a4].kind = EPOCH
  /\ handlers'[h2].pc = "viewed" => handlers[h2].pc = "viewed" \/ handlers[h1].pc # "idle"
  /\ \A h \in Handlers :
       handlers[h].pc \in {"appended", "waiting"} => handlers'[h].pc # handlers[h].pc
  /\ expired' # expired => Last(journal).by \in expired' \ expired

MCFairSpec == Init /\ [][Next /\ MCInOrder]_vars /\ WF_vars(CompleteAdoption)

=============================================================================
