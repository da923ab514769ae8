-------------------------- MODULE MCCanonicalMemory -------------------------
(* CanonicalMemory with small constants for TLC.                           *)
EXTENDS CanonicalMemory

CONSTANTS a1, a2, a3, p1, p2

VARIABLE scenario   \* what a behaviour is about, chosen at its start

(* The actions of one owner are proposed one after the other.              *)
Earlier(a) == CASE a = a1 -> {} [] a = a2 -> {a1} [] a = a3 -> {a1, a2}
Settled(a) == frozen[a] # None /\ call[a] = None /\
              (Has(a, {"proposal"}) \/ ~Lacks(a, {"denial", "revocation", "ineligible"}))
InOrder == \A a \in Actions :
  frozen'[a] # None /\ frozen[a] = None => \A b \in Earlier(a) : Settled(b)

(* Its intent is created between its decision and its consent.             *)
Plain(a) == call[a] = None => CASE call'[a] = "intent" -> Has(a, {"policy"}) /\ Lacks(a, {"consent"})
                                [] call'[a] = "consent" -> Has(a, {"intent"})
                                [] OTHER -> TRUE

(* No call dies.                                                           *)
Alive == \A a \in Actions : call[a] # None /\ call'[a] = None => db'.rows # db.rows

(* Three actions and their history; two of which a forget may overtake;    *)
(* and one that is forgotten by all its owners and perhaps restored.       *)
History == /\ scenario = "history"
           /\ ~privacy'.suppressed /\ backup' = None /\ expired' = {} /\ Alive
           /\ \A a \in {a2, a3} : call'[a] # "revocation"
Race == /\ scenario = "race"
        /\ frozen'[a3] = None /\ backup' = None /\ at'[p2] = "idle" /\ Alive
        /\ run' # None => run'.owner \in {"L04", "L18_V2"}
Forgetting == /\ scenario = "forget"
              /\ frozen'[a2] = None /\ at'[p2] = "idle"
              /\ backup' # None /\ backup = None => db.active # None /\ ~privacy.suppressed
              /\ call'[a1] \notin {"revocation", "denial"}
              /\ privacy.suppressed /\ call'[a1] # None => call'[a1] \in {call[a1], "intent", "policy"}

MCInit == Init /\ scenario \in {"history", "race", "forget"}
MCNext == /\ Next /\ UNCHANGED scenario
          /\ InOrder /\ \A a \in Actions : Plain(a)
          /\ History \/ Race \/ Forgetting
MCSpec == MCInit /\ [][MCNext]_<<vars, scenario>> /\ Fairness

=============================================================================
