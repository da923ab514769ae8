-------------------------- MODULE HoldStoreProofs --------------------------
(***************************************************************************)
(* Theorems about HoldStore, for every number of sessions, successor keys, *)
(* chain length and kills.                                                 *)
(*                                                                         *)
(* The inductive invariant has three layers.  IInv says that one session   *)
(* writes at a time (OneWriter), what a command has from before the lock   *)
(* (Requested), and what still holds of the store and of the chain when    *)
(* its record is renamed (Decided).  The chain only grows, so a ceremony   *)
(* that governs an entry governs it for ever (GovernedForEver).            *)
(*                                                                         *)
(* HInv says which entry may follow which and that no key comes back       *)
(* (Lawful), that a hold is only released when its change is made          *)
(* (ReleasesAreDone), and so that a snapshot which names the current key   *)
(* is of a record that is HELD still (SnapshotsLast, MarkedUnderHold).     *)
(*                                                                         *)
(* RInv says what a record has of the chain entry that it names (Fitting), *)
(* that a power loss takes one back to an earlier stage (Staged), and that *)
(* the record of a successor that is current is of its change (Agreed).    *)
(***************************************************************************)
EXTENDS HoldStore, FiniteSetTheorems, WellFoundedInduction, TLAPS

ChainOK ==
  /\ chain[1].kind = "GENESIS"
  /\ \A i \in 1..Latest : chain[i].reg <= i

OneWriter == \A x, y \in Sessions : Writing(x) /\ Writing(y) => x = y

RequestOK(r) ==
  /\ r.op # "NONE" /\ r.at \in 1..Latest
  /\ r.op \in {"INITIAL", "CREATE"} => r.kind \in Kinds
  /\ r.op = "DEBT" => r.c[2] \in Ordinals
  /\ r.op = "RELEASE" => r.approved \in approved /\ r.approved <= r.at

Requested == \A x \in Sessions : pc[x] = "begun" \/ Writing(x) => RequestOK(req[x])

DecisionOK(r) ==
  /\ r.op \in {"INITIAL", "CREATE"} => holds[r.c] = Absent
  /\ r.op = "DEBT" => holds[r.c] = Absent /\ holds[Successor(r.c[2])].state = "RELEASED"
  /\ r.op = "RELEASE" => holds[r.c].state = "HELD" /\ r.at \in approved /\ Governed(r.c, r.at)

Decided == \A x \in Sessions :
  /\ pc[x] \in {"writing", "written"} => DecisionOK(req[x])
  /\ pc[x] = "written" => scratch = "whole"

IInv == TypeOK /\ ChainOK /\ OneWriter /\ Requested /\ Decided /\ ReleaseBindsHead /\ RecordsSurvive

----------------------------------------------------------------------------
(* The chain.                                                              *)

(* A non-empty set of entries has a last one.                              *)
LEMMA LastExists ==
  ASSUME NEW n \in Nat, NEW S \in SUBSET (1..n), S # {}
  PROVE  Max(S) \in S /\ \A y \in S : Max(S) >= y
<1> DEFINE After(x) == {y \in S : y > x}
           Tails == {After(x) : x \in S}
           Smaller == StrictSubsetOrdering(1..n)
<1>1. Tails # {} /\ Tails \subseteq SUBSET (1..n) OBVIOUS
<1>2. IsWellFoundedOn(Smaller, SUBSET (1..n))
  <2>1. IsFiniteSet(1..n) BY FS_Interval
  <2> QED BY <2>1, FS_StrictSubsetOrderingWellFounded, FS_FiniteSubsetsOfFinite
<1>3. PICK U \in Tails : \A W \in Tails : <<W, U>> \notin Smaller
  <2> HIDE DEF Tails, Smaller
  <2> QED BY <1>1, <1>2, WFMin
<1>4. PICK x \in S : U = After(x) OBVIOUS
<1>5. ASSUME NEW y \in S, y > x PROVE FALSE
  <2>1. \A z \in S : z > y => z > x BY <1>5
  <2>2. ~(y > y) OBVIOUS
  <2>3. After(y) \subseteq After(x) /\ y \in After(x) /\ y \notin After(y) BY <1>5, <2>1, <2>2
  <2>4. <<After(y), After(x)>> \in Smaller BY <2>3 DEF StrictSubsetOrdering
  <2> QED BY <2>4, <1>3, <1>4
<1>6. \A y \in S : x >= y BY <1>5
<1> QED BY <1>6 DEF Max

Grows == chain' = chain \/ \E e \in Entries : chain' = Append(chain, e)

LEMMA EntriesStay ==
  ASSUME TypeOK, Grows
  PROVE  /\ chain' \in Seq(Entries) /\ Latest <= Latest'
         /\ \A i \in 1..Latest : chain'[i] = chain[i]
<1>1. chain \in Seq(Entries) BY DEF TypeOK
<1>2. CASE chain' = chain BY <1>1, <1>2 DEF Latest
<1>3. ASSUME NEW e \in Entries, chain' = Append(chain, e)
      PROVE  /\ chain' \in Seq(Entries) /\ Latest <= Latest'
             /\ \A i \in 1..Latest : chain'[i] = chain[i]
  BY <1>1, <1>3 DEF Latest
<1> QED BY <1>2, <1>3 DEF Grows

LEMMA EstablishingIs ==
  ASSUME TypeOK, ChainOK, NEW i \in 1..Latest
  PROVE  Establishing(i) \in 1..i
<1> DEFINE S == {j \in 1..i : chain[j].kind \in {"GENESIS", "ROTATION", "EPOCH"}}
<1>1. 1 \in S /\ S \in SUBSET (1..i) /\ i \in Nat BY DEF ChainOK, TypeOK
<1>2. Max(S) \in S BY <1>1, LastExists
<1> QED BY <1>2 DEF Establishing

LEMMA EstablishingStays ==
  ASSUME TypeOK, Grows, NEW i \in 1..Latest
  PROVE  Establishing(i)' = Establishing(i)
<1>1. \A j \in 1..i : chain'[j] = chain[j] BY EntriesStay DEF TypeOK
<1>2. {j \in 1..i : chain'[j].kind \in {"GENESIS", "ROTATION", "EPOCH"}}
        = {j \in 1..i : chain[j].kind \in {"GENESIS", "ROTATION", "EPOCH"}} BY <1>1
<1> QED BY <1>2 DEF Establishing

LEMMA BaseCeremony ==
  ASSUME NEW i
  PROVE  Base(i).ceremony = IF chain[Establishing(i)].kind = "GENESIS" THEN Initial
                            ELSE Successor(Cur(Establishing(i)))
BY DEF Base

LEMMA BaseStays ==
  ASSUME TypeOK, ChainOK, Grows, NEW i \in 1..Latest
  PROVE  (Base(i).ceremony)' = Base(i).ceremony
<1> DEFINE e == Establishing(i)
<1>1. e \in 1..i /\ e' = e BY EstablishingIs, EstablishingStays
<1>2. chain'[e] = chain[e] BY <1>1, EntriesStay DEF TypeOK
<1>3. (Base(i).ceremony)' = IF chain'[e].kind = "GENESIS" THEN Initial ELSE Successor(chain'[e].cur)
  BY <1>1, BaseCeremony DEF Base, Cur
<1> QED BY <1>2, <1>3, BaseCeremony DEF Cur

LEMMA TransitionStays ==
  ASSUME TypeOK, ChainOK, Grows, NEW i \in 1..Latest
  PROVE  (Transition(i).ceremony)' = Transition(i).ceremony
<1> DEFINE later == {j \in (Establishing(i) + 1)..i : chain[j].kind = "MAINTENANCE"}
           m == Max(later)
<1>1. Establishing(i) \in 1..i /\ Establishing(i)' = Establishing(i)
  BY EstablishingIs, EstablishingStays
<1>2. \A j \in 1..i : chain'[j] = chain[j] BY EntriesStay DEF TypeOK
<1>3. later' = later BY <1>1, <1>2
<1>4. CASE later = {}
  BY <1>3, <1>4, BaseStays DEF Transition
<1>5. CASE later # {}
  <2>1. later \in SUBSET (1..i) /\ i \in Nat BY <1>1 DEF TypeOK
  <2>2. m \in later BY <1>5, <2>1, LastExists
  <2>3. chain'[m - 1] = chain[m - 1] BY <1>1, <1>2, <2>2
  <2>4. Transition(i).ceremony = Maintenance(chain[m - 1].reg) BY <1>5 DEF Transition
  <2>5. (Transition(i).ceremony)' = Maintenance(chain'[m - 1].reg) BY <1>3, <1>5 DEF Transition
  <2> QED BY <2>3, <2>4, <2>5
<1> QED BY <1>4, <1>5

LEMMA GovernedForEver ==
  ASSUME TypeOK, ChainOK, Grows, NEW i \in 1..Latest, NEW c, Governed(c, i)
  PROVE  Governed(c, i)'
<1>1. Cur(i)' = Cur(i) BY EntriesStay DEF Cur
<1> QED BY <1>1, BaseStays, TransitionStays DEF Governed, DebtOf

----------------------------------------------------------------------------
(* Requests and records.                                                   *)

Full == [state : {"HELD", "RELEASED"}, kind : Kinds, pred : Keys \cup {NoKey}, at : 1..MaxChain]

LEMMA RecordsAre ==
  /\ Records = {Absent, Torn} \cup Full
  /\ Absent.state = "ABSENT" /\ Torn.state = "TORN" /\ Absent # Torn
  /\ \A h \in Full : h # Absent /\ h # Torn
<1>1. Absent.state = "ABSENT" /\ Torn.state = "TORN" BY DEF Absent, Torn, Record
<1>2. \A h \in Full : h.state \in {"HELD", "RELEASED"} BY DEF Full
<1> QED BY <1>1, <1>2 DEF Records, Full

LEMMA CeremoniesAre ==
  /\ Initial \in Ceremonies
  /\ \A n \in Ordinals : Successor(n) \in Ceremonies /\ Debt(n) \in Ceremonies
  /\ \A r \in 1..MaxChain : Maintenance(r) \in Ceremonies
  /\ \A n : Debt(n)[2] = n
BY DEF Ceremonies, Initial, Successor, Debt, Maintenance

LEMMA EntryTypes ==
  ASSUME TypeOK, NEW i \in 1..Latest
  PROVE  /\ i \in 1..MaxChain
         /\ Cur(i) \in Keys \cup {NoKey}
         /\ chain[i] \in Entries /\ chain[i].reg \in 1..MaxChain
<1>1. chain \in Seq(Entries) /\ Latest \in 1..MaxChain BY DEF TypeOK
<1>2. chain[i] \in Entries BY <1>1 DEF Latest
<1>3. i \in 1..MaxChain BY <1>1, HoldStoreAssumption
<1> QED BY <1>2, <1>3 DEF Entries, Cur

LEMMA HeldAre ==
  ASSUME TypeOK, NEW c \in HeldNow
  PROVE  c \in Ceremonies /\ holds[c] \in Full /\ holds[c].state = "HELD"
<1>1. c \in Ceremonies /\ holds[c].state = "HELD" BY DEF HeldNow
<1>2. holds[c] \in Records BY <1>1 DEF TypeOK
<1> QED BY <1>1, <1>2, RecordsAre

(* What a command renames is a record that its old one may become.         *)
LEMMA ProposedIs ==
  ASSUME TypeOK, NEW r \in Requests, RequestOK(r), DecisionOK(r)
  PROVE  /\ Proposed(r) \in Full
         /\ r.op # "RELEASE" => holds[r.c] = Absent /\ Proposed(r).state = "HELD"
         /\ r.op = "RELEASE" => /\ Proposed(r).state = "RELEASED" /\ Proposed(r).at = r.at
                                /\ holds[r.c].state = "HELD"
                                /\ Proposed(r).kind = holds[r.c].kind
                                /\ Proposed(r).pred = holds[r.c].pred
<1>1. r.at \in 1..MaxChain BY EntryTypes DEF RequestOK
<1>2. r.c \in Ceremonies /\ r.pred \in Keys \cup {NoKey}
      /\ r.op \in {"INITIAL", "CREATE", "DEBT", "RELEASE"}
  BY DEF Requests, RequestOK
<1>3. CASE r.op = "RELEASE"
  <2>1. holds[r.c].state = "HELD" /\ holds[r.c] \in Records
    BY <1>2, <1>3 DEF DecisionOK, TypeOK
  <2>2. holds[r.c] \in Full BY <2>1, RecordsAre
  <2> DEFINE h == holds[r.c]
             g == [h EXCEPT !.state = "RELEASED"]
  <2>3. g \in Full /\ g.state = "RELEASED" /\ g.kind = h.kind /\ g.pred = h.pred
    BY <2>2 DEF Full
  <2>4. Proposed(r) = [g EXCEPT !.at = r.at] BY <1>3 DEF Proposed
  <2> HIDE DEF g
  <2> QED BY <1>1, <1>3, <2>1, <2>3, <2>4 DEF Full
<1>4. CASE r.op = "DEBT"
  <2> DEFINE h == holds[Successor(r.c[2])]
             g == [h EXCEPT !.state = "HELD"]
  <2>1. h.state = "RELEASED" /\ h \in Records
    BY <1>4, CeremoniesAre DEF DecisionOK, RequestOK, TypeOK
  <2>2. h \in Full BY <2>1, RecordsAre
  <2>3. g \in Full /\ g.state = "HELD" BY <2>2 DEF Full
  <2>4. Proposed(r) = [g EXCEPT !.at = r.at] BY <1>4 DEF Proposed
  <2>5. holds[r.c] = Absent BY <1>4 DEF DecisionOK
  <2> HIDE DEF g
  <2> QED BY <1>1, <1>4, <2>3, <2>4, <2>5 DEF Full
<1>5. CASE r.op \in {"INITIAL", "CREATE"}
  <2>1. Proposed(r) = Record("HELD", r.kind, r.pred, r.at) BY <1>5 DEF Proposed
  <2>2. r.kind \in Kinds /\ holds[r.c] = Absent BY <1>5 DEF RequestOK, DecisionOK
  <2> QED BY <1>1, <1>2, <1>5, <2>1, <2>2 DEF Full, Record
<1> QED BY <1>2, <1>3, <1>4, <1>5

LEMMA NoRequestType == NoRequest \in Requests
BY CeremoniesAre, HoldStoreAssumption DEF NoRequest, Requests

LEMMA EndType ==
  ASSUME TypeOK, NEW x \in Sessions, End(x)
  PROVE  /\ pc' \in [Sessions -> {"idle", "begun", "observed", "writing", "written", "renamed"}]
         /\ req' \in [Sessions -> Requests]
         /\ held' \in [Sessions -> SUBSET [c : Ceremonies, kind : Kinds, pred : Keys \cup {NoKey}]]
         /\ pc'[x] = "idle"
         /\ \A y \in Sessions \ {x} : pc'[y] = pc[y] /\ req'[y] = req[y]
BY NoRequestType DEF TypeOK, End, Goto

LEMMA GotoType ==
  ASSUME TypeOK, NEW x \in Sessions, NEW step, Goto(x, step),
         step \in {"idle", "begun", "observed", "writing", "written", "renamed"}
  PROVE  /\ pc' \in [Sessions -> {"idle", "begun", "observed", "writing", "written", "renamed"}]
         /\ pc'[x] = step
         /\ \A y \in Sessions \ {x} : pc'[y] = pc[y]
BY DEF TypeOK, Goto

----------------------------------------------------------------------------
(* Steps that leave the store alone.                                       *)

Quiet ==
  /\ Grows /\ approved \subseteq approved'
  /\ UNCHANGED <<store, reported>>
  /\ \A x \in Sessions : \/ pc'[x] \in {"idle", "observed"}
                         \/ pc'[x] = pc[x] /\ req'[x] = req[x]

LEMMA RequestStays ==
  ASSUME TypeOK, Grows, approved \subseteq approved', NEW r \in Requests, RequestOK(r)
  PROVE  RequestOK(r)'
<1>1. Latest \in Nat /\ Latest' \in Nat /\ Latest <= Latest' BY EntriesStay DEF TypeOK, Latest
<1> QED BY <1>1 DEF RequestOK

LEMMA DecisionStays ==
  ASSUME TypeOK, ChainOK, Grows, approved \subseteq approved', UNCHANGED holds,
         NEW r \in Requests, RequestOK(r), DecisionOK(r)
  PROVE  DecisionOK(r)'
<1>1. r.at \in 1..Latest BY DEF RequestOK
<1>2. r.op = "RELEASE" => Governed(r.c, r.at)' BY <1>1, GovernedForEver DEF DecisionOK
<1> QED BY <1>2 DEF DecisionOK

LEMMA BindingStays ==
  ASSUME TypeOK, ChainOK, Grows, approved \subseteq approved', ReleaseBindsHead,
         disk' \subseteq disk
  PROVE  ReleaseBindsHead'
<1> SUFFICES ASSUME NEW d \in disk, NEW c \in Ceremonies, d[c].state = "RELEASED"
             PROVE  d[c].at \in approved' /\ Governed(c, d[c].at)'
  BY DEF ReleaseBindsHead
<1>1. d[c].at \in approved /\ Governed(c, d[c].at) BY DEF ReleaseBindsHead
<1>2. d[c].at \in 1..Latest BY <1>1 DEF TypeOK
<1> QED BY <1>1, <1>2, GovernedForEver

LEMMA QuietKeeps ==
  ASSUME IInv, TypeOK', ChainOK', Quiet
  PROVE  IInv'
<1>1. TypeOK /\ ChainOK /\ Grows /\ approved \subseteq approved'
      /\ UNCHANGED <<holds, disk, scratch, scratchDisk, reported>>
  BY DEF IInv, Quiet, store
<1>2. ASSUME NEW x \in Sessions, pc'[x] = "begun" \/ Writing(x)'
      PROVE  pc'[x] = pc[x] /\ req'[x] = req[x] /\ req[x] \in Requests /\ RequestOK(req[x])
  <2>1. pc'[x] \notin {"idle", "observed"} BY <1>2 DEF Writing
  <2>2. pc'[x] = pc[x] /\ req'[x] = req[x] BY <2>1 DEF Quiet
  <2>3. pc[x] = "begun" \/ Writing(x) BY <1>2, <2>2 DEF Writing
  <2> QED BY <1>1, <2>2, <2>3 DEF IInv, Requested, TypeOK
<1>3. OneWriter'
  <2>1. \A x \in Sessions : Writing(x)' => Writing(x) BY <1>2 DEF Writing
  <2> QED BY <2>1 DEF IInv, OneWriter
<1>4. Requested'
  <2> SUFFICES ASSUME NEW x \in Sessions, pc'[x] = "begun" \/ Writing(x)'
               PROVE  RequestOK(req[x])' /\ req'[x] = req[x]
    BY DEF Requested, RequestOK
  <2>1. req'[x] = req[x] /\ req[x] \in Requests /\ RequestOK(req[x]) BY <1>2
  <2>2. \A q \in Requests : RequestOK(q) => RequestOK(q)' BY <1>1, RequestStays
  <2> QED BY <2>1, <2>2 DEF RequestOK
<1>5. Decided'
  <2> SUFFICES ASSUME NEW x \in Sessions, pc'[x] \in {"writing", "written"}
               PROVE  DecisionOK(req[x])' /\ (pc'[x] = "written" => scratch' = "whole")
    BY DEF Decided
  <2>1. pc'[x] = pc[x] /\ req'[x] = req[x] /\ req[x] \in Requests /\ RequestOK(req[x])
    BY <1>2 DEF Writing
  <2>2. DecisionOK(req[x]) /\ (pc[x] = "written" => scratch = "whole") BY <2>1 DEF IInv, Decided
  <2>3. \A q \in Requests : RequestOK(q) /\ DecisionOK(q) => DecisionOK(q)'
    BY <1>1, DecisionStays
  <2> QED BY <1>1, <2>1, <2>2, <2>3 DEF DecisionOK
<1>6. ReleaseBindsHead' BY <1>1, BindingStays DEF IInv
<1>7. RecordsSurvive' BY <1>1 DEF IInv, RecordsSurvive
<1> QED BY <1>3, <1>4, <1>5, <1>6, <1>7 DEF IInv

(* A session ends, and the witness or the signer may have changed.         *)
LEMMA EndKeeps ==
  ASSUME IInv, NEW x \in Sessions, End(x), UNCHANGED <<chain, approved, store, reported>>,
         adoption' \in 0..MaxChain, prepared' \in Keys \cup {NoKey}, retired' \in BOOLEAN,
         kills' \in 0..MaxKills
  PROVE  IInv'
<1>1. TypeOK /\ ChainOK BY DEF IInv
<1>2. TypeOK' BY <1>1, EndType DEF TypeOK, store, Latest
<1>3. ChainOK' BY <1>1 DEF ChainOK, Latest
<1>4. Quiet BY <1>1, EndType DEF Quiet, Grows
<1> QED BY <1>2, <1>3, <1>4, QuietKeeps

LEMMA AdvanceKeeps ==
  ASSUME IInv, NEW x \in Sessions, End(x), NEW e \in Entries, e.reg <= Latest + 1,
         Latest < MaxChain, chain' = Append(chain, e), UNCHANGED <<approved, store, reported, kills>>,
         adoption' \in 0..MaxChain, prepared' \in Keys \cup {NoKey}, retired' \in BOOLEAN
  PROVE  IInv'
<1>1. TypeOK /\ ChainOK /\ chain \in Seq(Entries) /\ Latest \in 1..MaxChain BY DEF IInv, TypeOK
<1>2. /\ chain' \in Seq(Entries) /\ Latest' = Latest + 1
      /\ chain'[Latest + 1] = e /\ \A i \in 1..Latest : chain'[i] = chain[i]
  BY <1>1 DEF Latest
<1>3. Latest' \in 1..MaxChain /\ approved' \subseteq 1..Latest'
  BY <1>1, <1>2, HoldStoreAssumption DEF TypeOK
<1>4. TypeOK' BY <1>1, <1>2, <1>3, EndType DEF TypeOK, store
<1>5. ChainOK'
  <2>1. chain'[1].kind = "GENESIS" BY <1>1, <1>2 DEF ChainOK
  <2>2. ASSUME NEW i \in 1..Latest' PROVE chain'[i].reg <= i
    <3>1. i \in 1..Latest \/ i = Latest + 1 BY <1>1, <1>2
    <3> QED BY <1>2, <3>1, <1>1 DEF ChainOK
  <2> QED BY <2>1, <2>2 DEF ChainOK
<1>6. Quiet BY <1>1, EndType DEF Quiet, Grows
<1> QED BY <1>4, <1>5, <1>6, QuietKeeps

(* The entry that a step of the witness appends.                           *)
LEMMA EntryIs ==
  ASSUME TypeOK, ChainOK, Latest < MaxChain, NEW change \in Changes, NEW key \in Keys \cup {NoKey}
  PROVE  /\ [kind |-> change, cur |-> key, reg |-> chain[Latest].reg] \in Entries
         /\ [kind |-> change, cur |-> key, reg |-> chain[Latest].reg + 1] \in Entries
         /\ chain[Latest].reg <= Latest + 1 /\ chain[Latest].reg + 1 <= Latest + 1
<1>1. Latest \in 1..MaxChain /\ Latest \in 1..Latest BY DEF TypeOK
<1>2. chain[Latest].reg \in 1..MaxChain /\ chain[Latest].reg <= Latest
  BY <1>1, EntryTypes DEF ChainOK
<1>3. chain[Latest].reg + 1 \in 1..MaxChain BY <1>1, <1>2, HoldStoreAssumption
<1> QED BY <1>1, <1>2, <1>3 DEF Entries

LEMMA WitnessKeeps ==
  ASSUME IInv, NEW x \in Sessions,
         \/ ExecuteRotation(x) \/ ExecuteMaintenance(x) \/ ExecuteMarking(x)
         \/ ExecuteEpoch(x) \/ RecordLedger(x)
  PROVE  IInv'
<1>1. TypeOK /\ ChainOK /\ Latest \in 1..Latest /\ prepared \in Keys \cup {NoKey}
      /\ adoption \in 0..MaxChain /\ retired \in BOOLEAN /\ NoKey \in Keys \cup {NoKey}
  BY DEF IInv, TypeOK
<1>2. Cur(Latest) \in Keys \cup {NoKey} BY <1>1, EntryTypes
<1>3. CASE ExecuteRotation(x)
  <2> DEFINE e == [kind |-> "ROTATION", cur |-> prepared, reg |-> chain[Latest].reg + 1]
  <2>1. /\ Latest < MaxChain /\ chain' = Append(chain, e) /\ End(x)
        /\ UNCHANGED <<store, approved, reported, kills>>
        /\ prepared' = NoKey /\ retired' = TRUE /\ adoption' = adoption
    BY <1>3 DEF ExecuteRotation, Advance
  <2>2. e \in Entries /\ e.reg <= Latest + 1 BY <1>1, <2>1, EntryIs DEF Changes
  <2> QED BY <1>1, <2>1, <2>2, AdvanceKeeps
<1>4. CASE ExecuteMaintenance(x)
  <2> DEFINE e == [kind |-> "MAINTENANCE", cur |-> Cur(Latest), reg |-> chain[Latest].reg + 1]
  <2>1. /\ Latest < MaxChain /\ chain' = Append(chain, e) /\ End(x)
        /\ UNCHANGED <<store, approved, reported, kills, adoption, prepared, retired>>
    BY <1>4 DEF ExecuteMaintenance, Advance
  <2>2. e \in Entries /\ e.reg <= Latest + 1 BY <1>1, <1>2, <2>1, EntryIs DEF Changes
  <2> QED BY <1>1, <2>1, <2>2, AdvanceKeeps
<1>5. CASE ExecuteMarking(x)
  <2> DEFINE e == [kind |-> "MARKING", cur |-> NoKey, reg |-> chain[Latest].reg + 1]
  <2>1. /\ Latest < MaxChain /\ chain' = Append(chain, e) /\ End(x)
        /\ UNCHANGED <<store, approved, reported, kills, adoption, prepared, retired>>
    BY <1>5 DEF ExecuteMarking, Advance
  <2>2. e \in Entries /\ e.reg <= Latest + 1 BY <1>1, <2>1, EntryIs DEF Changes
  <2> QED BY <1>1, <2>1, <2>2, AdvanceKeeps
<1>6. CASE ExecuteEpoch(x)
  <2> DEFINE e == [kind |-> "EPOCH", cur |-> prepared, reg |-> chain[Latest].reg + 1]
  <2>1. /\ Latest < MaxChain /\ chain' = Append(chain, e) /\ End(x)
        /\ UNCHANGED <<store, approved, reported, kills>>
        /\ prepared' = NoKey /\ retired' = TRUE /\ adoption' = adoption
    BY <1>6 DEF ExecuteEpoch, Advance
  <2>2. e \in Entries /\ e.reg <= Latest + 1 BY <1>1, <2>1, EntryIs DEF Changes
  <2> QED BY <1>1, <2>1, <2>2, AdvanceKeeps
<1>7. CASE RecordLedger(x)
  <2> DEFINE e == [kind |-> "LEDGER", cur |-> Cur(Latest), reg |-> chain[Latest].reg]
  <2>1. /\ Latest < MaxChain /\ chain' = Append(chain, e) /\ End(x)
        /\ UNCHANGED <<store, approved, reported, kills, adoption, prepared, retired>>
    BY <1>7 DEF RecordLedger, Advance
  <2>2. e \in Entries /\ e.reg <= Latest + 1 BY <1>1, <1>2, <2>1, EntryIs DEF Changes
  <2> QED BY <1>1, <2>1, <2>2, AdvanceKeeps
<1> QED BY <1>3, <1>4, <1>5, <1>6, <1>7

(* Refusals, custody and signer steps, kills.                              *)
LEMMA QuietSessions ==
  ASSUME IInv, NEW x \in Sessions,
         Refuse(x) \/ GiveUp(x) \/ Prepare(x) \/ AdoptEpoch(x) \/ Kill(x)
  PROVE  IInv'
<1>1. TypeOK /\ ChainOK /\ prepared \in Keys \cup {NoKey} /\ adoption \in 0..MaxChain
      /\ retired \in BOOLEAN /\ kills \in 0..MaxKills /\ Latest \in 0..MaxChain
  BY DEF IInv, TypeOK
<1>2. CASE Refuse(x) \/ GiveUp(x) BY <1>1, <1>2, EndKeeps DEF Refuse, GiveUp, witness
<1>3. CASE Prepare(x)
  <2>1. prepared' \in Ordinals /\ End(x)
        /\ UNCHANGED <<chain, adoption, retired, approved, store, reported, kills>>
    BY <1>3 DEF Prepare, Fresh
  <2>2. prepared' \in Keys \cup {NoKey} BY <2>1 DEF Keys
  <2> QED BY <1>1, <2>1, <2>2, EndKeeps
<1>4. CASE AdoptEpoch(x) BY <1>1, <1>4, EndKeeps DEF AdoptEpoch
<1>5. CASE Kill(x)
  <2>1. kills' \in 0..MaxKills BY <1>1, <1>5, HoldStoreAssumption DEF Kill
  <2> QED BY <1>1, <1>5, <2>1, EndKeeps DEF Kill, witness
<1> QED BY <1>2, <1>3, <1>4, <1>5

LEMMA ObserveKeeps ==
  ASSUME IInv, NEW x \in Sessions, Observe(x)
  PROVE  IInv'
<1>1. TypeOK /\ ChainOK BY DEF IInv
<1>2. {HoldOf(c) : c \in HeldNow} \subseteq [c : Ceremonies, kind : Kinds, pred : Keys \cup {NoKey}]
  <2>1. \A c \in HeldNow : c \in Ceremonies /\ holds[c] \in Full BY <1>1, HeldAre
  <2> QED BY <2>1 DEF HoldOf, Full
<1>3. Goto(x, "observed") /\ UNCHANGED <<witness, store, req, reported, kills>>
      /\ held' = [held EXCEPT ![x] = {HoldOf(c) : c \in HeldNow}]
  BY DEF Observe
<1>4. TypeOK' BY <1>1, <1>2, <1>3, GotoType DEF TypeOK, witness, store, Latest
<1>5. ChainOK' BY <1>1, <1>3 DEF ChainOK, Latest, witness
<1>6. Quiet BY <1>1, <1>3, GotoType DEF Quiet, Grows, witness
<1> QED BY <1>4, <1>5, <1>6, QuietKeeps

LEMMA OwnerKeeps ==
  ASSUME IInv, Approve \/ Destroy
  PROVE  IInv'
<1>1. TypeOK /\ ChainOK BY DEF IInv
<1>2. approved' \in {approved, approved \cup {Latest}} /\ retired' \in BOOLEAN
      /\ UNCHANGED <<chain, adoption, prepared, store, sessions, reported, kills>>
  BY <1>1 DEF Approve, Destroy, TypeOK
<1>3. TypeOK' BY <1>1, <1>2 DEF TypeOK, store, sessions, Latest
<1>4. ChainOK' BY <1>1, <1>2 DEF ChainOK, Latest
<1>5. Quiet BY <1>1, <1>2 DEF Quiet, Grows, sessions
<1> QED BY <1>3, <1>4, <1>5, QuietKeeps

----------------------------------------------------------------------------
(* Writing commands.                                                       *)

LEMMA RequestsKept ==
  ASSUME TypeOK, Grows, approved \subseteq approved'
  PROVE  \A r \in Requests : RequestOK(r) => RequestOK(r)'
BY RequestStays

LEMMA BegunKeeps ==
  ASSUME IInv, NEW x \in Sessions, NEW r \in Requests, RequestOK(r), Begin(x, r)
  PROVE  IInv'
<1>1. TypeOK /\ ChainOK /\ Grows BY DEF IInv, Grows, Begin, witness
<1>2. /\ pc[x] = "idle" /\ Goto(x, "begun") /\ req' = [req EXCEPT ![x] = r]
      /\ UNCHANGED <<chain, adoption, prepared, retired, approved, holds, disk, scratch, scratchDisk,
                     held, reported, kills>>
  BY DEF Begin, witness, store
<1>3. /\ pc' \in [Sessions -> {"idle", "begun", "observed", "writing", "written", "renamed"}]
      /\ pc'[x] = "begun" /\ req'[x] = r /\ req' \in [Sessions -> Requests]
      /\ \A y \in Sessions \ {x} : pc'[y] = pc[y] /\ req'[y] = req[y]
  BY <1>1, <1>2, GotoType DEF TypeOK
<1>4. TypeOK' BY <1>1, <1>2, <1>3 DEF TypeOK, Latest
<1>5. ChainOK' BY <1>1, <1>2 DEF ChainOK, Latest
<1>6. \A y \in Sessions : Writing(y)' => Writing(y) /\ y # x BY <1>3 DEF Writing
<1>7. OneWriter' BY <1>6 DEF IInv, OneWriter
<1>8. Requested'
  <2> SUFFICES ASSUME NEW y \in Sessions, pc'[y] = "begun" \/ Writing(y)'
               PROVE  RequestOK(req[y])'
    BY DEF Requested
  <2>1. req'[y] \in Requests /\ RequestOK(req'[y])
    BY <1>1, <1>3, <1>6 DEF IInv, Requested, Writing, TypeOK
  <2> QED BY <1>2, <2>1 DEF RequestOK, Latest
<1>9. Decided'
  <2> SUFFICES ASSUME NEW y \in Sessions, pc'[y] \in {"writing", "written"}
               PROVE  DecisionOK(req[y])' /\ (pc'[y] = "written" => scratch' = "whole")
    BY DEF Decided
  <2>1. y # x /\ pc'[y] = pc[y] /\ req'[y] = req[y] BY <1>3
  <2>2. DecisionOK(req[y]) /\ (pc[y] = "written" => scratch = "whole") BY <2>1 DEF IInv, Decided
  <2>3. req[y] \in Requests /\ RequestOK(req[y]) BY <1>1, <2>1 DEF IInv, Requested, Writing, TypeOK
  <2>4. \A q \in Requests : RequestOK(q) /\ DecisionOK(q) => DecisionOK(q)'
    BY <1>1, <1>2, DecisionStays
  <2> QED BY <1>2, <2>1, <2>2, <2>3, <2>4 DEF DecisionOK
<1>10. ReleaseBindsHead' BY <1>1, <1>2, BindingStays DEF IInv
<1>11. RecordsSurvive' BY <1>2 DEF IInv, RecordsSurvive
<1> QED BY <1>4, <1>5, <1>7, <1>8, <1>9, <1>10, <1>11 DEF IInv

LEMMA BeginKeeps ==
  ASSUME IInv, NEW x \in Sessions,
         BeginInitial(x) \/ BeginSuccessor(x) \/ BeginMaintenance(x) \/ BeginDebt(x) \/ BeginRelease(x)
  PROVE  IInv'
<1>1. TypeOK /\ Latest \in 1..MaxChain /\ Latest \in 1..Latest /\ Latest \in 0..MaxChain
      /\ 1 \in 0..MaxChain /\ 1 \in 1..Latest /\ 0 \in 0..MaxChain
  BY HoldStoreAssumption DEF IInv, TypeOK
<1>2. Cur(Latest) \in Keys \cup {NoKey} /\ chain[Latest].reg \in 1..MaxChain BY <1>1, EntryTypes
<1>3. CASE BeginInitial(x)
  <2> DEFINE r == [Request("INITIAL", Initial, "INITIAL_CUSTODY", NoKey, 0) EXCEPT !.at = 1]
  <2>1. r \in Requests /\ RequestOK(r)
    BY <1>1, CeremoniesAre DEF Request, Requests, RequestOK, Kinds
  <2> QED BY <1>3, <2>1, BegunKeeps DEF BeginInitial
<1>4. CASE BeginSuccessor(x)
  <2>1. PICK n \in Ordinals, kind \in {"ROTATION", "KEY_COMPROMISE_RECOVERY"} :
          Begin(x, Request("CREATE", Successor(n), kind, Cur(Latest), 0))
    BY <1>4 DEF BeginSuccessor
  <2> DEFINE r == Request("CREATE", Successor(n), kind, Cur(Latest), 0)
  <2>2. r \in Requests /\ RequestOK(r)
    BY <1>1, <1>2, CeremoniesAre DEF Request, Requests, RequestOK, Kinds
  <2> QED BY <2>1, <2>2, BegunKeeps
<1>5. CASE BeginMaintenance(x)
  <2> DEFINE r == Request("CREATE", Maintenance(chain[Latest].reg), "REGISTRY_MAINTENANCE", Cur(Latest), 0)
  <2>1. r \in Requests /\ RequestOK(r)
    BY <1>1, <1>2, CeremoniesAre DEF Request, Requests, RequestOK, Kinds
  <2> QED BY <1>5, <2>1, BegunKeeps DEF BeginMaintenance
<1>6. CASE BeginDebt(x)
  <2>1. PICK n \in Ordinals : Begin(x, Request("DEBT", Debt(n), "NONE", NoKey, 0))
    BY <1>6 DEF BeginDebt
  <2> DEFINE r == Request("DEBT", Debt(n), "NONE", NoKey, 0)
  <2>2. r \in Requests /\ RequestOK(r) BY <1>1, CeremoniesAre DEF Request, Requests, RequestOK
  <2> QED BY <2>1, <2>2, BegunKeeps
<1>7. CASE BeginRelease(x)
  <2>1. PICK c \in HeldNow, digest \in approved : Begin(x, Request("RELEASE", c, "NONE", NoKey, digest))
    BY <1>7 DEF BeginRelease
  <2> DEFINE r == Request("RELEASE", c, "NONE", NoKey, digest)
  <2>2. c \in Ceremonies BY DEF HeldNow
  <2>3. digest \in 1..Latest /\ digest <= Latest /\ digest \in 0..MaxChain
    BY <1>1, HoldStoreAssumption DEF IInv, TypeOK
  <2>4. r \in Requests /\ RequestOK(r) BY <1>1, <2>2, <2>3 DEF Request, Requests, RequestOK
  <2> QED BY <2>1, <2>4, BegunKeeps
<1> QED BY <1>3, <1>4, <1>5, <1>6, <1>7

(* The decision under the lock is about the head that the record names:    *)
(* the owner approved it before the command, whose scan came before the    *)
(* re-run.                                                                 *)
LEMMA MayDecides ==
  ASSUME TypeOK, NEW r \in Requests, RequestOK(r), May(r)
  PROVE  DecisionOK(r)
<1>1. r.c \in Ceremonies /\ r.op \in {"INITIAL", "CREATE", "DEBT", "RELEASE"}
  BY DEF Requests, RequestOK
<1>2. CASE r.op \in {"INITIAL", "CREATE"} BY <1>1, <1>2 DEF May, DecisionOK
<1>3. CASE r.op = "DEBT" BY <1>3 DEF May, DecisionOK
<1>4. CASE r.op = "RELEASE"
  <2>1. Eligible(r.c, Latest) /\ r.approved = Latest BY <1>4 DEF May, Approves
  <2>2. r.at = Latest /\ r.at \in approved
    <3>1. r.at \in 1..Latest /\ r.approved \in approved /\ r.approved <= r.at BY <1>4 DEF RequestOK
    <3>2. Latest \in Nat BY DEF TypeOK
    <3> QED BY <2>1, <3>1, <3>2
  <2>3. holds[r.c].state = "HELD" BY <2>1 DEF Eligible, HeldNow
  <2>4. Governed(r.c, Latest) BY <2>1 DEF Eligible, Governing, Governed
  <2> QED BY <1>4, <2>2, <2>3, <2>4 DEF DecisionOK
<1> QED BY <1>1, <1>2, <1>3, <1>4

(* What a step of the only writer leaves of the other sessions.            *)
LEMMA WriterAlone ==
  ASSUME IInv, NEW x \in Sessions, pc[x] = "begun" \/ Writing(x), UNCHANGED <<chain, approved>>,
         \A y \in Sessions \ {x} : ~Writing(y) /\ pc'[y] = pc[y] /\ req'[y] = req[y],
         pc'[x] = "idle" \/ req'[x] = req[x]
  PROVE  ChainOK' /\ OneWriter' /\ Requested'
<1>1. TypeOK BY DEF IInv
<1>2. ChainOK' BY DEF IInv, ChainOK, Latest
<1>3. \A y \in Sessions : Writing(y)' => y = x BY DEF Writing
<1>4. OneWriter' BY <1>3 DEF OneWriter
<1>5. Requested'
  <2> SUFFICES ASSUME NEW y \in Sessions, pc'[y] = "begun" \/ Writing(y)'
               PROVE  RequestOK(req[y])'
    BY DEF Requested
  <2>1. req'[y] = req[y] BY DEF Writing
  <2>2. pc[y] = "begun" \/ Writing(y) BY <1>3 DEF Writing
  <2>3. RequestOK(req[y]) BY <2>2 DEF IInv, Requested
  <2> QED BY <2>1, <2>3 DEF RequestOK, Latest
<1> QED BY <1>2, <1>4, <1>5

LEMMA DecisionKept ==
  ASSUME IInv, NEW x \in Sessions, pc[x] = "begun" \/ Writing(x), DecisionOK(req[x]),
         UNCHANGED <<chain, approved, holds, req>>
  PROVE  DecisionOK(req[x])'
<1>1. TypeOK /\ ChainOK /\ Grows /\ req[x] \in Requests /\ RequestOK(req[x])
  BY DEF IInv, Grows, TypeOK, Requested
<1>2. \A q \in Requests : RequestOK(q) /\ DecisionOK(q) => DecisionOK(q)' BY <1>1, DecisionStays
<1> QED BY <1>1, <1>2 DEF DecisionOK

LEMMA PublishKeeps ==
  ASSUME IInv, NEW x \in Sessions, Publish(x)
  PROVE  IInv'
<1>1. /\ TypeOK /\ pc[x] = "begun" /\ Observable /\ May(req[x]) /\ Goto(x, "writing")
      /\ scratch' = "torn" /\ scratchDisk' = {"none", "torn"}
      /\ UNCHANGED <<chain, adoption, prepared, retired, approved, holds, disk, req, held, reported, kills>>
  BY DEF IInv, Publish, witness
<1>2. /\ pc' \in [Sessions -> {"idle", "begun", "observed", "writing", "written", "renamed"}]
      /\ pc'[x] = "writing" /\ \A y \in Sessions \ {x} : pc'[y] = pc[y]
  BY <1>1, GotoType
<1>3. TypeOK' BY <1>1, <1>2 DEF TypeOK, Latest
<1>4. \A y \in Sessions : ~Writing(y) BY <1>1 DEF Observable
<1>5. ChainOK' /\ OneWriter' /\ Requested' BY <1>1, <1>2, <1>4, WriterAlone
<1>6. DecisionOK(req[x]) BY <1>1, MayDecides DEF IInv, Requested, TypeOK
<1>7. Decided'
  <2>1. \A y \in Sessions : pc'[y] \in {"writing", "written"} => y = x BY <1>2, <1>4 DEF Writing
  <2>2. DecisionOK(req[x])' BY <1>1, <1>6, DecisionKept
  <2> QED BY <1>2, <2>1, <2>2 DEF Decided
<1>8. ReleaseBindsHead' BY <1>1, BindingStays DEF IInv, Grows
<1>9. RecordsSurvive' BY <1>1 DEF IInv, RecordsSurvive
<1> QED BY <1>3, <1>5, <1>7, <1>8, <1>9 DEF IInv

LEMMA SyncKeeps ==
  ASSUME IInv, NEW x \in Sessions, Sync(x)
  PROVE  IInv'
<1>1. /\ TypeOK /\ pc[x] = "writing" /\ Goto(x, "written")
      /\ scratch' = "whole" /\ scratchDisk' = {"none", "whole"}
      /\ UNCHANGED <<chain, adoption, prepared, retired, approved, holds, disk, req, held, reported, kills>>
  BY DEF IInv, Sync, witness
<1>2. /\ pc' \in [Sessions -> {"idle", "begun", "observed", "writing", "written", "renamed"}]
      /\ pc'[x] = "written" /\ \A y \in Sessions \ {x} : pc'[y] = pc[y]
  BY <1>1, GotoType
<1>3. TypeOK' BY <1>1, <1>2 DEF TypeOK, Latest
<1>4. \A y \in Sessions \ {x} : ~Writing(y) BY <1>1 DEF IInv, OneWriter, Writing
<1>5. ChainOK' /\ OneWriter' /\ Requested' BY <1>1, <1>2, <1>4, WriterAlone DEF Writing
<1>6. DecisionOK(req[x]) BY <1>1 DEF IInv, Decided
<1>7. Decided'
  <2>1. \A y \in Sessions : pc'[y] \in {"writing", "written"} => y = x BY <1>2, <1>4 DEF Writing
  <2>2. DecisionOK(req[x])' BY <1>1, <1>6, DecisionKept DEF Writing
  <2> QED BY <1>1, <2>1, <2>2 DEF Decided
<1>8. ReleaseBindsHead' BY <1>1, BindingStays DEF IInv, Grows
<1>9. RecordsSurvive' BY <1>1 DEF IInv, RecordsSurvive
<1> QED BY <1>3, <1>5, <1>7, <1>8, <1>9 DEF IInv

LEMMA RenameKeeps ==
  ASSUME IInv, NEW x \in Sessions, Rename(x)
  PROVE  IInv'
<1> DEFINE r == req[x]
           c == r.c
           new == Proposed(r)
<1>1. /\ TypeOK /\ pc[x] = "written" /\ Goto(x, "renamed") /\ scratch' = "none"
      /\ holds' = [holds EXCEPT ![c] = new]
      /\ UNCHANGED <<chain, adoption, prepared, retired, approved, scratchDisk, req, held, reported, kills>>
  BY DEF IInv, Rename, witness
<1>2. r \in Requests /\ RequestOK(r) /\ DecisionOK(r) /\ scratch = "whole"
  BY <1>1 DEF IInv, Requested, Decided, Writing, TypeOK
<1>3. disk' = disk \cup {[d EXCEPT ![c] = new] : d \in disk} BY <1>2 DEF Rename
<1>4. c \in Ceremonies /\ new \in Records /\ new # Torn
  BY <1>1, <1>2, ProposedIs, RecordsAre DEF Requests
<1>5. /\ pc' \in [Sessions -> {"idle", "begun", "observed", "writing", "written", "renamed"}]
      /\ pc'[x] = "renamed" /\ \A y \in Sessions \ {x} : pc'[y] = pc[y]
  BY <1>1, GotoType
<1>6. TypeOK'
  <2>1. holds' \in [Ceremonies -> Records] /\ disk' \subseteq [Ceremonies -> Records] /\ holds' \in disk'
    <3>1. holds \in disk /\ disk \subseteq [Ceremonies -> Records] BY <1>1 DEF TypeOK
    <3>2. \A d \in [Ceremonies -> Records] : [d EXCEPT ![c] = new] \in [Ceremonies -> Records]
      BY <1>4
    <3> HIDE DEF new, c
    <3> QED BY <1>1, <1>3, <3>1, <3>2
  <2> QED BY <1>1, <1>5, <2>1 DEF TypeOK, Latest
<1>7. \A y \in Sessions \ {x} : ~Writing(y) BY <1>1 DEF IInv, OneWriter, Writing
<1>8. ChainOK' /\ OneWriter' /\ Requested' BY <1>1, <1>5, <1>7, WriterAlone DEF Writing
<1>9. Decided' BY <1>5, <1>7 DEF Decided, Writing
<1>10. ReleaseBindsHead'
  <2> SUFFICES ASSUME NEW d \in disk', NEW b \in Ceremonies, d[b].state = "RELEASED"
               PROVE  d[b].at \in approved /\ Governed(b, d[b].at)
    <3>1. \A b \in Ceremonies, i \in 1..Latest : Governed(b, i) => Governed(b, i)'
      BY <1>1, GovernedForEver DEF IInv, Grows
    <3>2. approved' = approved /\ approved \subseteq 1..Latest BY <1>1 DEF TypeOK
    <3> QED BY <3>1, <3>2 DEF ReleaseBindsHead
  <2>1. CASE d \in disk BY <2>1 DEF IInv, ReleaseBindsHead
  <2>2. CASE d \notin disk
    <3>1. PICK old \in disk : d = [old EXCEPT ![c] = new] BY <1>3, <2>2
    <3>2. old \in [Ceremonies -> Records] BY <1>1 DEF TypeOK
    <3>3. CASE b = c
      <4>1. d[b] = new /\ new.state = "RELEASED" BY <1>4, <3>1, <3>2, <3>3
      <4>2. r.op = "RELEASE" BY <1>1, <1>2, <4>1, ProposedIs
      <4> QED BY <1>1, <1>2, <3>3, <4>1, <4>2, ProposedIs DEF DecisionOK
    <3>4. CASE b # c
      <4>1. d[b] = old[b] BY <3>1, <3>2, <3>4
      <4> QED BY <4>1 DEF IInv, ReleaseBindsHead
    <3> QED BY <3>3, <3>4
  <2> QED BY <2>1, <2>2
<1>11. RecordsSurvive'
  <2>1. Keeps(reported[c], new)
    <3>1. Keeps(reported[c], holds[c]) /\ reported[c] \in Records
      BY <1>1, <1>4 DEF IInv, RecordsSurvive, TypeOK
    <3>2. CASE r.op # "RELEASE"
      <4>1. holds[c] = Absent BY <1>1, <1>2, <3>2, ProposedIs
      <4>2. reported[c] = Absent BY <3>1, <4>1, RecordsAre DEF Keeps
      <4> QED BY <4>2 DEF Keeps
    <3>3. CASE r.op = "RELEASE"
      <4>1. holds[c].state = "HELD" /\ new.state = "RELEASED"
            /\ new.kind = holds[c].kind /\ new.pred = holds[c].pred
        BY <1>1, <1>2, <3>3, ProposedIs
      <4>2. reported[c] = Absent \/ reported[c] = holds[c] BY <3>1, <4>1 DEF Keeps
      <4> QED BY <4>1, <4>2 DEF Keeps
    <3> QED BY <3>2, <3>3
  <2> SUFFICES ASSUME NEW d \in disk', NEW b \in Ceremonies
               PROVE  d[b] # Torn /\ Keeps(reported[b], d[b])
    BY <1>1 DEF RecordsSurvive
  <2>2. CASE d \in disk BY <2>2 DEF IInv, RecordsSurvive
  <2>3. CASE d \notin disk
    <3>1. PICK old \in disk : d = [old EXCEPT ![c] = new] BY <1>3, <2>3
    <3>2. old \in [Ceremonies -> Records] BY <1>1 DEF TypeOK
    <3>3. CASE b = c BY <1>4, <2>1, <3>1, <3>2, <3>3
    <3>4. CASE b # c
      <4>1. d[b] = old[b] BY <3>1, <3>2, <3>4
      <4> QED BY <4>1 DEF IInv, RecordsSurvive
    <3> QED BY <3>3, <3>4
  <2> QED BY <2>2, <2>3
<1> QED BY <1>6, <1>8, <1>9, <1>10, <1>11 DEF IInv

LEMMA FinishKeeps ==
  ASSUME IInv, NEW x \in Sessions, Finish(x)
  PROVE  IInv'
<1>1. /\ TypeOK /\ pc[x] = "renamed" /\ End(x)
      /\ disk' = {holds} /\ scratchDisk' = {"none"} /\ reported' = holds
      /\ UNCHANGED <<chain, adoption, prepared, retired, approved, holds, scratch, kills>>
  BY DEF IInv, Finish, witness
<1>2. TypeOK' BY <1>1, EndType DEF TypeOK, Latest
<1>3. \A y \in Sessions \ {x} : ~Writing(y) BY <1>1 DEF IInv, OneWriter, Writing
<1>4. pc'[x] = "idle" /\ \A y \in Sessions \ {x} : pc'[y] = pc[y] /\ req'[y] = req[y]
  BY <1>1, EndType
<1>5. ChainOK' /\ OneWriter' /\ Requested' BY <1>1, <1>3, <1>4, WriterAlone DEF Writing
<1>6. Decided' BY <1>3, <1>4 DEF Decided, Writing
<1>7. ReleaseBindsHead'
  <2>1. disk' \subseteq disk BY <1>1 DEF TypeOK
  <2> QED BY <1>1, <2>1, BindingStays DEF IInv, Grows
<1>8. RecordsSurvive' BY <1>1 DEF IInv, RecordsSurvive, Keeps, TypeOK
<1> QED BY <1>2, <1>5, <1>6, <1>7, <1>8 DEF IInv

(* The power fails.                                                        *)
LEMMA PowerLossKeeps ==
  ASSUME IInv, PowerLoss
  PROVE  IInv'
<1>1. PICK d \in disk : holds' = d /\ disk' = {d} BY DEF PowerLoss
<1>2. /\ TypeOK /\ scratch' \in scratchDisk /\ scratchDisk' = {scratch'}
      /\ pc' = [x \in Sessions |-> "idle"] /\ req' = [x \in Sessions |-> NoRequest]
      /\ held' = [x \in Sessions |-> {}]
      /\ UNCHANGED <<chain, adoption, prepared, retired, approved, reported, kills>>
  BY DEF IInv, PowerLoss, witness
<1>3. TypeOK' BY <1>1, <1>2, NoRequestType DEF TypeOK, Latest
<1>4. ChainOK' BY <1>2 DEF IInv, ChainOK, Latest
<1>5. OneWriter' /\ Requested' /\ Decided' BY <1>2 DEF OneWriter, Requested, Decided, Writing
<1>6. ReleaseBindsHead' BY <1>1, <1>2, BindingStays DEF IInv, Grows
<1>7. RecordsSurvive' BY <1>1, <1>2 DEF IInv, RecordsSurvive
<1> QED BY <1>3, <1>4, <1>5, <1>6, <1>7 DEF IInv

----------------------------------------------------------------------------
LEMMA Invariance == Spec => []IInv
<1>1. Init => IInv
  <2> SUFFICES ASSUME Init PROVE IInv OBVIOUS
  <2> DEFINE e == [kind |-> "GENESIS", cur |-> InitialKey, reg |-> 1]
  <2>1. chain = <<e>> /\ e \in Entries BY HoldStoreAssumption DEF Init, Entries, Changes, Keys
  <2>2. chain \in Seq(Entries) /\ Latest = 1 /\ chain[1] = e BY <2>1 DEF Latest
  <2>3. TypeOK
    <3>1. [c \in Ceremonies |-> Absent] \in [Ceremonies -> Records] BY RecordsAre
    <3>2. holds \in [Ceremonies -> Records] /\ disk \subseteq [Ceremonies -> Records]
          /\ holds \in disk /\ reported \in [Ceremonies -> Records]
      BY <3>1 DEF Init
    <3>3. req \in [Sessions -> Requests] BY NoRequestType DEF Init
    <3>4. /\ scratch \in {"none", "torn", "whole"} /\ scratchDisk \subseteq {"none", "torn", "whole"}
          /\ pc \in [Sessions -> {"idle", "begun", "observed", "writing", "written", "renamed"}]
          /\ held \in [Sessions -> SUBSET [c : Ceremonies, kind : Kinds, pred : Keys \cup {NoKey}]]
      BY DEF Init
    <3>5. /\ adoption \in 0..MaxChain /\ kills \in 0..MaxKills /\ 1 \in 1..MaxChain
          /\ prepared \in Keys \cup {NoKey} /\ approved \subseteq 1..Latest
      BY HoldStoreAssumption DEF Init
    <3>6. retired \in BOOLEAN BY Zenon DEF Init
    <3> QED BY <2>2, <3>2, <3>3, <3>4, <3>5, <3>6 DEF TypeOK
  <2>4. ChainOK BY <2>2 DEF ChainOK
  <2>5. OneWriter /\ Requested /\ Decided BY DEF Init, OneWriter, Requested, Decided, Writing
  <2>6. ReleaseBindsHead /\ RecordsSurvive
    BY RecordsAre DEF Init, ReleaseBindsHead, RecordsSurvive, Keeps
  <2> QED BY <2>3, <2>4, <2>5, <2>6 DEF IInv
<1>2. IInv /\ [Next]_vars => IInv'
  <2> SUFFICES ASSUME IInv, [Next]_vars PROVE IInv' OBVIOUS
  <2>1. ASSUME NEW x \in Sessions, SessionStep(x) PROVE IInv'
    BY <2>1, BeginKeeps, QuietSessions, ObserveKeeps, WitnessKeeps,
       PublishKeeps, SyncKeeps, RenameKeeps, FinishKeeps DEF SessionStep
  <2>2. CASE Approve \/ Destroy BY <2>2, OwnerKeeps
  <2>3. CASE PowerLoss BY <2>3, PowerLossKeeps
  <2>4. CASE UNCHANGED vars
    <3>1. TypeOK' /\ ChainOK'
      BY <2>4 DEF IInv, TypeOK, ChainOK, Latest, vars, witness, store, sessions
    <3>2. Quiet BY <2>4 DEF Quiet, Grows, vars, witness, store, sessions
    <3> QED BY <3>1, <3>2, QuietKeeps
  <2> QED BY <2>1, <2>2, <2>3, <2>4 DEF Next
<1> QED BY <1>1, <1>2, PTL DEF Spec

(* HoldStore keeps its types, and what is seen of the store is always one  *)
(* of the stores a power loss may leave.                                   *)
THEOREM TypeCorrect == Spec => []TypeOK
<1>1. IInv => TypeOK BY DEF IInv
<1> QED BY Invariance, <1>1, PTL

(* release_initial and release_with_readiness write the head they scanned  *)
(* before the lock, and it is still the head the owner approved: a         *)
(* RELEASED record always names an approved entry that its ceremony        *)
(* governs.                                                                *)
THEOREM ReleasesBindTheHead == Spec => []ReleaseBindsHead
<1>1. IInv => ReleaseBindsHead BY DEF IInv
<1> QED BY Invariance, <1>1, PTL

(* _publish loses and tears no record that a command reported, whenever    *)
(* its session is killed or the power fails.                               *)
THEOREM ReportedRecordsSurvive == Spec => []RecordsSurvive
<1>1. IInv => RecordsSurvive BY DEF IInv
<1> QED BY Invariance, <1>1, PTL

----------------------------------------------------------------------------
(* What holds of the witness chain: which entry may follow which, that the *)
(* registry only moves with its head, and that no key comes back.          *)
Reg(i) == chain[i].reg

EntryLaws == \A j \in 2..Latest :
  /\ chain[j].kind # "GENESIS"
  /\ chain[j].kind # "LEDGER" => Reg(j) = Reg(j - 1) + 1
  /\ chain[j].kind = "LEDGER" => Reg(j) = Reg(j - 1) /\ Cur(j) = Cur(j - 1)
  /\ chain[j].kind = "MAINTENANCE" => Cur(j) = Cur(j - 1)
  /\ chain[j].kind = "ROTATION" => Cur(j - 1) # NoKey /\ Cur(j) \in Ordinals /\ Cur(j) # Cur(j - 1)
  /\ chain[j].kind = "MARKING" => Cur(j - 1) # NoKey /\ Cur(j) = NoKey
  /\ chain[j].kind = "EPOCH" => Cur(j - 1) = NoKey /\ Cur(j) \in Ordinals

RegsGrow == \A i, j \in 1..Latest : i <= j =>
  Reg(i) <= Reg(j) /\ (Reg(i) = Reg(j) => Cur(i) = Cur(j))

NoReturn == \A i, j, k \in 1..Latest :
  i <= j /\ j <= k /\ Cur(i) = Cur(k) /\ Cur(i) # NoKey => Cur(j) = Cur(i)

Without(kinds, i, k) == \A j \in (i + 1)..k : chain[j].kind \notin kinds

KeyLasts == \A i, k \in 1..Latest : i <= k =>
  /\ Cur(k) # NoKey /\ Without({"ROTATION", "EPOCH"}, i, k) => Cur(k) = Cur(i)
  /\ Cur(i) = NoKey /\ Without({"EPOCH"}, i, k) => Cur(k) = NoKey

MarkedBefore == \A k \in 1..Latest : Cur(k) = NoKey => \E j \in 2..k : chain[j].kind = "MARKING"

ChainLaws == EntryLaws /\ RegsGrow /\ NoReturn /\ KeyLasts /\ MarkedBefore

(* What the witness and the signer have checked of the entry they append.  *)
Admissible(e) ==
  /\ e.kind # "GENESIS"
  /\ e.reg = IF e.kind = "LEDGER" THEN Reg(Latest) ELSE Reg(Latest) + 1
  /\ e.kind \in {"LEDGER", "MAINTENANCE"} => e.cur = Cur(Latest)
  /\ e.kind = "MARKING" => e.cur = NoKey
  /\ e.kind \in {"ROTATION", "EPOCH"} => Fresh(e.cur)
  /\ e.kind \in {"MAINTENANCE", "ROTATION", "MARKING"} => Cur(Latest) # NoKey
  /\ e.kind = "EPOCH" => Cur(Latest) = NoKey

(* What has been prepared is not on the chain yet, and an adoption that is *)
(* bound to the head found its key marked.                                 *)
PreparedIsFresh == prepared # NoKey => Fresh(prepared)
AdoptionBinds   == adoption <= Latest /\ (adoption = Latest => Cur(Latest) = NoKey)

Follows(e) ==
  /\ Latest' = Latest + 1 /\ chain'[Latest + 1] = e
  /\ \A i \in 1..Latest : chain'[i] = chain[i]

LEMMA Appended ==
  ASSUME TypeOK, NEW e \in Entries, chain' = Append(chain, e)
  PROVE  Follows(e) /\ Latest \in Nat /\ Latest >= 1
<1>1. chain \in Seq(Entries) /\ Latest \in Nat /\ Latest >= 1 BY DEF TypeOK
<1>2. Len(chain') = Len(chain) + 1 /\ chain'[Len(chain) + 1] = e
      /\ \A i \in 1..Len(chain) : chain'[i] = chain[i]
  BY <1>1
<1> QED BY <1>1, <1>2 DEF Follows, Latest

LEMMA LawsGrow ==
  ASSUME TypeOK, ChainOK, ChainLaws, NEW e \in Entries, Admissible(e), Follows(e)
  PROVE  ChainLaws'
<1> DEFINE L == Latest
<1>0. L \in Nat /\ L >= 1 BY DEF TypeOK
<1>1. /\ Latest' = L + 1 /\ chain'[L + 1] = e
      /\ \A i \in 1..L : chain'[i] = chain[i] /\ chain'[i].cur = Cur(i) /\ chain'[i].reg = Reg(i)
  BY DEF Follows, Cur, Reg
<1>2. /\ \A i \in 1..L : Cur(i) \in Keys \cup {NoKey} /\ Reg(i) \in Nat
      /\ NoKey \notin Ordinals
  BY EntryTypes, HoldStoreAssumption DEF Reg
<1>3. e.kind \in Changes /\ L \in 1..L /\ Reg(L) \in Nat BY <1>0, <1>2 DEF Entries
<1>4. \A n : Fresh(n) => n \in Ordinals /\ n # NoKey /\ \A j \in 1..L : Cur(j) # n
  BY <1>2 DEF Fresh
<1>l. L = Latest OBVIOUS
<1> HIDE DEF L
<1>5. EntryLaws'
  <2> SUFFICES ASSUME NEW j \in 2..(L + 1)
               PROVE  /\ chain'[j].kind # "GENESIS"
                      /\ chain'[j].kind # "LEDGER" => chain'[j].reg = chain'[j - 1].reg + 1
                      /\ chain'[j].kind = "LEDGER" => chain'[j].reg = chain'[j - 1].reg
                                                      /\ chain'[j].cur = chain'[j - 1].cur
                      /\ chain'[j].kind = "MAINTENANCE" => chain'[j].cur = chain'[j - 1].cur
                      /\ chain'[j].kind = "ROTATION" =>
                           /\ chain'[j - 1].cur # NoKey
                           /\ chain'[j].cur \in Ordinals /\ chain'[j].cur # chain'[j - 1].cur
                      /\ chain'[j].kind = "MARKING" => chain'[j - 1].cur # NoKey /\ chain'[j].cur = NoKey
                      /\ chain'[j].kind = "EPOCH" => chain'[j - 1].cur = NoKey /\ chain'[j].cur \in Ordinals
    BY <1>0, <1>1 DEF EntryLaws, Cur, Reg
  <2>1. CASE j \in 2..L
    <3>1. j - 1 \in 1..L /\ j \in 1..L BY <1>0, <1>1, <2>1
    <3>2. chain'[j] = chain[j] /\ chain'[j - 1] = chain[j - 1] BY <1>0, <1>1, <3>1
    <3> QED BY <2>1, <3>2, <1>l DEF ChainLaws, EntryLaws, Cur, Reg
  <2>2. CASE j = L + 1
    <3>1. j - 1 = L /\ chain'[j] = e /\ chain'[j - 1].cur = Cur(L) /\ chain'[j - 1].reg = Reg(L)
      BY <1>0, <1>1, <1>3, <2>2
    <3> QED BY <1>3, <1>4, <3>1, <1>l DEF Admissible
  <2> QED BY <1>0, <1>1, <2>1, <2>2
<1>6. RegsGrow'
  <2> SUFFICES ASSUME NEW i \in 1..(L + 1), NEW j \in 1..(L + 1), i <= j
               PROVE  /\ chain'[i].reg <= chain'[j].reg
                      /\ chain'[i].reg = chain'[j].reg => chain'[i].cur = chain'[j].cur
    BY <1>0, <1>1 DEF RegsGrow, Cur, Reg
  <2>1. CASE j \in 1..L
    <3>1. i \in 1..L BY <1>0, <1>1, <2>1
    <3>2. chain'[i] = chain[i] /\ chain'[j] = chain[j] BY <1>0, <1>1, <2>1, <3>1
    <3> QED BY <2>1, <3>1, <3>2, <1>l DEF ChainLaws, RegsGrow, Cur, Reg
  <2>2. CASE i \in 1..L /\ j = L + 1
    <3>1. Reg(i) <= Reg(L) /\ (Reg(i) = Reg(L) => Cur(i) = Cur(L)) /\ Reg(i) \in Nat
      BY <1>0, <1>1, <1>2, <1>3, <2>2, <1>l DEF ChainLaws, RegsGrow
    <3>2. chain'[i].reg = Reg(i) /\ chain'[i].cur = Cur(i) /\ chain'[j] = e BY <1>0, <1>1, <2>2
    <3>3. (e.reg = Reg(L) /\ e.cur = Cur(L)) \/ e.reg = Reg(L) + 1 BY <1>l DEF Admissible
    <3> QED BY <1>3, <3>1, <3>2, <3>3
  <2>3. CASE i = L + 1
    <3>1. j = i /\ e.reg \in Nat BY <1>0, <1>1, <1>3, <2>3, <1>l DEF Admissible
    <3> QED BY <1>0, <1>1, <2>3, <3>1
  <2> QED BY <1>0, <1>1, <2>1, <2>2, <2>3
<1>7. NoReturn'
  <2> SUFFICES ASSUME NEW i \in 1..(L + 1), NEW j \in 1..(L + 1), NEW k \in 1..(L + 1),
                      i <= j, j <= k, chain'[i].cur = chain'[k].cur, chain'[i].cur # NoKey
               PROVE  chain'[j].cur = chain'[i].cur
    BY <1>0, <1>1 DEF NoReturn, Cur
  <2>1. CASE k \in 1..L
    <3>1. i \in 1..L /\ j \in 1..L BY <1>0, <1>1, <2>1
    <3>2. chain'[i].cur = Cur(i) /\ chain'[j].cur = Cur(j) /\ chain'[k].cur = Cur(k)
      BY <1>0, <1>1, <2>1, <3>1
    <3> QED BY <2>1, <3>1, <3>2, <1>l DEF ChainLaws, NoReturn
  <2>2. CASE k = L + 1 /\ j \in 1..L
    <3>1. i \in 1..L BY <1>0, <1>1, <2>2
    <3>2. chain'[i].cur = Cur(i) /\ chain'[j].cur = Cur(j) /\ chain'[k] = e BY <1>0, <1>1, <2>2, <3>1
    <3>3. e.cur = Cur(i) /\ e.cur # NoKey BY <3>2
    <3>4. e.cur = Cur(L) BY <1>3, <1>4, <3>1, <3>3, <1>l DEF Admissible, Changes
    <3> QED BY <1>0, <1>1, <1>3, <2>2, <3>1, <3>2, <3>3, <3>4, <1>l DEF ChainLaws, NoReturn
  <2>3. CASE j = L + 1 BY <1>0, <1>1, <2>3
  <2> QED BY <1>0, <1>1, <2>1, <2>2, <2>3
<1>8. KeyLasts'
  <2> SUFFICES ASSUME NEW i \in 1..(L + 1), NEW k \in 1..(L + 1), i <= k
               PROVE  /\ chain'[k].cur # NoKey
                         /\ (\A j \in (i + 1)..k : chain'[j].kind \notin {"ROTATION", "EPOCH"})
                           => chain'[k].cur = chain'[i].cur
                      /\ chain'[i].cur = NoKey /\ (\A j \in (i + 1)..k : chain'[j].kind \notin {"EPOCH"})
                           => chain'[k].cur = NoKey
    BY <1>0, <1>1 DEF KeyLasts, Without, Cur
  <2>1. CASE k \in 1..L
    <3>1. i \in 1..L /\ \A j \in (i + 1)..k : j \in 1..L BY <1>0, <1>1, <2>1
    <3>2. chain'[i].cur = Cur(i) /\ chain'[k].cur = Cur(k) /\ \A j \in (i + 1)..k : chain'[j] = chain[j]
      BY <1>0, <1>1, <2>1, <3>1
    <3> QED BY <2>1, <3>1, <3>2, <1>l DEF ChainLaws, KeyLasts, Without
  <2>2. CASE i \in 1..L /\ k = L + 1
    <3>1. /\ chain'[i].cur = Cur(i) /\ chain'[k] = e
          /\ \A j \in (i + 1)..L : chain'[j] = chain[j] /\ j \in (i + 1)..k
          /\ k \in (i + 1)..k /\ i <= L
      BY <1>0, <1>1, <2>2
    <3>2. /\ Cur(L) # NoKey /\ Without({"ROTATION", "EPOCH"}, i, L) => Cur(L) = Cur(i)
          /\ Cur(i) = NoKey /\ Without({"EPOCH"}, i, L) => Cur(L) = NoKey
      BY <1>3, <2>2, <3>1, <1>l DEF ChainLaws, KeyLasts
    <3>3. e.cur # NoKey /\ e.kind \notin {"ROTATION", "EPOCH"} => e.cur = Cur(L)
      BY <1>3, <1>l DEF Admissible, Changes
    <3>4. Cur(L) = NoKey /\ e.kind # "EPOCH" => e.cur = NoKey
      BY <1>3, <1>l DEF Admissible, Changes
    <3>5. ASSUME \A j \in (i + 1)..k : chain'[j].kind \notin {"ROTATION", "EPOCH"}, e.cur # NoKey
          PROVE  e.cur = Cur(i)
      <4>1. Without({"ROTATION", "EPOCH"}, i, L) /\ e.kind \notin {"ROTATION", "EPOCH"}
        BY <3>1, <3>5 DEF Without
      <4> QED BY <3>2, <3>3, <3>5, <4>1
    <3>6. ASSUME \A j \in (i + 1)..k : chain'[j].kind \notin {"EPOCH"}, Cur(i) = NoKey
          PROVE  e.cur = NoKey
      <4>1. Without({"EPOCH"}, i, L) /\ e.kind # "EPOCH" BY <3>1, <3>6 DEF Without
      <4> QED BY <3>2, <3>4, <3>6, <4>1
    <3> QED BY <3>1, <3>5, <3>6
  <2>3. CASE i = L + 1 BY <1>0, <1>1, <2>3
  <2> QED BY <1>0, <1>1, <2>1, <2>2, <2>3
<1>9. MarkedBefore'
  <2> SUFFICES ASSUME NEW k \in 1..(L + 1), chain'[k].cur = NoKey
               PROVE  \E j \in 2..k : chain'[j].kind = "MARKING"
    BY <1>0, <1>1 DEF MarkedBefore, Cur
  <2>1. ASSUME NEW l \in 1..L, l <= k, Cur(l) = NoKey
        PROVE  \E j \in 2..k : chain'[j].kind = "MARKING"
    <3>1. PICK j \in 2..l : chain[j].kind = "MARKING" BY <2>1, <1>l DEF ChainLaws, MarkedBefore
    <3> QED BY <1>0, <1>1, <2>1, <3>1
  <2>2. CASE k \in 1..L BY <1>0, <1>1, <2>1, <2>2
  <2>3. CASE k = L + 1 /\ e.kind = "MARKING" BY <1>0, <1>1, <2>3
  <2>4. CASE k = L + 1 /\ e.kind # "MARKING"
    <3>1. e.cur = NoKey BY <1>0, <1>1, <2>4
    <3>2. Cur(L) = NoKey BY <1>3, <1>4, <2>4, <3>1, <1>l DEF Admissible, Changes
    <3> QED BY <1>0, <1>1, <1>3, <2>1, <2>4, <3>2
  <2> QED BY <1>0, <1>1, <2>2, <2>3, <2>4
<1> QED BY <1>5, <1>6, <1>7, <1>8, <1>9, <1>l DEF ChainLaws

----------------------------------------------------------------------------
(* The ceremony that made a key current.                                   *)

LEMMA LastEstablished ==
  ASSUME TypeOK, ChainOK, NEW i \in 1..Latest
  PROVE  /\ Establishing(i) \in 1..i
         /\ chain[Establishing(i)].kind \in {"GENESIS", "ROTATION", "EPOCH"}
         /\ Without({"ROTATION", "EPOCH"}, Establishing(i), i)
<1> DEFINE S == {j \in 1..i : chain[j].kind \in {"GENESIS", "ROTATION", "EPOCH"}}
<1>1. 1 \in S /\ S \in SUBSET (1..i) /\ i \in Nat BY DEF ChainOK, TypeOK
<1>2. Max(S) \in S /\ \A y \in S : Max(S) >= y BY <1>1, LastExists
<1>3. ASSUME NEW j \in (Max(S) + 1)..i PROVE chain[j].kind \notin {"ROTATION", "EPOCH"}
  <2>1. j \in 1..i /\ ~(Max(S) >= j) BY <1>2
  <2> QED BY <1>2, <2>1
<1>4. Establishing(i) = Max(S) BY DEF Establishing
<1> HIDE DEF S
<1>5. Max(S) \in 1..i /\ chain[Max(S)].kind \in {"GENESIS", "ROTATION", "EPOCH"} BY <1>2 DEF S
<1> QED BY <1>3, <1>4, <1>5 DEF Without

LEMMA LastMarked ==
  ASSUME TypeOK, ChainOK, NEW i \in 1..Latest, \E j \in 2..i : chain[j].kind = "MARKING"
  PROVE  Marking(i) \in 2..i /\ chain[Marking(i)].kind = "MARKING"
<1> DEFINE S == {j \in 1..i : chain[j].kind = "MARKING"}
<1>1. S # {} /\ S \in SUBSET (1..i) /\ i \in Nat BY DEF TypeOK
<1>2. Max(S) \in S BY <1>1, LastExists
<1>3. 1 \notin S BY DEF ChainOK
<1>4. Max(S) \in 1..i /\ Max(S) # 1 /\ chain[Max(S)].kind = "MARKING" BY <1>2, <1>3
<1> QED BY <1>4 DEF Marking

LEMMA BaseIs ==
  ASSUME NEW i
  PROVE  /\ chain[Establishing(i)].kind = "GENESIS" =>
              Base(i) = [kind |-> "INITIAL_CUSTODY", ceremony |-> Initial, pred |-> NoKey, start |-> 1]
         /\ chain[Establishing(i)].kind = "ROTATION" =>
              Base(i) = [kind |-> "ROTATION", ceremony |-> Successor(Cur(Establishing(i))),
                         pred |-> Cur(Establishing(i) - 1), start |-> Establishing(i)]
         /\ chain[Establishing(i)].kind = "EPOCH" =>
              Base(i) = [kind |-> "KEY_COMPROMISE_RECOVERY", ceremony |-> Successor(Cur(Establishing(i))),
                         pred |-> Cur(Marking(Establishing(i)) - 1), start |-> Marking(Establishing(i))]
BY DEF Base

(* The last maintenance change of a set of entries governs the last one.   *)
LEMMA TransitionIs ==
  ASSUME TypeOK, ChainOK, NEW i \in 1..Latest
  PROVE  \/ Transition(i) = Base(i)
         \/ \E m \in (Establishing(i) + 1)..i :
              /\ chain[m].kind = "MAINTENANCE"
              /\ Transition(i) = [kind |-> "REGISTRY_MAINTENANCE", ceremony |-> Maintenance(Reg(m - 1)),
                                  pred |-> Cur(i), start |-> m]
<1> DEFINE later == {j \in (Establishing(i) + 1)..i : chain[j].kind = "MAINTENANCE"}
<1>1. CASE later = {} BY <1>1 DEF Transition
<1>2. CASE later # {}
  <2>1. Establishing(i) \in 1..i /\ i \in Nat BY LastEstablished DEF TypeOK
  <2>2. later \in SUBSET (1..i) BY <2>1
  <2>3. Max(later) \in later BY <1>2, <2>1, <2>2, LastExists
  <2>4. Transition(i) = [kind |-> "REGISTRY_MAINTENANCE",
                         ceremony |-> Maintenance(chain[Max(later) - 1].reg),
                         pred |-> Cur(i), start |-> Max(later)]
    BY <1>2 DEF Transition
  <2> QED BY <2>3, <2>4 DEF Reg
<1> QED BY <1>1, <1>2

----------------------------------------------------------------------------
(* Snapshots, releases and the marked key.                                 *)
Lawful == ChainLaws /\ PreparedIsFresh /\ AdoptionBinds

Primary(c) == c[1] # "DEBT"

(* The change that a primary ceremony of this kind gates has been made.    *)
Done(c, kind, pred) ==
  /\ kind = "ROTATION" => \E e \in 2..Latest : chain[e].kind = "ROTATION" /\ Cur(e - 1) = pred
  /\ kind = "KEY_COMPROMISE_RECOVERY" => AdvancesOf(pred) # {}
  /\ kind = "REGISTRY_MAINTENANCE" =>
       \E m \in 2..Latest : chain[m].kind = "MAINTENANCE" /\ c = Maintenance(Reg(m - 1))

Releasing(x) == pc[x] \in {"writing", "written"} /\ req[x].op = "RELEASE"

ReleasesAreDone == \A x \in Sessions : Releasing(x) /\ Primary(req[x].c) =>
  Done(req[x].c, holds[req[x].c].kind, holds[req[x].c].pred)

(* What a session observed is there still, or RELEASED since.              *)
Snapshot(x) == IF pc[x] = "observed" THEN held[x] ELSE {}

SnapshotsLast == \A x \in Sessions : \A h \in Snapshot(x) :
  /\ holds[h.c].state \in {"HELD", "RELEASED"}
  /\ holds[h.c].kind = h.kind /\ holds[h.c].pred = h.pred
  /\ holds[h.c].state = "RELEASED" /\ Primary(h.c) => Done(h.c, h.kind, h.pred)

(* While no key is current, the hold of its marking is HELD.  A power loss *)
(* may have undone that record, but then all snapshots are younger.        *)
RecoveryHeld == \E c \in HeldNow :
  /\ Primary(c) /\ holds[c].kind = "KEY_COMPROMISE_RECOVERY"
  /\ InRecovery(holds[c])

SnapshotsHeld == \A x \in Sessions : \A h \in Snapshot(x) : holds[h.c].state = "HELD"

MarkedUnderHold == Cur(Latest) = NoKey =>
  /\ RecoveryHeld \/ SnapshotsHeld
  /\ (\E x \in Sessions : Releasing(x)) => RecoveryHeld

HInv == Lawful /\ ReleasesAreDone /\ SnapshotsLast /\ MarkedUnderHold

(* The hold of a change that is made is for a key or a registry that the   *)
(* head has left.                                                          *)
LEMMA DoneIsPast ==
  ASSUME TypeOK, ChainLaws, NEW c, NEW kind, Cur(Latest) # NoKey,
         \/ kind \in {"ROTATION", "KEY_COMPROMISE_RECOVERY"}
         \/ kind = "REGISTRY_MAINTENANCE" /\ c = Maintenance(Reg(Latest)),
         Done(c, kind, Cur(Latest))
  PROVE  FALSE
<1>0. Latest \in Nat /\ Latest >= 1 /\ Latest \in 1..Latest BY DEF TypeOK
<1>1. ASSUME NEW j \in 2..Latest, Cur(j - 1) = Cur(Latest), Cur(j) # Cur(j - 1) PROVE FALSE
  <2>1. j - 1 \in 1..Latest /\ j \in 1..Latest /\ j - 1 <= j /\ j <= Latest BY <1>0
  <2> QED BY <1>0, <1>1, <2>1 DEF ChainLaws, NoReturn
<1>2. CASE kind = "ROTATION"
  <2>1. PICK e \in 2..Latest : chain[e].kind = "ROTATION" /\ Cur(e - 1) = Cur(Latest)
    BY <1>2 DEF Done
  <2> QED BY <1>1, <2>1 DEF ChainLaws, EntryLaws
<1>3. CASE kind = "KEY_COMPROMISE_RECOVERY"
  <2>1. AdvancesOf(Cur(Latest)) # {} BY <1>3 DEF Done
  <2>2. PICK j \in MarkedAt(Cur(Latest)) : TRUE BY <2>1 DEF AdvancesOf
  <2>3. j \in 2..Latest /\ chain[j].kind = "MARKING" /\ Cur(j - 1) = Cur(Latest)
    BY <2>2 DEF MarkedAt, Latest
  <2> QED BY <1>1, <2>3 DEF ChainLaws, EntryLaws
<1>4. CASE kind = "REGISTRY_MAINTENANCE"
  <2>1. PICK m \in 2..Latest : chain[m].kind = "MAINTENANCE" /\ c = Maintenance(Reg(m - 1))
    BY <1>4 DEF Done
  <2>2. Reg(m - 1) = Reg(Latest) BY <1>4, <2>1 DEF Maintenance
  <2>3. Reg(m) = Reg(m - 1) + 1 BY <2>1 DEF ChainLaws, EntryLaws
  <2>4. m \in 1..Latest /\ m <= Latest BY <1>0
  <2>5. Reg(m) <= Reg(Latest) BY <1>0, <2>4 DEF ChainLaws, RegsGrow
  <2>6. Reg(Latest) \in Nat BY <1>0, EntryTypes DEF Reg
  <2> QED BY <2>2, <2>3, <2>5, <2>6
<1> QED BY <1>2, <1>3, <1>4

(* A hold observed that names the current key, and for a maintenance the   *)
(* current registry, is HELD still.                                        *)
LEMMA StillHeld ==
  ASSUME TypeOK, ChainLaws, SnapshotsLast, NEW x \in Sessions, NEW h \in Snapshot(x),
         Primary(h.c), NamesCurrent(h),
         \/ h.kind \in {"ROTATION", "KEY_COMPROMISE_RECOVERY"}
         \/ h.kind = "REGISTRY_MAINTENANCE" /\ h.c = Maintenance(Reg(Latest))
  PROVE  holds[h.c].state = "HELD" /\ holds[h.c].kind = h.kind /\ holds[h.c].pred = h.pred
<1>1. /\ holds[h.c].state \in {"HELD", "RELEASED"}
      /\ holds[h.c].kind = h.kind /\ holds[h.c].pred = h.pred
      /\ holds[h.c].state = "RELEASED" => Done(h.c, h.kind, h.pred)
  BY DEF SnapshotsLast
<1>2. h.pred = Cur(Latest) /\ Cur(Latest) # NoKey BY DEF NamesCurrent
<1>3. ~Done(h.c, h.kind, Cur(Latest)) BY <1>2, DoneIsPast
<1> QED BY <1>1, <1>2, <1>3

(* An epoch advance follows the marking of a key.                          *)
LEMMA EpochIsMarked ==
  ASSUME TypeOK, ChainOK, ChainLaws, NEW e \in 1..Latest, chain[e].kind = "EPOCH"
  PROVE  /\ e \in 2..Latest /\ Marking(e) \in 2..Latest /\ Marking(e) < e
         /\ chain[Marking(e)].kind = "MARKING"
<1>1. Latest \in Nat /\ chain[1].kind = "GENESIS" BY DEF TypeOK, ChainOK
<1>2. e \in 2..Latest /\ e - 1 \in 1..Latest BY <1>1
<1>3. Cur(e - 1) = NoKey BY <1>2 DEF ChainLaws, EntryLaws
<1>4. \E j \in 2..(e - 1) : chain[j].kind = "MARKING" BY <1>2, <1>3 DEF ChainLaws, MarkedBefore
<1>5. \E j \in 2..e : chain[j].kind = "MARKING" BY <1>2, <1>4
<1>6. Marking(e) \in 2..e /\ chain[Marking(e)].kind = "MARKING" BY <1>2, <1>5, LastMarked
<1>7. Marking(e) # e BY <1>6
<1> QED BY <1>1, <1>2, <1>6, <1>7

(* A hold is eligible for its release when its change is made.             *)
LEMMA EligibleIsDone ==
  ASSUME TypeOK, ChainOK, ChainLaws, NEW c \in Ceremonies, Primary(c), Eligible(c, Latest)
  PROVE  Done(c, holds[c].kind, holds[c].pred)
<1> DEFINE i == Latest
           e == Establishing(i)
           t == Transition(i)
           h == holds[c]
<1>0. i \in Nat /\ i >= 1 /\ i \in 1..Latest BY DEF TypeOK
<1>1. c = t.ceremony /\ h.kind = t.kind /\ h.pred = t.pred
  <2>1. c = Governing(i) /\ Binds(c, h, i) BY DEF Eligible
  <2>2. c # DebtOf(i) BY DEF Primary, DebtOf, Debt
  <2> QED BY <2>1, <2>2 DEF Governing, Binds
<1>2. /\ e \in 1..i /\ chain[e].kind \in {"GENESIS", "ROTATION", "EPOCH"}
      /\ chain[1].kind = "GENESIS"
  BY <1>0, LastEstablished DEF ChainOK
<1>3. ASSUME NEW m \in (e + 1)..i, chain[m].kind = "MAINTENANCE",
             t = [kind |-> "REGISTRY_MAINTENANCE", ceremony |-> Maintenance(Reg(m - 1)),
                  pred |-> Cur(i), start |-> m]
      PROVE  Done(c, h.kind, h.pred)
  <2>1. m \in 2..Latest BY <1>0, <1>2
  <2>2. h.kind = "REGISTRY_MAINTENANCE" /\ c = Maintenance(Reg(m - 1)) BY <1>1, <1>3
  <2> QED BY <1>3, <2>1, <2>2 DEF Done
<1>4. CASE t = Base(i) /\ chain[e].kind = "GENESIS"
  <2>1. h.kind = "INITIAL_CUSTODY" BY <1>1, <1>4, BaseIs
  <2> QED BY <2>1 DEF Done
<1>5. CASE t = Base(i) /\ chain[e].kind = "ROTATION"
  <2>1. h.kind = "ROTATION" /\ h.pred = Cur(e - 1) BY <1>1, <1>5, BaseIs
  <2>2. e \in 2..Latest BY <1>0, <1>2, <1>5
  <2> QED BY <1>5, <2>1, <2>2 DEF Done
<1>6. CASE t = Base(i) /\ chain[e].kind = "EPOCH"
  <2> DEFINE m == Marking(e)
  <2>1. h.kind = "KEY_COMPROMISE_RECOVERY" /\ h.pred = Cur(m - 1) BY <1>1, <1>6, BaseIs
  <2>2. e \in 2..Latest /\ m \in 2..Latest /\ m < e /\ chain[m].kind = "MARKING"
    <3>1. e \in 1..Latest BY <1>0, <1>2
    <3> QED BY <1>6, <3>1, EpochIsMarked
  <2> HIDE DEF m, e
  <2>3. m \in MarkedAt(Cur(m - 1)) BY <2>2 DEF MarkedAt, Latest
  <2>4. e \in AdvancesOf(Cur(m - 1)) BY <1>6, <2>2, <2>3 DEF AdvancesOf, Latest
  <2> QED BY <2>1, <2>4 DEF Done
<1>7. \/ t = Base(i)
      \/ \E m \in (e + 1)..i :
              /\ chain[m].kind = "MAINTENANCE"
              /\ t = [kind |-> "REGISTRY_MAINTENANCE", ceremony |-> Maintenance(Reg(m - 1)),
                      pred |-> Cur(i), start |-> m]
  BY <1>0, TransitionIs
<1> QED BY <1>2, <1>3, <1>4, <1>5, <1>6, <1>7

----------------------------------------------------------------------------
(* Steps that leave the chain alone.                                       *)

LEMMA SameChain ==
  ASSUME UNCHANGED chain
  PROVE  /\ Latest' = Latest /\ \A i : Cur(i)' = Cur(i)
         /\ \A n : Fresh(n)' = Fresh(n)
         /\ \A c, kind, pred : Done(c, kind, pred)' = Done(c, kind, pred)
         /\ \A h : InRecovery(h)' = InRecovery(h)
         /\ ChainLaws' = ChainLaws
<1>1. Latest' = Latest /\ \A i : Cur(i)' = Cur(i) BY DEF Latest, Cur
<1>2. \A n : Fresh(n)' = Fresh(n) BY DEF Fresh, Latest, Cur
<1>3. \A p : AdvancesOf(p)' = AdvancesOf(p) /\ Compromised(p)' = Compromised(p)
  BY DEF AdvancesOf, Compromised, MarkedAt, Cur
<1>4. \A c, kind, pred : Done(c, kind, pred)' = Done(c, kind, pred)
  BY <1>3 DEF Done, Latest, Cur, Reg
<1>5. \A h : InRecovery(h)' = InRecovery(h) BY <1>3 DEF InRecovery
<1>6. ChainLaws' = ChainLaws
  BY DEF ChainLaws, EntryLaws, RegsGrow, NoReturn, KeyLasts, MarkedBefore, Without, Latest, Cur, Reg
<1> QED BY <1>1, <1>2, <1>4, <1>5, <1>6

LEMMA LawsStay ==
  ASSUME TypeOK, Lawful, UNCHANGED chain,
         NEW p, prepared' = p, p = prepared \/ Fresh(p),
         adoption' = adoption \/ (adoption' = Latest /\ Cur(Latest) = NoKey)
  PROVE  Lawful'
<1>1. ChainLaws' BY SameChain DEF Lawful
<1>2. PreparedIsFresh'
  <2>1. p # NoKey => Fresh(p) BY DEF Lawful, PreparedIsFresh
  <2> QED BY <2>1 DEF PreparedIsFresh, Fresh, Latest, Cur
<1>3. AdoptionBinds'
  <2>1. Latest \in Nat /\ adoption' <= Latest /\ (adoption' = Latest => Cur(Latest) = NoKey)
    BY DEF Lawful, AdoptionBinds, TypeOK
  <2> QED BY <2>1 DEF AdoptionBinds, Latest, Cur
<1> QED BY <1>1, <1>2, <1>3 DEF Lawful

(* No session observes the store or starts to write a release.             *)
Calm == \A y \in Sessions :
  /\ Snapshot(y)' \subseteq Snapshot(y)
  /\ Releasing(y)' => Releasing(y) /\ req'[y] = req[y]

LEMMA CalmKeeps ==
  ASSUME HInv, Lawful', UNCHANGED <<chain, holds>>, Calm
  PROVE  HInv'
<1>1. /\ Latest' = Latest /\ Cur(Latest)' = Cur(Latest)
      /\ \A c, kind, pred : Done(c, kind, pred)' = Done(c, kind, pred)
      /\ \A h : InRecovery(h)' = InRecovery(h)
  BY SameChain DEF Cur, Latest
<1>2. ReleasesAreDone'
  <2>1. ASSUME NEW y \in Sessions, Releasing(y)', Primary(req'[y].c)
        PROVE  /\ req'[y] = req[y]
               /\ Done(req[y].c, holds[req[y].c].kind, holds[req[y].c].pred)
    BY <2>1 DEF Calm, HInv, ReleasesAreDone
  <2> QED BY <2>1 DEF ReleasesAreDone, Primary, Done, AdvancesOf, MarkedAt, Latest, Cur, Reg
<1>3. SnapshotsLast'
  <2> SUFFICES ASSUME NEW y \in Sessions, NEW h \in Snapshot(y)'
               PROVE  /\ holds[h.c].state \in {"HELD", "RELEASED"}
                      /\ holds[h.c].kind = h.kind /\ holds[h.c].pred = h.pred
                      /\ holds[h.c].state = "RELEASED" /\ Primary(h.c) => Done(h.c, h.kind, h.pred)
    BY <1>1 DEF SnapshotsLast
  <2>1. h \in Snapshot(y) BY DEF Calm
  <2> QED BY <2>1 DEF HInv, SnapshotsLast
<1>4. MarkedUnderHold'
  <2>1. RecoveryHeld => RecoveryHeld' BY <1>1 DEF RecoveryHeld, HeldNow
  <2>2. SnapshotsHeld => SnapshotsHeld' BY DEF SnapshotsHeld, Calm
  <2>3. (\E y \in Sessions : Releasing(y)') => \E y \in Sessions : Releasing(y) BY DEF Calm
  <2> QED BY <1>1, <2>1, <2>2, <2>3 DEF HInv, MarkedUnderHold
<1> QED BY <1>2, <1>3, <1>4 DEF HInv

LEMMA EndIsCalm ==
  ASSUME TypeOK, NEW x \in Sessions, End(x)
  PROVE  Calm /\ Snapshot(x)' = {}
<1>1. pc'[x] = "idle" /\ \A y \in Sessions \ {x} : pc'[y] = pc[y] /\ req'[y] = req[y]
  BY EndType
<1>2. \A y \in Sessions \ {x} : held'[y] = held[y] BY DEF End, TypeOK
<1> QED BY <1>1, <1>2 DEF Calm, Snapshot, Releasing

LEMMA GotoIsCalm ==
  ASSUME TypeOK, NEW x \in Sessions, NEW step, Goto(x, step), UNCHANGED held,
         step \in {"begun", "writing", "written", "renamed"},
         \A y \in Sessions \ {x} : req'[y] = req[y],
         step \in {"writing", "written"} => req'[x] = req[x] /\ (Releasing(x) \/ req[x].op # "RELEASE")
  PROVE  Calm
<1>1. pc'[x] = step /\ \A y \in Sessions \ {x} : pc'[y] = pc[y] BY GotoType
<1> QED BY <1>1 DEF Calm, Snapshot, Releasing

LEMMA StoreStepIsCalm ==
  ASSUME TypeOK, NEW x \in Sessions,
         \/ \E r : Begin(x, r)
         \/ Refuse(x) \/ Sync(x) \/ Finish(x) \/ GiveUp(x) \/ Kill(x)
         \/ Publish(x) /\ req[x].op # "RELEASE"
  PROVE  Calm /\ UNCHANGED <<chain, holds, prepared, adoption>>
<1>1. CASE \E r : Begin(x, r)
  <2>1. PICK r : Begin(x, r) BY <1>1
  <2>2. Goto(x, "begun") /\ req' = [req EXCEPT ![x] = r] /\ UNCHANGED <<witness, store, held>>
    BY <2>1 DEF Begin
  <2>3. \A y \in Sessions \ {x} : req'[y] = req[y] BY <2>2 DEF TypeOK
  <2> QED BY <2>2, <2>3, GotoIsCalm DEF witness, store
<1>2. CASE Refuse(x) \/ GiveUp(x) \/ Kill(x)
  BY <1>2, EndIsCalm DEF Refuse, GiveUp, Kill, witness, store
<1>3. CASE Finish(x) BY <1>3, EndIsCalm DEF Finish, witness
<1>4. CASE Sync(x)
  <2>1. Goto(x, "written") /\ pc[x] = "writing" /\ UNCHANGED <<witness, holds, req, held>>
    BY <1>4 DEF Sync
  <2>2. Releasing(x) \/ req[x].op # "RELEASE" BY <2>1 DEF Releasing
  <2> QED BY <2>1, <2>2, GotoIsCalm DEF witness
<1>5. CASE Publish(x) /\ req[x].op # "RELEASE"
  <2>1. Goto(x, "writing") /\ UNCHANGED <<witness, holds, req, held>> BY <1>5 DEF Publish
  <2> QED BY <1>5, <2>1, GotoIsCalm DEF witness
<1> QED BY <1>1, <1>2, <1>3, <1>4, <1>5

LEMMA CalmSteps ==
  ASSUME IInv, HInv, NEW x \in Sessions,
         \/ BeginInitial(x) \/ BeginSuccessor(x) \/ BeginMaintenance(x)
         \/ BeginDebt(x) \/ BeginRelease(x)
         \/ Refuse(x) \/ Sync(x) \/ Finish(x) \/ GiveUp(x) \/ Kill(x)
         \/ Publish(x) /\ req[x].op # "RELEASE"
  PROVE  HInv'
<1>1. TypeOK /\ Lawful BY DEF IInv, HInv
<1>2. BeginInitial(x) \/ BeginSuccessor(x) \/ BeginMaintenance(x) \/ BeginDebt(x) \/ BeginRelease(x)
        => \E r : Begin(x, r)
  BY DEF BeginInitial, BeginSuccessor, BeginMaintenance, BeginDebt, BeginRelease
<1>3. Calm /\ UNCHANGED <<chain, holds, prepared, adoption>> BY <1>1, <1>2, StoreStepIsCalm
<1>4. Lawful' BY <1>1, <1>3, LawsStay
<1> QED BY <1>3, <1>4, CalmKeeps

(* PREPARE, and the adoption that the signer journals: RECOVERY_MARKED     *)
(* means that no key is current.                                           *)
LEMMA CustodySteps ==
  ASSUME IInv, HInv, NEW x \in Sessions, Prepare(x) \/ AdoptEpoch(x)
  PROVE  HInv'
<1>1. TypeOK /\ Lawful /\ Latest \in Nat /\ Latest \in 1..Latest BY DEF IInv, HInv, TypeOK
<1>2. CASE Prepare(x)
  <2>1. Fresh(prepared') /\ End(x) /\ UNCHANGED <<chain, adoption, store>>
    BY <1>2 DEF Prepare
  <2>2. Lawful' BY <1>1, <2>1, LawsStay
  <2> QED BY <1>1, <2>1, <2>2, EndIsCalm, CalmKeeps DEF store
<1>3. CASE AdoptEpoch(x)
  <2>1. PICK h \in held[x] : InRecovery(h) /\ adoption' = Latest /\ End(x)
                             /\ UNCHANGED <<chain, prepared, store>>
    BY <1>3 DEF AdoptEpoch
  <2>2. PICK j \in MarkedAt(h.pred) : TRUE BY <2>1 DEF InRecovery, Compromised
  <2>3. j \in 2..Latest /\ chain[j].kind = "MARKING" BY <2>2 DEF MarkedAt, Latest
  <2>4. Without({"EPOCH"}, j, Latest)
    <3> SUFFICES ASSUME NEW k \in (j + 1)..Latest, chain[k].kind = "EPOCH" PROVE FALSE
      BY DEF Without
    <3>1. k \in 2..Latest /\ j < k BY <1>1, <2>3
    <3>2. k \in AdvancesOf(h.pred) BY <2>2, <3>1 DEF AdvancesOf, Latest
    <3> QED BY <2>1, <3>2 DEF InRecovery
  <2>5. Cur(j) = NoKey BY <1>1, <2>3 DEF Lawful, ChainLaws, EntryLaws
  <2>6. Cur(Latest) = NoKey
    <3>1. j \in 1..Latest /\ j <= Latest BY <1>1, <2>3
    <3> QED BY <1>1, <2>4, <2>5, <3>1 DEF Lawful, ChainLaws, KeyLasts
  <2>7. Lawful' BY <1>1, <2>1, <2>6, LawsStay
  <2> QED BY <1>1, <2>1, <2>7, EndIsCalm, CalmKeeps DEF store
<1> QED BY <1>2, <1>3

LEMMA OwnerSteps ==
  ASSUME IInv, HInv, Approve \/ Destroy \/ UNCHANGED vars
  PROVE  HInv'
<1>1. TypeOK /\ Lawful BY DEF IInv, HInv
<1>2. UNCHANGED <<chain, adoption, prepared, holds, pc, req, held>>
  BY DEF Approve, Destroy, vars, witness, store, sessions
<1>3. Calm BY <1>2 DEF Calm, Snapshot, Releasing
<1>4. Lawful' BY <1>1, <1>2, LawsStay
<1> QED BY <1>2, <1>3, <1>4, CalmKeeps

----------------------------------------------------------------------------
(* Steps of the store.                                                     *)

(* A release starts to be written when its change is made.                 *)
LEMMA ReleaseStarts ==
  ASSUME IInv, HInv, NEW x \in Sessions, Publish(x), req[x].op = "RELEASE"
  PROVE  HInv'
<1>1. TypeOK /\ ChainOK /\ Lawful /\ ChainLaws BY DEF IInv, HInv, Lawful
<1>2. Goto(x, "writing") /\ UNCHANGED <<chain, adoption, prepared, holds, req, held>>
      /\ Observable /\ May(req[x])
  BY DEF Publish, witness
<1>3. pc'[x] = "writing" /\ \A y \in Sessions \ {x} : pc'[y] = pc[y] BY <1>1, <1>2, GotoType
<1>4. Eligible(req[x].c, Latest) /\ req[x].c \in Ceremonies
  <2>1. req[x] \in Requests BY <1>1 DEF TypeOK
  <2> QED BY <1>2, <2>1 DEF May, Requests
<1>5. Cur(Latest) # NoKey BY <1>4 DEF Eligible
<1>6. Lawful' BY <1>1, <1>2, LawsStay
<1>7. ReleasesAreDone'
  <2>1. ASSUME NEW y \in Sessions, Releasing(y)', Primary(req[y].c)
        PROVE  Done(req[y].c, holds[req[y].c].kind, holds[req[y].c].pred)
    <3>1. CASE y = x BY <1>1, <1>4, <2>1, <3>1, EligibleIsDone
    <3>2. CASE y # x BY <1>2, <1>3, <2>1, <3>2 DEF HInv, ReleasesAreDone, Releasing
    <3> QED BY <3>1, <3>2
  <2> QED BY <1>2, <2>1 DEF ReleasesAreDone, Primary, Done, AdvancesOf, MarkedAt, Latest, Cur, Reg
<1>8. SnapshotsLast'
  <2>1. \A y \in Sessions : Snapshot(y)' \subseteq Snapshot(y) BY <1>2, <1>3 DEF Snapshot
  <2>2. \A c, kind, pred : Done(c, kind, pred)' = Done(c, kind, pred) BY <1>2, SameChain
  <2> SUFFICES ASSUME NEW y \in Sessions, NEW h \in Snapshot(y)'
               PROVE  /\ holds[h.c].state \in {"HELD", "RELEASED"}
                      /\ holds[h.c].kind = h.kind /\ holds[h.c].pred = h.pred
                      /\ holds[h.c].state = "RELEASED" /\ Primary(h.c) => Done(h.c, h.kind, h.pred)
    BY <1>2, <2>2 DEF SnapshotsLast
  <2> QED BY <2>1 DEF HInv, SnapshotsLast
<1>9. MarkedUnderHold' BY <1>2, <1>5 DEF MarkedUnderHold, Cur, Latest
<1> QED BY <1>6, <1>7, <1>8, <1>9 DEF HInv

LEMMA ObserveSteps ==
  ASSUME IInv, HInv, NEW x \in Sessions, Observe(x)
  PROVE  HInv'
<1>1. TypeOK /\ Lawful BY DEF IInv, HInv
<1>2. Goto(x, "observed") /\ UNCHANGED <<chain, adoption, prepared, holds, req>>
      /\ held' = [held EXCEPT ![x] = {HoldOf(c) : c \in HeldNow}]
  BY DEF Observe, witness, store
<1>3. pc'[x] = "observed" /\ \A y \in Sessions \ {x} : pc'[y] = pc[y] BY <1>1, <1>2, GotoType
<1>4. /\ Snapshot(x)' = {HoldOf(c) : c \in HeldNow}
      /\ \A y \in Sessions \ {x} : Snapshot(y)' = Snapshot(y)
  BY <1>1, <1>2, <1>3 DEF Snapshot, TypeOK
<1>5. \A h \in Snapshot(x)' : /\ holds[h.c].state = "HELD"
                              /\ holds[h.c].kind = h.kind /\ holds[h.c].pred = h.pred
  BY <1>4 DEF HoldOf, HeldNow
<1>6. \A y \in Sessions : Releasing(y)' => Releasing(y) /\ req'[y] = req[y]
  BY <1>2, <1>3 DEF Releasing
<1>7. /\ \A c, kind, pred : Done(c, kind, pred)' = Done(c, kind, pred)
      /\ \A h : InRecovery(h)' = InRecovery(h)
  BY <1>2, SameChain
<1>8. Lawful' BY <1>1, <1>2, LawsStay
<1>9. ReleasesAreDone'
  <2>1. ASSUME NEW y \in Sessions, Releasing(y)', Primary(req[y].c)
        PROVE  Done(req[y].c, holds[req[y].c].kind, holds[req[y].c].pred)
    BY <1>6, <2>1 DEF HInv, ReleasesAreDone
  <2> QED BY <1>2, <2>1 DEF ReleasesAreDone, Primary, Done, AdvancesOf, MarkedAt, Latest, Cur, Reg
<1>10. SnapshotsLast'
  <2> SUFFICES ASSUME NEW y \in Sessions, NEW h \in Snapshot(y)'
               PROVE  /\ holds[h.c].state \in {"HELD", "RELEASED"}
                      /\ holds[h.c].kind = h.kind /\ holds[h.c].pred = h.pred
                      /\ holds[h.c].state = "RELEASED" /\ Primary(h.c) => Done(h.c, h.kind, h.pred)
    BY <1>2, <1>7 DEF SnapshotsLast
  <2>1. CASE y = x BY <1>5, <2>1
  <2>2. CASE y # x BY <1>4, <2>2 DEF HInv, SnapshotsLast
  <2> QED BY <2>1, <2>2
<1>11. MarkedUnderHold'
  <2>1. RecoveryHeld => RecoveryHeld' BY <1>2, <1>7 DEF RecoveryHeld, HeldNow
  <2>2. SnapshotsHeld => SnapshotsHeld' BY <1>2, <1>4, <1>5 DEF SnapshotsHeld
  <2>3. (\E y \in Sessions : Releasing(y)') => \E y \in Sessions : Releasing(y) BY <1>6
  <2>4. (Cur(Latest) = NoKey)' => Cur(Latest) = NoKey BY <1>2 DEF Cur, Latest
  <2> QED BY <2>1, <2>2, <2>3, <2>4 DEF HInv, MarkedUnderHold
<1> QED BY <1>8, <1>9, <1>10, <1>11 DEF HInv

(* The record of a command changes: a release keeps what snapshots say of  *)
(* its ceremony, and is never the hold of a marking without an advance.    *)
LEMMA RenameSteps ==
  ASSUME IInv, HInv, NEW x \in Sessions, Rename(x)
  PROVE  HInv'
<1> DEFINE r == req[x]
           c == r.c
           new == Proposed(r)
<1>1. /\ TypeOK /\ Lawful /\ pc[x] = "written" /\ Goto(x, "renamed")
      /\ holds' = [holds EXCEPT ![c] = new]
      /\ UNCHANGED <<chain, adoption, prepared, req, held>>
  BY DEF IInv, HInv, Rename, witness
<1>2. r \in Requests /\ RequestOK(r) /\ DecisionOK(r) /\ c \in Ceremonies
  BY <1>1 DEF IInv, Requested, Decided, Writing, TypeOK, Requests
<1>3. /\ holds'[c] = new /\ \A b \in Ceremonies \ {c} : holds'[b] = holds[b]
      /\ holds \in [Ceremonies -> Records]
  BY <1>1, <1>2 DEF TypeOK
<1>4. /\ r.op # "RELEASE" => holds[c] = Absent /\ new.state = "HELD"
      /\ r.op = "RELEASE" => /\ holds[c].state = "HELD" /\ new.state = "RELEASED"
                             /\ new.kind = holds[c].kind /\ new.pred = holds[c].pred
  BY <1>1, <1>2, ProposedIs
<1>5. pc'[x] = "renamed" /\ \A y \in Sessions \ {x} : pc'[y] = pc[y] BY <1>1, GotoType
<1>6. \A y \in Sessions : Snapshot(y)' = Snapshot(y) BY <1>1, <1>5 DEF Snapshot
<1>7. \A y \in Sessions : ~Releasing(y)'
  <2>1. \A y \in Sessions \ {x} : ~Writing(y) BY <1>1 DEF IInv, OneWriter, Writing
  <2> QED BY <1>5, <2>1 DEF Releasing, Writing
<1>8. r.op = "RELEASE" => /\ Releasing(x)
                          /\ Primary(c) => Done(c, holds[c].kind, holds[c].pred)
  BY <1>1 DEF HInv, ReleasesAreDone, Releasing
<1>9. /\ \A b, kind, pred : Done(b, kind, pred)' = Done(b, kind, pred)
      /\ \A h : InRecovery(h)' = InRecovery(h)
  BY <1>1, SameChain
<1>10. \A y \in Sessions : \A h \in Snapshot(y) : h.c \in Ceremonies
  BY <1>1 DEF Snapshot, TypeOK
<1>11. Absent.state = "ABSENT" BY RecordsAre
<1>12. Lawful' BY <1>1, LawsStay
<1> HIDE DEF r, c, new
<1>13. SnapshotsLast'
  <2> SUFFICES ASSUME NEW y \in Sessions, NEW h \in Snapshot(y)
               PROVE  /\ holds'[h.c].state \in {"HELD", "RELEASED"}
                      /\ holds'[h.c].kind = h.kind /\ holds'[h.c].pred = h.pred
                      /\ holds'[h.c].state = "RELEASED" /\ Primary(h.c) => Done(h.c, h.kind, h.pred)
    BY <1>6, <1>9 DEF SnapshotsLast
  <2>1. /\ holds[h.c].state \in {"HELD", "RELEASED"}
        /\ holds[h.c].kind = h.kind /\ holds[h.c].pred = h.pred
        /\ holds[h.c].state = "RELEASED" /\ Primary(h.c) => Done(h.c, h.kind, h.pred)
        /\ h.c \in Ceremonies
    BY <1>10 DEF HInv, SnapshotsLast
  <2>2. CASE h.c # c
    <3>1. holds'[h.c] = holds[h.c] BY <1>3, <2>1, <2>2
    <3> QED BY <2>1, <3>1
  <2>3. CASE h.c = c
    <3>1. r.op = "RELEASE" BY <1>4, <1>11, <2>1, <2>3
    <3>2. /\ holds'[h.c].state = "RELEASED"
          /\ holds'[h.c].kind = h.kind /\ holds'[h.c].pred = h.pred
      BY <1>3, <1>4, <2>1, <2>3, <3>1
    <3>3. Primary(h.c) => Done(h.c, h.kind, h.pred) BY <1>8, <2>1, <2>3, <3>1
    <3> QED BY <3>2, <3>3
  <2> QED BY <2>2, <2>3
<1>14. MarkedUnderHold'
  <2> SUFFICES ASSUME Cur(Latest) = NoKey
               PROVE  RecoveryHeld' \/ SnapshotsHeld'
    BY <1>1, <1>7 DEF MarkedUnderHold, Cur, Latest
  <2>1. ASSUME NEW b \in HeldNow, Primary(b), holds[b].kind = "KEY_COMPROMISE_RECOVERY",
               InRecovery(holds[b])
        PROVE  RecoveryHeld'
    <3>1. b \in Ceremonies /\ holds[b].state = "HELD" BY DEF HeldNow
    <3>2. b # c
      <4>1. SUFFICES ASSUME b = c PROVE FALSE OBVIOUS
      <4>2. r.op = "RELEASE" BY <1>4, <1>11, <3>1, <4>1
      <4>3. Done(b, holds[b].kind, holds[b].pred) BY <1>8, <2>1, <4>1, <4>2
      <4>4. AdvancesOf(holds[b].pred) # {} BY <2>1, <4>3 DEF Done
      <4> QED BY <2>1, <4>4 DEF InRecovery
    <3>3. holds'[b] = holds[b] BY <1>3, <3>1, <3>2
    <3>4. b \in HeldNow' BY <3>1, <3>3 DEF HeldNow
    <3>5. InRecovery(holds[b])' BY <1>1, <2>1, <3>3 DEF InRecovery, Compromised, AdvancesOf, MarkedAt, Cur
    <3> QED BY <2>1, <3>3, <3>4, <3>5 DEF RecoveryHeld
  <2>2. CASE RecoveryHeld BY <2>1, <2>2 DEF RecoveryHeld
  <2>3. CASE ~RecoveryHeld
    <3>1. SnapshotsHeld /\ r.op # "RELEASE" BY <1>8, <2>3 DEF HInv, MarkedUnderHold
    <3>2. ASSUME NEW y \in Sessions, NEW h \in Snapshot(y) PROVE holds'[h.c].state = "HELD"
      <4>1. holds[h.c].state = "HELD" /\ h.c \in Ceremonies BY <1>10, <3>1 DEF SnapshotsHeld
      <4>2. h.c # c BY <1>4, <1>11, <3>1, <4>1
      <4> QED BY <1>3, <4>1, <4>2
    <3> QED BY <1>6, <3>2 DEF SnapshotsHeld
  <2> QED BY <2>2, <2>3
<1>15. ReleasesAreDone' BY <1>7 DEF ReleasesAreDone
<1> QED BY <1>12, <1>13, <1>14, <1>15 DEF HInv

LEMMA PowerLossSteps ==
  ASSUME IInv, HInv, PowerLoss
  PROVE  HInv'
<1>1. TypeOK /\ Lawful BY DEF IInv, HInv
<1>2. UNCHANGED <<chain, adoption, prepared>> /\ \A y \in Sessions : pc'[y] = "idle"
  BY DEF PowerLoss, witness
<1>3. \A y \in Sessions : Snapshot(y)' = {} /\ ~Releasing(y)' BY <1>2 DEF Snapshot, Releasing
<1>4. Lawful' BY <1>1, <1>2, LawsStay
<1> QED BY <1>3, <1>4 DEF HInv, ReleasesAreDone, SnapshotsLast, MarkedUnderHold, SnapshotsHeld

----------------------------------------------------------------------------
(* Steps of the witness.                                                   *)

LEMMA DoneStays ==
  ASSUME TypeOK, ChainOK, NEW e \in Entries, Follows(e), NEW c, NEW kind, NEW pred, Done(c, kind, pred)
  PROVE  Done(c, kind, pred)'
<1>1. Latest \in Nat /\ Latest' = Latest + 1 /\ \A i \in 1..Latest : chain'[i] = chain[i]
      /\ \A j \in 2..Latest : j - 1 \in 1..Latest /\ j \in 1..Latest /\ j \in 2..Latest'
  BY DEF TypeOK, Follows
<1>2. \A j \in 2..Latest : /\ chain'[j].kind = chain[j].kind
                           /\ Cur(j - 1)' = Cur(j - 1) /\ Reg(j - 1)' = Reg(j - 1)
  BY <1>1 DEF Cur, Reg
<1>3. kind = "ROTATION" => \E j \in 2..Latest' : chain'[j].kind = "ROTATION" /\ Cur(j - 1)' = pred
  <2> HAVE kind = "ROTATION"
  <2>1. PICK j \in 2..Latest : chain[j].kind = "ROTATION" /\ Cur(j - 1) = pred BY DEF Done
  <2> QED BY <1>1, <1>2, <2>1
<1>4. kind = "REGISTRY_MAINTENANCE" =>
        \E m \in 2..Latest' : chain'[m].kind = "MAINTENANCE" /\ c = Maintenance(Reg(m - 1)')
  <2> HAVE kind = "REGISTRY_MAINTENANCE"
  <2>1. PICK m \in 2..Latest : chain[m].kind = "MAINTENANCE" /\ c = Maintenance(Reg(m - 1)) BY DEF Done
  <2> QED BY <1>1, <1>2, <2>1
<1>5. kind = "KEY_COMPROMISE_RECOVERY" => AdvancesOf(pred)' # {}
  <2> HAVE kind = "KEY_COMPROMISE_RECOVERY"
  <2>1. PICK k \in AdvancesOf(pred) : TRUE BY DEF Done
  <2>2. k \in 2..Latest /\ chain[k].kind = "EPOCH" /\ \E j \in MarkedAt(pred) : j < k
    BY <2>1 DEF AdvancesOf, Latest
  <2>3. PICK j \in MarkedAt(pred) : j < k BY <2>2
  <2>4. j \in 2..Latest /\ chain[j].kind = "MARKING" /\ Cur(j - 1) = pred BY <2>3 DEF MarkedAt, Latest
  <2>5. j \in MarkedAt(pred)' BY <1>1, <1>2, <2>4 DEF MarkedAt, Latest
  <2>6. k \in AdvancesOf(pred)' BY <1>1, <1>2, <2>2, <2>3, <2>5 DEF AdvancesOf, Latest
  <2> QED BY <2>6
<1> QED BY <1>3, <1>4, <1>5 DEF Done, Maintenance

(* The recovery of a key is in the phase RECOVERY_MARKED until an advance, *)
(* and its marking puts it there.                                          *)
LEMMA RecoveryStays ==
  ASSUME TypeOK, NEW e \in Entries, Follows(e), e.kind # "EPOCH", NEW h, InRecovery(h)
  PROVE  InRecovery(h)'
<1>1. Latest \in Nat /\ Latest' = Latest + 1 /\ chain'[Latest + 1] = e
      /\ \A i \in 1..Latest : chain'[i] = chain[i]
      /\ \A j \in 2..Latest : j - 1 \in 1..Latest /\ j \in 1..Latest /\ j \in 2..Latest'
  BY DEF TypeOK, Follows
<1>2. \A j \in 2..Latest : chain'[j].kind = chain[j].kind /\ Cur(j - 1)' = Cur(j - 1)
  BY <1>1 DEF Cur
<1>3. PICK j \in MarkedAt(h.pred) : TRUE BY DEF InRecovery, Compromised
<1>4. j \in 2..Latest /\ chain[j].kind = "MARKING" /\ Cur(j - 1) = h.pred BY <1>3 DEF MarkedAt, Latest
<1>5. j \in MarkedAt(h.pred)' BY <1>1, <1>2, <1>4 DEF MarkedAt, Latest
<1>6. ASSUME NEW k \in 2..Latest', chain'[k].kind = "EPOCH",
             NEW l \in 2..Latest', chain'[l].kind = "MARKING", Cur(l - 1)' = h.pred, l < k
      PROVE  FALSE
  <2>1. k # Latest + 1 BY <1>1, <1>6
  <2>2. k \in 2..Latest /\ l \in 2..Latest BY <1>1, <1>6, <2>1
  <2>3. chain[k].kind = "EPOCH" /\ chain[l].kind = "MARKING" /\ Cur(l - 1) = h.pred
    BY <1>2, <1>6, <2>2
  <2>4. l \in MarkedAt(h.pred) BY <2>2, <2>3 DEF MarkedAt, Latest
  <2>5. k \in AdvancesOf(h.pred) BY <1>6, <2>2, <2>3, <2>4 DEF AdvancesOf, Latest
  <2> QED BY <2>5 DEF InRecovery
<1>7. AdvancesOf(h.pred)' = {} BY <1>6 DEF AdvancesOf, MarkedAt, Latest
<1> QED BY <1>5, <1>7 DEF InRecovery, Compromised

LEMMA MarkingStarts ==
  ASSUME TypeOK, ChainLaws, NEW e \in Entries, Follows(e), e.kind = "MARKING",
         NEW h, h.pred = Cur(Latest), Cur(Latest) # NoKey
  PROVE  InRecovery(h)'
<1>1. Latest \in Nat /\ Latest >= 1 /\ Latest' = Latest + 1 /\ chain'[Latest + 1] = e
      /\ \A i \in 1..Latest : chain'[i] = chain[i]
      /\ \A j \in 2..Latest : j - 1 \in 1..Latest /\ j \in 1..Latest
  BY DEF TypeOK, Follows
<1>2. \A j \in 2..Latest : chain'[j].kind = chain[j].kind /\ Cur(j - 1)' = Cur(j - 1)
  BY <1>1 DEF Cur
<1>3. Latest + 1 \in MarkedAt(h.pred)'
  <2>1. Latest + 1 \in 2..Latest' /\ chain'[Latest + 1].kind = "MARKING" BY <1>1
  <2>2. chain'[(Latest + 1) - 1].cur = h.pred BY <1>1 DEF Cur
  <2> QED BY <2>1, <2>2 DEF MarkedAt, Cur, Latest
<1>4. ASSUME NEW k \in 2..Latest', chain'[k].kind = "EPOCH",
             NEW l \in 2..Latest', chain'[l].kind = "MARKING", Cur(l - 1)' = h.pred, l < k
      PROVE  FALSE
  <2>1. k # Latest + 1 BY <1>1, <1>4
  <2>2. l \in 2..Latest /\ l - 1 \in 1..Latest /\ l \in 1..Latest /\ l - 1 <= l /\ l <= Latest
        /\ Latest \in 1..Latest
    BY <1>1, <1>4, <2>1
  <2>3. chain[l].kind = "MARKING" /\ Cur(l - 1) = Cur(Latest) BY <1>2, <1>4, <2>2
  <2>4. Cur(l) = NoKey BY <2>2, <2>3 DEF ChainLaws, EntryLaws
  <2>5. Cur(l) = Cur(l - 1) BY <2>2, <2>3 DEF ChainLaws, NoReturn
  <2> QED BY <2>3, <2>4, <2>5
<1>5. AdvancesOf(h.pred)' = {} BY <1>4 DEF AdvancesOf, MarkedAt, Latest
<1> QED BY <1>3, <1>5 DEF InRecovery, Compromised

(* A change of the head with this kind is covered by the store now.        *)
UnderHold(change) == \E c \in HeldNow :
  /\ Primary(c) /\ holds[c].kind = ChangeKind[change]
  /\ IF change = "EPOCH" THEN Cur(Latest) = NoKey /\ Compromised(holds[c].pred)
     ELSE holds[c].pred = Cur(Latest)

Appends(x, e) ==
  /\ Admissible(e) /\ chain' = Append(chain, e)
  /\ End(x) /\ UNCHANGED <<holds, adoption>>
  /\ prepared' = IF e.kind \in {"ROTATION", "EPOCH"} THEN NoKey ELSE prepared
  /\ e.kind # "LEDGER" => UnderHold(e.kind)
  /\ e.kind = "ROTATION" =>
       /\ holds[Successor(e.cur)].state = "HELD" /\ holds[Successor(e.cur)].kind = "ROTATION"
       /\ holds[Successor(e.cur)].pred = Cur(Latest)

LEMMA AppendSteps ==
  ASSUME IInv, HInv, NEW x \in Sessions, NEW e \in Entries, Appends(x, e)
  PROVE  HInv'
<1>1. /\ TypeOK /\ ChainOK /\ Lawful /\ ChainLaws
      /\ Admissible(e) /\ chain' = Append(chain, e) /\ End(x) /\ UNCHANGED <<holds, adoption>>
  BY DEF IInv, HInv, Lawful, Appends
<1>2. Follows(e) /\ Latest \in Nat /\ Latest >= 1 BY <1>1, Appended
<1>3. Latest' = Latest + 1 /\ Latest \in 1..Latest /\ chain'[Latest'] = e /\ e.kind \in Changes
      /\ Cur(Latest)' = e.cur /\ \A i \in 1..Latest : chain'[i] = chain[i]
  BY <1>2 DEF Follows, Entries, Cur
<1>4. Calm BY <1>1, EndIsCalm
<1>5. Lawful'
  <2>1. ChainLaws' BY <1>1, <1>2, LawsGrow
  <2>2. PreparedIsFresh'
    <3> SUFFICES ASSUME prepared' # NoKey PROVE Fresh(prepared)' BY DEF PreparedIsFresh
    <3>1. prepared' = prepared /\ e.kind \notin {"ROTATION", "EPOCH"} BY DEF Appends
    <3>2. Fresh(prepared) BY <1>1, <3>1 DEF Lawful, PreparedIsFresh
    <3>3. e.cur \in {Cur(Latest), NoKey} BY <1>1, <1>3, <3>1 DEF Admissible, Changes
    <3>4. prepared \in Ordinals /\ e.cur # prepared /\ \A i \in 1..Latest : Cur(i) # prepared
      BY <1>3, <3>1, <3>2, <3>3 DEF Fresh
    <3>5. \A i \in 1..Latest' : chain'[i].cur # prepared
      <4> TAKE i \in 1..Latest'
      <4>1. CASE i \in 1..Latest BY <1>3, <3>4, <4>1 DEF Cur
      <4>2. CASE i = Latest' BY <1>3, <3>4, <4>2
      <4> QED BY <1>2, <1>3, <4>1, <4>2
    <3> QED BY <3>1, <3>4, <3>5 DEF Fresh, Cur
  <2>3. AdoptionBinds'
    <3>1. adoption' \in Nat /\ adoption' <= Latest BY <1>1 DEF Lawful, AdoptionBinds, TypeOK
    <3> QED BY <1>2, <1>3, <3>1 DEF AdoptionBinds
  <2> QED BY <2>1, <2>2, <2>3 DEF Lawful
<1>6. \A c, kind, pred : Done(c, kind, pred) => Done(c, kind, pred)'
  BY <1>1, <1>2, DoneStays
<1>7. ReleasesAreDone'
  <2> SUFFICES ASSUME NEW y \in Sessions, NEW c, NEW kind, NEW pred,
                      Releasing(y)', c = req'[y].c, Primary(c),
                      kind = holds'[c].kind, pred = holds'[c].pred
               PROVE  Done(c, kind, pred)'
    BY DEF ReleasesAreDone, Primary, Done, AdvancesOf, MarkedAt, Cur, Reg, Maintenance
  <2>1. Releasing(y) /\ req'[y] = req[y] BY <1>4 DEF Calm
  <2>2. Done(c, kind, pred) BY <1>1, <2>1 DEF HInv, ReleasesAreDone
  <2> QED BY <1>6, <2>2
<1>8. SnapshotsLast'
  <2> SUFFICES ASSUME NEW y \in Sessions, NEW h \in Snapshot(y)'
               PROVE  /\ holds[h.c].state \in {"HELD", "RELEASED"}
                      /\ holds[h.c].kind = h.kind /\ holds[h.c].pred = h.pred
                      /\ holds[h.c].state = "RELEASED" /\ Primary(h.c) => Done(h.c, h.kind, h.pred)
    BY <1>1, <1>6 DEF SnapshotsLast
  <2>1. h \in Snapshot(y) BY <1>4 DEF Calm
  <2> QED BY <2>1 DEF HInv, SnapshotsLast
<1>9. MarkedUnderHold'
  <2> SUFFICES ASSUME e.cur = NoKey
               PROVE  \/ RecoveryHeld'
                      \/ SnapshotsHeld' /\ ~\E y \in Sessions : Releasing(y)'
    BY <1>3 DEF MarkedUnderHold, Cur
  <2>1. CASE e.kind = "MARKING"
    <3>1. PICK c \in HeldNow : /\ Primary(c) /\ holds[c].kind = "KEY_COMPROMISE_RECOVERY"
                               /\ holds[c].pred = Cur(Latest)
      BY <2>1 DEF Appends, UnderHold, ChangeKind
    <3>2. Cur(Latest) # NoKey BY <1>1, <2>1 DEF Admissible
    <3>3. PICK h : h = holds[c] /\ h = holds'[c] BY <1>1
    <3>4. InRecovery(h)' BY <1>1, <1>2, <2>1, <3>1, <3>2, <3>3, MarkingStarts
    <3>5. InRecovery(holds[c])' BY <3>3, <3>4 DEF InRecovery, Compromised, AdvancesOf, MarkedAt, Cur
    <3> QED BY <1>1, <3>1, <3>5 DEF RecoveryHeld, HeldNow
  <2>2. CASE e.kind = "LEDGER"
    <3>1. Cur(Latest) = NoKey BY <1>1, <2>2 DEF Admissible
    <3>2. CASE RecoveryHeld
      <4>1. PICK c \in HeldNow : /\ Primary(c) /\ holds[c].kind = "KEY_COMPROMISE_RECOVERY"
                                 /\ InRecovery(holds[c])
        BY <3>2 DEF RecoveryHeld
      <4>2. PICK h : h = holds[c] /\ h = holds'[c] BY <1>1
      <4>3. InRecovery(h)' BY <1>1, <1>2, <2>2, <4>1, <4>2, RecoveryStays
      <4>4. InRecovery(holds[c])' BY <4>2, <4>3 DEF InRecovery, Compromised, AdvancesOf, MarkedAt, Cur
      <4> QED BY <1>1, <4>1, <4>4 DEF RecoveryHeld, HeldNow
    <3>3. CASE ~RecoveryHeld
      <4>1. SnapshotsHeld /\ ~\E y \in Sessions : Releasing(y)
        BY <3>1, <3>3 DEF HInv, MarkedUnderHold
      <4> QED BY <1>1, <1>4, <4>1 DEF SnapshotsHeld, Calm
    <3> QED BY <3>2, <3>3
  <2>3. e.kind \in {"MARKING", "LEDGER"}
    <3>1. NoKey \notin Ordinals BY HoldStoreAssumption
    <3> QED BY <1>1, <1>3, <3>1 DEF Admissible, Changes, Fresh
  <2> QED BY <2>1, <2>2, <2>3
<1> QED BY <1>5, <1>7, <1>8, <1>9 DEF HInv

(* What a step of the witness appends is admissible, and under a hold.     *)
LEMMA WitnessAppends ==
  ASSUME IInv, HInv, NEW x \in Sessions,
         \/ ExecuteRotation(x) \/ ExecuteMaintenance(x) \/ ExecuteMarking(x)
         \/ ExecuteEpoch(x) \/ RecordLedger(x)
  PROVE  \E e \in Entries : Appends(x, e)
<1>1. /\ TypeOK /\ ChainOK /\ Lawful /\ ChainLaws /\ SnapshotsLast
      /\ Latest \in 1..Latest /\ prepared \in Keys \cup {NoKey}
      /\ Cur(Latest) \in Keys \cup {NoKey} /\ NoKey \in Keys \cup {NoKey}
  BY EntryTypes DEF IInv, HInv, Lawful, TypeOK
<1>2. ASSUME NEW h \in held[x], NEW kind, Holds(x, h, kind)
      PROVE  h \in Snapshot(x) /\ h.c \in Ceremonies /\ Primary(h.c) /\ h.kind = kind
  BY <1>1, <1>2 DEF Holds, Snapshot, Primary, TypeOK
<1>3. ASSUME NEW h \in held[x], NEW change, change # "EPOCH", Holds(x, h, ChangeKind[change]), NamesCurrent(h),
             \/ ChangeKind[change] \in {"ROTATION", "KEY_COMPROMISE_RECOVERY"}
             \/ ChangeKind[change] = "REGISTRY_MAINTENANCE" /\ h.c = Maintenance(Reg(Latest))
      PROVE  UnderHold(change) /\ Cur(Latest) # NoKey
  <2>1. h \in Snapshot(x) /\ h.c \in Ceremonies /\ Primary(h.c) /\ h.kind = ChangeKind[change]
    BY <1>2, <1>3
  <2>2. holds[h.c].state = "HELD" /\ holds[h.c].kind = h.kind /\ holds[h.c].pred = h.pred
    BY <1>1, <1>3, <2>1, StillHeld
  <2>3. h.c \in HeldNow BY <2>1, <2>2 DEF HeldNow
  <2> QED BY <1>3, <2>1, <2>2, <2>3 DEF UnderHold, NamesCurrent
<1>4. CASE ExecuteRotation(x)
  <2> DEFINE e == [kind |-> "ROTATION", cur |-> prepared, reg |-> chain[Latest].reg + 1]
  <2>1. PICK h \in held[x] : Holds(x, h, "ROTATION") /\ NamesCurrent(h) /\ h.c = Successor(prepared)
    BY <1>4 DEF ExecuteRotation
  <2>2. /\ Latest < MaxChain /\ chain' = Append(chain, e) /\ End(x)
        /\ UNCHANGED <<store, adoption>> /\ prepared' = NoKey
    BY <1>4 DEF ExecuteRotation, Advance
  <2>3. e \in Entries BY <1>1, <2>2, EntryIs DEF Changes
  <2>4. UnderHold("ROTATION") /\ Cur(Latest) # NoKey BY <1>3, <2>1 DEF ChangeKind
  <2>5. Fresh(prepared)
    <3>1. Successor(prepared) \in Ceremonies BY <1>2, <2>1
    <3>2. prepared \in Ordinals
      BY <3>1 DEF Ceremonies, Initial, Successor, Debt, Maintenance
    <3>3. prepared # NoKey BY <3>2, HoldStoreAssumption
    <3> QED BY <1>1, <3>3 DEF Lawful, PreparedIsFresh
  <2>6. Admissible(e) BY <2>4, <2>5 DEF Admissible, Reg
  <2>7. /\ holds[Successor(prepared)].state = "HELD" /\ holds[Successor(prepared)].kind = "ROTATION"
        /\ holds[Successor(prepared)].pred = Cur(Latest)
    <3>1. h \in Snapshot(x) /\ Primary(h.c) /\ h.kind = "ROTATION" BY <1>2, <2>1
    <3>2. holds[h.c].state = "HELD" /\ holds[h.c].kind = h.kind /\ holds[h.c].pred = h.pred
      BY <1>1, <2>1, <3>1, StillHeld
    <3> QED BY <2>1, <3>1, <3>2 DEF NamesCurrent
  <2> QED BY <2>2, <2>3, <2>4, <2>6, <2>7 DEF Appends, store
<1>5. CASE ExecuteMaintenance(x)
  <2> DEFINE e == [kind |-> "MAINTENANCE", cur |-> Cur(Latest), reg |-> chain[Latest].reg + 1]
  <2>1. PICK h \in held[x] : /\ Holds(x, h, "REGISTRY_MAINTENANCE") /\ NamesCurrent(h)
                             /\ h.c = Maintenance(chain[Latest].reg)
    BY <1>5 DEF ExecuteMaintenance
  <2>2. /\ Latest < MaxChain /\ chain' = Append(chain, e) /\ End(x)
        /\ UNCHANGED <<store, adoption, prepared>>
    BY <1>5 DEF ExecuteMaintenance, Advance
  <2>3. e \in Entries BY <1>1, <2>2, EntryIs DEF Changes
  <2>4. UnderHold("MAINTENANCE") /\ Cur(Latest) # NoKey BY <1>3, <2>1 DEF ChangeKind, Reg
  <2>5. Admissible(e) BY <2>4 DEF Admissible, Reg
  <2> QED BY <2>2, <2>3, <2>4, <2>5 DEF Appends, store
<1>6. CASE ExecuteMarking(x)
  <2> DEFINE e == [kind |-> "MARKING", cur |-> NoKey, reg |-> chain[Latest].reg + 1]
  <2>1. PICK h \in held[x] : Holds(x, h, "KEY_COMPROMISE_RECOVERY") /\ NamesCurrent(h)
    BY <1>6 DEF ExecuteMarking
  <2>2. /\ Latest < MaxChain /\ chain' = Append(chain, e) /\ End(x)
        /\ UNCHANGED <<store, adoption, prepared>>
    BY <1>6 DEF ExecuteMarking, Advance
  <2>3. e \in Entries BY <1>1, <2>2, EntryIs DEF Changes
  <2>4. UnderHold("MARKING") /\ Cur(Latest) # NoKey BY <1>3, <2>1 DEF ChangeKind
  <2>5. Admissible(e) BY <2>4 DEF Admissible, Reg
  <2> QED BY <2>2, <2>3, <2>4, <2>5 DEF Appends, store
<1>7. CASE ExecuteEpoch(x)
  <2> DEFINE e == [kind |-> "EPOCH", cur |-> prepared, reg |-> chain[Latest].reg + 1]
  <2>1. PICK h \in held[x] : /\ Holds(x, h, "KEY_COMPROMISE_RECOVERY") /\ Compromised(h.pred)
                             /\ adoption = Latest /\ prepared # NoKey
    BY <1>7 DEF ExecuteEpoch
  <2>2. /\ Latest < MaxChain /\ chain' = Append(chain, e) /\ End(x)
        /\ UNCHANGED <<store, adoption>> /\ prepared' = NoKey
    BY <1>7 DEF ExecuteEpoch, Advance
  <2>3. e \in Entries BY <1>1, <2>2, EntryIs DEF Changes
  <2>4. Fresh(prepared) /\ Cur(Latest) = NoKey
    BY <1>1, <2>1 DEF Lawful, PreparedIsFresh, AdoptionBinds
  <2>5. UnderHold("EPOCH")
    <3>1. CASE RecoveryHeld
      BY <2>4, <3>1 DEF RecoveryHeld, InRecovery, UnderHold, ChangeKind
    <3>2. CASE SnapshotsHeld
      <4>1. h \in Snapshot(x) /\ h.c \in Ceremonies /\ Primary(h.c) /\ h.kind = "KEY_COMPROMISE_RECOVERY"
        BY <1>2, <2>1
      <4>2. holds[h.c].state = "HELD" /\ holds[h.c].kind = h.kind /\ holds[h.c].pred = h.pred
        BY <1>1, <3>2, <4>1 DEF SnapshotsHeld, SnapshotsLast
      <4>3. h.c \in HeldNow BY <4>1, <4>2 DEF HeldNow
      <4> QED BY <2>1, <2>4, <4>1, <4>2, <4>3 DEF UnderHold, ChangeKind
    <3> QED BY <2>4, <3>1, <3>2 DEF HInv, MarkedUnderHold
  <2>6. Admissible(e) BY <2>4 DEF Admissible, Reg
  <2> QED BY <2>2, <2>3, <2>5, <2>6 DEF Appends, store
<1>8. CASE RecordLedger(x)
  <2> DEFINE e == [kind |-> "LEDGER", cur |-> Cur(Latest), reg |-> chain[Latest].reg]
  <2>1. /\ Latest < MaxChain /\ chain' = Append(chain, e) /\ End(x)
        /\ UNCHANGED <<store, adoption, prepared>>
    BY <1>8 DEF RecordLedger, Advance
  <2>2. e \in Entries BY <1>1, <2>1, EntryIs DEF Changes
  <2>3. Admissible(e) BY DEF Admissible, Reg
  <2> QED BY <2>1, <2>2, <2>3 DEF Appends, store
<1> QED BY <1>4, <1>5, <1>6, <1>7, <1>8

LEMMA InitHolds == Init => HInv
<1> SUFFICES ASSUME Init PROVE HInv OBVIOUS
<1>1. /\ Latest = 1 /\ chain[1] = [kind |-> "GENESIS", cur |-> InitialKey, reg |-> 1]
      /\ adoption = 0 /\ prepared = NoKey /\ \A y \in Sessions : pc[y] = "idle"
  BY DEF Init, Latest
<1>2. InitialKey # NoKey BY HoldStoreAssumption
<1>3. Cur(1) = InitialKey BY <1>1 DEF Cur
<1>4. ChainLaws
  <2>1. (\A i \in 1..Latest : i = 1) /\ (\A j \in 2..Latest : FALSE) BY <1>1
  <2>2. EntryLaws /\ NoReturn /\ KeyLasts BY <2>1 DEF EntryLaws, NoReturn, KeyLasts
  <2>3. RegsGrow
    <3>1. Reg(1) = 1 BY <1>1 DEF Reg
    <3>2. \A i, j \in 1..Latest : Reg(i) <= Reg(j) /\ Cur(i) = Cur(j) BY <2>1, <3>1
    <3> QED BY <3>2 DEF RegsGrow
  <2>4. MarkedBefore BY <1>2, <1>3, <2>1 DEF MarkedBefore
  <2> QED BY <2>2, <2>3, <2>4 DEF ChainLaws
<1>5. PreparedIsFresh /\ AdoptionBinds BY <1>1 DEF PreparedIsFresh, AdoptionBinds
<1>6. \A y \in Sessions : Snapshot(y) = {} /\ ~Releasing(y) BY <1>1 DEF Snapshot, Releasing
<1> QED BY <1>4, <1>5, <1>6
        DEF HInv, Lawful, ReleasesAreDone, SnapshotsLast, MarkedUnderHold, SnapshotsHeld

LEMMA StepsHold == IInv /\ HInv /\ [Next]_vars => HInv'
<1> SUFFICES ASSUME IInv, HInv, [Next]_vars PROVE HInv' OBVIOUS
<1>1. ASSUME NEW x \in Sessions, SessionStep(x) PROVE HInv'
  <2>1. CASE \/ ExecuteRotation(x) \/ ExecuteMaintenance(x) \/ ExecuteMarking(x)
             \/ ExecuteEpoch(x) \/ RecordLedger(x)
    <3>1. PICK e \in Entries : Appends(x, e) BY <2>1, WitnessAppends
    <3> QED BY <3>1, AppendSteps
  <2>2. CASE Publish(x) BY <2>2, CalmSteps, ReleaseStarts
  <2> QED BY <1>1, <2>1, <2>2, CalmSteps, CustodySteps, ObserveSteps, RenameSteps DEF SessionStep
<1>2. CASE Approve \/ Destroy \/ UNCHANGED vars BY <1>2, OwnerSteps
<1>3. CASE PowerLoss BY <1>3, PowerLossSteps
<1> QED BY <1>1, <1>2, <1>3 DEF Next

LEMMA HoldsInvariance == Spec => [](IInv /\ HInv)
<1>1. Spec => []IInv BY Invariance
<1>2. Init => HInv BY InitHolds
<1>3. IInv /\ HInv /\ [Next]_vars => HInv' BY StepsHold
<1> QED BY <1>1, <1>2, <1>3, PTL DEF Spec

(* execute_registry_head_advance and execute_epoch_advance judge a         *)
(* snapshot that was taken before the store's lock was given up: whatever  *)
(* was released, killed or lost since, a record of that kind of change is  *)
(* HELD in the store when the head changes.                                *)
THEOREM ChangesAreUnderHold == Spec => ChangeUnderHold
<1>1. ASSUME IInv, HInv, Next
      PROVE  \A k \in (Latest + 1)..Len(chain') : chain'[k].kind # "LEDGER" => UnderHold(chain'[k].kind)
  <2>1. TypeOK /\ chain \in Seq(Entries) /\ Latest \in Nat BY <1>1 DEF IInv, TypeOK
  <2>2. CASE chain' = chain BY <2>1, <2>2 DEF Latest
  <2>3. ASSUME NEW x \in Sessions, NEW e \in Entries, Appends(x, e)
        PROVE  \A k \in (Latest + 1)..Len(chain') : chain'[k].kind # "LEDGER" => UnderHold(chain'[k].kind)
    <3>1. Follows(e) BY <2>1, <2>3, Appended DEF Appends
    <3>2. Len(chain') = Latest + 1 /\ chain'[Latest + 1] = e BY <3>1 DEF Follows, Latest
    <3>3. \A k \in (Latest + 1)..Len(chain') : k = Latest + 1 BY <2>1, <3>2
    <3> QED BY <2>3, <3>2, <3>3 DEF Appends
  <2>4. ASSUME NEW x \in Sessions, SessionStep(x)
        PROVE  chain' = chain \/ \E e \in Entries : Appends(x, e)
    <3>1. CASE \/ ExecuteRotation(x) \/ ExecuteMaintenance(x) \/ ExecuteMarking(x)
               \/ ExecuteEpoch(x) \/ RecordLedger(x)
      BY <1>1, <3>1, WitnessAppends
    <3>2. CASE Prepare(x) \/ AdoptEpoch(x) \/ Observe(x) \/ Rename(x) \/ Publish(x)
      BY <3>2 DEF Prepare, AdoptEpoch, Observe, Rename, Publish, witness
    <3>3. CASE Refuse(x) \/ Sync(x) \/ Finish(x) \/ GiveUp(x) \/ Kill(x)
      BY <2>1, <3>3, StoreStepIsCalm
    <3>4. CASE BeginInitial(x) \/ BeginSuccessor(x) \/ BeginMaintenance(x) \/ BeginDebt(x) \/ BeginRelease(x)
      BY <3>4 DEF BeginInitial, BeginSuccessor, BeginMaintenance, BeginDebt, BeginRelease, Begin, witness
    <3> QED BY <2>4, <3>1, <3>2, <3>3, <3>4 DEF SessionStep
  <2>5. CASE Approve \/ Destroy \/ PowerLoss
    BY <2>2, <2>5 DEF Approve, Destroy, PowerLoss, witness
  <2> QED BY <1>1, <2>2, <2>3, <2>4, <2>5 DEF Next
<1>2. ASSUME IInv, HInv, [Next]_vars
      PROVE  [\A k \in (Latest + 1)..Len(chain') : chain'[k].kind # "LEDGER" =>
                \E c \in HeldNow :
                  /\ c[1] # "DEBT" /\ holds[c].kind = ChangeKind[chain'[k].kind]
                  /\ IF chain'[k].kind = "EPOCH" THEN Cur(Latest) = NoKey /\ Compromised(holds[c].pred)
                     ELSE holds[c].pred = Cur(Latest)]_vars
  BY <1>1, <1>2 DEF UnderHold, Primary
<1> QED BY <1>2, HoldsInvariance, PTL DEF Spec, ChangeUnderHold

----------------------------------------------------------------------------
(* What a record says fits its ceremony, in the store and in the request   *)
(* of a command that is to create it.                                      *)
Fits(c, h) ==
  /\ h.at \in 1..Latest
  /\ c = Initial => h.kind = "INITIAL_CUSTODY" /\ h.pred = NoKey /\ h.at = 1
  /\ c[1] = "SUCCESSOR" => h.pred = Cur(h.at) /\ h.pred # NoKey
  /\ c[1] = "MAINTENANCE" => /\ h.kind = "REGISTRY_MAINTENANCE" /\ c[2] = Reg(h.at)
                             /\ h.pred = Cur(h.at) /\ h.pred # NoKey

Creating(x) == pc[x] \in {"begun", "writing", "written"} /\ req[x].op # "RELEASE"

Fitting ==
  /\ \A d \in disk : \A c \in Ceremonies : d[c].state = "HELD" => Fits(c, d[c])
  /\ \A x \in Sessions : Creating(x) => /\ Fits(req[x].c, req[x])
                                        /\ req[x].op = "DEBT" => ~Primary(req[x].c)

(* A power loss only takes a record back to an earlier stage.              *)
Staged == \A d \in disk : \A c \in Ceremonies : Keeps(d[c], holds[c])

(* The record of a successor that is current is the one of the change that *)
(* made it so, wherever it is HELD, and no command creates it any more.    *)
(* Of an epoch advance this is so when there is one successor key.         *)
Executed(e) ==
  /\ chain[e].kind \in {"ROTATION", "EPOCH"} /\ Cur(e) = Cur(Latest)
  /\ chain[e].kind = "EPOCH" => OneSuccessor

ExecutedUnder(e, h) ==
  /\ chain[e].kind = "ROTATION" => h.kind = "ROTATION" /\ h.pred = Cur(e - 1)
  /\ chain[e].kind = "EPOCH" =>
       /\ h.kind = "KEY_COMPROMISE_RECOVERY"
       /\ \A m \in 2..e : chain[m].kind = "MARKING" => h.pred = Cur(m - 1)

Agreed == \A e \in 1..Latest : Executed(e) =>
  /\ \A d \in disk : d[Successor(Cur(e))].state = "HELD" => ExecutedUnder(e, d[Successor(Cur(e))])
  /\ \A x \in Sessions : Creating(x) /\ req[x].c = Successor(Cur(e)) =>
       holds[Successor(Cur(e))] # Absent

RInv == Fitting /\ Staged /\ Agreed

LEMMA FitsStays ==
  ASSUME TypeOK, Grows, NEW c, NEW h, Fits(c, h)
  PROVE  Fits(c, h)'
<1>1. Latest \in Nat /\ Latest' \in Nat /\ Latest <= Latest' /\ \A i \in 1..Latest : chain'[i] = chain[i]
  BY EntriesStay DEF TypeOK, Latest
<1>2. h.at \in 1..Latest /\ Cur(h.at)' = Cur(h.at) /\ Reg(h.at)' = Reg(h.at)
  BY <1>1 DEF Fits, Cur, Reg
<1> QED BY <1>1, <1>2 DEF Fits, Initial

(* Steps that create nothing and keep what the store may be.               *)
Idle == \A y \in Sessions : Creating(y)' => Creating(y) /\ req'[y] = req[y]

LEMMA FittingStays ==
  ASSUME TypeOK, Grows, Fitting, disk' \subseteq disk, Idle
  PROVE  Fitting'
<1>1. \A c, h : Fits(c, h) => Fits(c, h)' BY FitsStays
<1>2. ASSUME NEW d \in disk', NEW c \in Ceremonies, d[c].state = "HELD" PROVE Fits(c, d[c])'
  <2>1. PICK h : h = d[c] OBVIOUS
  <2>2. Fits(c, h) BY <1>2, <2>1 DEF Fitting
  <2> QED BY <1>1, <2>1, <2>2
<1>3. ASSUME NEW y \in Sessions, Creating(y)'
      PROVE  Fits(req[y].c, req[y])' /\ (req'[y].op = "DEBT" => ~Primary(req'[y].c))
  <2>1. Creating(y) /\ req'[y] = req[y] BY <1>3 DEF Idle
  <2>2. PICK h : h = req[y] /\ h = req'[y] BY <2>1
  <2>3. Fits(h.c, h) /\ (h.op = "DEBT" => ~Primary(h.c)) BY <2>1, <2>2 DEF Fitting
  <2>4. Fits(h.c, h)' BY <1>1, <2>3
  <2> QED BY <2>2, <2>3, <2>4 DEF Fits, Initial
<1> QED BY <1>2, <1>3 DEF Fitting, Primary

LEMMA IdleKeeps ==
  ASSUME TypeOK, RInv, UNCHANGED <<chain, holds>>, disk' \subseteq disk, Idle
  PROVE  RInv'
<1>1. Fitting' BY FittingStays DEF RInv, Grows
<1>2. Staged' BY DEF RInv, Staged
<1>3. Agreed'
  <2> SUFFICES ASSUME NEW e \in 1..Latest, Executed(e)
               PROVE  /\ \A d \in disk' : d[Successor(Cur(e))].state = "HELD" =>
                           ExecutedUnder(e, d[Successor(Cur(e))])
                      /\ \A y \in Sessions : Creating(y)' /\ req'[y].c = Successor(Cur(e)) =>
                           holds[Successor(Cur(e))] # Absent
    BY DEF Agreed, Executed, ExecutedUnder, Cur, Latest, Successor, Absent
  <2> QED BY DEF RInv, Agreed, Idle
<1> QED BY <1>1, <1>2, <1>3 DEF RInv

(* A command asks for the current key and registry, and never for the hold *)
(* of the successor that is current.                                       *)
LEMMA BeginFits ==
  ASSUME IInv, RInv, NEW x \in Sessions, NEW r \in Requests, Begin(x, r),
         r.op # "RELEASE" =>
           /\ Fits(r.c, r) /\ r.c # Successor(Cur(Latest))
           /\ r.op = "DEBT" => ~Primary(r.c)
  PROVE  RInv'
<1>1. TypeOK BY DEF IInv
<1>2. /\ Goto(x, "begun") /\ req' = [req EXCEPT ![x] = r]
      /\ UNCHANGED <<chain, holds, disk>>
  BY DEF Begin, witness, store
<1>3. /\ pc'[x] = "begun" /\ req'[x] = r
      /\ \A y \in Sessions \ {x} : pc'[y] = pc[y] /\ req'[y] = req[y]
  BY <1>1, <1>2, GotoType DEF TypeOK
<1>4. \A y \in Sessions \ {x} : Creating(y)' => Creating(y) /\ req'[y] = req[y]
  BY <1>3 DEF Creating
<1>5. Creating(x)' => r.op # "RELEASE" BY <1>3 DEF Creating
<1>6. Fitting'
  <2>1. ASSUME NEW y \in Sessions, Creating(y)'
        PROVE  Fits(req'[y].c, req'[y]) /\ (req'[y].op = "DEBT" => ~Primary(req'[y].c))
    <3>1. CASE y = x BY <1>3, <1>5, <2>1, <3>1
    <3>2. CASE y # x BY <1>4, <2>1, <3>2 DEF RInv, Fitting
    <3> QED BY <3>1, <3>2
  <2>2. \A d \in disk' : \A c \in Ceremonies : d[c].state = "HELD" => Fits(c, d[c])
    BY <1>2 DEF RInv, Fitting
  <2> QED BY <1>2, <2>1, <2>2 DEF Fitting, Fits, Primary, Cur, Reg, Latest, Initial
<1>7. Staged' BY <1>2 DEF RInv, Staged
<1>8. Agreed'
  <2> SUFFICES ASSUME NEW e \in 1..Latest, Executed(e)
               PROVE  /\ \A d \in disk' : d[Successor(Cur(e))].state = "HELD" =>
                           ExecutedUnder(e, d[Successor(Cur(e))])
                      /\ \A y \in Sessions : Creating(y)' /\ req'[y].c = Successor(Cur(e)) =>
                           holds'[Successor(Cur(e))] # Absent
    <3>1. UNCHANGED chain BY <1>2
    <3> QED BY <3>1 DEF Agreed, Executed, ExecutedUnder, Cur, Latest, Successor, Absent
  <2>1. Cur(e) = Cur(Latest) BY DEF Executed
  <2>2. ~(Creating(x)' /\ req'[x].c = Successor(Cur(e))) BY <1>3, <1>5, <2>1
  <2> QED BY <1>2, <1>4, <2>2 DEF RInv, Agreed
<1> QED BY <1>6, <1>7, <1>8 DEF RInv

LEMMA BeginsFit ==
  ASSUME IInv, HInv, RInv, NEW x \in Sessions,
         \/ BeginInitial(x) \/ BeginSuccessor(x) \/ BeginMaintenance(x)
         \/ BeginDebt(x) \/ BeginRelease(x)
  PROVE  RInv'
<1>1. /\ TypeOK /\ ChainLaws /\ Latest \in 1..Latest /\ Latest \in 1..MaxChain /\ 1 \in 1..MaxChain
      /\ 1 \in 1..Latest
      /\ Cur(Latest) \in Keys \cup {NoKey} /\ chain[Latest].reg \in 1..MaxChain
  BY EntryTypes, HoldStoreAssumption DEF IInv, HInv, Lawful, TypeOK
<1>2. \A i : i \in 1..MaxChain => i \in 0..MaxChain OBVIOUS
<1>3. CASE BeginInitial(x)
  <2> DEFINE r == [Request("INITIAL", Initial, "INITIAL_CUSTODY", NoKey, 0) EXCEPT !.at = 1]
  <2>1. Begin(x, r) BY <1>3 DEF BeginInitial
  <2>2. r = [op |-> "INITIAL", c |-> Initial, kind |-> "INITIAL_CUSTODY", pred |-> NoKey,
             at |-> 1, approved |-> 0]
    BY DEF Request
  <2>3. r \in Requests BY <1>1, <1>2, <2>2, CeremoniesAre, HoldStoreAssumption DEF Requests, Kinds
  <2>4. Fits(r.c, r) /\ r.c # Successor(Cur(Latest)) /\ r.op = "INITIAL"
    BY <1>1, <2>2 DEF Fits, Initial, Successor
  <2> QED BY <2>1, <2>3, <2>4, BeginFits
<1>4. CASE BeginSuccessor(x)
  <2>1. PICK n \in Ordinals, kind \in {"ROTATION", "KEY_COMPROMISE_RECOVERY"} :
          /\ Cur(Latest) \notin {NoKey, n}
          /\ Begin(x, Request("CREATE", Successor(n), kind, Cur(Latest), 0))
    BY <1>4 DEF BeginSuccessor
  <2> DEFINE r == Request("CREATE", Successor(n), kind, Cur(Latest), 0)
  <2>2. r \in Requests BY <1>1, <1>2, CeremoniesAre, HoldStoreAssumption DEF Request, Requests, Kinds
  <2>3. Fits(r.c, r) /\ r.c # Successor(Cur(Latest)) /\ r.op = "CREATE"
    BY <1>1, <2>1 DEF Fits, Initial, Successor, Request
  <2> QED BY <2>1, <2>2, <2>3, BeginFits
<1>5. CASE BeginMaintenance(x)
  <2> DEFINE r == Request("CREATE", Maintenance(chain[Latest].reg), "REGISTRY_MAINTENANCE", Cur(Latest), 0)
  <2>1. Cur(Latest) # NoKey /\ Begin(x, r) BY <1>5 DEF BeginMaintenance
  <2>2. r \in Requests BY <1>1, <1>2, CeremoniesAre, HoldStoreAssumption DEF Request, Requests, Kinds
  <2>3. Fits(r.c, r) /\ r.c # Successor(Cur(Latest)) /\ r.op = "CREATE"
    BY <1>1, <2>1 DEF Fits, Initial, Successor, Maintenance, Request, Reg
  <2> QED BY <2>1, <2>2, <2>3, BeginFits
<1>6. CASE BeginDebt(x)
  <2>1. PICK n \in Ordinals : Begin(x, Request("DEBT", Debt(n), "NONE", NoKey, 0)) BY <1>6 DEF BeginDebt
  <2> DEFINE r == Request("DEBT", Debt(n), "NONE", NoKey, 0)
  <2>2. r \in Requests BY <1>1, <1>2, CeremoniesAre, HoldStoreAssumption DEF Request, Requests
  <2>3. Fits(r.c, r) /\ r.c # Successor(Cur(Latest)) /\ ~Primary(r.c)
    BY <1>1 DEF Fits, Initial, Successor, Debt, Request, Primary
  <2> QED BY <2>1, <2>2, <2>3, BeginFits
<1>7. CASE BeginRelease(x)
  <2>1. PICK c \in HeldNow, digest \in approved : Begin(x, Request("RELEASE", c, "NONE", NoKey, digest))
    BY <1>7 DEF BeginRelease
  <2> DEFINE r == Request("RELEASE", c, "NONE", NoKey, digest)
  <2>2. c \in Ceremonies /\ digest \in 1..MaxChain BY <1>1, HoldStoreAssumption DEF HeldNow, TypeOK
  <2>3. r \in Requests /\ r.op = "RELEASE" BY <1>1, <1>2, <2>2 DEF Request, Requests
  <2> QED BY <2>1, <2>3, BeginFits
<1> QED BY <1>3, <1>4, <1>5, <1>6, <1>7

LEMMA IdleSteps ==
  ASSUME IInv, RInv, NEW x \in Sessions,
         \/ Refuse(x) \/ Publish(x) \/ Sync(x) \/ Finish(x) \/ Observe(x) \/ GiveUp(x)
         \/ Prepare(x) \/ AdoptEpoch(x) \/ Kill(x)
  PROVE  RInv'
<1>1. TypeOK /\ holds \in disk BY DEF IInv, TypeOK
<1>2. UNCHANGED <<chain, holds>> /\ disk' \subseteq disk
  BY <1>1 DEF Refuse, Publish, Sync, Finish, Observe, GiveUp, Prepare, AdoptEpoch, Kill, witness, store
<1>3. End(x) => Idle
  <2>1. HAVE End(x)
  <2>2. pc'[x] = "idle" /\ \A y \in Sessions \ {x} : pc'[y] = pc[y] /\ req'[y] = req[y]
    BY <1>1, <2>1, EndType
  <2> QED BY <2>2 DEF Idle, Creating
<1>4. ASSUME \/ Refuse(x) \/ Finish(x) \/ GiveUp(x) \/ Prepare(x) \/ AdoptEpoch(x) \/ Kill(x)
      PROVE  Idle
  BY <1>3, <1>4 DEF Refuse, Finish, GiveUp, Prepare, AdoptEpoch, Kill
<1>5. ASSUME NEW step \in {"observed", "writing", "written"}, Goto(x, step), req' = req,
             step # "observed" => pc[x] \in {"begun", "writing"}
      PROVE  Idle
  <2>1. pc'[x] = step /\ \A y \in Sessions \ {x} : pc'[y] = pc[y] BY <1>1, <1>5, GotoType
  <2> QED BY <1>5, <2>1 DEF Idle, Creating
<1>6. ASSUME Publish(x) PROVE Idle BY <1>5, <1>6 DEF Publish
<1>8. ASSUME Sync(x) PROVE Idle BY <1>5, <1>8 DEF Sync
<1>9. ASSUME Observe(x) PROVE Idle BY <1>5, <1>9 DEF Observe
<1>7. Idle BY <1>4, <1>6, <1>8, <1>9
<1> QED BY <1>1, <1>2, <1>7, IdleKeeps

(* The record that a command renames fits, and follows the one it replaces.*)
LEMMA RenameFits ==
  ASSUME IInv, HInv, RInv, NEW x \in Sessions, Rename(x)
  PROVE  RInv'
<1> DEFINE r == req[x]
           c == r.c
           new == Proposed(r)
<1>1. /\ TypeOK /\ pc[x] = "written" /\ Goto(x, "renamed")
      /\ holds' = [holds EXCEPT ![c] = new]
      /\ UNCHANGED <<chain, req>>
  BY DEF IInv, Rename, witness
<1>2. r \in Requests /\ RequestOK(r) /\ DecisionOK(r) /\ c \in Ceremonies /\ scratch = "whole"
  BY <1>1 DEF IInv, Requested, Decided, Writing, TypeOK, Requests
<1>3. disk' = disk \cup {[d EXCEPT ![c] = new] : d \in disk} BY <1>2 DEF Rename
<1>4. /\ new \in Full /\ new # Absent
      /\ r.op # "RELEASE" => holds[c] = Absent /\ new.state = "HELD"
      /\ r.op = "RELEASE" => /\ holds[c].state = "HELD" /\ new.state = "RELEASED"
                             /\ new.kind = holds[c].kind /\ new.pred = holds[c].pred
  BY <1>1, <1>2, ProposedIs, RecordsAre
<1>5. pc'[x] = "renamed" /\ \A y \in Sessions \ {x} : pc'[y] = pc[y] BY <1>1, GotoType
<1>6. \A y \in Sessions : Creating(y)' => Creating(y) /\ req'[y] = req[y] /\ y # x
  BY <1>1, <1>5 DEF Creating
<1>7. holds'[c] = new /\ \A b \in Ceremonies \ {c} : holds'[b] = holds[b]
  BY <1>1, <1>2 DEF TypeOK
<1>8. ASSUME NEW d \in disk'
      PROVE  \E old \in disk : /\ d[c] = new \/ d[c] = old[c]
                               /\ \A b \in Ceremonies \ {c} : d[b] = old[b]
  <2>1. CASE d \in disk BY <2>1
  <2>2. CASE d \notin disk
    <3>1. PICK old \in disk : d = [old EXCEPT ![c] = new] BY <1>3, <2>2
    <3>2. old \in [Ceremonies -> Records] BY <1>1 DEF TypeOK
    <3> QED BY <1>2, <3>1, <3>2
  <2> QED BY <2>1, <2>2
<1>9. new.state = "HELD" => /\ Fits(c, new) /\ Creating(x)
                            /\ r.op = "DEBT" => ~Primary(c)
  <2> HAVE new.state = "HELD"
  <2>1. r.op # "RELEASE" BY <1>4
  <2>2. Creating(x) BY <1>1, <2>1 DEF Creating
  <2>3. Fits(c, r) /\ (r.op = "DEBT" => ~Primary(c)) BY <2>2 DEF RInv, Fitting
  <2>4. CASE r.op \in {"INITIAL", "CREATE"}
    <3>1. new = Record("HELD", r.kind, r.pred, r.at) BY <2>4 DEF Proposed
    <3> QED BY <2>2, <2>3, <3>1 DEF Fits, Record
  <2>5. CASE r.op = "DEBT"
    <3> DEFINE h == holds[Successor(r.c[2])]
               g == [h EXCEPT !.state = "HELD"]
    <3>1. h \in Full
      <4>1. h.state = "RELEASED" /\ h \in Records
        BY <1>1, <1>2, <2>5, CeremoniesAre DEF DecisionOK, RequestOK, TypeOK
      <4> QED BY <4>1, RecordsAre
    <3>2. g \in Full BY <3>1 DEF Full
    <3>3. new = [g EXCEPT !.at = r.at] BY <2>5 DEF Proposed
    <3> HIDE DEF g
    <3>4. new.at = r.at BY <3>2, <3>3 DEF Full
    <3>5. c[1] = "DEBT" /\ c # Initial BY <2>3, <2>5 DEF Primary, Initial
    <3> QED BY <2>2, <2>3, <2>5, <3>4, <3>5 DEF Fits
  <2> QED BY <1>2, <2>1, <2>4, <2>5 DEF RequestOK, Requests
<1> HIDE DEF r, c, new
<1>10. Fitting'
  <2>1. ASSUME NEW d \in disk', NEW b \in Ceremonies, d[b].state = "HELD" PROVE Fits(b, d[b])
    <3>1. PICK old \in disk : /\ d[c] = new \/ d[c] = old[c]
                              /\ \A a \in Ceremonies \ {c} : d[a] = old[a]
      BY <1>8
    <3>2. CASE d[b] = old[b] BY <2>1, <3>2 DEF RInv, Fitting
    <3>3. CASE d[b] # old[b] BY <1>9, <2>1, <3>1, <3>3
    <3> QED BY <3>2, <3>3
  <2>2. \A y \in Sessions : Creating(y)' => /\ Fits(req[y].c, req[y])
                                            /\ req[y].op = "DEBT" => ~Primary(req[y].c)
    BY <1>6 DEF RInv, Fitting
  <2> QED BY <1>1, <2>1, <2>2 DEF Fitting, Fits, Primary, Cur, Reg, Latest, Initial
<1>11. Staged'
  <2> SUFFICES ASSUME NEW d \in disk', NEW b \in Ceremonies PROVE Keeps(d[b], holds'[b])
    BY DEF Staged
  <2>1. PICK old \in disk : /\ d[c] = new \/ d[c] = old[c]
                            /\ \A a \in Ceremonies \ {c} : d[a] = old[a]
    BY <1>8
  <2>2. Keeps(old[b], holds[b]) BY DEF RInv, Staged
  <2>3. CASE b # c BY <1>7, <2>1, <2>2, <2>3
  <2>4. CASE b = c /\ d[b] = new BY <1>7, <2>4 DEF Keeps
  <2>5. CASE b = c /\ d[b] = old[b]
    <3>1. Absent.state = "ABSENT" BY RecordsAre
    <3>2. r.op # "RELEASE" => old[b] = Absent BY <1>4, <2>2, <2>5, <3>1 DEF Keeps
    <3>3. r.op = "RELEASE" => old[b] = Absent \/ old[b] = holds[b] BY <1>4, <2>2, <2>5 DEF Keeps
    <3> QED BY <1>4, <1>7, <2>5, <3>2, <3>3 DEF Keeps
  <2> QED BY <2>1, <2>3, <2>4, <2>5
<1>12. Agreed'
  <2> SUFFICES ASSUME NEW e \in 1..Latest, Executed(e)
               PROVE  /\ \A d \in disk' : d[Successor(Cur(e))].state = "HELD" =>
                           ExecutedUnder(e, d[Successor(Cur(e))])
                      /\ \A y \in Sessions : Creating(y)' /\ req'[y].c = Successor(Cur(e)) =>
                           holds'[Successor(Cur(e))] # Absent
    BY <1>1 DEF Agreed, Executed, ExecutedUnder, Cur, Latest, Successor, Absent
  <2> DEFINE b == Successor(Cur(e))
  <2>0. /\ \A d \in disk : d[b].state = "HELD" => ExecutedUnder(e, d[b])
        /\ \A y \in Sessions : Creating(y) /\ req[y].c = b => holds[b] # Absent
    BY DEF RInv, Agreed
  <2> HIDE DEF b
  <2>1. ~(b = c /\ new.state = "HELD") BY <1>4, <1>9, <2>0 DEF c, r
  <2>2. ASSUME NEW d \in disk', d[b].state = "HELD" PROVE ExecutedUnder(e, d[b])
    <3>1. PICK old \in disk : /\ d[c] = new \/ d[c] = old[c]
                              /\ \A a \in Ceremonies \ {c} : d[a] = old[a]
      BY <1>8
    <3>2. d[b] = old[b]
      <4>1. CASE b = c BY <2>1, <2>2, <3>1, <4>1
      <4>2. CASE b # c /\ b \in Ceremonies BY <3>1, <4>2
      <4>3. b \in Ceremonies
        <5>1. chain[1].kind = "GENESIS" /\ Latest \in Nat /\ chain[e].kind \in {"ROTATION", "EPOCH"}
          BY <1>1 DEF IInv, ChainOK, TypeOK, Executed
        <5>2. e \in 2..Latest BY <5>1
        <5>3. Cur(e) \in Ordinals BY <5>1, <5>2 DEF HInv, Lawful, ChainLaws, EntryLaws
        <5> QED BY <5>3, CeremoniesAre DEF b
      <4> QED BY <4>1, <4>2, <4>3
    <3> QED BY <2>0, <2>2, <3>2
  <2>3. ASSUME NEW y \in Sessions, Creating(y)', req'[y].c = b PROVE holds'[b] # Absent
    <3>1. holds[b] # Absent /\ b \in Ceremonies
      BY <1>1, <1>6, <2>0, <2>3 DEF TypeOK, Requests
    <3> QED BY <1>4, <1>7, <3>1
  <2> QED BY <2>2, <2>3 DEF b
<1> QED BY <1>10, <1>11, <1>12 DEF RInv

LEMMA PowerLossFits ==
  ASSUME IInv, RInv, PowerLoss
  PROVE  RInv'
<1>1. PICK d \in disk : holds' = d /\ disk' = {d} BY DEF PowerLoss
<1>2. UNCHANGED chain /\ \A y \in Sessions : pc'[y] = "idle" BY DEF PowerLoss, witness
<1>3. TypeOK /\ \A y \in Sessions : ~Creating(y)' BY <1>2 DEF IInv, Creating
<1>4. Fitting'
  <2>1. Idle /\ disk' \subseteq disk BY <1>1, <1>3 DEF Idle
  <2> QED BY <1>2, <1>3, <2>1, FittingStays DEF RInv, Grows
<1>5. Staged' BY <1>1 DEF Staged, Keeps
<1>6. Agreed'
  <2> SUFFICES ASSUME NEW e \in 1..Latest, Executed(e), d[Successor(Cur(e))].state = "HELD"
               PROVE  ExecutedUnder(e, d[Successor(Cur(e))])
    BY <1>1, <1>2, <1>3 DEF Agreed, Executed, ExecutedUnder, Cur, Latest, Successor
  <2> QED BY DEF RInv, Agreed
<1> QED BY <1>4, <1>5, <1>6 DEF RInv
(* With one successor key, the epoch is advanced under that key's hold,    *)
(* and the key that was marked is the initial one.                         *)
LEMMA EpochUnder ==
  ASSUME IInv, HInv, RInv, NEW x \in Sessions, NEW e \in Entries, Appends(x, e),
         e.kind = "EPOCH", OneSuccessor, NEW s, s = Successor(e.cur)
  PROVE  /\ holds[s].state = "HELD" /\ holds[s].kind = "KEY_COMPROMISE_RECOVERY"
         /\ \A m \in 2..Latest : chain[m].kind = "MARKING" => holds[s].pred = Cur(m - 1)
<1>1. TypeOK /\ EntryLaws /\ Fresh(e.cur) /\ e.cur \in Ordinals
  BY DEF IInv, HInv, Lawful, ChainLaws, Appends, Admissible, Fresh
<1>2. PICK c \in HeldNow : /\ Primary(c) /\ holds[c].kind = "KEY_COMPROMISE_RECOVERY"
                           /\ Compromised(holds[c].pred)
  BY DEF Appends, UnderHold, ChangeKind
<1>3. c \in Ceremonies /\ holds[c].state = "HELD" /\ holds \in disk BY <1>1 DEF HeldNow, TypeOK
<1>4. Fits(c, holds[c]) BY <1>3 DEF RInv, Fitting
<1>5. c = s
  <2>1. c # Initial /\ c[1] # "MAINTENANCE" BY <1>2, <1>4 DEF Fits
  <2>2. PICK n \in Ordinals : c = Successor(n)
    BY <1>2, <1>3, <2>1 DEF Ceremonies, Primary, Debt, Maintenance
  <2> QED BY <1>1, <2>2 DEF OneSuccessor
<1>6. ASSUME NEW j \in 2..Latest, chain[j].kind = "MARKING" PROVE Cur(j - 1) = InitialKey
  <2>1. j - 1 \in 1..Latest /\ Cur(j - 1) # NoKey BY <1>1, <1>6 DEF EntryLaws, TypeOK
  <2>2. Cur(j - 1) \in Keys \cup {NoKey} /\ Cur(j - 1) # e.cur BY <1>1, <2>1, EntryTypes DEF Fresh
  <2> QED BY <1>1, <2>1, <2>2 DEF Keys, OneSuccessor
<1>7. PICK j \in 2..Latest : chain[j].kind = "MARKING" /\ Cur(j - 1) = holds[c].pred
  BY <1>2 DEF Compromised, MarkedAt, Latest
<1>8. holds[c].pred = InitialKey BY <1>6, <1>7
<1> QED BY <1>2, <1>3, <1>5, <1>6, <1>8

(* The hold of a key that becomes current is that of the change.           *)
LEMMA ChangeAgrees ==
  ASSUME IInv, HInv, RInv, NEW x \in Sessions, NEW e \in Entries, Appends(x, e),
         e.kind \in {"ROTATION", "EPOCH"}, e.kind = "EPOCH" => OneSuccessor,
         NEW s, s = Successor(e.cur), NEW d \in disk, d[s].state = "HELD"
  PROVE  /\ e.kind = "ROTATION" => d[s].kind = "ROTATION" /\ d[s].pred = Cur(Latest)
         /\ e.kind = "EPOCH" =>
              /\ d[s].kind = "KEY_COMPROMISE_RECOVERY"
              /\ \A m \in 2..Latest : chain[m].kind = "MARKING" => d[s].pred = Cur(m - 1)
<1>1. s \in Ceremonies BY CeremoniesAre DEF Appends, Admissible, Fresh
<1>2. Keeps(d[s], holds[s]) BY <1>1 DEF RInv, Staged
<1>3. holds[s].state = "HELD"
  <2>1. e.kind = "ROTATION" => holds[s].state = "HELD" BY DEF Appends
  <2> QED BY <2>1, EpochUnder
<1>4. d[s] = holds[s] BY <1>2, <1>3, RecordsAre DEF Keeps
<1>5. CASE e.kind = "ROTATION" BY <1>4, <1>5 DEF Appends
<1>6. CASE e.kind = "EPOCH" BY <1>4, <1>6, EpochUnder
<1> QED BY <1>5, <1>6

LEMMA AppendFits ==
  ASSUME IInv, HInv, RInv, NEW x \in Sessions, NEW e \in Entries, Appends(x, e), UNCHANGED disk
  PROVE  RInv'
<1>1. /\ TypeOK /\ ChainOK /\ EntryLaws /\ Admissible(e) /\ chain' = Append(chain, e)
      /\ End(x) /\ UNCHANGED <<holds, disk>> /\ holds \in disk
  BY DEF IInv, HInv, Lawful, ChainLaws, Appends, TypeOK
<1>2. Follows(e) /\ Latest \in Nat /\ Latest >= 1 BY <1>1, Appended
<1>3. /\ Latest' = Latest + 1 /\ Latest \in 1..Latest /\ chain'[Latest'] = e /\ e.kind \in Changes
      /\ Cur(Latest)' = e.cur /\ \A i \in 1..Latest : chain'[i] = chain[i]
      /\ NoKey \notin Ordinals
  BY <1>2, HoldStoreAssumption DEF Follows, Entries, Cur
<1>4. Idle
  <2>1. pc'[x] = "idle" /\ \A y \in Sessions \ {x} : pc'[y] = pc[y] /\ req'[y] = req[y]
    BY <1>1, EndType
  <2> QED BY <2>1 DEF Idle, Creating
<1>5. Fitting' BY <1>1, <1>4, FittingStays DEF RInv, Grows
<1>6. Staged' BY <1>1 DEF RInv, Staged
<1>7. ASSUME NEW i \in 1..Latest, Executed(i)'
      PROVE  Executed(i) /\ Cur(i)' = Cur(i) /\ i \in 2..Latest
  <2>1. chain'[i] = chain[i] /\ chain[i].kind \in {"ROTATION", "EPOCH"} /\ Cur(i) = e.cur
        /\ (chain[i].kind = "EPOCH" => OneSuccessor)
    BY <1>3, <1>7 DEF Executed, Cur
  <2>2. i \in 2..Latest BY <1>1, <1>2, <2>1 DEF ChainOK
  <2>3. Cur(i) \in Ordinals BY <1>1, <2>1, <2>2 DEF EntryLaws
  <2>4. e.kind \in {"LEDGER", "MAINTENANCE"} BY <1>1, <1>3, <2>1, <2>3 DEF Admissible, Changes, Fresh
  <2>5. e.cur = Cur(Latest) BY <1>1, <2>4 DEF Admissible
  <2> QED BY <2>1, <2>2, <2>5 DEF Executed, Cur
<1>8. ASSUME NEW i \in 1..Latest, Executed(i)',
             NEW s, s = Successor(Cur(i)')
      PROVE  /\ \A d \in disk : d[s].state = "HELD" => ExecutedUnder(i, d[s])'
             /\ \A y \in Sessions : Creating(y)' /\ req'[y].c = s => holds[s] # Absent
  <2>1. Executed(i) /\ s = Successor(Cur(i)) /\ i \in 2..Latest BY <1>7, <1>8
  <2>2. \A d \in disk : d[s].state = "HELD" => ExecutedUnder(i, d[s]) BY <2>1 DEF RInv, Agreed
  <2>3. \A y \in Sessions : Creating(y) /\ req[y].c = s => holds[s] # Absent
    BY <2>1 DEF RInv, Agreed
  <2>4. \A h : ExecutedUnder(i, h) => ExecutedUnder(i, h)'
    <3>1. \A m \in 2..i : m \in 1..Latest /\ m - 1 \in 1..Latest BY <1>2
    <3>2. i - 1 \in 1..Latest BY <1>2, <2>1
    <3> QED BY <1>3, <3>1, <3>2 DEF ExecutedUnder, Cur
  <2>5. ASSUME NEW d \in disk, d[s].state = "HELD" PROVE ExecutedUnder(i, d[s])'
    <3>1. PICK h : h = d[s] OBVIOUS
    <3>2. ExecutedUnder(i, h)' BY <2>2, <2>4, <2>5, <3>1
    <3> QED BY <3>1, <3>2
  <2> QED BY <1>4, <2>3, <2>5 DEF Idle
<1>9. ASSUME NEW n, n = Latest + 1, Executed(n)', NEW s, s = Successor(e.cur)
      PROVE  /\ \A d \in disk : d[s].state = "HELD" => ExecutedUnder(n, d[s])'
             /\ \A y \in Sessions : Creating(y)' /\ req'[y].c = s => holds[s] # Absent
  <2>0. chain'[n] = e /\ n = Latest' /\ n - 1 = Latest /\ n \in Nat BY <1>2, <1>3, <1>9
  <2>1. e.kind \in {"ROTATION", "EPOCH"} /\ (e.kind = "EPOCH" => OneSuccessor)
    BY <1>9, <2>0 DEF Executed
  <2>2. ASSUME NEW d \in disk, d[s].state = "HELD" PROVE ExecutedUnder(n, d[s])'
    <3>1. PICK h : h = d[s] OBVIOUS
    <3>2. /\ e.kind = "ROTATION" => h.kind = "ROTATION" /\ h.pred = Cur(Latest)
          /\ e.kind = "EPOCH" =>
               /\ h.kind = "KEY_COMPROMISE_RECOVERY"
               /\ \A m \in 2..Latest : chain[m].kind = "MARKING" => h.pred = Cur(m - 1)
      BY <1>9, <2>1, <2>2, <3>1, ChangeAgrees
    <3>3. Cur(n - 1)' = Cur(Latest) BY <1>3, <2>0 DEF Cur
    <3>4. ASSUME NEW m \in 2..n, chain'[m].kind = "MARKING"
          PROVE  m \in 2..Latest /\ chain[m].kind = "MARKING" /\ Cur(m - 1)' = Cur(m - 1)
      <4>1. m # n BY <2>0, <2>1, <3>4
      <4>2. m \in 2..Latest /\ m \in 1..Latest /\ m - 1 \in 1..Latest BY <1>2, <1>9, <4>1
      <4> QED BY <1>3, <3>4, <4>2 DEF Cur
    <3>5. ExecutedUnder(n, h)' BY <2>0, <3>2, <3>3, <3>4 DEF ExecutedUnder
    <3> QED BY <3>1, <3>5
  <2>3. ASSUME NEW y \in Sessions, Creating(y)', req'[y].c = s PROVE holds[s] # Absent
    <3>1. holds[s].state # "ABSENT"
      <4>1. CASE e.kind = "ROTATION" BY <1>9, <4>1 DEF Appends
      <4>2. CASE e.kind = "EPOCH"
        <5>1. holds[s].state = "HELD" BY <1>1, <1>9, <2>1, <4>2, EpochUnder
        <5> QED BY <5>1
      <4> QED BY <2>1, <4>1, <4>2
    <3> QED BY <3>1, RecordsAre
  <2> QED BY <2>2, <2>3
<1>10. ASSUME NEW i \in 1..Latest', Executed(i)'
       PROVE  /\ \A d \in disk' : (d[Successor(Cur(i))].state = "HELD" =>
                                     ExecutedUnder(i, d[Successor(Cur(i))]))'
              /\ \A y \in Sessions : Creating(y)' /\ (req[y].c = Successor(Cur(i)))' =>
                                     (holds[Successor(Cur(i))])' # Absent
  <2>1. PICK s : s = Successor(Cur(i)') OBVIOUS
  <2>2. CASE i \in 1..Latest
    <3>1. /\ \A d \in disk : d[s].state = "HELD" => ExecutedUnder(i, d[s])'
          /\ \A y \in Sessions : Creating(y)' /\ req'[y].c = s => holds[s] # Absent
      BY <1>8, <1>10, <2>1, <2>2
    <3> QED BY <1>1, <2>1, <3>1 DEF ExecutedUnder, Successor, Absent
  <2>3. CASE i = Latest + 1
    <3>1. Cur(i)' = e.cur BY <1>3, <2>3 DEF Cur
    <3>2. /\ \A d \in disk : d[s].state = "HELD" => ExecutedUnder(i, d[s])'
          /\ \A y \in Sessions : Creating(y)' /\ req'[y].c = s => holds[s] # Absent
      BY <1>9, <1>10, <2>1, <2>3, <3>1
    <3> QED BY <1>1, <2>1, <3>2 DEF ExecutedUnder, Successor, Absent
  <2> QED BY <1>2, <1>3, <1>10, <2>2, <2>3
<1>11. Agreed' BY <1>10 DEF Agreed
<1> QED BY <1>5, <1>6, <1>11 DEF RInv
LEMMA InitFits == Init => RInv
<1> SUFFICES ASSUME Init PROVE RInv OBVIOUS
<1>1. /\ disk = {holds} /\ \A c \in Ceremonies : holds[c] = Absent
      /\ Latest = 1 /\ chain[1].kind = "GENESIS" /\ \A x \in Sessions : pc[x] = "idle"
  BY DEF Init, Latest
<1>2. Fitting BY <1>1, RecordsAre DEF Fitting, Creating
<1>3. Staged BY <1>1 DEF Staged, Keeps
<1>4. Agreed
  <2>1. \A e \in 1..Latest : e = 1 BY <1>1
  <2> QED BY <1>1, <2>1 DEF Agreed, Executed
<1> QED BY <1>2, <1>3, <1>4 DEF RInv

LEMMA StepsFit == IInv /\ HInv /\ RInv /\ [Next]_vars => RInv'
<1> SUFFICES ASSUME IInv, HInv, RInv, [Next]_vars PROVE RInv' OBVIOUS
<1>1. ASSUME NEW x \in Sessions, SessionStep(x) PROVE RInv'
  <2>1. CASE \/ ExecuteRotation(x) \/ ExecuteMaintenance(x) \/ ExecuteMarking(x)
             \/ ExecuteEpoch(x) \/ RecordLedger(x)
    <3>1. PICK e \in Entries : Appends(x, e) BY <2>1, WitnessAppends
    <3>2. UNCHANGED disk
      BY <2>1 DEF ExecuteRotation, ExecuteMaintenance, ExecuteMarking, ExecuteEpoch, RecordLedger,
                  Advance, store
    <3> QED BY <3>1, <3>2, AppendFits
  <2>2. CASE \/ BeginInitial(x) \/ BeginSuccessor(x) \/ BeginMaintenance(x)
             \/ BeginDebt(x) \/ BeginRelease(x)
    BY <2>2, BeginsFit
  <2>3. CASE \/ Refuse(x) \/ Publish(x) \/ Sync(x) \/ Finish(x) \/ Observe(x) \/ GiveUp(x)
             \/ Prepare(x) \/ AdoptEpoch(x) \/ Kill(x)
    BY <2>3, IdleSteps
  <2>4. CASE Rename(x) BY <2>4, RenameFits
  <2> QED BY <1>1, <2>1, <2>2, <2>3, <2>4 DEF SessionStep
<1>2. CASE Approve \/ Destroy \/ UNCHANGED vars
  <2>1. UNCHANGED <<chain, holds, disk, pc, req>>
    BY <1>2 DEF Approve, Destroy, vars, witness, store, sessions
  <2>2. Idle BY <2>1 DEF Idle, Creating
  <2> QED BY <2>1, <2>2, IdleKeeps DEF IInv
<1>3. CASE PowerLoss BY <1>3, PowerLossFits
<1> QED BY <1>1, <1>2, <1>3 DEF Next

LEMMA RecordsFit == Spec => [](IInv /\ HInv /\ RInv)
<1>1. Spec => [](IInv /\ HInv) BY HoldsInvariance
<1>2. Init => RInv BY InitFits
<1>3. IInv /\ HInv /\ RInv /\ [Next]_vars => RInv' BY StepsFit
<1> QED BY <1>1, <1>2, <1>3, PTL DEF Spec

(* A record that was written before the key or the registry changed names  *)
(* an entry before the change.                                             *)
LEMMA WrittenBefore ==
  ASSUME TypeOK, ChainLaws, NEW j \in 2..Latest, Cur(j) # Cur(j - 1),
         NEW i \in 1..Latest, Cur(i) = Cur(j - 1), Cur(i) # NoKey
  PROVE  i < j
<1>1. Latest \in Nat /\ j \in 1..Latest /\ j - 1 \in 1..Latest /\ j - 1 <= j BY DEF TypeOK
<1>2. CASE j <= i BY <1>1, <1>2 DEF ChainLaws, NoReturn
<1> QED BY <1>1, <1>2

LEMMA ExecutedBinds ==
  ASSUME IInv, HInv, RInv, Cur(Latest) # NoKey,
         Transition(Latest).kind = "KEY_COMPROMISE_RECOVERY" => OneSuccessor,
         NEW c, c = Transition(Latest).ceremony, c \in HeldNow
  PROVE  c # DebtOf(Latest) /\ Binds(c, holds[c], Latest)
<1> DEFINE i == Latest
           e == Establishing(i)
           t == Transition(i)
           h == holds[c]
<1>1. /\ TypeOK /\ ChainOK /\ ChainLaws /\ EntryLaws
      /\ i \in Nat /\ i >= 1 /\ i \in 1..Latest /\ c \in Ceremonies /\ h.state = "HELD" /\ holds \in disk
  BY DEF IInv, HInv, Lawful, ChainLaws, TypeOK, HeldNow
<1>2. Fits(c, h) /\ h.at \in 1..Latest BY <1>1 DEF RInv, Fitting, Fits
<1>3. /\ e \in 1..i /\ chain[e].kind \in {"GENESIS", "ROTATION", "EPOCH"}
      /\ Without({"ROTATION", "EPOCH"}, e, i) /\ chain[1].kind = "GENESIS"
  BY <1>1, LastEstablished DEF ChainOK
<1>4. Cur(e) = Cur(i) BY <1>1, <1>3 DEF ChainLaws, KeyLasts
<1>5. SUFFICES /\ c[1] # "DEBT" /\ h.kind = t.kind /\ h.pred = t.pred
               /\ t.kind = "INITIAL_CUSTODY" => h.at = 1
               /\ t.kind = "REGISTRY_MAINTENANCE" => chain[h.at].reg \in {t.ceremony[2], chain[i].reg}
               /\ t.kind \notin {"INITIAL_CUSTODY", "REGISTRY_MAINTENANCE"} => h.at < t.start
  BY DEF Binds, DebtOf, Debt
<1>6. ASSUME NEW m \in (e + 1)..i, chain[m].kind = "MAINTENANCE",
             t = [kind |-> "REGISTRY_MAINTENANCE", ceremony |-> Maintenance(Reg(m - 1)),
                  pred |-> Cur(i), start |-> m]
      PROVE  /\ c[1] # "DEBT" /\ h.kind = t.kind /\ h.pred = t.pred
             /\ chain[h.at].reg = t.ceremony[2] /\ t.kind = "REGISTRY_MAINTENANCE"
  <2>1. m \in 2..Latest /\ m \in 1..Latest /\ m - 1 \in 1..Latest BY <1>1, <1>3
  <2>2. c = Maintenance(Reg(m - 1)) BY <1>6
  <2>3. h.kind = "REGISTRY_MAINTENANCE" /\ Reg(h.at) = Reg(m - 1) /\ h.pred = Cur(h.at)
    BY <1>2, <2>2 DEF Fits, Maintenance
  <2>4. Cur(h.at) = Cur(m - 1)
    <3>1. h.at <= m - 1 \/ m - 1 <= h.at BY <1>1, <1>2, <2>1
    <3> QED BY <1>1, <1>2, <2>1, <2>3, <3>1 DEF ChainLaws, RegsGrow
  <2>5. Cur(m) = Cur(m - 1) BY <1>1, <1>6, <2>1 DEF EntryLaws
  <2>6. Cur(i) = Cur(m)
    <3>1. Without({"ROTATION", "EPOCH"}, m, i) BY <1>1, <1>3, <2>1 DEF Without
    <3> QED BY <1>1, <2>1, <3>1 DEF ChainLaws, KeyLasts
  <2> QED BY <1>6, <2>2, <2>3, <2>4, <2>5, <2>6 DEF Maintenance, Reg
<1>7. CASE t = Base(i) /\ chain[e].kind = "GENESIS"
  <2>1. t.kind = "INITIAL_CUSTODY" /\ c = Initial /\ t.pred = NoKey BY <1>7, BaseIs
  <2> QED BY <1>2, <2>1 DEF Fits, Initial
<1>8. CASE t = Base(i) /\ chain[e].kind = "ROTATION"
  <2>1. t.kind = "ROTATION" /\ c = Successor(Cur(e)) /\ t.pred = Cur(e - 1) /\ t.start = e
    BY <1>8, BaseIs
  <2>2. Executed(e) BY <1>4, <1>8 DEF Executed
  <2>3. ExecutedUnder(e, h) BY <1>1, <1>3, <2>1, <2>2 DEF RInv, Agreed
  <2>4. h.kind = "ROTATION" /\ h.pred = Cur(e - 1) BY <1>8, <2>3 DEF ExecutedUnder
  <2>5. h.pred = Cur(h.at) /\ h.pred # NoKey BY <1>2, <2>1 DEF Fits, Successor
  <2>6. e \in 2..Latest /\ Cur(e) # Cur(e - 1) BY <1>1, <1>3, <1>8 DEF EntryLaws
  <2>7. h.at < e BY <1>1, <1>2, <2>4, <2>5, <2>6, WrittenBefore
  <2> QED BY <2>1, <2>4, <2>7 DEF Successor
<1>9. CASE t = Base(i) /\ chain[e].kind = "EPOCH"
  <2> DEFINE m == Marking(e)
  <2>1. /\ t.kind = "KEY_COMPROMISE_RECOVERY" /\ c = Successor(Cur(e))
        /\ t.pred = Cur(m - 1) /\ t.start = m
    BY <1>9, BaseIs
  <2>2. Executed(e) BY <1>4, <1>9, <2>1 DEF Executed
  <2>3. ExecutedUnder(e, h) BY <1>1, <1>3, <2>1, <2>2 DEF RInv, Agreed
  <2>4. e \in 2..Latest /\ m \in 2..Latest /\ m < e /\ chain[m].kind = "MARKING"
    BY <1>1, <1>3, <1>9, EpochIsMarked
  <2> HIDE DEF m
  <2>5. h.kind = "KEY_COMPROMISE_RECOVERY" /\ h.pred = Cur(m - 1)
    BY <1>1, <1>9, <2>3, <2>4 DEF ExecutedUnder
  <2>6. h.pred = Cur(h.at) /\ h.pred # NoKey BY <1>2, <2>1 DEF Fits, Successor
  <2>7. Cur(m) # Cur(m - 1) BY <1>1, <2>4 DEF EntryLaws
  <2>8. h.at < m BY <1>1, <1>2, <2>4, <2>5, <2>6, <2>7, WrittenBefore
  <2> QED BY <2>1, <2>5, <2>8 DEF Successor
<1>10. \/ t = Base(i)
       \/ \E m \in (e + 1)..i :
              /\ chain[m].kind = "MAINTENANCE"
              /\ t = [kind |-> "REGISTRY_MAINTENANCE", ceremony |-> Maintenance(Reg(m - 1)),
                      pred |-> Cur(i), start |-> m]
  BY <1>1, TransitionIs
<1> QED BY <1>3, <1>6, <1>7, <1>8, <1>9, <1>10

(* What a command wrote into a hold before its change, of a scan older     *)
(* than the lock, is what derive_key_transition and hold_binding_reason    *)
(* read from the chain after it, so the hold can be released.              *)
THEOREM ExecutedIsReleasable == Spec => []ExecutedCanBeReleased
<1>1. ASSUME IInv, HInv, RInv PROVE ExecutedCanBeReleased
  <2> DEFINE t == Transition(Latest)
  <2> SUFFICES ASSUME t.kind = "KEY_COMPROMISE_RECOVERY" => OneSuccessor,
                      Cur(Latest) # NoKey, HeldNow = {t.ceremony}, ~InDebt(Latest)
               PROVE  Eligible(t.ceremony, Latest)
    BY DEF ExecutedCanBeReleased
  <2>1. Binds(t.ceremony, holds[t.ceremony], Latest) BY <1>1, ExecutedBinds
  <2> QED BY <2>1 DEF Eligible, Governing
<1> QED BY <1>1, RecordsFit, PTL

=============================================================================
