----------------------- MODULE CanonicalMemoryProofs -----------------------
(***************************************************************************)
(* Proofs about CanonicalMemory, for every number of actions and appliers, *)
(* every set of owners with L04 in it, and any number of faults.           *)
(***************************************************************************)
EXTENDS CanonicalMemory, TLAPS

LEMMA KindsAre ==
  Kinds = {"evidence", "consumption", "policy", "denial", "intent", "consent",
           "revocation", "rollback", "spent", "candidate", "eligible", "ineligible",
           "proposal", "acceptance", "rejection"}
BY DEF Kinds, Parents

LEMMA ParentsAre ==
  /\ \A k \in Kinds : Parents[k] \subseteq Kinds
  /\ Parents["eligible"] = {"candidate"}
  /\ Parents["proposal"] = {"candidate", "intent"}
  /\ Parents["acceptance"] = {"proposal"}
  /\ Parents["rejection"] = {"proposal"}
<1>1. \A k \in Kinds : Parents[k] \subseteq Kinds
  BY KindsAre DEF Parents
<1> QED BY <1>1 DEF Parents

LEMMA RowsAre ==
  /\ \A o \in DOMAIN RowsOf : RowsOf[o] \subseteq Kinds
  /\ RowsOf["L04"] = {"acceptance", "rejection"}
  /\ RowsOf["L18_V2"] = {"intent", "candidate", "eligible", "ineligible", "proposal"}
BY KindsAre DEF RowsOf

LEMMA ReadsAre ==
  /\ DOMAIN Reads \subseteq Calls
  /\ \A k \in DOMAIN Reads : Parents[k] \subseteq Reads[k]
<1>1. DOMAIN Reads \subseteq Calls
  BY KindsAre DEF Reads, Calls
<1>2. \A k \in DOMAIN Reads : Parents[k] \subseteq Reads[k]
  BY DEF Reads, Parents
<1> QED BY <1>1, <1>2

LEMMA WithIs ==
  ASSUME db \in Databases, NEW a \in Actions, NEW kinds \in SUBSET Kinds
  PROVE  /\ With(a, kinds) \in Databases
         /\ With(a, kinds).active = db.active
         /\ With(a, kinds).rows[a] = db.rows[a] \cup kinds
         /\ \A b \in Actions : b # a => With(a, kinds).rows[b] = db.rows[b]
BY DEF With, Databases

-----------------------------------------------------------------------------
(* What holds of the database at every commit, and so of every backup.     *)
Sound(d) ==
  /\ Closed(d.rows)
  /\ Chain(d)
  /\ \A a \in Actions : d.rows[a] # {} => frozen[a] # None
  /\ \A a \in Actions : "spent" \in d.rows[a] => frozen[a].op = "RESTORE"

(* A call's insertion finds the rows it references.                        *)
CallsFit == \A a \in Actions : call[a] # None =>
  frozen[a] # None /\ Parents[call[a]] \subseteq db.rows[a]

InTransaction(p) == at[p] \in {"write", "recheck", "commit"}

(* What an applier may rely on at each step of its call.                   *)
Knows(p) ==
  /\ at[p] # "idle" => on[p] \in Actions /\ serving
  /\ InTransaction(p) =>
       /\ Has(on[p], {"consumption", "policy", "consent", "eligible", "proposal"})
       /\ Lacks(on[p], {"revocation", "rejection", "acceptance"})
  /\ at[p] \in {"recheck", "commit"} => Precondition(on[p])
  /\ at[p] = "commit" /\ privacy.suppressed => ~late /\ "L04" \notin erased

(* The suppression comes before whatever forgetting does.                  *)
Forgotten ==
  /\ privacy.held \/ late \/ erased # {} \/ run # None => privacy.suppressed
  /\ "L04" \in erased /\ serving => db.active = None
  /\ "L18_V2" \in erased =>
       serving /\ \A a \in Actions : call[a] \notin {"eligible", "proposal"}

IInv ==
  /\ TypeOK
  /\ Sound(db)
  /\ backup # None => Sound(backup)
  /\ CallsFit
  /\ \A p \in Appliers : Knows(p)
  /\ Forgotten
  /\ ProposalsStayErased

LEMMA Initially == Init => IInv
<1> SUFFICES ASSUME Init PROVE IInv
  OBVIOUS
<1>1. TypeOK
  <2>1. db \in Databases /\ backup \in Databases \cup {None} /\ Closed(db.rows)
    BY DEF Init, Databases, Closed
  <2>2. /\ privacy \in [held : BOOLEAN, suppressed : BOOLEAN, done : SUBSET Owners]
        /\ serving \in BOOLEAN /\ late \in BOOLEAN
        /\ frozen \in [Actions -> Requests \cup {None}]
        /\ call \in [Actions -> Calls \cup {None}]
    BY DEF Init
  <2>3. /\ at \in [Appliers -> {"idle", "begin", "write", "recheck", "commit"}]
        /\ on \in [Appliers -> Actions \cup {None}] /\ lock \in Appliers \cup {None}
        /\ \A p \in Appliers : lock = p <=> at[p] \in {"write", "recheck", "commit"}
    BY CanonicalMemoryAssumption DEF Init
  <2>4. /\ expired \subseteq MayExpire /\ run \in Runs \cup {None} /\ round \subseteq Owners
        /\ refs \subseteq Actions /\ erased \subseteq {"L04", "L18_V2"}
        /\ faults \in 0..MaxFaults
    BY CanonicalMemoryAssumption DEF Init
  <2> QED BY <2>1, <2>2, <2>3, <2>4 DEF TypeOK
<1>2. Sound(db) /\ backup = None
  BY DEF Init, Sound, Closed, Chain, Accepted
<1>3. CallsFit /\ (\A p \in Appliers : Knows(p)) /\ Forgotten /\ ProposalsStayErased
  BY DEF Init, CallsFit, Knows, InTransaction, Forgotten, ProposalsStayErased
<1> QED BY <1>1, <1>2, <1>3 DEF IInv

-----------------------------------------------------------------------------
(* The conjuncts of the invariant a step leaves alone.                     *)
LEMMA DatabaseStays ==
  ASSUME IInv, UNCHANGED <<db, backup, frozen>>
  PROVE  Sound(db)' /\ (backup # None => Sound(backup))'
BY DEF IInv, Sound, Chain, Accepted

LEMMA BackupStays ==
  ASSUME IInv, UNCHANGED <<backup, frozen>>
  PROVE  (backup # None => Sound(backup))'
BY DEF IInv, Sound, Chain, Accepted

LEMMA Outside ==
  ASSUME IInv, lock = None, NEW p \in Appliers
  PROVE  ~InTransaction(p)
BY CanonicalMemoryAssumption DEF IInv, TypeOK, InTransaction

LEMMA KnowsOutside ==
  ASSUME IInv, lock = None, UNCHANGED <<at, on, serving>>
  PROVE  \A p \in Appliers : Knows(p)'
<1> SUFFICES ASSUME NEW p \in Appliers PROVE Knows(p)'
  OBVIOUS
<1>1. ~InTransaction(p) /\ Knows(p)
  BY Outside DEF IInv
<1> QED BY <1>1 DEF Knows, InTransaction

LEMMA KnowsSame ==
  ASSUME IInv, UNCHANGED <<at, on, serving, db, frozen, privacy, late, erased>>
  PROVE  \A p \in Appliers : Knows(p)'
BY DEF IInv, Knows, InTransaction, Has, Lacks, Precondition

-----------------------------------------------------------------------------
(* Rows other than admissions are added to a sound database.               *)
LEMMA AddKeepsSound ==
  ASSUME IInv, NEW a \in Actions, NEW kinds \in SUBSET (Kinds \ {"acceptance"}),
         frozen[a] # None, UNCHANGED frozen,
         db' = With(a, kinds),
         \A k \in kinds : Parents[k] \subseteq db.rows[a],
         "spent" \in kinds => frozen[a].op = "RESTORE"
  PROVE  Sound(db)' /\ db' \in Databases
<1>1. /\ db' \in Databases /\ db'.active = db.active
      /\ db'.rows[a] = db.rows[a] \cup kinds
      /\ \A b \in Actions : b # a => db'.rows[b] = db.rows[b]
  BY WithIs DEF IInv, TypeOK
<1>2. Closed(db.rows)'
  BY <1>1 DEF IInv, Sound, Closed
<1>3. Accepted(db') = Accepted(db)
  BY <1>1 DEF Accepted
<1>4. Chain(db)'
  BY <1>1, <1>3 DEF IInv, Sound, Chain, Accepted
<1> QED BY <1>1, <1>2, <1>4 DEF IInv, Sound

LEMMA FreezeKeeps == ASSUME IInv, NEW a \in Actions, Freeze(a) PROVE IInv'
<1>1. frozen[a] = None /\ lock = None /\ serving /\ db.rows[a] = {}
  BY DEF Freeze, Writable, IInv, Sound
<1>2. frozen' \in [Actions -> Requests \cup {None}] /\ frozen'[a] # None
  <2>1. PICK op \in Operations, restore \in Actions \cup {None} :
          frozen' = [frozen EXCEPT ![a] =
            [op |-> op, restore |-> restore,
             expected |-> IF op = "CREATE" THEN None ELSE db.active]]
    BY DEF Freeze
  <2>2. db.active \in Actions \cup {None} /\ frozen \in [Actions -> Requests \cup {None}]
    BY DEF IInv, TypeOK, Databases
  <2>3. [op |-> op, restore |-> restore,
         expected |-> IF op = "CREATE" THEN None ELSE db.active] \in Requests
    BY <2>2 DEF Requests
  <2> QED BY <2>1, <2>2, <2>3, NoneAssumption
<1>3. \A b \in Actions : b # a => frozen'[b] = frozen[b]
  BY DEF Freeze, IInv, TypeOK
<1>4. /\ db' \in Databases /\ db'.active = db.active
      /\ db'.rows[a] = {"evidence"}
      /\ \A b \in Actions : b # a => db'.rows[b] = db.rows[b]
  BY <1>1, WithIs, KindsAre DEF Freeze, IInv, TypeOK
<1>5. Closed(db.rows)'
  BY <1>4 DEF IInv, Sound, Closed, Parents
<1>6. Accepted(db') = Accepted(db) /\ a \notin Accepted(db)
  BY <1>1, <1>4 DEF Accepted
<1>7. Chain(db)'
  BY <1>3, <1>4, <1>6 DEF IInv, Sound, Chain, Accepted
<1>8. Sound(db)'
  BY <1>1, <1>2, <1>3, <1>4, <1>5, <1>7 DEF IInv, Sound
<1>9. backup # None => Sound(backup)'
  <2> SUFFICES ASSUME backup # None PROVE Sound(backup)'
    OBVIOUS
  <2>1. Sound(backup) /\ backup' = backup /\ backup \in Databases
    BY DEF IInv, Freeze, TypeOK
  <2>2. backup.rows[a] = {} /\ a \notin Accepted(backup)
    BY <1>1, <2>1 DEF Sound, Accepted
  <2> QED BY <1>2, <1>3, <2>1, <2>2 DEF Sound, Chain, Accepted
<1>10. TypeOK'
  BY <1>2, <1>4, <1>5 DEF IInv, TypeOK, Freeze, applying, forgetting
<1>11. CallsFit'
  BY <1>1, <1>3, <1>4 DEF IInv, CallsFit, Freeze
<1>12. \A p \in Appliers : Knows(p)'
  <2> SUFFICES ASSUME NEW p \in Appliers PROVE Knows(p)'
    OBVIOUS
  <2>1. ~InTransaction(p) /\ p # None
    BY <1>1, CanonicalMemoryAssumption DEF IInv, TypeOK, InTransaction
  <2>2. at' = at /\ on' = on /\ serving' = serving /\ Knows(p)
    BY DEF Freeze, applying, IInv
  <2> QED BY <2>1, <2>2 DEF Knows, InTransaction
<1>13. Forgotten' /\ ProposalsStayErased'
  BY <1>4 DEF IInv, Forgotten, ProposalsStayErased, Lacks, Freeze, forgetting
<1> QED BY <1>8, <1>9, <1>10, <1>11, <1>12, <1>13 DEF IInv, Freeze

LEMMA ExpireKeeps == ASSUME IInv, NEW a \in Actions, Expire(a) PROVE IInv'
<1>1. TypeOK'
  BY DEF IInv, TypeOK, Expire, applying, forgetting
<1>2. Sound(db)' /\ (backup # None => Sound(backup))'
  BY DatabaseStays DEF Expire
<1>3. \A p \in Appliers : Knows(p)'
  BY KnowsSame DEF Expire, applying, forgetting
<1>4. CallsFit' /\ Forgotten' /\ ProposalsStayErased'
  BY DEF IInv, CallsFit, Forgotten, ProposalsStayErased, Lacks, Expire, forgetting
<1> QED BY <1>1, <1>2, <1>3, <1>4 DEF IInv

(* What was erased is not read again.                                      *)
LEMMA ReadKeeps == ASSUME IInv, NEW a \in Actions, Read(a) PROVE IInv'
<1>1. PICK k \in DOMAIN Reads :
        /\ serving /\ frozen[a] # None /\ Ready(a, k)
        /\ call' = [call EXCEPT ![a] = k]
  BY DEF Read
<1>2. /\ UNCHANGED <<db, backup, serving, frozen, expired, at, on, lock, privacy>>
      /\ UNCHANGED <<run, round, refs, erased, late, faults>>
  BY DEF Read, applying, forgetting
<1>3. k \in Calls /\ Parents[k] \subseteq db.rows[a]
  BY <1>1, ReadsAre DEF Ready, Has
<1>4. TypeOK'
  BY <1>1, <1>2, <1>3 DEF IInv, TypeOK
<1>5. Sound(db)' /\ (backup # None => Sound(backup))'
  BY <1>2, DatabaseStays
<1>6. \A p \in Appliers : Knows(p)'
  BY <1>2, KnowsSame
<1>7. CallsFit'
  BY <1>1, <1>2, <1>3 DEF IInv, TypeOK, CallsFit
<1>8. "L18_V2" \in erased => k \notin {"eligible", "proposal"}
  <2>1. ASSUME "L18_V2" \in erased PROVE k # "eligible"
    BY <1>1, <2>1 DEF IInv, Forgotten, Ready, IsHeld
  <2>2. ASSUME "L18_V2" \in erased PROVE k # "proposal"
    <3>1. "eligible" \notin db.rows[a]
      BY <1>1, <2>2 DEF IInv, ProposalsStayErased, Lacks
    <3>2. Reads["proposal"] = {"candidate", "intent", "eligible"}
      BY DEF Reads
    <3> QED BY <1>1, <3>1, <3>2 DEF Ready, Has
  <2> QED BY <2>1, <2>2
<1>9. Forgotten' /\ ProposalsStayErased'
  BY <1>1, <1>2, <1>8 DEF IInv, TypeOK, Forgotten, ProposalsStayErased, Lacks
<1> QED BY <1>4, <1>5, <1>6, <1>7, <1>9 DEF IInv

LEMMA InsertKeeps == ASSUME IInv, NEW a \in Actions, Insert(a) PROVE IInv'
<1>1. /\ serving /\ lock = None /\ call[a] # None
      /\ db' = With(a, {call[a]})
      /\ call' = [call EXCEPT ![a] = IF @ = "consumption" THEN "policy" ELSE None]
      /\ UNCHANGED <<backup, serving, frozen, expired, at, on, lock, privacy>>
      /\ UNCHANGED <<run, round, refs, erased, late, faults>>
  BY DEF Insert, Writable, applying, forgetting
<1>2. /\ call[a] \in Calls /\ frozen[a] # None
      /\ Parents[call[a]] \subseteq db.rows[a]
  BY <1>1 DEF IInv, TypeOK, CallsFit
<1>3. call[a] \in Kinds \ {"evidence", "spent", "acceptance", "rejection"}
  BY <1>2 DEF Calls
<1>4. Sound(db)' /\ db' \in Databases
  BY <1>1, <1>2, <1>3, AddKeepsSound
<1>5. /\ db'.rows[a] = db.rows[a] \cup {call[a]}
      /\ \A b \in Actions : b # a => db'.rows[b] = db.rows[b]
      /\ db'.active = db.active
  BY <1>1, <1>3, WithIs DEF IInv, TypeOK
<1>6. call' \in [Actions -> Calls \cup {None}]
  BY <1>1, KindsAre DEF IInv, TypeOK, Calls
<1>7. TypeOK'
  BY <1>1, <1>4, <1>6 DEF IInv, TypeOK, Sound
<1>8. CallsFit'
  <2> SUFFICES ASSUME NEW b \in Actions, call'[b] # None
               PROVE  frozen'[b] # None /\ Parents[call'[b]] \subseteq db'.rows[b]
    BY DEF CallsFit
  <2>1. CASE b # a
    BY <1>1, <1>5, <2>1 DEF IInv, TypeOK, CallsFit
  <2>2. CASE b = a
    <3>1. call[a] = "consumption" /\ call'[a] = "policy"
      BY <1>1, <2>2 DEF IInv, TypeOK
    <3>2. Parents["consumption"] = {"evidence"} /\ Parents["policy"] = {"evidence"}
      BY DEF Parents
    <3> QED BY <1>1, <1>2, <1>5, <2>2, <3>1, <3>2
  <2> QED BY <2>1, <2>2
<1>9. Forgotten' /\ ProposalsStayErased'
  <2>1. \A b \in Actions : call'[b] = call[b] \/ call'[b] \in {"policy", None}
    BY <1>1 DEF IInv, TypeOK
  <2>2. None \notin {"eligible", "proposal"}
    BY CanonicalMemoryAssumption, KindsAre
  <2>3. Forgotten'
    BY <1>1, <1>5, <2>1, <2>2 DEF IInv, Forgotten
  <2>4. ProposalsStayErased'
    BY <1>1, <1>3, <1>5 DEF IInv, Forgotten, ProposalsStayErased, Lacks
  <2> QED BY <2>3, <2>4
<1> QED BY <1>1, <1>4, <1>7, <1>8, <1>9, BackupStays, KnowsOutside DEF IInv

LEMMA DropKeeps == ASSUME IInv, NEW a \in Actions, Drop(a) PROVE IInv'
<1>1. /\ call' = [call EXCEPT ![a] = None]
      /\ UNCHANGED <<db, backup, serving, frozen, expired, at, on, lock, privacy>>
      /\ UNCHANGED <<run, round, refs, erased, late, faults>>
  BY DEF Drop, applying, forgetting
<1>2. TypeOK'
  BY <1>1 DEF IInv, TypeOK
<1>3. \A b \in Actions : call'[b] = call[b] \/ call'[b] = None
  BY <1>1 DEF IInv, TypeOK
<1>4. None \notin {"eligible", "proposal"}
  BY CanonicalMemoryAssumption, KindsAre
<1>5. CallsFit' /\ Forgotten' /\ ProposalsStayErased'
  BY <1>1, <1>3, <1>4 DEF IInv, CallsFit, Forgotten, ProposalsStayErased, Lacks
<1> QED BY <1>1, <1>2, <1>5, DatabaseStays, KnowsSame DEF IInv

-----------------------------------------------------------------------------
(* The transaction of one applier, and the others around it.               *)
LEMMA KnowsAlone ==
  ASSUME IInv, NEW p \in Appliers, lock \in {None, p}, serving' = serving,
         \A q \in Appliers : q # p => at'[q] = at[q] /\ on'[q] = on[q],
         Knows(p)'
  PROVE  \A q \in Appliers : Knows(q)'
<1> SUFFICES ASSUME NEW q \in Appliers, q # p PROVE Knows(q)'
  OBVIOUS
<1>1. ~InTransaction(q) /\ Knows(q)
  BY CanonicalMemoryAssumption DEF IInv, TypeOK, InTransaction
<1> QED BY <1>1 DEF Knows, InTransaction

LEMMA KnowsBesides ==
  ASSUME IInv, NEW p \in Appliers,
         UNCHANGED <<db, serving, frozen, privacy, late, erased>>,
         \A q \in Appliers : q # p => at'[q] = at[q] /\ on'[q] = on[q],
         Knows(p)'
  PROVE  \A q \in Appliers : Knows(q)'
BY DEF IInv, Knows, InTransaction, Has, Lacks, Precondition

LEMMA EndIs ==
  ASSUME IInv, NEW p \in Appliers, End(p)
  PROVE  /\ at' \in [Appliers -> {"idle", "begin", "write", "recheck", "commit"}]
         /\ on' \in [Appliers -> Actions \cup {None}]
         /\ lock' \in Appliers \cup {None}
         /\ \A q \in Appliers : lock' = q <=> at'[q] \in {"write", "recheck", "commit"}
         /\ \A q \in Appliers : q # p => at'[q] = at[q] /\ on'[q] = on[q]
         /\ Knows(p)'
<1>1. /\ at' \in [Appliers -> {"idle", "begin", "write", "recheck", "commit"}]
      /\ on' \in [Appliers -> Actions \cup {None}]
      /\ lock' \in Appliers \cup {None}
      /\ at'[p] = "idle"
      /\ \A q \in Appliers : q # p => at'[q] = at[q] /\ on'[q] = on[q]
  BY DEF End, IInv, TypeOK
<1>2. \A q \in Appliers : lock' = q <=> at'[q] \in {"write", "recheck", "commit"}
  BY <1>1, CanonicalMemoryAssumption DEF End, IInv, TypeOK
<1>3. Knows(p)'
  BY <1>1 DEF Knows, InTransaction
<1> QED BY <1>1, <1>2, <1>3

LEMMA GotoIs ==
  ASSUME IInv, NEW p \in Appliers, NEW step \in {"write", "recheck", "commit"},
         Goto(p, step), lock \in {None, p}, lock' = p
  PROVE  /\ at' \in [Appliers -> {"idle", "begin", "write", "recheck", "commit"}]
         /\ at'[p] = step /\ on' = on
         /\ \A q \in Appliers : lock' = q <=> at'[q] \in {"write", "recheck", "commit"}
         /\ \A q \in Appliers : q # p => at'[q] = at[q] /\ on'[q] = on[q]
BY CanonicalMemoryAssumption DEF Goto, IInv, TypeOK

(* A rejection is recorded, and perhaps an authorization spent.            *)
LEMMA RejectionKeeps ==
  ASSUME IInv, NEW a \in Actions, NEW kinds \in SUBSET {"rejection", "spent"},
         Has(a, {"proposal"}), db' = With(a, kinds), serving,
         "spent" \in kinds => frozen[a].op = "RESTORE" /\ Has(a, {"rollback"}),
         UNCHANGED <<backup, serving, frozen, call, privacy, run, erased, late>>
  PROVE  /\ Sound(db)' /\ db' \in Databases /\ (backup # None => Sound(backup))'
         /\ CallsFit' /\ Forgotten' /\ ProposalsStayErased'
<1>1. kinds \subseteq Kinds \ {"acceptance"}
  BY KindsAre
<1>2. frozen[a] # None
  BY DEF IInv, Sound, Has
<1>3. \A k \in kinds : Parents[k] \subseteq db.rows[a]
  BY DEF Parents, Has
<1>4. Sound(db)' /\ db' \in Databases
  BY <1>1, <1>2, <1>3, AddKeepsSound
<1>5. /\ db'.rows[a] = db.rows[a] \cup kinds /\ db'.active = db.active
      /\ \A b \in Actions : b # a => db'.rows[b] = db.rows[b]
  BY <1>1, WithIs DEF IInv, TypeOK
<1>6. CallsFit'
  BY <1>5 DEF IInv, CallsFit
<1>7. "L18_V2" \notin erased
  BY DEF IInv, ProposalsStayErased, Has, Lacks
<1>8. Forgotten' /\ ProposalsStayErased'
  BY <1>5, <1>7 DEF IInv, Forgotten, ProposalsStayErased
<1> QED BY <1>4, <1>6, <1>8, BackupStays

LEMMA StartKeeps == ASSUME IInv, NEW p \in Appliers, Start(p) PROVE IInv'
<1>1. PICK a \in Actions :
        /\ serving /\ at[p] = "idle"
        /\ at' = [at EXCEPT ![p] = "begin"] /\ on' = [on EXCEPT ![p] = a]
  BY DEF Start
<1>2. /\ UNCHANGED <<db, backup, serving, frozen, expired, call, lock, privacy>>
      /\ UNCHANGED <<run, round, refs, erased, late, faults>>
  BY DEF Start, forgetting
<1>3. TypeOK'
  BY <1>1, <1>2 DEF IInv, TypeOK
<1>4. Knows(p)'
  BY <1>1, <1>2 DEF IInv, TypeOK, Knows, InTransaction
<1>5. \A q \in Appliers : Knows(q)'
  BY <1>1, <1>2, <1>4, KnowsBesides DEF IInv, TypeOK
<1>6. CallsFit' /\ Forgotten' /\ ProposalsStayErased'
  BY <1>2 DEF IInv, CallsFit, Forgotten, ProposalsStayErased, Lacks
<1> QED BY <1>2, <1>3, <1>5, <1>6, DatabaseStays DEF IInv

LEMMA AbortKeeps == ASSUME IInv, NEW p \in Appliers, Abort(p) PROVE IInv'
<1>1. /\ UNCHANGED <<db, backup, serving, frozen, expired, call, privacy>>
      /\ UNCHANGED <<run, round, refs, erased, late, faults>>
      /\ End(p)
  BY DEF Abort, forgetting
<1>2. TypeOK'
  BY <1>1, EndIs DEF IInv, TypeOK
<1>3. \A q \in Appliers : Knows(q)'
  BY <1>1, EndIs, KnowsBesides
<1>4. CallsFit' /\ Forgotten' /\ ProposalsStayErased'
  BY <1>1 DEF IInv, CallsFit, Forgotten, ProposalsStayErased, Lacks
<1> QED BY <1>1, <1>2, <1>3, <1>4, DatabaseStays DEF IInv

LEMMA BeginKeeps == ASSUME IInv, NEW p \in Appliers, Begin(p) PROVE IInv'
<1> DEFINE a == on[p]
<1>1. /\ at[p] = "begin" /\ a \in Actions /\ serving
      /\ UNCHANGED <<backup, serving, frozen, expired, call, privacy>>
      /\ UNCHANGED <<run, round, refs, erased, late, faults>>
  BY DEF Begin, forgetting, IInv, Knows
<1>2. CASE End(p) /\ UNCHANGED db
  <2>1. TypeOK'
    BY <1>1, <1>2, EndIs DEF IInv, TypeOK
  <2>2. \A q \in Appliers : Knows(q)'
    BY <1>1, <1>2, EndIs, KnowsBesides
  <2>3. CallsFit' /\ Forgotten' /\ ProposalsStayErased'
    BY <1>1, <1>2 DEF IInv, CallsFit, Forgotten, ProposalsStayErased, Lacks
  <2> QED BY <1>1, <1>2, <2>1, <2>2, <2>3, DatabaseStays DEF IInv
<1>3. CASE lock = None /\ Has(a, {"proposal"}) /\ db' = With(a, {"rejection"}) /\ End(p)
  <2>1. /\ Sound(db)' /\ db' \in Databases /\ (backup # None => Sound(backup))'
        /\ CallsFit' /\ Forgotten' /\ ProposalsStayErased'
    BY <1>1, <1>3, RejectionKeeps
  <2>2. TypeOK'
    BY <1>1, <1>3, <2>1, EndIs DEF IInv, TypeOK, Sound
  <2>3. \A q \in Appliers : Knows(q)'
    BY <1>1, <1>3, EndIs, KnowsAlone
  <2> QED BY <2>1, <2>2, <2>3 DEF IInv
<1>4. CASE /\ lock = None /\ ~Admitted(a) /\ Has(a, {"proposal"}) /\ Authorised(a)
           /\ lock' = p /\ Goto(p, "write") /\ UNCHANGED db
  <2>1. /\ at' \in [Appliers -> {"idle", "begin", "write", "recheck", "commit"}]
        /\ at'[p] = "write" /\ on' = on
        /\ \A q \in Appliers : lock' = q <=> at'[q] \in {"write", "recheck", "commit"}
        /\ \A q \in Appliers : q # p => at'[q] = at[q] /\ on'[q] = on[q]
    BY <1>4, GotoIs
  <2>2. TypeOK'
    BY <1>1, <1>4, <2>1 DEF IInv, TypeOK
  <2>3. Knows(p)'
    BY <1>1, <1>4, <2>1 DEF Knows, InTransaction, Authorised, Has, Lacks, Admitted
  <2>4. \A q \in Appliers : Knows(q)'
    BY <1>1, <1>4, <2>1, <2>3, KnowsAlone
  <2>5. CallsFit' /\ Forgotten' /\ ProposalsStayErased'
    BY <1>1, <1>4 DEF IInv, CallsFit, Forgotten, ProposalsStayErased, Lacks
  <2> QED BY <1>1, <1>4, <2>2, <2>4, <2>5, DatabaseStays DEF IInv
<1> QED BY <1>2, <1>3, <1>4 DEF Begin

LEMMA WriteKeeps == ASSUME IInv, NEW p \in Appliers, Write(p) PROVE IInv'
<1> DEFINE a == on[p]
<1>1. /\ at[p] = "write" /\ a \in Actions /\ serving /\ lock = p
      /\ Has(a, {"consumption", "policy", "consent", "eligible", "proposal"})
      /\ Lacks(a, {"revocation", "rejection", "acceptance"})
      /\ UNCHANGED <<backup, serving, frozen, expired, call, privacy>>
      /\ UNCHANGED <<run, round, refs, erased, late, faults>>
  BY DEF Write, forgetting, IInv, TypeOK, Knows, InTransaction
<1>2. Has(a, {"proposal"})
  BY <1>1 DEF Has
<1>3. CASE End(p) /\ \E kinds \in SUBSET {"rejection", "spent"} :
             /\ db' = With(a, kinds)
             /\ "spent" \in kinds => frozen[a].op = "RESTORE" /\ Has(a, {"rollback"})
  <2>1. /\ Sound(db)' /\ db' \in Databases /\ (backup # None => Sound(backup))'
        /\ CallsFit' /\ Forgotten' /\ ProposalsStayErased'
    BY <1>1, <1>2, <1>3, RejectionKeeps
  <2>2. TypeOK'
    BY <1>1, <1>3, <2>1, EndIs DEF IInv, TypeOK, Sound
  <2>3. \A q \in Appliers : Knows(q)'
    BY <1>1, <1>3, EndIs, KnowsAlone
  <2> QED BY <2>1, <2>2, <2>3 DEF IInv
<1>4. CASE Precondition(a) /\ ~IsHeld /\ Goto(p, "recheck") /\ UNCHANGED <<db, lock>>
  <2>1. /\ at' \in [Appliers -> {"idle", "begin", "write", "recheck", "commit"}]
        /\ at'[p] = "recheck" /\ on' = on
        /\ \A q \in Appliers : lock' = q <=> at'[q] \in {"write", "recheck", "commit"}
        /\ \A q \in Appliers : q # p => at'[q] = at[q] /\ on'[q] = on[q]
    BY <1>1, <1>4, GotoIs
  <2>2. TypeOK'
    BY <1>1, <1>4, <2>1 DEF IInv, TypeOK
  <2>3. Knows(p)'
    BY <1>1, <1>4, <2>1 DEF Knows, InTransaction, Precondition, Has, Lacks
  <2>4. \A q \in Appliers : Knows(q)'
    BY <1>1, <1>4, <2>1, <2>3, KnowsAlone
  <2>5. CallsFit' /\ Forgotten' /\ ProposalsStayErased'
    BY <1>1, <1>4 DEF IInv, CallsFit, Forgotten, ProposalsStayErased, Lacks
  <2> QED BY <1>1, <1>4, <2>2, <2>4, <2>5, DatabaseStays DEF IInv
<1>5. ASSUME End(p), db' = With(a, {"rejection"})
      PROVE  \E kinds \in SUBSET {"rejection", "spent"} :
             /\ db' = With(a, kinds)
             /\ "spent" \in kinds => frozen[a].op = "RESTORE" /\ Has(a, {"rollback"})
  <2> WITNESS {"rejection"} \in SUBSET {"rejection", "spent"}
  <2> QED BY <1>5
<1>6. ASSUME End(p), Precondition(a), db' = With(a, {"rejection"} \cup Spent(a))
      PROVE  \E kinds \in SUBSET {"rejection", "spent"} :
             /\ db' = With(a, kinds)
             /\ "spent" \in kinds => frozen[a].op = "RESTORE" /\ Has(a, {"rollback"})
  <2>1. {"rejection"} \cup Spent(a) \in SUBSET {"rejection", "spent"}
    BY DEF Spent
  <2>2. "spent" \in {"rejection"} \cup Spent(a) =>
          frozen[a].op = "RESTORE" /\ Has(a, {"rollback"})
    BY <1>6 DEF Spent, Precondition
  <2> QED BY <1>6, <2>1, <2>2
<1> QED BY <1>3, <1>4, <1>5, <1>6 DEF Write

LEMMA RecheckKeeps == ASSUME IInv, NEW p \in Appliers, Recheck(p) PROVE IInv'
<1>1. /\ at[p] = "recheck" /\ on[p] \in Actions /\ serving /\ lock = p
      /\ UNCHANGED <<db, backup, serving, frozen, expired, call, privacy>>
      /\ UNCHANGED <<run, round, refs, erased, late, faults>>
  BY DEF Recheck, forgetting, IInv, TypeOK, Knows, InTransaction
<1>2. CallsFit' /\ Forgotten' /\ ProposalsStayErased'
  BY <1>1 DEF IInv, CallsFit, Forgotten, ProposalsStayErased, Lacks
<1>3. CASE End(p)
  <2>1. TypeOK'
    BY <1>1, <1>3, EndIs DEF IInv, TypeOK
  <2>2. \A q \in Appliers : Knows(q)'
    BY <1>1, <1>3, EndIs, KnowsBesides
  <2> QED BY <1>1, <1>2, <2>1, <2>2, DatabaseStays DEF IInv
<1>4. CASE ~IsHeld /\ Goto(p, "commit") /\ UNCHANGED lock
  <2>1. /\ at' \in [Appliers -> {"idle", "begin", "write", "recheck", "commit"}]
        /\ at'[p] = "commit" /\ on' = on
        /\ \A q \in Appliers : lock' = q <=> at'[q] \in {"write", "recheck", "commit"}
        /\ \A q \in Appliers : q # p => at'[q] = at[q] /\ on'[q] = on[q]
    BY <1>1, <1>4, GotoIs
  <2>2. TypeOK'
    BY <1>1, <1>4, <2>1 DEF IInv, TypeOK
  <2>3. Knows(p) /\ ~privacy.suppressed
    BY <1>4 DEF IInv, IsHeld
  <2>4. Knows(p)'
    BY <1>1, <1>4, <2>1, <2>3 DEF Knows, InTransaction, Precondition, Has, Lacks
  <2>5. \A q \in Appliers : Knows(q)'
    BY <1>1, <2>1, <2>4, KnowsAlone
  <2> QED BY <1>1, <1>2, <2>2, <2>5, DatabaseStays DEF IInv
<1> QED BY <1>3, <1>4 DEF Recheck

LEMMA CommitIs ==
  ASSUME IInv, NEW p \in Appliers, Commit(p)
  PROVE  /\ at[p] = "commit" /\ on[p] \in Actions /\ serving /\ lock = p
         /\ Has(on[p], {"consumption", "policy", "consent", "eligible", "proposal"})
         /\ Lacks(on[p], {"revocation", "rejection", "acceptance"})
         /\ Precondition(on[p])
         /\ "L04" \notin erased /\ "L18_V2" \notin erased
         /\ privacy.suppressed => ~late
         /\ db' \in Databases /\ db'.active = on[p]
         /\ db'.rows[on[p]] = db.rows[on[p]] \cup {"acceptance"} \cup Spent(on[p])
         /\ \A b \in Actions : b # on[p] => db'.rows[b] = db.rows[b]
<1>1. at[p] = "commit" /\ Knows(p)
  BY DEF Commit, IInv
<1>2. /\ on[p] \in Actions /\ serving /\ lock = p
      /\ Has(on[p], {"consumption", "policy", "consent", "eligible", "proposal"})
      /\ Lacks(on[p], {"revocation", "rejection", "acceptance"})
      /\ Precondition(on[p])
      /\ privacy.suppressed => ~late /\ "L04" \notin erased
  BY <1>1 DEF IInv, TypeOK, Knows, InTransaction
<1>3. "L04" \notin erased
  BY <1>2 DEF IInv, Forgotten
<1>4. "L18_V2" \notin erased
  BY <1>2 DEF IInv, ProposalsStayErased, Has, Lacks
<1>5. {"acceptance"} \cup Spent(on[p]) \subseteq Kinds
  BY KindsAre DEF Spent
<1> DEFINE w == With(on[p], {"acceptance"} \cup Spent(on[p]))
<1>6. /\ w \in Databases
      /\ w.rows[on[p]] = db.rows[on[p]] \cup {"acceptance"} \cup Spent(on[p])
      /\ \A b \in Actions : b # on[p] => w.rows[b] = db.rows[b]
  BY <1>2, <1>5, WithIs DEF IInv, TypeOK
<1>7. db' = [w EXCEPT !.active = on[p]]
  BY DEF Commit
<1>8. db' \in Databases /\ db'.active = on[p] /\ db'.rows = w.rows
  BY <1>2, <1>6, <1>7 DEF Databases
<1> QED BY <1>1, <1>2, <1>3, <1>4, <1>6, <1>8

LEMMA CommitKeeps == ASSUME IInv, NEW p \in Appliers, Commit(p) PROVE IInv'
<1> DEFINE a == on[p]
<1>1. /\ at[p] = "commit" /\ a \in Actions /\ serving /\ lock = p
      /\ Has(a, {"consumption", "policy", "consent", "eligible", "proposal"})
      /\ Lacks(a, {"revocation", "rejection", "acceptance"})
      /\ Precondition(a)
      /\ "L04" \notin erased /\ "L18_V2" \notin erased
      /\ privacy.suppressed => ~late
      /\ db' \in Databases /\ db'.active = a
      /\ db'.rows[a] = db.rows[a] \cup {"acceptance"} \cup Spent(a)
      /\ \A b \in Actions : b # a => db'.rows[b] = db.rows[b]
  BY CommitIs
<1>2. /\ UNCHANGED <<backup, serving, frozen, expired, call, privacy>>
      /\ UNCHANGED <<run, round, refs, erased, faults>>
      /\ late' = (late \/ privacy.suppressed) /\ End(p)
  BY DEF Commit, forgetting
<1>3. Closed(db.rows)'
  <2>1. \A k \in {"acceptance"} \cup Spent(a) : Parents[k] \subseteq db.rows[a]
    BY <1>1 DEF Spent, Parents, Precondition, Has
  <2> QED BY <1>1, <2>1 DEF IInv, Sound, Closed
<1>4. Accepted(db') = Accepted(db) \cup {a} /\ a \notin Accepted(db)
  BY <1>1 DEF Accepted, Lacks, Spent
<1>5. frozen[a] # None /\ frozen[a].expected = db.active
  BY <1>1 DEF IInv, Sound, Has, Precondition
<1>6. Chain(db)'
  <2>1. Chain(db)
    BY DEF IInv, Sound
  <2>2. a # None
    BY <1>1, CanonicalMemoryAssumption
  <2> QED BY <1>1, <1>2, <1>4, <1>5, <2>1, <2>2 DEF Chain
<1>7. \A b \in Actions : /\ db'.rows[b] # {} => frozen'[b] # None
                         /\ "spent" \in db'.rows[b] => frozen'[b].op = "RESTORE"
  BY <1>1, <1>2, <1>5 DEF IInv, Sound, Spent
<1>8. Sound(db)'
  BY <1>3, <1>6, <1>7 DEF Sound
<1>9. TypeOK'
  BY <1>1, <1>2, <1>3, EndIs DEF IInv, TypeOK
<1>10. \A q \in Appliers : Knows(q)'
  BY <1>1, <1>2, EndIs, KnowsAlone
<1>11. CallsFit' /\ Forgotten' /\ ProposalsStayErased'
  BY <1>1, <1>2 DEF IInv, CallsFit, Forgotten, ProposalsStayErased
<1> QED BY <1>2, <1>8, <1>9, <1>10, <1>11, BackupStays DEF IInv

-----------------------------------------------------------------------------
(* Forgetting.                                                             *)
LEMMA BeginForgetKeeps == ASSUME IInv, BeginForget PROVE IInv'
<1>1. /\ serving /\ ~privacy.suppressed
      /\ privacy' = [privacy EXCEPT !.held = TRUE, !.suppressed = TRUE]
      /\ UNCHANGED <<db, backup, serving, frozen, expired, call, at, on, lock>>
      /\ UNCHANGED <<run, round, refs, erased, late, faults>>
  BY DEF BeginForget, applying
<1>2. ~late /\ erased = {}
  BY <1>1 DEF IInv, Forgotten
<1>3. TypeOK'
  BY <1>1 DEF IInv, TypeOK
<1>4. \A p \in Appliers : Knows(p)'
  BY <1>1, <1>2 DEF IInv, Knows, InTransaction, Has, Lacks, Precondition
<1>5. CallsFit' /\ Forgotten' /\ ProposalsStayErased'
  BY <1>1, <1>2 DEF IInv, TypeOK, CallsFit, Forgotten, ProposalsStayErased
<1> QED BY <1>1, <1>3, <1>4, <1>5, DatabaseStays DEF IInv

LEMMA ResolveKeeps == ASSUME IInv, NEW o \in Owners, Resolve(o) PROVE IInv'
<1>1. /\ privacy.held
      /\ run' = [owner |-> o, step |-> "erase", found |-> {}]
      /\ round' = IF round = {o} THEN Owners ELSE round \ {o}
      /\ UNCHANGED <<db, backup, serving, frozen, expired, call, at, on, lock>>
      /\ UNCHANGED <<privacy, refs, erased, late, faults>>
  BY DEF Resolve, applying
<1>2. TypeOK'
  <2>1. run' \in Runs
    BY <1>1 DEF Runs
  <2>2. round' \subseteq Owners
    BY <1>1 DEF IInv, TypeOK
  <2> QED BY <1>1, <2>1, <2>2 DEF IInv, TypeOK
<1>3. \A p \in Appliers : Knows(p)'
  BY <1>1, KnowsSame
<1>4. CallsFit' /\ Forgotten' /\ ProposalsStayErased'
  BY <1>1 DEF IInv, CallsFit, Forgotten, ProposalsStayErased, Lacks
<1> QED BY <1>1, <1>2, <1>3, <1>4, DatabaseStays DEF IInv

LEMMA LeftIs ==
  ASSUME IInv, NEW o \in Owners
  PROVE  /\ Left(o) \in [Actions -> SUBSET Kinds]
         /\ \A a \in Actions : Left(o)[a] \subseteq db.rows[a]
         /\ o # "ACTOR_AUTHORITY" =>
              \A a \in Actions : Left(o)[a] = db.rows[a] \ RowsOf[o]
         /\ o # "L04" =>
              \A a \in Actions : "acceptance" \in db.rows[a] => "acceptance" \in Left(o)[a]
<1>1. db.rows \in [Actions -> SUBSET Kinds]
  BY DEF IInv, TypeOK, Databases
<1>2. o \in DOMAIN RowsOf
  BY CanonicalMemoryAssumption
<1>3. o # "L04" => "acceptance" \notin RowsOf[o]
  BY <1>2 DEF RowsOf
<1>4. \A a \in Actions : Left(o)[a] =
        IF o = "ACTOR_AUTHORITY" /\ a \notin refs THEN db.rows[a] ELSE db.rows[a] \ RowsOf[o]
  BY DEF Left
<1>5. Left(o) \in [Actions -> SUBSET Kinds]
  BY <1>1 DEF Left
<1> QED BY <1>3, <1>4, <1>5

LEMMA EraseKeeps == ASSUME IInv, Erase PROVE IInv'
<1> DEFINE o == run.owner
<1>1. /\ serving /\ lock = None /\ run # None
      /\ UNCHANGED <<backup, serving, frozen, expired, at, on, lock, privacy>>
      /\ UNCHANGED <<round, refs, late, faults>>
  BY DEF Erase, Writable, applying
<1>2. run \in Runs /\ o \in Owners /\ privacy.suppressed
  BY <1>1 DEF IInv, TypeOK, Runs, Forgotten
<1>3. CASE run' = None /\ UNCHANGED <<db, call, erased>>
  <2>1. TypeOK'
    BY <1>1, <1>3 DEF IInv, TypeOK
  <2>2. CallsFit' /\ Forgotten' /\ ProposalsStayErased'
    BY <1>1, <1>3 DEF IInv, CallsFit, Forgotten, ProposalsStayErased, Lacks
  <2> QED BY <1>1, <1>3, <2>1, <2>2, DatabaseStays, KnowsOutside DEF IInv
<1>4. CASE /\ Closed(Left(o))
           /\ db' = [rows |-> Left(o), active |-> IF o = "L04" THEN None ELSE db.active]
           /\ call' = CallsLeft(o)
           /\ erased' = erased \cup ({o} \cap {"L04", "L18_V2"})
           /\ run' = [run EXCEPT !.step = "record",
                !.found = IF o \in Reporting THEN {a \in Actions : ~Lacks(a, RowsOf[o])} ELSE {}]
  <2>1. /\ Left(o) \in [Actions -> SUBSET Kinds]
        /\ \A a \in Actions : Left(o)[a] \subseteq db.rows[a]
        /\ o # "ACTOR_AUTHORITY" =>
             \A a \in Actions : Left(o)[a] = db.rows[a] \ RowsOf[o]
        /\ o # "L04" =>
             \A a \in Actions : "acceptance" \in db.rows[a] => "acceptance" \in Left(o)[a]
    BY <1>2, LeftIs
  <2>2. /\ db'.rows = Left(o) /\ db'.active = IF o = "L04" THEN None ELSE db.active
        /\ db' \in Databases
    BY <1>4, <2>1 DEF Databases, IInv, TypeOK
  <2>3. Accepted(db') = IF o = "L04" THEN {} ELSE Accepted(db)
    BY <2>1, <2>2, RowsAre DEF Accepted
  <2>4. Chain(db)'
    BY <1>1, <2>2, <2>3 DEF IInv, Sound, Chain
  <2>5. Sound(db)'
    BY <1>1, <1>4, <2>1, <2>2, <2>4 DEF IInv, Sound
  <2>6. run' \in Runs
    BY <1>2, <1>4 DEF Runs
  <2>7. \A a \in Actions :
          /\ call'[a] = call[a] \/ call'[a] = None
          /\ call'[a] # None => Parents[call'[a]] \subseteq Left(o)[a]
    BY <1>4 DEF CallsLeft
  <2>8. TypeOK'
    <3>1. call' \in [Actions -> Calls \cup {None}]
      BY <1>4 DEF CallsLeft, IInv, TypeOK
    <3>2. erased' \subseteq {"L04", "L18_V2"}
      BY <1>4 DEF IInv, TypeOK
    <3> QED BY <1>1, <2>2, <2>5, <2>6, <3>1, <3>2 DEF IInv, TypeOK, Sound
  <2>9. CallsFit'
    BY <1>1, <2>2, <2>7 DEF IInv, CallsFit
  <2>10. "L18_V2" \in erased' =>
           \A a \in Actions : /\ call'[a] \notin {"eligible", "proposal"}
                              /\ Left(o)[a] \cap {"eligible", "proposal"} = {}
    <3>1. CASE o = "L18_V2"
      <4>1. \A a \in Actions : Left(o)[a] \cap {"candidate", "eligible", "proposal"} = {}
        BY <2>1, <3>1, RowsAre
      <4>2. None \notin {"eligible", "proposal"}
        BY CanonicalMemoryAssumption, KindsAre
      <4> QED BY <2>7, <4>1, <4>2, ParentsAre
    <3>2. CASE o # "L18_V2"
      <4>1. "L18_V2" \in erased' => "L18_V2" \in erased
        BY <1>4, <3>2
      <4>2. None \notin {"eligible", "proposal"}
        BY CanonicalMemoryAssumption, KindsAre
      <4> QED BY <1>1, <2>1, <2>7, <4>1, <4>2 DEF IInv, Forgotten, ProposalsStayErased, Lacks
    <3> QED BY <3>1, <3>2
  <2>11. ProposalsStayErased'
    BY <1>4, <2>2, <2>10, ParentsAre, KindsAre DEF ProposalsStayErased, Lacks, Closed
  <2>12. Forgotten'
    <3>1. "L04" \in erased' => db'.active = None
      BY <1>1, <1>4, <2>2 DEF IInv, Forgotten
    <3> QED BY <1>1, <1>2, <2>10, <3>1 DEF Forgotten
  <2> QED BY <1>1, <2>5, <2>8, <2>9, <2>11, <2>12, BackupStays, KnowsOutside DEF IInv
<1> QED BY <1>3, <1>4 DEF Erase

LEMMA RecordKeeps == ASSUME IInv, Record PROVE IInv'
<1>1. /\ run # None /\ run' = None
      /\ UNCHANGED <<db, backup, serving, frozen, expired, call, at, on, lock>>
      /\ UNCHANGED <<round, erased, late, faults>>
  BY DEF Record, applying
<1>2. run \in Runs
  BY <1>1 DEF IInv, TypeOK
<1>3. /\ privacy' \in [held : BOOLEAN, suppressed : BOOLEAN, done : SUBSET Owners]
      /\ privacy'.held = privacy.held /\ privacy'.suppressed = privacy.suppressed
      /\ refs' \subseteq Actions
  BY <1>2 DEF Record, IInv, TypeOK, Runs
<1>4. TypeOK'
  BY <1>1, <1>3 DEF IInv, TypeOK
<1>5. \A p \in Appliers : Knows(p)'
  BY <1>1, <1>3 DEF IInv, Knows, InTransaction, Has, Lacks, Precondition
<1>6. CallsFit' /\ Forgotten' /\ ProposalsStayErased'
  BY <1>1, <1>3 DEF IInv, CallsFit, Forgotten, ProposalsStayErased, Lacks
<1> QED BY <1>1, <1>4, <1>5, <1>6, DatabaseStays DEF IInv

LEMMA CompleteKeeps == ASSUME IInv, Complete PROVE IInv'
<1>1. /\ privacy' = [privacy EXCEPT !.held = FALSE, !.done = {}]
      /\ UNCHANGED <<db, backup, serving, frozen, expired, call, at, on, lock>>
      /\ UNCHANGED <<run, round, refs, erased, late, faults>>
  BY DEF Complete, applying
<1>2. TypeOK' /\ privacy'.suppressed = privacy.suppressed
  BY <1>1 DEF IInv, TypeOK
<1>3. \A p \in Appliers : Knows(p)'
  BY <1>1, <1>2 DEF IInv, Knows, InTransaction, Has, Lacks, Precondition
<1>4. CallsFit' /\ Forgotten' /\ ProposalsStayErased'
  BY <1>1, <1>2 DEF IInv, TypeOK, CallsFit, Forgotten, ProposalsStayErased, Lacks
<1> QED BY <1>1, <1>2, <1>3, <1>4, DatabaseStays DEF IInv

LEMMA LoseRunKeeps == ASSUME IInv, LoseRun PROVE IInv'
<1>1. /\ run' = None /\ round' = Owners /\ refs' = {}
      /\ faults < MaxFaults /\ faults' = faults + 1
      /\ UNCHANGED <<db, backup, serving, frozen, expired, call, at, on, lock>>
      /\ UNCHANGED <<privacy, erased, late>>
  BY DEF LoseRun, applying
<1>2. TypeOK'
  BY <1>1, CanonicalMemoryAssumption DEF IInv, TypeOK
<1>3. \A p \in Appliers : Knows(p)'
  BY <1>1, KnowsSame
<1>4. CallsFit' /\ Forgotten' /\ ProposalsStayErased'
  BY <1>1 DEF IInv, CallsFit, Forgotten, ProposalsStayErased, Lacks
<1> QED BY <1>1, <1>2, <1>3, <1>4, DatabaseStays DEF IInv

-----------------------------------------------------------------------------
(* Backup and restore.                                                     *)
LEMMA TakeBackupKeeps == ASSUME IInv, TakeBackup PROVE IInv'
<1>1. /\ backup' = db
      /\ UNCHANGED <<db, serving, frozen, expired, call, at, on, lock, privacy>>
      /\ UNCHANGED <<run, round, refs, erased, late, faults>>
  BY DEF TakeBackup, applying, forgetting
<1>2. TypeOK'
  BY <1>1 DEF IInv, TypeOK
<1>3. Sound(db)' /\ Sound(backup)'
  BY <1>1 DEF IInv, Sound, Chain, Accepted
<1>4. \A p \in Appliers : Knows(p)'
  BY <1>1, KnowsSame
<1>5. CallsFit' /\ Forgotten' /\ ProposalsStayErased'
  BY <1>1 DEF IInv, CallsFit, Forgotten, ProposalsStayErased, Lacks
<1> QED BY <1>2, <1>3, <1>4, <1>5 DEF IInv

LEMMA RestoreBackupKeeps == ASSUME IInv, RestoreBackup PROVE IInv'
<1>1. /\ backup # None /\ faults < MaxFaults /\ faults' = faults + 1
      /\ db' = backup /\ serving' = FALSE
      /\ call' = [a \in Actions |-> None]
      /\ at' = [p \in Appliers |-> "idle"] /\ on' = [p \in Appliers |-> None]
      /\ lock' = None /\ run' = None /\ round' = Owners /\ refs' = {}
      /\ erased' = erased \cap {"L04"}
      /\ UNCHANGED <<backup, privacy, frozen, expired, late>>
  BY DEF RestoreBackup
<1>2. Sound(backup) /\ backup \in Databases
  BY <1>1 DEF IInv, TypeOK
<1>3. Sound(db)' /\ Sound(backup)'
  BY <1>1, <1>2 DEF Sound, Chain, Accepted
<1>4. TypeOK'
  <2>1. /\ at' \in [Appliers -> {"idle", "begin", "write", "recheck", "commit"}]
        /\ on' \in [Appliers -> Actions \cup {None}] /\ lock' \in Appliers \cup {None}
        /\ \A p \in Appliers : lock' = p <=> at'[p] \in {"write", "recheck", "commit"}
    BY <1>1, CanonicalMemoryAssumption
  <2>2. /\ call' \in [Actions -> Calls \cup {None}]
        /\ erased' \subseteq {"L04", "L18_V2"} /\ faults' \in 0..MaxFaults
    BY <1>1, CanonicalMemoryAssumption DEF IInv, TypeOK
  <2> QED BY <1>1, <1>2, <2>1, <2>2 DEF IInv, TypeOK, Sound
<1>5. CallsFit'
  BY <1>1 DEF CallsFit
<1>6. \A p \in Appliers : Knows(p)'
  BY <1>1 DEF Knows, InTransaction
<1>7. Forgotten' /\ ProposalsStayErased'
  BY <1>1 DEF IInv, Forgotten, ProposalsStayErased
<1> QED BY <1>3, <1>4, <1>5, <1>6, <1>7 DEF IInv

LEMMA VerifyKeeps == ASSUME IInv, Verify PROVE IInv'
<1>1. /\ ~serving /\ serving'
      /\ UNCHANGED <<backup, frozen, expired, call, at, on, lock, privacy>>
      /\ UNCHANGED <<run, round, refs, late, faults>>
  BY DEF Verify, applying, forgetting
<1>2. \A p \in Appliers : at[p] = "idle"
  BY <1>1 DEF IInv, Knows
<1>3. "L18_V2" \notin erased
  BY <1>1 DEF IInv, Forgotten
<1>4. \A p \in Appliers : Knows(p)'
  BY <1>1, <1>2 DEF Knows, InTransaction
<1>5. CASE /\ privacy.suppressed
           /\ db' = [rows |-> [a \in Actions |-> db.rows[a] \ {"acceptance"}], active |-> None]
           /\ erased' = erased \cup {"L04"}
  <2>1. /\ db' \in Databases /\ db'.active = None
        /\ \A a \in Actions : db'.rows[a] = db.rows[a] \ {"acceptance"}
    BY <1>5 DEF IInv, TypeOK, Databases
  <2>2. \A k \in Kinds : "acceptance" \notin Parents[k]
    BY KindsAre DEF Parents
  <2>3. Closed(db.rows)'
    BY <2>1, <2>2 DEF IInv, TypeOK, Databases, Sound, Closed
  <2>4. Accepted(db') = {}
    BY <2>1 DEF Accepted
  <2>5. Sound(db)'
    BY <1>1, <2>1, <2>3, <2>4 DEF IInv, Sound, Chain
  <2>6. TypeOK'
    BY <1>1, <1>5, <2>1, <2>3 DEF IInv, TypeOK
  <2>7. CallsFit'
    BY <1>1, <2>1, <2>2 DEF IInv, TypeOK, Calls, CallsFit
  <2>8. Forgotten' /\ ProposalsStayErased'
    BY <1>1, <1>3, <1>5, <2>1 DEF IInv, Forgotten, ProposalsStayErased
  <2> QED BY <1>1, <1>4, <2>5, <2>6, <2>7, <2>8, BackupStays DEF IInv
<1>6. CASE ~privacy.suppressed /\ UNCHANGED <<db, erased>>
  <2>1. TypeOK' /\ CallsFit'
    BY <1>1, <1>6 DEF IInv, TypeOK, CallsFit
  <2>2. Forgotten' /\ ProposalsStayErased'
    BY <1>1, <1>3, <1>6 DEF IInv, Forgotten, ProposalsStayErased
  <2> QED BY <1>1, <1>4, <1>6, <2>1, <2>2, DatabaseStays DEF IInv
<1> QED BY <1>5, <1>6 DEF Verify

-----------------------------------------------------------------------------
LEMMA StutterKeeps == ASSUME IInv, UNCHANGED vars PROVE IInv'
<1>1. /\ UNCHANGED <<db, backup, serving, frozen, expired, call, at, on, lock, privacy>>
      /\ UNCHANGED <<run, round, refs, erased, late, faults>>
  BY DEF vars, applying, forgetting
<1>2. TypeOK' /\ CallsFit' /\ Forgotten' /\ ProposalsStayErased'
  BY <1>1 DEF IInv, TypeOK, CallsFit, Forgotten, ProposalsStayErased, Lacks
<1> QED BY <1>1, <1>2, DatabaseStays, KnowsSame DEF IInv

LEMMA StepKeeps == ASSUME IInv, [Next]_vars PROVE IInv'
<1>1. ASSUME NEW a \in Actions, Propose(a) PROVE IInv'
  BY <1>1, FreezeKeeps, ExpireKeeps, ReadKeeps, InsertKeeps, DropKeeps DEF Propose
<1>2. ASSUME NEW p \in Appliers, Apply(p) PROVE IInv'
  BY <1>2, StartKeeps, BeginKeeps, WriteKeeps, RecheckKeeps, CommitKeeps, AbortKeeps
  DEF Apply
<1>3. ASSUME ForgetRun PROVE IInv'
  BY <1>3, BeginForgetKeeps, ResolveKeeps, EraseKeeps, RecordKeeps, CompleteKeeps,
     LoseRunKeeps DEF ForgetRun, RunStep
<1> QED
  BY <1>1, <1>2, <1>3, TakeBackupKeeps, RestoreBackupKeeps, VerifyKeeps, StutterKeeps
  DEF Next

THEOREM Invariance == Spec => []IInv
<1>1. Init => IInv
  BY Initially
<1>2. IInv /\ [Next]_vars => IInv'
  BY StepKeeps
<1> QED BY <1>1, <1>2, PTL DEF Spec

(* Every variable keeps its type, the rows their references, and the write *)
(* lock its holder, through applications, erasures, crashes and restores.  *)
THEOREM TypeCorrect == Spec => []TypeOK
<1>1. IInv => TypeOK
  BY DEF IInv
<1> QED BY <1>1, Invariance, PTL

(* The revisions of an identity are one chain, however many appliers race  *)
(* and whatever is erased or restored in between (canonical_store.apply).  *)
THEOREM HistoryIsLinear == Spec => []ChainIsLinear
<1>1. IInv => ChainIsLinear
  BY DEF IInv, Sound, ChainIsLinear
<1> QED BY <1>1, Invariance, PTL

(* No proposal and no admission comes back after L18_V2's erasure          *)
(* (learning_v2's second look at the hold, and its foreign keys).          *)
THEOREM ProposalsGone == Spec => []ProposalsStayErased
<1>1. IInv => ProposalsStayErased
  BY DEF IInv
<1> QED BY <1>1, Invariance, PTL

-----------------------------------------------------------------------------
(* What the steps do to the revisions and to the promise.                  *)
Quiet ==
  /\ db'.active = db.active /\ Accepted(db') \subseteq Accepted(db)
  /\ serving' = serving /\ privacy'.suppressed = privacy.suppressed /\ late' = late
  /\ "L04" \in erased' <=> "L04" \in erased

LEMMA WithIsQuiet ==
  ASSUME IInv, NEW a \in Actions, NEW kinds \in SUBSET (Kinds \ {"acceptance"}),
         db' = With(a, kinds), UNCHANGED <<serving, privacy, late, erased>>
  PROVE  Quiet
<1>1. /\ db'.active = db.active /\ db'.rows[a] = db.rows[a] \cup kinds
      /\ \A b \in Actions : b # a => db'.rows[b] = db.rows[b]
  BY WithIs DEF IInv, TypeOK
<1> QED BY <1>1 DEF Quiet, Accepted

LEMMA SameIsQuiet ==
  ASSUME UNCHANGED <<db, serving, privacy, late, erased>>
  PROVE  Quiet
BY DEF Quiet, Accepted

LEMMA ProposeIsQuiet == ASSUME IInv, NEW a \in Actions, Propose(a) PROVE Quiet
<1>1. CASE Freeze(a)
  <2>1. {"evidence"} \in SUBSET (Kinds \ {"acceptance"})
    BY KindsAre
  <2> QED BY <1>1, <2>1, WithIsQuiet DEF Freeze, forgetting
<1>2. CASE Insert(a)
  <2>1. call[a] \in Calls
    BY <1>2 DEF Insert, IInv, TypeOK
  <2>2. {call[a]} \in SUBSET (Kinds \ {"acceptance"})
    BY <2>1 DEF Calls
  <2> QED BY <1>2, <2>2, WithIsQuiet DEF Insert, forgetting
<1>3. CASE Expire(a) \/ Read(a) \/ Drop(a)
  BY <1>3, SameIsQuiet DEF Expire, Read, Drop, forgetting
<1> QED BY <1>1, <1>2, <1>3 DEF Propose

LEMMA ApplyIsQuiet ==
  ASSUME IInv, NEW p \in Appliers, Apply(p), ~Commit(p) PROVE Quiet
<1>1. CASE Start(p) \/ Recheck(p) \/ Abort(p)
  BY <1>1, SameIsQuiet DEF Start, Recheck, Abort, forgetting
<1>2. CASE Begin(p) \/ Write(p)
  <2>1. on[p] \in Actions
    BY <1>2 DEF Begin, Write, IInv, Knows
  <2>2. CASE UNCHANGED db
    BY <1>2, <2>2, SameIsQuiet DEF Begin, Write, forgetting
  <2>3. CASE \E kinds \in SUBSET {"rejection", "spent"} : db' = With(on[p], kinds)
    <3>1. SUBSET {"rejection", "spent"} \subseteq SUBSET (Kinds \ {"acceptance"})
      BY KindsAre
    <3> QED BY <1>2, <2>1, <2>3, <3>1, WithIsQuiet DEF Begin, Write, forgetting
  <2>4. ASSUME db' = With(on[p], {"rejection"})
        PROVE  \E kinds \in SUBSET {"rejection", "spent"} : db' = With(on[p], kinds)
    <3>1. {"rejection"} \in SUBSET {"rejection", "spent"}
      OBVIOUS
    <3> QED BY <2>4, <3>1
  <2>5. ASSUME db' = With(on[p], {"rejection"} \cup Spent(on[p]))
        PROVE  \E kinds \in SUBSET {"rejection", "spent"} : db' = With(on[p], kinds)
    <3>1. {"rejection"} \cup Spent(on[p]) \in SUBSET {"rejection", "spent"}
      BY DEF Spent
    <3> QED BY <2>5, <3>1
  <2> QED BY <1>2, <2>2, <2>3, <2>4, <2>5 DEF Begin, Write
<1> QED BY <1>1, <1>2 DEF Apply

(* The erasure of L04 leaves no revision.                                  *)
Wiped ==
  /\ serving /\ privacy.suppressed /\ UNCHANGED <<serving, privacy, late>>
  /\ db'.active = None /\ Accepted(db') = {} /\ "L04" \in erased'

LEMMA EraseIs == ASSUME IInv, Erase PROVE Quiet \/ Wiped
<1> DEFINE o == run.owner
<1>1. /\ serving /\ run # None /\ UNCHANGED <<serving, privacy, late>>
  BY DEF Erase, Writable
<1>2. o \in Owners /\ privacy.suppressed
  BY <1>1 DEF IInv, TypeOK, Runs, Forgotten
<1>3. CASE UNCHANGED <<db, call, erased>>
  BY <1>1, <1>3, SameIsQuiet
<1>4. CASE /\ db' = [rows |-> Left(o), active |-> IF o = "L04" THEN None ELSE db.active]
           /\ erased' = erased \cup ({o} \cap {"L04", "L18_V2"})
  <2>1. /\ \A a \in Actions : db'.rows[a] \subseteq db.rows[a]
        /\ o = "L04" => \A a \in Actions : "acceptance" \notin db'.rows[a]
    BY <1>2, <1>4, LeftIs, RowsAre
  <2> QED BY <1>1, <1>2, <1>4, <2>1 DEF Quiet, Wiped, Accepted
<1> QED BY <1>3, <1>4 DEF Erase

LEMMA Steps ==
  ASSUME IInv, [Next]_vars
  PROVE  \/ Quiet \/ Wiped \/ BeginForget \/ RestoreBackup \/ Verify
         \/ \E p \in Appliers : Commit(p)
<1>1. ASSUME (\E o \in Owners : Resolve(o)) \/ Record \/ Complete \/ LoseRun
      PROVE  Quiet
  <2>1. /\ UNCHANGED <<db, serving, late, erased>>
        /\ privacy'.suppressed = privacy.suppressed
    BY <1>1 DEF Resolve, Record, Complete, LoseRun, IInv, TypeOK
  <2> QED BY <2>1 DEF Quiet, Accepted
<1>2. ASSUME TakeBackup \/ UNCHANGED vars PROVE Quiet
  BY <1>2, SameIsQuiet DEF TakeBackup, vars, forgetting
<1>3. ASSUME ForgetRun PROVE Quiet \/ Wiped \/ BeginForget
  BY <1>1, <1>3, EraseIs DEF ForgetRun, RunStep
<1> QED BY <1>2, <1>3, ProposeIsQuiet, ApplyIsQuiet DEF Next

(* A revision is admitted only by the commit of a transaction that has     *)
(* seen its authority, and a RESTORE spends its authorization there.       *)
THEOREM AuthorityHolds == Spec => AcceptedUnderAuthority
<1> DEFINE Held(a) ==
      serving' /\ Lacks(a, {"acceptance"}) /\ "acceptance" \in db'.rows[a] =>
        /\ Has(a, {"consumption", "policy", "consent", "eligible"})
        /\ Lacks(a, {"revocation", "rejection", "spent"})
        /\ frozen[a].op = "RESTORE" => "spent" \in db'.rows[a]
<1>1. ASSUME IInv, [Next]_vars, NEW a \in Actions PROVE Held(a)
  <2>1. ASSUME Accepted(db') \subseteq Accepted(db) PROVE Held(a)
    BY <2>1 DEF Accepted, Lacks
  <2>2. CASE Quiet \/ Wiped
    BY <2>1, <2>2 DEF Quiet, Wiped
  <2>3. CASE BeginForget
    BY <2>1, <2>3 DEF BeginForget, Accepted
  <2>4. CASE RestoreBackup
    BY <2>4 DEF RestoreBackup
  <2>5. CASE Verify
    <3>1. \A b \in Actions : "acceptance" \in db'.rows[b] => "acceptance" \in db.rows[b]
      BY <2>5 DEF Verify
    <3> QED BY <2>1, <3>1 DEF Accepted
  <2>6. ASSUME NEW p \in Appliers, Commit(p) PROVE Held(a)
    <3>1. CASE a # on[p]
      BY <1>1, <2>6, <3>1, CommitIs DEF Lacks
    <3>2. CASE a = on[p]
      <4>1. /\ Has(a, {"consumption", "policy", "consent", "eligible"})
            /\ Lacks(a, {"revocation", "rejection"})
            /\ db'.rows[a] = db.rows[a] \cup {"acceptance"} \cup Spent(a)
            /\ Precondition(a)
        BY <1>1, <2>6, <3>2, CommitIs DEF Has, Lacks
      <4>2. Lacks(a, {"spent"})
        BY <1>1, <4>1 DEF IInv, Sound, Precondition, Lacks
      <4>3. Lacks(a, {"revocation", "rejection", "spent"})
        BY <4>1, <4>2 DEF Lacks
      <4> QED BY <4>1, <4>3 DEF Spent
    <3> QED BY <3>1, <3>2
  <2> QED BY <1>1, <2>2, <2>3, <2>4, <2>5, <2>6, Steps
<1>2. IInv /\ [Next]_vars => [\A a \in Actions : Held(a)]_vars
  BY <1>1
<1> QED BY <1>2, Invariance, PTL DEF Spec, AcceptedUnderAuthority

LEMMA StepRefines ==
  ASSUME IInv, [Next]_vars
  PROVE  [Promise!Next]_(Promise!vars)
<1>1. /\ ~privacy.suppressed => ~late /\ erased = {}
      /\ "L04" \in erased => Served = None
  BY DEF IInv, Forgotten, Served
<1>2. CASE Quiet
  BY <1>2 DEF Quiet, Promise!vars, Phase, Served
<1>3. CASE Wiped
  BY <1>1, <1>3 DEF Wiped, Promise!Next, Promise!Forget, Promise!vars, Phase, Served
<1>4. CASE BeginForget
  <2>1. /\ ~privacy.suppressed /\ privacy'.suppressed
        /\ UNCHANGED <<db, serving, erased, late>>
    BY <1>4 DEF BeginForget, IInv, TypeOK
  <2> QED BY <1>1, <2>1 DEF Promise!Next, Promise!Close, Phase, Served
<1>5. CASE RestoreBackup
  <2>1. /\ serving /\ ~serving' /\ UNCHANGED <<privacy, late>>
        /\ "L04" \in erased' <=> "L04" \in erased
    BY <1>5 DEF RestoreBackup
  <2>2. Phase' = Phase /\ Served' = None
    BY <2>1 DEF Phase, Served
  <2>3. CASE Phase = "forgotten"
    BY <1>1, <2>1, <2>2, <2>3 DEF Phase, Promise!vars
  <2>4. CASE Phase = "closing"
    BY <2>1, <2>2, <2>4 DEF Promise!Next, Promise!Hide
  <2>5. CASE Phase = "open"
    BY <2>1, <2>2, <2>5 DEF Promise!Next, Promise!Change
  <2> QED BY <2>3, <2>4, <2>5 DEF Phase
<1>6. CASE Verify
  <2>1. /\ ~serving /\ serving' /\ UNCHANGED <<privacy, late>>
        /\ db'.active \in Actions \cup {None}
        /\ privacy.suppressed => db'.active = None /\ "L04" \in erased'
        /\ ~privacy.suppressed => UNCHANGED erased
    BY <1>6 DEF Verify, forgetting, IInv, TypeOK, Databases
  <2>2. Served = None /\ Served' = db'.active
    BY <2>1 DEF Served
  <2>3. CASE Phase = "forgotten"
    BY <1>1, <2>1, <2>2, <2>3 DEF Phase, Promise!vars
  <2>4. CASE Phase = "closing"
    BY <2>1, <2>2, <2>4 DEF Phase, Promise!Next, Promise!Forget
  <2>5. CASE Phase = "open"
    <3>1. ~privacy.suppressed /\ Phase' = "open"
      BY <1>1, <2>1, <2>5 DEF Phase
    <3> QED BY <2>1, <2>2, <2>5, <3>1 DEF Promise!Next, Promise!Change
  <2> QED BY <2>3, <2>4, <2>5 DEF Phase
<1>7. ASSUME NEW p \in Appliers, Commit(p) PROVE Promise!Next
  <2>1. /\ on[p] \in Actions /\ serving /\ "L04" \notin erased
        /\ privacy.suppressed => ~late
        /\ db'.active = on[p]
    BY <1>7, CommitIs
  <2>2. UNCHANGED <<serving, privacy, erased>> /\ late' = (late \/ privacy.suppressed)
    BY <1>7 DEF Commit, forgetting
  <2>3. Served' = on[p] /\ Phase' = Phase
    BY <2>1, <2>2 DEF Served, Phase
  <2>4. CASE privacy.suppressed
    <3>1. Phase = "closing" /\ ~late /\ late' = TRUE
      BY <2>1, <2>2, <2>4 DEF Phase
    <3> QED BY <2>1, <2>3, <3>1 DEF Promise!Next, Promise!LateAdmission
  <2>5. CASE ~privacy.suppressed
    <3>1. Phase = "open"
      BY <1>1, <2>1, <2>5 DEF Phase
    <3>2. late' = late
      BY <1>1, <2>2, <2>5 DEF IInv, TypeOK
    <3> QED BY <2>1, <2>3, <3>1, <3>2 DEF Promise!Next, Promise!Change
  <2> QED BY <2>4, <2>5
<1> QED BY <1>2, <1>3, <1>4, <1>5, <1>6, <1>7, Steps

(* Whatever is admitted, erased, crashed or restored, the service keeps    *)
(* the promise of ForgettableMemory.                                       *)
THEOREM PromiseKept == Spec => ImplementsPromise
<1>1. Init => Promise!Init
  BY DEF Init, Promise!Init, Phase, Served
<1>2. IInv /\ [Next]_vars => [Promise!Next]_(Promise!vars)
  BY StepRefines
<1> QED BY <1>1, <1>2, Invariance, PTL DEF Spec, ImplementsPromise, Promise!Spec

=============================================================================
