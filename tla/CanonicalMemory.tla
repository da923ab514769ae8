-------------------------- MODULE CanonicalMemory --------------------------
(***************************************************************************)
(* The core API's canonical memory of one identity, and its forgetting.    *)
(*                                                                         *)
(* An owner's action (CREATE, SUPERSEDE or RESTORE) becomes a revision     *)
(* after a dozen small commits in the cognitive database: evidence, its    *)
(* consumption, a policy decision, an intent, a consent, a candidate, its  *)
(* assessment, a proposal; then one transaction of the L04 store admits    *)
(* the proposal or rejects it.  Each earlier call reads first and inserts  *)
(* later, so what it read may be gone.  The right to be forgotten lives in *)
(* a second database, of which the L04 transaction reads a hold but which  *)
(* it cannot lock; and forgetting is a run of owners, each with an erasure *)
(* transaction in the first database and a result in the second.           *)
(*                                                                         *)
(* Rows are kinds: the row of kind k that belongs to action a is present   *)
(* when k \in db.rows[a].  One action has at most one call under way.      *)
(***************************************************************************)
EXTENDS Integers, FiniteSets

CONSTANTS
  Actions,      \* frozen actions; an action also names the revision it makes
  Appliers,     \* connections that apply proposals
  Owners,       \* the resource owners of the erasure authorization
  MayExpire,    \* actions whose evidence may expire
  MaxFaults,    \* bound: restores, and losses of a forget run
  None

VARIABLES
  db,           \* the cognitive database: rows and the active revision
  backup,       \* a backup of it, or None
  privacy,      \* the privacy database
  serving,      \* the service runs; FALSE while a backup is restored
  frozen,       \* what each action asks for, or None
  expired,      \* actions whose evidence is past its expiry
  call,         \* the row each action's call is about to insert, or None
  at,           \* where each applier is
  on,           \* the proposal of its call
  lock,         \* the applier that holds the cognitive write lock
  run,          \* the owner the forget run works on, or None
  round,        \* owners the run has still to call before it starts over
  refs,         \* actor evidence the run has been told to erase
  erased,       \* history: whether L04 and L18_V2 have been erased, and no
                \* restore has brought the rows of L18_V2 back
  late,         \* history: a revision was admitted after the forget began
  faults        \* faults so far

applying   == <<at, on, lock>>
forgetting == <<privacy, run, round, refs>>
vars == <<db, backup, serving, frozen, expired, call, applying, forgetting,
          erased, late, faults>>

(* The rows of each resource owner, and the rows each one references.      *)
RowsOf ==
  [L04             |-> {"acceptance", "rejection"},
   L18_V2          |-> {"intent", "candidate", "eligible", "ineligible", "proposal"},
   POLICY          |-> {"policy", "denial"},
   CONSENT         |-> {"consent", "revocation"},
   ROLLBACK        |-> {"rollback", "spent"},
   ACTOR_AUTHORITY |-> {"evidence", "consumption"}]

Parents ==
  [evidence   |-> {},
   consumption |-> {"evidence"},
   policy     |-> {"evidence"},
   denial     |-> {"evidence"},
   intent     |-> {},
   consent    |-> {"evidence"},
   revocation |-> {"evidence", "consent"},
   rollback   |-> {"evidence", "consent"},
   spent      |-> {"rollback"},
   candidate  |-> {"intent"},
   eligible   |-> {"candidate"},
   ineligible |-> {"candidate"},
   proposal   |-> {"candidate", "intent"},
   acceptance |-> {"proposal"},
   rejection  |-> {"proposal"}]

Kinds == DOMAIN Parents
Calls == Kinds \ {"evidence", "spent", "acceptance", "rejection"}

ASSUME CanonicalMemoryAssumption ==
  /\ None \notin Actions \cup Appliers \cup Kinds
  /\ Owners \subseteq DOMAIN RowsOf /\ "L04" \in Owners
  /\ MayExpire \subseteq Actions
  /\ MaxFaults \in Nat

(* Every reference leads to a row: foreign_keys=ON on every connection.    *)
Closed(rows) == \A a \in Actions : \A k \in rows[a] : Parents[k] \subseteq rows[a]

Operations == {"CREATE", "SUPERSEDE", "RESTORE"}
Requests == [op : Operations, expected : Actions \cup {None}, restore : Actions \cup {None}]
Databases == [rows : [Actions -> SUBSET Kinds], active : Actions \cup {None}]
Runs == [owner : Owners, step : {"erase", "record"}, found : SUBSET Actions]

ASSUME NoneAssumption == None \notin Requests \cup Databases \cup Runs

Init ==
  /\ db = [rows |-> [a \in Actions |-> {}], active |-> None]
  /\ backup = None
  /\ privacy = [held |-> FALSE, suppressed |-> FALSE, done |-> {}]
  /\ serving = TRUE
  /\ frozen = [a \in Actions |-> None]
  /\ expired = {}
  /\ call = [a \in Actions |-> None]
  /\ at = [p \in Appliers |-> "idle"]
  /\ on = [p \in Appliers |-> None]
  /\ lock = None
  /\ run = None /\ round = Owners /\ refs = {}
  /\ erased = {} /\ late = FALSE
  /\ faults = 0

Has(a, kinds) == kinds \subseteq db.rows[a]
Lacks(a, kinds) == kinds \cap db.rows[a] = {}
Admitted(a) == ~Lacks(a, {"acceptance", "rejection"})
With(a, kinds) == [db EXCEPT !.rows[a] = @ \cup kinds]

(* A write transaction of the cognitive database can begin.                *)
Writable == serving /\ lock = None

(* Mutant of IsHeld: the completed suppression no longer counts.           *)
IsHeldActiveOnly == privacy.held

(* An active hold, or the suppression that outlives it.                    *)
IsHeld == privacy.held \/ privacy.suppressed

----------------------------------------------------------------------------
(* From the owner's action to a proposal.                                  *)

(* The action is frozen against the active revision, with fresh evidence.  *)
Freeze(a) ==
  /\ Writable /\ frozen[a] = None
  /\ \E op \in Operations, restore \in Actions \cup {None} :
       /\ op # "CREATE" => db.active # None
       /\ IF op = "RESTORE" THEN restore # None /\ Has(restore, {"acceptance"})
                            ELSE restore = None
       /\ frozen' = [frozen EXCEPT ![a] =
            [op |-> op, restore |-> restore,
             expected |-> IF op = "CREATE" THEN None ELSE db.active]]
  /\ db' = With(a, {"evidence"})
  /\ UNCHANGED <<backup, serving, expired, call, applying, forgetting, erased, late, faults>>

Expire(a) ==
  /\ a \in MayExpire \ expired /\ frozen[a] # None
  /\ expired' = expired \cup {a}
  /\ UNCHANGED <<db, backup, serving, frozen, call, applying, forgetting, erased, late, faults>>

(* Rows of which an action has one: a decision, an assessment, itself.     *)
Slot(k) == CASE k \in {"policy", "denial"} -> {"policy", "denial"}
             [] k \in {"eligible", "ineligible"} -> {"eligible", "ineligible"}
             [] OTHER -> {k}

(* What each call has to read before it goes on to its insertion; that of  *)
(* an intent looks at nothing.                                             *)
Reads ==
  [consumption |-> {"evidence"},
   denial     |-> {"evidence"},
   intent     |-> {},
   consent    |-> {"evidence", "consumption", "policy"},
   revocation |-> {"evidence", "consumption", "consent"},
   rollback   |-> {"evidence", "consumption", "consent"},
   candidate  |-> {"evidence", "consumption", "policy", "consent", "intent"},
   eligible   |-> {"candidate"},
   ineligible |-> {"candidate"},
   proposal   |-> {"candidate", "intent", "eligible"}]

Unexpired == {"consumption", "consent", "revocation", "rollback", "candidate"}
Unrevoked == {"rollback", "candidate"}

Ready(a, k) ==
  /\ Has(a, Reads[k]) /\ Lacks(a, Slot(k))
  /\ k \in Unexpired => a \notin expired
  /\ k \in Unrevoked => Lacks(a, {"revocation"})
  /\ k = "denial" => a \in expired \/ Has(a, {"consumption"})
  /\ k = "rollback" => frozen[a].op = "RESTORE"
  /\ k = "eligible" => ~IsHeld
  /\ k = "ineligible" => IsHeld
  /\ k = "proposal" /\ frozen[a].op = "RESTORE" => Has(a, {"rollback"})

Read(a) == \E k \in DOMAIN Reads :
  /\ serving /\ frozen[a] # None /\ call[a] = None
  /\ Ready(a, k)
  /\ call' = [call EXCEPT ![a] = k]
  /\ UNCHANGED <<db, backup, serving, frozen, expired, applying, forgetting, erased, late, faults>>

(* The insertion; a decision follows the consumption it rests on.          *)
Insert(a) ==
  /\ Writable /\ call[a] # None
  /\ db' = With(a, {call[a]})
  /\ call' = [call EXCEPT ![a] = IF @ = "consumption" THEN "policy" ELSE None]
  /\ UNCHANGED <<backup, serving, frozen, expired, applying, forgetting, erased, late, faults>>

(* The call dies between its reads and its insertion, or between two.      *)
Drop(a) ==
  /\ call[a] # None
  /\ call' = [call EXCEPT ![a] = None]
  /\ UNCHANGED <<db, backup, serving, frozen, expired, applying, forgetting, erased, late, faults>>

----------------------------------------------------------------------------
(* L04: one transaction admits a proposal or rejects it.                   *)

Goto(p, step) == at' = [at EXCEPT ![p] = step] /\ UNCHANGED on
End(p) == /\ at' = [at EXCEPT ![p] = "idle"]
          /\ on' = [on EXCEPT ![p] = None]
          /\ lock' = IF lock = p THEN None ELSE lock

(* A reference nobody has decided yet; the first replay finds nothing.     *)
Start(p) == \E a \in Actions :
  /\ serving /\ at[p] = "idle"
  /\ Has(a, {"proposal"}) /\ ~Admitted(a)
  /\ at' = [at EXCEPT ![p] = "begin"] /\ on' = [on EXCEPT ![p] = a]
  /\ UNCHANGED <<db, backup, serving, frozen, expired, call, lock, forgetting, erased, late, faults>>

(* Mutant of Authorised: a revoked consent still counts.                   *)
AuthorisedRevoked(a) ==
  /\ ~IsHeld
  /\ Has(a, {"evidence", "consumption", "policy", "consent", "candidate", "eligible"})
  /\ a \notin expired

Authorised(a) ==
  /\ ~IsHeld
  /\ Has(a, {"evidence", "consumption", "policy", "consent", "candidate", "eligible"})
  /\ Lacks(a, {"revocation"})
  /\ a \notin expired

(* BEGIN IMMEDIATE, the second replay and _prevalidate.  A rejection is    *)
(* recorded; a reference that leads nowhere is not.                        *)
Begin(p) == LET a == on[p] IN
  /\ at[p] = "begin"
  /\ \/ /\ lock # None \/ Admitted(a) \/ Lacks(a, {"proposal"})
        /\ End(p) /\ UNCHANGED db
     \/ /\ lock = None /\ ~Admitted(a) /\ Has(a, {"proposal"}) /\ ~Authorised(a)
        /\ db' = With(a, {"rejection"}) /\ End(p)
     \/ /\ lock = None /\ ~Admitted(a) /\ Has(a, {"proposal"}) /\ Authorised(a)
        /\ lock' = p /\ Goto(p, "write") /\ UNCHANGED db
  /\ UNCHANGED <<backup, serving, frozen, expired, call, forgetting, erased, late, faults>>

(* Mutant of Precondition: the expected revision is not compared.          *)
PreconditionAnyRevision(a) == LET f == frozen[a] IN
  /\ IF f.op = "CREATE" THEN db.active = None ELSE db.active # None
  /\ f.op = "RESTORE" => /\ Has(f.restore, {"acceptance"})
                         /\ Has(a, {"rollback"}) /\ Lacks(a, {"spent"})

(* The active revision is the expected one; a RESTORE has a revision to    *)
(* restore and an authorization nobody has spent.                          *)
Precondition(a) == LET f == frozen[a] IN
  /\ db.active = f.expected
  /\ f.op = "RESTORE" => /\ Has(f.restore, {"acceptance"})
                         /\ Has(a, {"rollback"}) /\ Lacks(a, {"spent"})

(* What the transaction has spent by now.                                  *)
Spent(a) == IF frozen[a].op = "RESTORE" THEN {"spent"} ELSE {}

(* The preconditions, then the second look at the hold.                    *)
Write(p) == LET a == on[p] IN
  /\ at[p] = "write"
  /\ \/ /\ ~Precondition(a)
        /\ db' = With(a, {"rejection"}) /\ End(p)
     \/ /\ Precondition(a) /\ IsHeld
        /\ db' = With(a, {"rejection"} \cup Spent(a)) /\ End(p)
     \/ /\ Precondition(a) /\ ~IsHeld
        /\ Goto(p, "recheck") /\ UNCHANGED <<db, lock>>
  /\ UNCHANGED <<backup, serving, frozen, expired, call, forgetting, erased, late, faults>>

(* The third look, with every write done: a hold rolls them all back.      *)
Recheck(p) ==
  /\ at[p] = "recheck"
  /\ IF IsHeld THEN End(p) ELSE Goto(p, "commit") /\ UNCHANGED lock
  /\ UNCHANGED <<db, backup, serving, frozen, expired, call, forgetting, erased, late, faults>>

Commit(p) == LET a == on[p] IN
  /\ at[p] = "commit"
  /\ db' = [With(a, {"acceptance"} \cup Spent(a)) EXCEPT !.active = a]
  /\ late' = (late \/ privacy.suppressed)
  /\ End(p)
  /\ UNCHANGED <<backup, serving, frozen, expired, call, forgetting, erased, faults>>

(* The caller dies or a statement fails: everything is rolled back.        *)
Abort(p) ==
  /\ at[p] # "idle"
  /\ End(p)
  /\ UNCHANGED <<db, backup, serving, frozen, expired, call, forgetting, erased, late, faults>>

----------------------------------------------------------------------------
(* Forgetting.                                                             *)

(* Hold, authorization and suppression, in one transaction.                *)
BeginForget ==
  /\ serving /\ ~privacy.suppressed
  /\ privacy' = [privacy EXCEPT !.held = TRUE, !.suppressed = TRUE]
  /\ UNCHANGED <<db, backup, serving, frozen, expired, call, applying, run, round, refs, erased, late, faults>>

(* Mutant of Resolve: an owner whose result is recorded is skipped.        *)
ResolveOnce(o) ==
  /\ serving /\ run = None /\ privacy.held /\ ~(Owners \subseteq privacy.done)
  /\ o \in (IF round \subseteq privacy.done THEN Owners ELSE round) \ privacy.done
  /\ run' = [owner |-> o, step |-> "erase", found |-> {}]
  /\ round' = IF round \subseteq privacy.done \cup {o} THEN Owners ELSE round \ {o}
  /\ UNCHANGED <<db, backup, serving, frozen, expired, call, applying, privacy, refs, erased, late, faults>>

(* An owner is called, whether or not it has a result; it finds the        *)
(* authorization while the hold is there.                                  *)
Resolve(o) ==
  /\ serving /\ run = None /\ privacy.held /\ ~(Owners \subseteq privacy.done)
  /\ o \in round
  /\ run' = [owner |-> o, step |-> "erase", found |-> {}]
  /\ round' = IF round = {o} THEN Owners ELSE round \ {o}
  /\ UNCHANGED <<db, backup, serving, frozen, expired, call, applying, privacy, refs, erased, late, faults>>

(* The rows an owner leaves.  The actor authority erases the evidence it   *)
(* was handed the references of, the others all rows of the identity.      *)
Left(o) == [a \in Actions |->
  IF o = "ACTOR_AUTHORITY" /\ a \notin refs THEN db.rows[a] ELSE db.rows[a] \ RowsOf[o]]

(* Owners that report the evidence their rows referenced.                  *)
Reporting == {"POLICY", "CONSENT", "ROLLBACK"}

(* A call that read rows which are gone fails on their identifiers.        *)
CallsLeft(o) == [a \in Actions |->
  IF call[a] # None /\ ~(Parents[call[a]] \subseteq Left(o)[a]) THEN None ELSE call[a]]

(* Mutant of Erase: the foreign keys are switched off.                     *)
EraseUnchecked == LET o == run.owner IN
  /\ Writable /\ run # None /\ run.step = "erase"
  /\ db' = [rows |-> Left(o), active |-> IF o = "L04" THEN None ELSE db.active]
  /\ call' = CallsLeft(o)
  /\ erased' = erased \cup ({o} \cap {"L04", "L18_V2"})
  /\ run' = [run EXCEPT !.step = "record",
               !.found = IF o \in Reporting THEN {a \in Actions : ~Lacks(a, RowsOf[o])} ELSE {}]
  /\ UNCHANGED <<backup, serving, frozen, expired, applying, privacy, round, refs, late, faults>>

(* Its transaction; a row that another owner still references stops it.    *)
Erase == LET o == run.owner IN
  /\ Writable /\ run # None /\ run.step = "erase"
  /\ IF Closed(Left(o))
       THEN /\ db' = [rows |-> Left(o), active |-> IF o = "L04" THEN None ELSE db.active]
            /\ call' = CallsLeft(o)
            /\ erased' = erased \cup ({o} \cap {"L04", "L18_V2"})
            /\ run' = [run EXCEPT !.step = "record",
                 !.found = IF o \in Reporting THEN {a \in Actions : ~Lacks(a, RowsOf[o])} ELSE {}]
       ELSE run' = None /\ UNCHANGED <<db, call, erased>>
  /\ UNCHANGED <<backup, serving, frozen, expired, applying, privacy, round, refs, late, faults>>

(* Its result, once per owner: a second one fails, and its refs with it.   *)
Record ==
  /\ serving /\ run # None /\ run.step = "record"
  /\ run' = None
  /\ IF privacy.held /\ run.owner \notin privacy.done
       THEN /\ privacy' = [privacy EXCEPT !.done = @ \cup {run.owner}]
            /\ refs' = refs \cup run.found
       ELSE UNCHANGED <<privacy, refs>>
  /\ UNCHANGED <<db, backup, serving, frozen, expired, call, applying, round, erased, late, faults>>

(* The receipt: the hold and the results go, the suppression stays.        *)
Complete ==
  /\ serving /\ run = None /\ privacy.held /\ Owners \subseteq privacy.done
  /\ privacy' = [privacy EXCEPT !.held = FALSE, !.done = {}]
  /\ UNCHANGED <<db, backup, serving, frozen, expired, call, applying, run, round, refs, erased, late, faults>>

(* The run dies, and with it the references it had collected.              *)
LoseRun ==
  /\ faults < MaxFaults /\ (run # None \/ refs # {})
  /\ run' = None /\ round' = Owners /\ refs' = {}
  /\ faults' = faults + 1
  /\ UNCHANGED <<db, backup, serving, frozen, expired, call, applying, privacy, erased, late>>

----------------------------------------------------------------------------
(* Backup and restore of the cognitive database.                           *)

TakeBackup ==
  /\ serving /\ backup = None
  /\ backup' = db
  /\ UNCHANGED <<db, serving, frozen, expired, call, applying, forgetting, erased, late, faults>>

(* With everything stopped, the file is replaced.                          *)
RestoreBackup ==
  /\ serving /\ backup # None /\ faults < MaxFaults
  /\ db' = backup /\ serving' = FALSE
  /\ call' = [a \in Actions |-> None]
  /\ at' = [p \in Appliers |-> "idle"] /\ on' = [p \in Appliers |-> None] /\ lock' = None
  /\ run' = None /\ round' = Owners /\ refs' = {}
  /\ erased' = erased \cap {"L04"}
  /\ faults' = faults + 1
  /\ UNCHANGED <<backup, privacy, frozen, expired, late>>

(* Before it serves again, the suppression is replayed: the item and its   *)
(* revisions go, with the admissions that made them.                       *)
Verify ==
  /\ ~serving /\ serving' = TRUE
  /\ IF privacy.suppressed
       THEN /\ db' = [rows |-> [a \in Actions |-> db.rows[a] \ {"acceptance"}], active |-> None]
            /\ erased' = erased \cup {"L04"}
       ELSE UNCHANGED <<db, erased>>
  /\ UNCHANGED <<backup, frozen, expired, call, applying, forgetting, late, faults>>

----------------------------------------------------------------------------
Propose(a) == Freeze(a) \/ Expire(a) \/ Read(a) \/ Insert(a) \/ Drop(a)
Apply(p) == Start(p) \/ Begin(p) \/ Write(p) \/ Recheck(p) \/ Commit(p) \/ Abort(p)
RunStep == (\E o \in Owners : Resolve(o)) \/ Erase \/ Record \/ Complete
ForgetRun == BeginForget \/ RunStep \/ LoseRun

Next == \/ \E a \in Actions : Propose(a)
        \/ \E p \in Appliers : Apply(p)
        \/ ForgetRun
        \/ TakeBackup \/ RestoreBackup \/ Verify

Spec == Init /\ [][Next]_vars

(* A forget run goes through its owners, round after round, until it has   *)
(* its receipt, and no call stays in the middle of a transaction.          *)
Fairness ==
  /\ WF_vars(RunStep)
  /\ WF_vars(Verify)
  /\ WF_vars(\E p \in Appliers : Begin(p) \/ Write(p) \/ Recheck(p) \/ Commit(p))

FairSpec == Spec /\ Fairness

----------------------------------------------------------------------------
(* Properties.                                                             *)

(* Every variable has its type; the rows respect the foreign keys; and the *)
(* write lock is held exactly in the middle of an application.             *)
TypeOK ==
  /\ db \in Databases /\ backup \in Databases \cup {None}
  /\ privacy \in [held : BOOLEAN, suppressed : BOOLEAN, done : SUBSET Owners]
  /\ serving \in BOOLEAN /\ late \in BOOLEAN
  /\ frozen \in [Actions -> Requests \cup {None}]
  /\ expired \subseteq MayExpire
  /\ call \in [Actions -> Calls \cup {None}]
  /\ at \in [Appliers -> {"idle", "begin", "write", "recheck", "commit"}]
  /\ on \in [Appliers -> Actions \cup {None}]
  /\ lock \in Appliers \cup {None}
  /\ run \in Runs \cup {None}
  /\ round \subseteq Owners
  /\ refs \subseteq Actions /\ erased \subseteq {"L04", "L18_V2"}
  /\ faults \in 0..MaxFaults
  /\ Closed(db.rows)
  /\ \A p \in Appliers : lock = p <=> at[p] \in {"write", "recheck", "commit"}

Accepted(d) == {a \in Actions : "acceptance" \in d.rows[a]}

(* The revisions of a database are one chain: each but the first was made  *)
(* upon an earlier one, no two upon the same, and the active one is the    *)
(* end of it.                                                              *)
Chain(d) ==
  /\ d.active = None <=> Accepted(d) = {}
  /\ d.active # None => d.active \in Accepted(d)
  /\ \A a \in Accepted(d) :
       /\ frozen[a] # None
       /\ frozen[a].expected \in Accepted(d) \cup {None}
       /\ frozen[a].expected # d.active
  /\ \A a, b \in Accepted(d) : frozen[a].expected = frozen[b].expected => a = b

(* Two confirmations that race for one identity never fork its history or  *)
(* lose a revision: whatever was proposed against a revision that is no    *)
(* longer active is refused (canonical_store.py, apply).                   *)
ChainIsLinear == Chain(db)

(* A revision is admitted only on authority that stands at that moment:    *)
(* consumed evidence, an allowing policy, a consent nobody has revoked, an *)
(* eligible candidate; and a RESTORE spends its authorization in the same  *)
(* commit, once.                                                           *)
AcceptedUnderAuthority ==
  [][\A a \in Actions :
       serving' /\ Lacks(a, {"acceptance"}) /\ "acceptance" \in db'.rows[a] =>
         /\ Has(a, {"consumption", "policy", "consent", "eligible"})
         /\ Lacks(a, {"revocation", "rejection", "spent"})
         /\ frozen[a].op = "RESTORE" => "spent" \in db'.rows[a]]_vars

(* Once L18_V2 is erased no value-bearing proposal of the identity comes   *)
(* back, and with it no admission of either kind: what was read before the *)
(* erasure is not inserted after it.                                       *)
ProposalsStayErased ==
  "L18_V2" \in erased /\ serving =>
    \A a \in Actions : Lacks(a, {"eligible", "proposal", "acceptance", "rejection"})

Phase == IF "L04" \in erased THEN "forgotten"
         ELSE IF privacy.suppressed THEN "closing" ELSE "open"
Served == IF serving THEN db.active ELSE None

Promise == INSTANCE ForgettableMemory WITH
  Values <- Actions, phase <- Phase, value <- Served

(* What is served keeps the promise of ForgettableMemory, with admissions, *)
(* erasures and restores interleaved in any order.                         *)
ImplementsPromise == Promise!Spec

Request == (\E a \in Actions : Read(a)) \/ (\E p \in Appliers : Start(p))

(* A forget that is repeated gets its receipt, although its owners may be  *)
(* called in any order and are stopped by each other's rows: unless calls  *)
(* for the identity never end, since rows they insert stop owners again.   *)
ForgetCompletes ==
  []<><<Request>>_vars \/ (privacy.held ~> ~privacy.held)

=============================================================================
