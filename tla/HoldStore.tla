----------------------------- MODULE HoldStore -----------------------------
(***************************************************************************)
(* The ceremony hold store, and the ceremonies that it gates.              *)
(*                                                                         *)
(* A change of the witnessed registry head (a rotation, a maintenance      *)
(* change, a compromise marking and its epoch advance) needs a HELD record *)
(* in the store; the record is RELEASED by the owner's approval of the     *)
(* readiness seen at one head.  Each command of the owner's tools is a     *)
(* session.  A writing one scans the witness first and takes the store's   *)
(* lock afterwards; one that executes a change observes the store under    *)
(* the shared lock and hands the snapshot to the witness or the signer     *)
(* when the lock is gone.  A record is written as a scratch file in the    *)
(* parent directory and renamed into the store; sessions are killed, and   *)
(* the power fails, between any two of the calls.                          *)
(*                                                                         *)
(* A witness digest is the index of its entry: the chain only grows.  All  *)
(* readiness checks but the hold's are taken to pass.                      *)
(***************************************************************************)
EXTENDS Integers, Sequences, FiniteSetsExt

CONSTANTS
  Sessions,         \* commands of the owner's tools that may run at a time
  InitialKey,       \* the key of the genesis
  Ordinals,         \* the successor keys, known by their ordinals
  MaxChain,         \* bound: entries of the witness chain
  MaxKills,         \* bound: sessions killed while they write
  NoKey             \* no current key

ASSUME HoldStoreAssumption ==
  /\ MaxChain \in Nat \ {0}
  /\ MaxKills \in Nat
  /\ InitialKey \notin Ordinals /\ NoKey \notin Ordinals \cup {InitialKey}

VARIABLES
  chain,      \* the witness chain: what each entry did, its current key, its registry
  adoption,   \* the entry the journalled ADVANCE_EPOCH is bound to, or 0
  prepared,   \* the successor key whose blob is prepared, or NoKey
  retired,    \* whether the custody still holds a predecessor's blob
  approved,   \* the entries whose readiness digest the owner approved
  holds,      \* the records a running process sees
  disk,       \* the stores a power loss may leave
  scratch,    \* the write scratch in the parent directory: "none", "torn" or "whole"
  scratchDisk,\* whether it may be there after a power loss
  pc, req,    \* where each session is, and what it writes
  held,       \* the HELD records of its snapshot
  reported,   \* the store when a command last reported success
  kills       \* sessions killed so far

witness  == <<chain, adoption, prepared, retired, approved>>
store    == <<holds, disk, scratch, scratchDisk>>
sessions == <<pc, req, held>>
vars     == <<witness, store, sessions, reported, kills>>

Keys           == Ordinals \cup {InitialKey}
Initial        == <<"INITIAL", InitialKey>>
Successor(n)   == <<"SUCCESSOR", n>>
Maintenance(r) == <<"MAINTENANCE", r>>
Debt(n)        == <<"DEBT", n>>
Ceremonies ==
  {Initial} \cup {Successor(n) : n \in Ordinals} \cup {Debt(n) : n \in Ordinals}
            \cup {Maintenance(r) : r \in 1..MaxChain}

Kinds   == {"INITIAL_CUSTODY", "ROTATION", "KEY_COMPROMISE_RECOVERY", "REGISTRY_MAINTENANCE"}
Changes == {"GENESIS", "LEDGER", "ROTATION", "MAINTENANCE", "MARKING", "EPOCH"}
Entries == [kind : Changes, cur : Keys \cup {NoKey}, reg : 1..MaxChain]

Record(state, kind, pred, i) == [state |-> state, kind |-> kind, pred |-> pred, at |-> i]
Absent  == Record("ABSENT", "NONE", NoKey, 0)
Torn    == Record("TORN", "NONE", NoKey, 0)
Records == {Absent, Torn} \cup
  [state : {"HELD", "RELEASED"}, kind : Kinds, pred : Keys \cup {NoKey}, at : 1..MaxChain]

----------------------------------------------------------------------------
(* What the verified chain says, up to its entry i.                        *)
Cur(i) == chain[i].cur

(* The entry that made the current key current.                            *)
Establishing(i) == Max({j \in 1..i : chain[j].kind \in {"GENESIS", "ROTATION", "EPOCH"}})
Marking(i)      == Max({j \in 1..i : chain[j].kind = "MARKING"})

(* The ceremony that made it so, as derive_key_transition recovers it.     *)
Base(i) == LET e == Establishing(i)
               m == Marking(e)
           IN  CASE chain[e].kind = "GENESIS" ->
                      [kind |-> "INITIAL_CUSTODY", ceremony |-> Initial, pred |-> NoKey, start |-> 1]
                 [] chain[e].kind = "ROTATION" ->
                      [kind |-> "ROTATION", ceremony |-> Successor(Cur(e)), pred |-> Cur(e - 1), start |-> e]
                 [] OTHER ->
                      [kind |-> "KEY_COMPROMISE_RECOVERY", ceremony |-> Successor(Cur(e)),
                       pred |-> Cur(m - 1), start |-> m]

(* The governing ceremony: the last maintenance change since, or the base. *)
Transition(i) ==
  LET later == {j \in (Establishing(i) + 1)..i : chain[j].kind = "MAINTENANCE"}
  IN  IF later = {} THEN Base(i)
      ELSE [kind |-> "REGISTRY_MAINTENANCE", ceremony |-> Maintenance(chain[Max(later) - 1].reg),
            pred |-> Cur(i), start |-> Max(later)]

DebtOf(i) == Debt(Base(i).ceremony[2])

(* The hold that governs entry i: the base ceremony's debt dominates.      *)
InDebt(i)    == Base(i).ceremony # Initial /\ holds[DebtOf(i)] # Absent
Governing(i) == IF InDebt(i) THEN DebtOf(i) ELSE Transition(i).ceremony

(* Mutant of Binds: a maintenance hold binds at the new head only.         *)
BindsHeadOnly(c, h, i) ==
  IF c = DebtOf(i)
  THEN /\ h.kind = Base(i).kind /\ h.pred = Base(i).pred
       /\ chain[h.at].reg = chain[i].reg
       /\ holds[Base(i).ceremony].state = "RELEASED"
  ELSE LET t == Transition(i) IN
       /\ h.kind = t.kind /\ h.pred = t.pred
       /\ CASE t.kind = "INITIAL_CUSTODY" -> h.at = 1
            [] t.kind = "REGISTRY_MAINTENANCE" -> chain[h.at].reg = chain[i].reg
            [] OTHER -> h.at < t.start

(* hold_binding_reason, of a HELD record h of ceremony c at entry i.       *)
Binds(c, h, i) ==
  IF c = DebtOf(i)
  THEN /\ h.kind = Base(i).kind /\ h.pred = Base(i).pred
       /\ chain[h.at].reg = chain[i].reg
       /\ holds[Base(i).ceremony].state = "RELEASED"
  ELSE LET t == Transition(i) IN
       /\ h.kind = t.kind /\ h.pred = t.pred
       /\ CASE t.kind = "INITIAL_CUSTODY" -> h.at = 1
            [] t.kind = "REGISTRY_MAINTENANCE" ->
                 chain[h.at].reg \in {t.ceremony[2], chain[i].reg}
            [] OTHER -> h.at < t.start

HeldNow == {c \in Ceremonies : holds[c].state = "HELD"}

(* HOLD_RELEASE_ELIGIBILITY is READY for the hold c at entry i.            *)
Eligible(c, i) ==
  /\ Cur(i) # NoKey /\ HeldNow = {c}
  /\ c = Governing(i)
  /\ Binds(c, holds[c], i)

(* FULL_READINESS is READY at entry i, under a primary ceremony's record.  *)
Current(i) ==
  /\ Cur(i) # NoKey /\ ~InDebt(i) /\ HeldNow = {}
  /\ LET t == Transition(i)
         h == holds[t.ceremony]
     IN  /\ h.state = "RELEASED" /\ h.kind = t.kind /\ h.pred = t.pred
         /\ chain[h.at].reg = chain[i].reg

(* What evaluate_compromise_recovery recovers of a key.                    *)
MarkedAt(key)   == {j \in 2..Len(chain) : chain[j].kind = "MARKING" /\ Cur(j - 1) = key}
AdvancesOf(key) == {k \in 2..Len(chain) : chain[k].kind = "EPOCH" /\ \E j \in MarkedAt(key) : j < k}
Compromised(key) == MarkedAt(key) # {}

Latest   == Len(chain)
Fresh(n) == n \in Ordinals /\ \A j \in 1..Latest : Cur(j) # n

----------------------------------------------------------------------------
NoRequest == [op |-> "NONE", c |-> Initial, kind |-> "NONE", pred |-> NoKey, at |-> 0, approved |-> 0]

Init ==
  /\ chain = <<[kind |-> "GENESIS", cur |-> InitialKey, reg |-> 1]>>
  /\ adoption = 0 /\ prepared = NoKey /\ retired = FALSE /\ approved = {}
  /\ holds = [c \in Ceremonies |-> Absent] /\ disk = {holds}
  /\ scratch = "none" /\ scratchDisk = {"none"}
  /\ pc = [x \in Sessions |-> "idle"] /\ req = [x \in Sessions |-> NoRequest]
  /\ held = [x \in Sessions |-> {}]
  /\ reported = [c \in Ceremonies |-> Absent] /\ kills = 0

Goto(x, step) == pc' = [pc EXCEPT ![x] = step]

Writing(x) == pc[x] \in {"writing", "written", "renamed"}

(* The lock is free, and _observe_locked accepts what it finds.            *)
Observable ==
  /\ \A x \in Sessions : ~Writing(x)
  /\ scratch = "none"
  /\ \A c \in Ceremonies : holds[c] # Torn

----------------------------------------------------------------------------
(* Writing commands.  The witness is scanned before the store is opened.   *)
(* Bounds: none is started that the store refuses as it is, nor a hold for *)
(* a change that the chain has no room for.                                *)
Begin(x, r) ==
  /\ pc[x] = "idle" /\ Observable
  /\ Goto(x, "begun")
  /\ req' = [req EXCEPT ![x] = r]
  /\ UNCHANGED <<witness, store, held, reported, kills>>

Request(op, c, kind, pred, digest) ==
  [op |-> op, c |-> c, kind |-> kind, pred |-> pred, at |-> Latest, approved |-> digest]

BeginInitial(x) ==
  /\ \A c \in Ceremonies : holds[c] = Absent
  /\ Begin(x, [Request("INITIAL", Initial, "INITIAL_CUSTODY", NoKey, 0) EXCEPT !.at = 1])

BeginSuccessor(x) == \E n \in Ordinals, kind \in {"ROTATION", "KEY_COMPROMISE_RECOVERY"} :
  /\ Latest < MaxChain
  /\ Cur(Latest) \notin {NoKey, n} /\ holds[Successor(n)] = Absent
  /\ Begin(x, Request("CREATE", Successor(n), kind, Cur(Latest), 0))

BeginMaintenance(x) ==
  /\ Latest < MaxChain
  /\ Cur(Latest) # NoKey /\ holds[Maintenance(chain[Latest].reg)] = Absent
  /\ Begin(x, Request("CREATE", Maintenance(chain[Latest].reg), "REGISTRY_MAINTENANCE", Cur(Latest), 0))

BeginDebt(x) == \E n \in Ordinals :
  /\ holds[Successor(n)].state = "RELEASED" /\ holds[Debt(n)] = Absent
  /\ Begin(x, Request("DEBT", Debt(n), "NONE", NoKey, 0))

BeginRelease(x) == \E c \in HeldNow, digest \in approved :
  Begin(x, Request("RELEASE", c, "NONE", NoKey, digest))

(* Mutant of Approves: a READY re-run is enough.                           *)
ApprovesAny(r) == TRUE

(* The readiness digest names the head of the re-run, and no hold.         *)
Approves(r) == r.approved = Latest

(* What each command requires of the store under its exclusive lock, the   *)
(* lifecycle of _publish included.                                         *)
May(r) ==
  CASE r.op = "INITIAL" -> \A c \in Ceremonies : holds[c] = Absent
    [] r.op = "CREATE"  -> holds[r.c] = Absent
    [] r.op = "DEBT"    -> /\ holds[Successor(r.c[2])].state = "RELEASED"
                           /\ holds[r.c] = Absent
    [] r.op = "RELEASE" -> /\ Eligible(r.c, Latest) /\ Approves(r)
                           /\ r.c = Initial => chain[r.at].reg = 1
    [] OTHER -> FALSE

End(x) ==
  /\ Goto(x, "idle")
  /\ req' = [req EXCEPT ![x] = NoRequest]
  /\ held' = [held EXCEPT ![x] = {}]

(* HOLD_STORE_BUSY, an observation that fails, or a command refused.       *)
Refuse(x) ==
  /\ pc[x] = "begun"
  /\ ~(Observable /\ May(req[x]))
  /\ End(x)
  /\ UNCHANGED <<witness, store, reported, kills>>

(* Mutant of Proposed: a released record that names no entry.              *)
ProposedUnbound(r) ==
  CASE r.op = "RELEASE" -> [holds[r.c] EXCEPT !.state = "RELEASED", !.at = 0]
    [] r.op = "DEBT"    -> [holds[Successor(r.c[2])] EXCEPT !.state = "HELD", !.at = r.at]
    [] OTHER            -> Record("HELD", r.kind, r.pred, r.at)

(* The record, of what was observed under the lock and the earlier scan.   *)
Proposed(r) ==
  CASE r.op = "RELEASE" -> [holds[r.c] EXCEPT !.state = "RELEASED", !.at = r.at]
    [] r.op = "DEBT"    -> [holds[Successor(r.c[2])] EXCEPT !.state = "HELD", !.at = r.at]
    [] OTHER            -> Record("HELD", r.kind, r.pred, r.at)

(* The lock is taken, the store observed, the readiness run again, and the *)
(* record written outside the store.                                       *)
Publish(x) ==
  /\ pc[x] = "begun"
  /\ Observable /\ May(req[x])
  /\ scratch' = "torn" /\ scratchDisk' = {"none", "torn"}
  /\ Goto(x, "writing")
  /\ UNCHANGED <<witness, holds, disk, req, held, reported, kills>>

(* Mutant of Sync: the fsync of the scratch is forgotten.                  *)
SyncSkipped(x) ==
  /\ pc[x] = "writing"
  /\ Goto(x, "written")
  /\ UNCHANGED <<witness, store, req, held, reported, kills>>

Sync(x) ==
  /\ pc[x] = "writing"
  /\ scratch' = "whole" /\ scratchDisk' = {"none", "whole"}
  /\ Goto(x, "written")
  /\ UNCHANGED <<witness, holds, disk, req, held, reported, kills>>

(* The rename: the old record or the new one may be there after a power    *)
(* loss, or an empty one when the scratch was not synced.                  *)
Rename(x) == LET c == req[x].c
                 new == Proposed(req[x])
             IN
  /\ pc[x] = "written"
  /\ holds' = [holds EXCEPT ![c] = new]
  /\ disk' = disk \cup {[d EXCEPT ![c] = new] : d \in disk}
                  \cup IF scratch = "whole" THEN {} ELSE {[d EXCEPT ![c] = Torn] : d \in disk}
  /\ scratch' = "none"
  /\ Goto(x, "renamed")
  /\ UNCHANGED <<witness, scratchDisk, req, held, reported, kills>>

(* Mutant of Finish: the fsync of the store is forgotten.                  *)
FinishUnsynced(x) ==
  /\ pc[x] = "renamed"
  /\ scratchDisk' = {"none"}
  /\ reported' = holds
  /\ End(x)
  /\ UNCHANGED <<witness, holds, disk, scratch, kills>>

(* The fsyncs of the store and of the parent, and the command's answer.    *)
Finish(x) ==
  /\ pc[x] = "renamed"
  /\ disk' = {holds} /\ scratchDisk' = {"none"}
  /\ reported' = holds
  /\ End(x)
  /\ UNCHANGED <<witness, holds, scratch, kills>>

----------------------------------------------------------------------------
(* Commands that execute a step under a snapshot of the store.             *)
HoldOf(c) == [c |-> c, kind |-> holds[c].kind, pred |-> holds[c].pred]

Observe(x) ==
  /\ pc[x] = "idle"
  /\ Observable /\ HeldNow # {}
  /\ held' = [held EXCEPT ![x] = {HoldOf(c) : c \in HeldNow}]
  /\ Goto(x, "observed")
  /\ UNCHANGED <<witness, store, req, reported, kills>>

(* The step is refused, or never reaches the witness.                      *)
GiveUp(x) ==
  /\ pc[x] = "observed"
  /\ End(x)
  /\ UNCHANGED <<witness, store, reported, kills>>

(* The only HELD record of the snapshot, and of a primary ceremony.        *)
Holds(x, h, kind) ==
  /\ pc[x] = "observed"
  /\ held[x] = {h}
  /\ h.kind = kind /\ h.c[1] # "DEBT"

Advance(x, change, key, reg) ==
  /\ Latest < MaxChain
  /\ chain' = Append(chain, [kind |-> change, cur |-> key, reg |-> reg])
  /\ End(x)
  /\ UNCHANGED <<store, approved, reported, kills>>

(* Mutant of NamesCurrent: the witness does not compare the predecessor.   *)
NamesCurrentAny(h) == Cur(Latest) # NoKey

(* transition_hold_reason: the hold's predecessor is the current key.      *)
NamesCurrent(h) == Cur(Latest) # NoKey /\ h.pred = Cur(Latest)

(* authorize_custody_step PREPARE: the successor's blob, before K-ROOT     *)
(* signs for its key.                                                      *)
Prepare(x) == \E h \in held[x] :
  /\ pc[x] = "observed" /\ h.c[1] = "SUCCESSOR"
  /\ IF h.kind = "ROTATION" THEN Cur(Latest) = h.pred
     ELSE Compromised(h.pred) /\ Cur(Latest) = NoKey
  /\ prepared = NoKey /\ ~retired /\ Fresh(h.c[2])
  /\ prepared' = h.c[2]
  /\ End(x)
  /\ UNCHANGED <<chain, adoption, retired, approved, store, reported, kills>>

ExecuteRotation(x) == \E h \in held[x] :
  /\ Holds(x, h, "ROTATION") /\ NamesCurrent(h)
  /\ h.c = Successor(prepared)
  /\ Advance(x, "ROTATION", prepared, chain[Latest].reg + 1)
  /\ prepared' = NoKey /\ retired' = TRUE
  /\ UNCHANGED adoption

ExecuteMaintenance(x) == \E h \in held[x] :
  /\ Holds(x, h, "REGISTRY_MAINTENANCE") /\ NamesCurrent(h)
  /\ h.c = Maintenance(chain[Latest].reg)
  /\ Advance(x, "MAINTENANCE", Cur(Latest), chain[Latest].reg + 1)
  /\ UNCHANGED <<adoption, prepared, retired>>

ExecuteMarking(x) == \E h \in held[x] :
  /\ Holds(x, h, "KEY_COMPROMISE_RECOVERY") /\ NamesCurrent(h)
  /\ Advance(x, "MARKING", NoKey, chain[Latest].reg + 1)
  /\ UNCHANGED <<adoption, prepared, retired>>

(* evaluate_recovery_gate, ADVANCE_EPOCH: RECOVERY_MARKED.                 *)
InRecovery(h) == Compromised(h.pred) /\ AdvancesOf(h.pred) = {}

(* The signer journals the adoption of an authorization for this head.     *)
AdoptEpoch(x) == \E h \in held[x] :
  /\ Holds(x, h, "KEY_COMPROMISE_RECOVERY") /\ InRecovery(h)
  /\ Cur(Latest) # h.pred /\ adoption # Latest
  /\ adoption' = Latest
  /\ End(x)
  /\ UNCHANGED <<chain, prepared, retired, approved, store, reported, kills>>

(* The witness's epoch_hold_reason, and the adoption that its plan needs.  *)
ExecuteEpoch(x) == \E h \in held[x] :
  /\ Holds(x, h, "KEY_COMPROMISE_RECOVERY") /\ Compromised(h.pred)
  /\ adoption = Latest /\ prepared # NoKey
  /\ Advance(x, "EPOCH", prepared, chain[Latest].reg + 1)
  /\ prepared' = NoKey /\ retired' = TRUE
  /\ UNCHANGED adoption

(* A removal of stale ledger state, and the witness's entry of it.         *)
RecordLedger(x) == \E h \in held[x] :
  /\ Holds(x, h, "KEY_COMPROMISE_RECOVERY")
  /\ AdvancesOf(h.pred) # {} /\ Cur(Latest) # h.pred
  /\ Cur(Min(AdvancesOf(h.pred))) = h.c[2]
  /\ Advance(x, "LEDGER", Cur(Latest), chain[Latest].reg)
  /\ UNCHANGED <<adoption, prepared, retired>>

----------------------------------------------------------------------------
(* The owner approves the digest of an eligibility report.                 *)
Approve ==
  /\ Observable
  /\ \E c \in HeldNow : Eligible(c, Latest)
  /\ approved' = approved \cup {Latest}
  /\ UNCHANGED <<chain, adoption, prepared, retired, store, sessions, reported, kills>>

(* verify_destruction_order permits, and the predecessor's blob is gone.   *)
Destroy ==
  /\ retired /\ Observable
  /\ Base(Latest).ceremony # Initial
  /\ Current(Latest) \/ Eligible(DebtOf(Latest), Latest)
  /\ retired' = FALSE
  /\ UNCHANGED <<chain, adoption, prepared, approved, store, sessions, reported, kills>>

----------------------------------------------------------------------------
(* A session dies, or one of its calls fails: a scratch stays behind.      *)
Kill(x) ==
  /\ Writing(x) /\ kills < MaxKills
  /\ kills' = kills + 1
  /\ End(x)
  /\ UNCHANGED <<witness, store, reported>>

(* The machine stops and starts again.  One that strikes a writing command *)
(* is that command's kill and then this, and one that loses nothing is no  *)
(* step of its own.                                                        *)
PowerLoss ==
  /\ \A x \in Sessions : ~Writing(x)
  /\ disk # {holds} \/ scratchDisk # {scratch}
  /\ \E d \in disk : holds' = d /\ disk' = {d}
  /\ \E s \in scratchDisk : scratch' = s /\ scratchDisk' = {s}
  /\ pc' = [x \in Sessions |-> "idle"] /\ req' = [x \in Sessions |-> NoRequest]
  /\ held' = [x \in Sessions |-> {}]
  /\ UNCHANGED <<witness, reported, kills>>

----------------------------------------------------------------------------
SessionStep(x) ==
  \/ BeginInitial(x) \/ BeginSuccessor(x) \/ BeginMaintenance(x)
  \/ BeginDebt(x) \/ BeginRelease(x)
  \/ Refuse(x) \/ Publish(x) \/ Sync(x) \/ Rename(x) \/ Finish(x)
  \/ Observe(x) \/ GiveUp(x) \/ Prepare(x)
  \/ ExecuteRotation(x) \/ ExecuteMaintenance(x) \/ ExecuteMarking(x)
  \/ AdoptEpoch(x) \/ ExecuteEpoch(x) \/ RecordLedger(x)
  \/ Kill(x)

Next == (\E x \in Sessions : SessionStep(x)) \/ Approve \/ Destroy \/ PowerLoss

Spec == Init /\ [][Next]_vars

----------------------------------------------------------------------------
Requests == [op : {"NONE", "INITIAL", "CREATE", "DEBT", "RELEASE"}, c : Ceremonies,
             kind : Kinds \cup {"NONE"}, pred : Keys \cup {NoKey},
             at : 0..MaxChain, approved : 0..MaxChain]

(* Type correctness; a command writes at one place at a time, and the disk *)
(* may always keep what is seen.                                           *)
TypeOK ==
  /\ chain \in Seq(Entries) /\ Latest \in 1..MaxChain
  /\ adoption \in 0..MaxChain /\ prepared \in Keys \cup {NoKey} /\ retired \in BOOLEAN
  /\ approved \subseteq 1..Latest
  /\ holds \in [Ceremonies -> Records] /\ disk \subseteq [Ceremonies -> Records]
  /\ holds \in disk
  /\ scratch \in {"none", "torn", "whole"}
  /\ scratchDisk \subseteq {"none", "torn", "whole"}
  /\ pc \in [Sessions -> {"idle", "begun", "observed", "writing", "written", "renamed"}]
  /\ req \in [Sessions -> Requests]
  /\ held \in [Sessions -> SUBSET [c : Ceremonies, kind : Kinds, pred : Keys \cup {NoKey}]]
  /\ reported \in [Ceremonies -> Records]
  /\ kills \in 0..MaxKills

Governed(c, i) == Cur(i) # NoKey /\ c \in {Transition(i).ceremony, DebtOf(i)}

(* Every RELEASED record, on the disk too, names a chain entry whose       *)
(* readiness the owner approved and at which its ceremony governs, though  *)
(* release_initial and release_with_readiness scan the witness before they *)
(* take the lock and write what they scanned into the record.              *)
ReleaseBindsHead ==
  \A d \in disk : \A c \in Ceremonies :
    d[c].state = "RELEASED" => d[c].at \in approved /\ Governed(c, d[c].at)

Keeps(old, new) ==
  \/ old = Absent \/ new = old
  \/ /\ old.state = "HELD" /\ new.state = "RELEASED"
     /\ new.kind = old.kind /\ new.pred = old.pred

(* What was in the store when a command reported success is never lost,    *)
(* torn or taken back by kills and power losses, the records of killed     *)
(* commands included: HELD stays or is RELEASED, RELEASED stays.           *)
RecordsSurvive ==
  \A d \in disk : \A c \in Ceremonies : d[c] # Torn /\ Keeps(reported[c], d[c])

ChangeKind == [ROTATION |-> "ROTATION", MAINTENANCE |-> "REGISTRY_MAINTENANCE",
               MARKING |-> "KEY_COMPROMISE_RECOVERY", EPOCH |-> "KEY_COMPROMISE_RECOVERY"]

(* The registry head never changes without a HELD record of that kind of   *)
(* change in the store as it is then, for the key current then or, of an   *)
(* epoch advance, the key that was marked: the snapshot the witness judges *)
(* may be old, and its epoch gate takes any compromised predecessor.       *)
ChangeUnderHold ==
  [][\A k \in (Latest + 1)..Len(chain') : chain'[k].kind # "LEDGER" =>
       \E c \in HeldNow :
         /\ c[1] # "DEBT" /\ holds[c].kind = ChangeKind[chain'[k].kind]
         /\ IF chain'[k].kind = "EPOCH" THEN Cur(Latest) = NoKey /\ Compromised(holds[c].pred)
            ELSE holds[c].pred = Cur(Latest)]_vars

OneSuccessor == \A m, n \in Ordinals : m = n

(* The hold under which the head's change was executed can be released     *)
(* when it is the only HELD record and no custody debt dominates: what its *)
(* command wrote before the change fits what readiness derives after it.   *)
(* An epoch advance is of one successor key: epoch_hold_reason does not    *)
(* compare the hold's with the key that it makes current, so that key's    *)
(* own hold may be another one when a power loss took the recovery's.      *)
ExecutedCanBeReleased ==
  LET t == Transition(Latest)
  IN  /\ t.kind = "KEY_COMPROMISE_RECOVERY" => OneSuccessor
      /\ Cur(Latest) # NoKey /\ HeldNow = {t.ceremony} /\ ~InDebt(Latest)
      => Eligible(t.ceremony, Latest)
=============================================================================
