--------------------------- MODULE SignerRecovery ---------------------------
(***************************************************************************)
(* Compromise recovery: the signer's ledger, the witness and the owner.    *)
(*                                                                         *)
(* When the issuance key is compromised the owner marks it at the witness  *)
(* (a registry head advance), the signer journals the adoption of the next *)
(* epoch in its ledger, the owner lets the witness execute the same        *)
(* authorization, and the signer voids and quarantines the work of the old *)
(* epoch, reporting each new ledger position to the witness.               *)
(*                                                                         *)
(* The signer serves its socket with a pool of threads (MAX_CLIENTS), so   *)
(* several recovery handlers run at once.  A handler reads the witness     *)
(* first, then opens and observes the ledger, then reads the journal again *)
(* to plan, then appends with a compare-and-swap on what it observed, then *)
(* asks the witness, over a socket with a timeout, to record the position. *)
(* Every one of these is an action, and any of them may be the last.       *)
(*                                                                         *)
(* The witness is the log WitnessLog promises (and WitnessStore provides), *)
(* so one action is one committed witness.  A ledger transaction is atomic *)
(* (BEGIN IMMEDIATE), so a journal entry here is one batch, and a position *)
(* is the number of batches: the hash chain makes equal positions of one   *)
(* journal equal heads.  The ledger is not restored from a backup here.    *)
(***************************************************************************)
EXTENDS WitnessV2, FiniteSetsExt

CONSTANTS
  Handlers,         \* the threads of the signer's pool
  Challenges,       \* PREPARED challenges of the first epoch
  Uses,             \* RESERVED evidence uses of the first epoch
  MayExpire         \* the authorizations whose notAfter may pass

(* What a registry head does to the one current issuance key: it names a   *)
(* new one, marks the current one COMPROMISED and names none, or keeps it. *)
NAMES == "NAMES"
MARKS == "MARKS"
KEEPS == "KEEPS"

ASSUME SignerRecoveryAssumption ==
  /\ Digests = {NAMES, MARKS, KEEPS}
  /\ GenesisDigest = NAMES
  /\ MayExpire \subseteq AuthIds

ADVANCE_EPOCH  == "ADVANCE_EPOCH"
VOID_CHALLENGE == "VOID_CHALLENGE"
QUARANTINE_USE == "QUARANTINE_USE"
Operations     == {ADVANCE_EPOCH, VOID_CHALLENGE, QUARANTINE_USE}

(* A journal entry: the operation, the work it removes, and what a replay  *)
(* up to it yields: the epoch (its counter, and the authorization that     *)
(* opened it, which stands for its random part) and the registry view.     *)
Batches == [op: Operations \cup {"GENESIS"}, items: SUBSET (Challenges \cup Uses),
            epoch: Nat, by: AuthIds \cup {NoAuth}, view: Nat]

VARIABLES
  lineage,      \* the witness's committed lineage
  register,     \* the owner's register: ID -> the issued authorization
  expired,      \* the authorizations whose clock window is over
  accepted,     \* the witness the owner last read
  journal,      \* the signer's durable ledger
  handlers,     \* the requests in progress, one per thread
  wire          \* RECORD_LEDGER_ADVANCE requests the witness has not served

ownerVars == <<register, expired, accepted>>
vars      == <<lineage, ownerVars, journal, handlers, wire>>

-----------------------------------------------------------------------------
(***************************************************************************)
(* Reading a lineage and a journal.                                        *)
(***************************************************************************)

(* The issuance key current after entry `i`, named by the registry version *)
(* that introduced it; 0 when the head names none.                         *)
CurrentKey(d, i) ==
  IF d[i].head.dig = MARKS THEN 0
  ELSE Max({d[j].head.ver : j \in {k \in 1..i : d[k].head.dig = NAMES}})

(* The entries that changed the registry: the steps of verify_history.     *)
Transitions(d) == {i \in 2..Len(d) : d[i].head # d[i - 1].head}

(* evaluate_compromise_recovery: where the recovery of the key `p` stands. *)
Markings(d, p) == {i \in Transitions(d) : d[i].head.dig = MARKS /\ CurrentKey(d, i - 1) = p}

RecoveryMarked(d, p)   == \E i \in Markings(d, p) : d[i].epoch = Newest(d).epoch
EpochAdvanced(d, p)    == \E i \in Markings(d, p) : d[i].epoch < Newest(d).epoch
Predecessors           == {lineage[i].head.ver : i \in DOMAIN lineage}

(* The authorization that opened the epoch of `d`.                         *)
EpochOpenedBy(d) ==
  LET opens == {i \in 2..Len(d) : d[i].epoch # d[i - 1].epoch}
  IN  IF opens = {} THEN NoAuth ELSE d[Max(opens)].auth

Last(j) == j[Len(j)]

EpochsEqual(d, b) == b.epoch = Newest(d).epoch /\ b.by = EpochOpenedBy(d)

(* authority_ledger_position_reason: position `n`, whose entry is `b`,     *)
(* stands exactly where the witness `d` says.                              *)
PositionEqual(d, n, b) == EpochsEqual(d, b) /\ n = Newest(d).pos
AtWitness(d, n, b)     == PositionEqual(d, n, b) /\ b.view = Newest(d).head.ver

(* marking_lag_reason: the registry view lags by exactly the marking, and  *)
(* the marking is the witness's newest entry.                              *)
OnlyMarkingLags(d, n, b, p) ==
  /\ PositionEqual(d, n, b)
  /\ Len(d) \in Markings(d, p)
  /\ b.view + 1 = Newest(d).head.ver

(* The work of an older epoch that nothing removed yet.                    *)
Removed(j)     == UNION {j[i].items : i \in DOMAIN j}
Stale(j, work) == IF Last(j).epoch = 1 THEN {} ELSE work \ Removed(j)

-----------------------------------------------------------------------------
(***************************************************************************)
(* Initial state: the genesis witness binds the provisioned ledger, which  *)
(* holds work of the first epoch.                                          *)
(***************************************************************************)

GenesisBatch == [op |-> "GENESIS", items |-> {}, epoch |-> 1, by |-> NoAuth, view |-> 1]

Idle == [pc |-> "idle", op |-> ADVANCE_EPOCH, auth |-> NoAuth, pred |-> 0, doc |-> Genesis,
         seen |-> 0, batch |-> GenesisBatch]

Init ==
  /\ lineage = Genesis
  /\ register = [id \in AuthIds |-> NoAuth]
  /\ expired = {}
  /\ accepted = Genesis
  /\ journal = <<GenesisBatch>>
  /\ handlers = [h \in Handlers |-> Idle]
  /\ wire = {}

-----------------------------------------------------------------------------
(***************************************************************************)
(* The owner and the witness's owner socket.                               *)
(***************************************************************************)

ReadWitness ==
  /\ accepted' = lineage
  /\ UNCHANGED <<lineage, register, expired, journal, handlers, wire>>

(* The owner signs for the witness it read; an epoch advance must name an  *)
(* issuance key (TARGET_HAS_NO_ISSUANCE_KEY).                              *)
Issue(id, kind, digest) ==
  /\ register[id] = NoAuth
  /\ kind = EPOCH => digest = NAMES
  /\ register' = [register EXCEPT ![id] = AuthorizationFor(kind, accepted, digest)]
  /\ UNCHANGED <<lineage, expired, accepted, journal, handlers, wire>>

(* notAfter passes; it matters until the authorization is consumed.        *)
Expire(id) ==
  /\ id \in MayExpire \ (expired \cup Consumed(lineage))
  /\ register[id] # NoAuth
  /\ expired' = expired \cup {id}
  /\ UNCHANGED <<lineage, register, accepted, journal, handlers, wire>>

(* Mutant of ExecuteHeadAdvance: the hold gate is dropped.                 *)
ExecuteHeadAdvanceUngated(id) ==
  /\ register[id] # NoAuth /\ id \notin expired
  /\ register[id].kind = HEAD
  /\ \E e \in PlanRegistryHeadAdvance(lineage, id, register[id]) : lineage' = Append(lineage, e)
  /\ UNCHANGED <<ownerVars, journal, handlers, wire>>

(* Some ceremony hold lets the head of `d` advance: the hold of each kind  *)
(* names the current key as its predecessor, so there must be one.         *)
HeadHold(d) == CurrentKey(d, Len(d)) # 0

(* Some hold lets the epoch advance: its predecessor is marked at the head.*)
EpochHold(d) == \E p \in Predecessors : Markings(d, p) # {}

(* EXECUTE_REGISTRY_HEAD_ADVANCE.                                          *)
ExecuteHeadAdvance(id) ==
  /\ register[id] # NoAuth /\ id \notin expired
  /\ register[id].kind = HEAD
  /\ HeadHold(lineage)
  /\ \E e \in PlanRegistryHeadAdvance(lineage, id, register[id]) : lineage' = Append(lineage, e)
  /\ UNCHANGED <<ownerVars, journal, handlers, wire>>

(* EXECUTE_EPOCH_ADVANCE with the adoption record and the position the     *)
(* owner read from the ledger since the adoption.                          *)
ExecuteEpochAdvance(id) ==
  /\ register[id] # NoAuth /\ id \notin expired
  /\ register[id].kind = EPOCH
  /\ EpochHold(lineage)
  /\ \E n \in DOMAIN journal :
       /\ journal[n].op = ADVANCE_EPOCH /\ journal[n].by = id
       /\ \E position \in n..Len(journal) :
            \E e \in PlanEpochAdvance(lineage, id, register[id], position) :
              lineage' = Append(lineage, e)
  /\ UNCHANGED <<ownerVars, journal, handlers, wire>>

-----------------------------------------------------------------------------
(***************************************************************************)
(* A recovery handler.                                                     *)
(***************************************************************************)

Goes(h, pc) == handlers' = [handlers EXCEPT ![h].pc = pc]

(* Mutant of Stops: a refused request is not taken out of the pool.        *)
StopsUnreleased(h) == handlers' = [handlers EXCEPT ![h].pc = "refused"]

Stops(h) == handlers' = [handlers EXCEPT ![h] = Idle]

(* evaluate_recovery_gate on the witness `d`, for a hold whose predecessor *)
(* is `p`; what it says of the ledger is decided in Observe.               *)
Permitted(d, op, id, p) ==
  IF op = ADVANCE_EPOCH
    THEN /\ RecoveryMarked(d, p)
         /\ id # NoAuth /\ id \notin Consumed(d)
         /\ register[id] # NoAuth
         /\ register[id].kind = EPOCH /\ register[id].witness = d
    ELSE id = NoAuth /\ EpochAdvanced(d, p)

(* The view of the witness is taken first.  What the gate decides from the *)
(* view and the request alone is decided here; a request it refuses        *)
(* changes nothing and is not an action.                                   *)
View(h, op, id, p) ==
  /\ handlers[h].pc = "idle"
  /\ Permitted(lineage, op, id, p)
  /\ handlers' = [handlers EXCEPT ![h] =
       [pc |-> "viewed", op |-> op, auth |-> id, pred |-> p, doc |-> lineage, seen |-> 0,
        batch |-> GenesisBatch]]
  /\ UNCHANGED <<lineage, ownerVars, journal, wire>>

(* Mutant of Observe: the position is not compared with the view.          *)
ObserveUncompared(h) ==
  /\ handlers[h].pc = "viewed"
  /\ handlers' = [handlers EXCEPT ![h].pc = "observed", ![h].seen = Len(journal)]
  /\ UNCHANGED <<lineage, ownerVars, journal, wire>>

(* Then the ledger is opened and observed, and its position compared with  *)
(* the view (ADOPTION_ALREADY_JOURNALLED, LEDGER_NOT_AT_WITNESS).          *)
Observe(h) ==
  LET r == handlers[h]
      n == Len(journal)
  IN  /\ r.pc = "viewed"
      /\ IF \/ AtWitness(r.doc, n, Last(journal))
            \/ r.op = ADVANCE_EPOCH /\ OnlyMarkingLags(r.doc, n, Last(journal), r.pred)
           THEN handlers' = [handlers EXCEPT ![h].pc = "observed", ![h].seen = n]
           ELSE Stops(h)
      /\ UNCHANGED <<lineage, ownerVars, journal, wire>>

(* The batches a request may ask for, over the journal as it is now: none  *)
(* when the operation is refused.                                          *)
AdoptionBatches(id) ==
  LET b == [op |-> ADVANCE_EPOCH, items |-> {}, epoch |-> register[id].epoch + 1, by |-> id,
            view |-> register[id].target.ver]
  IN  IF b.epoch > Last(journal).epoch /\ b.view > Last(journal).view THEN {b} ELSE {}

RemovalBatches(op) ==
  LET stale == Stale(journal, IF op = VOID_CHALLENGE THEN Challenges ELSE Uses)
  IN  IF stale = {} THEN {} ELSE {[Last(journal) EXCEPT !.op = op, !.items = stale]}

PlannedBatches(r) ==
  IF r.op = ADVANCE_EPOCH THEN AdoptionBatches(r.auth) ELSE RemovalBatches(r.op)

(* The journal is read again to plan.  An adoption may also be refused for *)
(* its target registry, which is not modelled.                             *)
Plan(h) ==
  LET r == handlers[h]
  IN  /\ r.pc = "observed"
      /\ \/ \E b \in PlannedBatches(r) :
              handlers' = [handlers EXCEPT ![h].pc = "planned", ![h].batch = b]
         \/ r.op = ADVANCE_EPOCH /\ Stops(h)
         \/ PlannedBatches(r) = {} /\ Stops(h)
      /\ UNCHANGED <<lineage, ownerVars, journal, wire>>

(* Mutant of AppendRecovery: no compare-and-swap on the observed position. *)
AppendRecoveryBlind(h) ==
  /\ handlers[h].pc = "planned"
  /\ journal' = Append(journal, handlers[h].batch)
  /\ IF handlers[h].op = ADVANCE_EPOCH THEN Stops(h) ELSE Goes(h, "appended")
  /\ UNCHANGED <<lineage, ownerVars, wire>>

(* append_recovery: one transaction, only at the observed position.        *)
AppendRecovery(h) ==
  LET r == handlers[h]
  IN  /\ r.pc = "planned"
      /\ IF Len(journal) # r.seen
           THEN Stops(h) /\ UNCHANGED journal
           ELSE /\ journal' = Append(journal, r.batch)
                /\ IF r.op = ADVANCE_EPOCH THEN Stops(h) ELSE Goes(h, "appended")
      /\ UNCHANGED <<lineage, ownerVars, wire>>

(* The witness client connects and sends the request.                      *)
SendRecord(h) ==
  LET r == handlers[h]
  IN  /\ r.pc = "appended"
      /\ wire' = wire \cup {[doc |-> r.doc, pos |-> r.seen + 1]}
      /\ Goes(h, "waiting")
      /\ UNCHANGED <<lineage, ownerVars, journal>>

(* The answer arrives, the socket fails, or 5 s pass: the request is over. *)
(* What is still on the wire may be served later.                          *)
EndRecord(h) ==
  /\ handlers[h].pc = "waiting"
  /\ Stops(h)
  /\ UNCHANGED <<lineage, ownerVars, journal, wire>>

(* Mutant of ServeRecord: the successor is built on the witness the caller *)
(* names, not on the head.                                                 *)
ServeRecordOnNamed(m) ==
  /\ wire' = wire \ {m}
  /\ \E e \in PlanLedgerAdvance(m.doc, m.pos) : lineage' = Append(m.doc, e)
  /\ UNCHANGED <<ownerVars, journal, handlers>>

(* RECORD_LEDGER_ADVANCE at the witness: it must name the head exactly; a  *)
(* busy or failing store refuses it.                                       *)
ServeRecord(m) ==
  /\ wire' = wire \ {m}
  /\ \E e \in PlanLedgerAdvance(lineage, m.pos) \cup {Newest(lineage)} :
       lineage' = IF m.doc = lineage /\ e # Newest(lineage) THEN Append(lineage, e) ELSE lineage
  /\ UNCHANGED <<ownerVars, journal, handlers>>

(* The witness service is down, or drops the connection.                   *)
LoseRecord(m) ==
  /\ wire' = wire \ {m}
  /\ UNCHANGED <<lineage, ownerVars, journal, handlers>>

(* The signer is killed, at any point of every handler.                    *)
SignerCrash ==
  /\ handlers' = [h \in Handlers |-> Idle]
  /\ UNCHANGED <<lineage, ownerVars, journal, wire>>

-----------------------------------------------------------------------------
OwnerStep ==
  \/ ReadWitness
  \/ \E id \in AuthIds :
       \/ \E kind \in {HEAD, EPOCH}, digest \in Digests : Issue(id, kind, digest)
       \/ Expire(id)
       \/ ExecuteHeadAdvance(id)
       \/ ExecuteEpochAdvance(id)

HandlerStep(h) ==
  \/ \E op \in Operations, id \in AuthIds \cup {NoAuth}, p \in Predecessors : View(h, op, id, p)
  \/ Observe(h) \/ Plan(h) \/ AppendRecovery(h) \/ SendRecord(h) \/ EndRecord(h)

Next ==
  \/ OwnerStep
  \/ \E h \in Handlers : HandlerStep(h)
  \/ \E m \in wire : ServeRecord(m) \/ LoseRecord(m)
  \/ SignerCrash

Spec == Init /\ [][Next]_vars

(* The owner finishes a ceremony it began: an adopted authorization is     *)
(* executed as long as the witness would accept it.                        *)
CompleteAdoption == \E id \in AuthIds : ExecuteEpochAdvance(id)

FairSpec == Spec /\ WF_vars(CompleteAdoption)

-----------------------------------------------------------------------------
(***************************************************************************)
(* Properties.                                                             *)
(***************************************************************************)

PCs == {"idle", "viewed", "observed", "planned", "appended", "waiting"}

Requests == [pc: PCs, op: Operations, auth: AuthIds \cup {NoAuth}, pred: Nat, doc: Docs,
             seen: Nat, batch: Batches]

TypeOK ==
  /\ lineage \in Docs
  /\ register \in [AuthIds -> Authorizations \cup {NoAuth}]
  /\ expired \subseteq MayExpire
  /\ accepted \in Docs
  /\ journal \in Seq(Batches) \ {<<>>}
  /\ handlers \in [Handlers -> Requests]
  /\ wire \subseteq [doc: Docs, pos: Nat]

WitnessPosition == Newest(lineage).pos

(* The ledger is where the witness says, or one transaction ahead of it:   *)
(* whatever threads, crashes and lost records do, at most one batch is not *)
(* witnessed (the signer never builds on an unwitnessed position).         *)
AtMostOneBatchAhead == Len(journal) \in {WitnessPosition, WitnessPosition + 1}

(* No batch is appended on a position, or in an epoch, other than the one  *)
(* the witness holds at that moment, although the handler compared its     *)
(* ledger with a witness it had read some steps earlier.                   *)
AppendAtWitness ==
  [][journal' # journal => PositionEqual(lineage, Len(journal), Last(journal))]_vars

(* A journalled adoption that the witness has not executed is still the    *)
(* one that fits the witness's head, and its authorization is unconsumed:  *)
(* nothing overtakes an adoption, so "the same authorization" completes it.*)
AdoptionFitsWitness ==
  Last(journal).epoch # Newest(lineage).epoch =>
    LET id == Last(journal).by
    IN  /\ Last(journal).op = ADVANCE_EPOCH
        /\ register[id].witness = lineage
        /\ PlanEpochAdvance(lineage, id, register[id], Len(journal)) # {}

(* Old work is removed only after the witness holds the epoch that made it *)
(* old: no batch removes work in an epoch that may still be abandoned.     *)
RemovalAfterWitnessedEpoch ==
  \A n \in DOMAIN journal :
    journal[n].items # {} =>
      \E i \in DOMAIN lineage : /\ lineage[i].pos < n
                                /\ lineage[i].epoch = journal[n].epoch
                                /\ lineage[i].epoch > 1

(* What the signer and the owner do together is what the witness promises. *)
Log == INSTANCE WitnessLog WITH log <- lineage, acked <- <<>>

ImplementsLog == Log!SpecFromGenesis

(* A journalled adoption is executed by the witness, unless its            *)
(* authorization expires first, if the owner does not give up.             *)
AdoptionCompletes ==
  Last(journal).epoch # Newest(lineage).epoch
    ~> \/ Last(journal).epoch = Newest(lineage).epoch
       \/ Last(journal).by \in expired

(* docs/architecture/slice-15b2b-b1b3e-rotation-revocation-recovery.md:748 *)
(* a removal that is journalled while its witness record is lost is        *)
(* resolved by another epoch advance with a new authorization: so once the *)
(* successor key is marked, the signer accepts that advance.               *)
LagResolvedByAdvance ==
  /\ Last(journal).items # {} /\ Len(journal) > WitnessPosition /\ wire = {}
  /\ \A h \in Handlers : handlers[h].pc = "idle"
  =>
  \A p \in Predecessors : RecoveryMarked(lineage, p) =>
    \/ AtWitness(lineage, Len(journal), Last(journal))
    \/ OnlyMarkingLags(lineage, Len(journal), Last(journal), p)

=============================================================================
