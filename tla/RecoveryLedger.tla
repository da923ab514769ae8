--------------------------- MODULE RecoveryLedger ---------------------------
(***************************************************************************)
(* The authority ledger, its backups and the recovery witness.             *)
(*                                                                         *)
(* The authority-side state is a hash-chained journal of operations, with  *)
(* materialized rows beside it.  Operations that create authority (prepare,*)
(* consume, issue, reserve, confirm) need a readiness result bound to the  *)
(* exact ledger it evaluated; operations that remove authority never do.   *)
(* After an operation commits, the witness is signed, and only then is the *)
(* effect acknowledged: a crash may come in between.  Backups of the       *)
(* ledger, its rows, the registry or the witness may be restored at any    *)
(* time, each alone, and the recovery ceremony is what leads out of the    *)
(* states the readiness gate then refuses.                                 *)
(*                                                                         *)
(* An entry carries what a replay up to it yields, so the head of a journal*)
(* is the journal itself: two ledgers have one head iff they are equal (the *)
(* hash is injective), and a witness is the journal it names.  The version *)
(* chain of the witness documents is by construction and left out; one     *)
(* environment, one policy and a current privacy boundary are assumed.     *)
(***************************************************************************)
EXTENDS Integers, FiniteSets, SequencesExt

CONSTANTS
  Challenges,       \* challenge IDs
  Evidences,        \* evidence IDs (an ID stands for its digest too)
  Randoms,          \* random parts of recovery epochs
  GenesisRandom,    \* the one of the first epoch
  Endings,          \* the ways a prepared challenge is ended in this instance
  Restorable,       \* which parts the backups restore: subset of Parts
  WritesBehind,     \* are removals written to a ledger that lost history?
  MaxJournal,       \* bound: ordinary operations while the journal is shorter
  MaxVersion,       \* bound: registry versions published
  MaxRestores       \* bound: restores

Parts == {"ledger", "rows", "registry", "witness"}

PREPARED  == "PREPARED"
CONSUMED  == "CONSUMED"
RESERVED  == "RESERVED"
ISSUED    == "ISSUED"       \* issued and not yet used: no row of the use table
ABANDONED == "ABANDONED"
UNKNOWN   == "UNKNOWN"
VOIDED_BY_RECOVERY      == "VOIDED_BY_RECOVERY"
QUARANTINED_BY_RECOVERY == "QUARANTINED_BY_RECOVERY"

EndingStates == {"EXPIRED", "CANCELLED", "FAILED"}

CHALLENGE_TERMINAL == EndingStates \cup {CONSUMED, VOIDED_BY_RECOVERY}
USE_TERMINAL       == {CONSUMED, ABANDONED, QUARANTINED_BY_RECOVERY}

AuthorityOps == {"PREPARE", "CONSUME", "ISSUE", "RESERVE", "CONFIRM"}

NoEntity == "none"          \* the ID of an entry that concerns no one item

ASSUME RecoveryLedgerAssumption ==
  /\ IsFiniteSet(Challenges) /\ IsFiniteSet(Evidences)
  /\ Challenges \cap Evidences = {}
  /\ NoEntity \notin Challenges \cup Evidences
  /\ GenesisRandom \in Randoms
  /\ Endings \subseteq EndingStates
  /\ Restorable \subseteq Parts
  /\ WritesBehind \in BOOLEAN
  /\ MaxJournal \in Nat /\ MaxVersion \in Nat /\ MaxRestores \in Nat

Epochs   == [counter: Nat, random: Randoms]
ChallengeRows == [state: CHALLENGE_TERMINAL \cup {UNKNOWN, PREPARED}, epoch: Epochs,
                  evidence: Evidences \cup {NoEntity}]
UseRows       == [state: USE_TERMINAL \cup {UNKNOWN, ISSUED, RESERVED}, epoch: Epochs]

(* JournalReplay: the state a journal yields.                              *)
Replays == [epoch: Epochs, view: Nat, key: Nat,
            challenges: [Challenges -> ChallengeRows], uses: [Evidences -> UseRows]]

(* `from` is the ledger sequence of the witness an ADVANCE_EPOCH names.    *)
Entries == [op: AuthorityOps \cup {"GENESIS", "END", "ABANDON", "REGISTRY_VIEW", "ADVANCE_EPOCH",
                                   "VOID_CHALLENGE", "QUARANTINE_USE"},
            id: Challenges \cup Evidences \cup {NoEntity}, from: Nat, after: Replays]

VARIABLES
  published,  \* the registries the owner has signed; the index is the version
  registry,   \* the version the broker holds
  journal,    \* the ledger's log
  rows,       \* the materialized rows beside it
  witness,    \* the journal the last signed witness names
  token,      \* a RESTORE_READY result for the current ledger is held
  backup,     \* a copy of ledger, registry and witness taken earlier
  restores,   \* restores so far
  acked       \* history: the <<ID, epoch>> whose end a witness has covered

ledgerVars  == <<journal, rows, token>>
backupVars  == <<backup, restores>>
vars == <<published, registry, ledgerVars, witness, backupVars, acked>>

-----------------------------------------------------------------------------
(***************************************************************************)
(* Reading a journal.                                                      *)
(***************************************************************************)

Replay(j) == j[Len(j)].after
Now       == Replay(journal)
Witnessed == Replay(witness)

(* rows(): the challenge and the use tables of a replay.  Evidence that is *)
(* only ISSUED has no use row; the row of its challenge names it.          *)
RowsOf(r) == [challenges |-> r.challenges, uses |-> r.uses]

(* The rows of an older epoch that nothing has ended yet.                  *)
StalePrepared(r) == {c \in Challenges : r.challenges[c].state = PREPARED /\ r.challenges[c].epoch # r.epoch}
StaleReserved(r) == {v \in Evidences : r.uses[v].state = RESERVED /\ r.uses[v].epoch # r.epoch}

(* What is terminal in a replay, with the epoch it belongs to.             *)
Settled(r) ==
  {<<c, r.challenges[c].epoch>> : c \in {d \in Challenges : r.challenges[d].state \in CHALLENGE_TERMINAL}}
    \cup {<<v, r.uses[v].epoch>> : v \in {e \in Evidences : r.uses[e].state \in USE_TERMINAL}}

(* compare_epochs.                                                         *)
Older(e, f)  == e.counter < f.counter
Forked(e, f) == e.counter = f.counter /\ e # f

(* _row_regressed: a row shows a terminal item as not terminal.            *)
RowRegressed(r, actual) ==
  \/ \E c \in Challenges : /\ r.challenges[c].state \in CHALLENGE_TERMINAL
                           /\ actual.challenges[c].state \notin CHALLENGE_TERMINAL
  \/ \E v \in Evidences : /\ r.uses[v].state \in USE_TERMINAL
                          /\ actual.uses[v].state \notin USE_TERMINAL

-----------------------------------------------------------------------------
(***************************************************************************)
(* The readiness gate: ordered checks, the first that fails is the reason. *)
(***************************************************************************)

(* verify_authority_registry against the witness: its floor and its epoch. *)
RegistryCurrent  == registry >= Witnessed.view
RegistryInEpoch  == published[registry].epoch = Witnessed.epoch
RegistryVerified == RegistryCurrent /\ RegistryInEpoch

Checks == <<
  [ok |-> rows = RowsOf(Now) \/ ~RowRegressed(Now, rows),     reason |-> "TERMINAL_STATE_REOPENED"],
  [ok |-> rows = RowsOf(Now),                                 reason |-> "LEDGER_INTEGRITY_FAILED"],
  [ok |-> ~Older(Now.epoch, Witnessed.epoch),                 reason |-> "LEDGER_EPOCH_STALE"],
  [ok |-> ~Forked(Now.epoch, Witnessed.epoch),                reason |-> "LEDGER_EPOCH_FORKED"],
  [ok |-> ~Older(Witnessed.epoch, Now.epoch),                 reason |-> "LEDGER_EPOCH_AHEAD_OF_WITNESS"],
  [ok |-> RegistryCurrent,                                    reason |-> "REGISTRY_DOWNGRADE"],
  [ok |-> RegistryInEpoch,                                    reason |-> "REGISTRY_EPOCH_MISMATCH"],
  [ok |-> Now.view <= registry,                               reason |-> "REGISTRY_DOWNGRADE"],
  [ok |-> Now.view = registry,                                reason |-> "BROKER_REGISTRY_VIEW_STALE"],
  [ok |-> Len(journal) >= Len(witness),                       reason |-> "LEDGER_BEHIND_WITNESS"],
  [ok |-> Len(journal) <= Len(witness),                       reason |-> "LEDGER_AHEAD_OF_WITNESS"],
  [ok |-> journal = witness,                                  reason |-> "LEDGER_HEAD_MISMATCH"],
  [ok |-> Now.key = published[registry].key,                  reason |-> "REQUIRED_KEY_UNAVAILABLE"],
  [ok |-> StalePrepared(Now) \cup StaleReserved(Now) = {},    reason |-> "NONTERMINAL_PRE_RECOVERY_WORK"] >>

Failing == {i \in DOMAIN Checks : ~Checks[i].ok}
Ready   == Failing = {}

-----------------------------------------------------------------------------
(***************************************************************************)
(* The journal operations (step), each an append by _append.               *)
(***************************************************************************)

GenesisEpoch == [counter |-> 1, random |-> GenesisRandom]

GenesisEntry ==
  [op |-> "GENESIS", id |-> NoEntity, from |-> 0,
   after |-> [epoch |-> GenesisEpoch, view |-> 1, key |-> 1,
              challenges |-> [c \in Challenges |-> [state |-> UNKNOWN, epoch |-> GenesisEpoch,
                                                    evidence |-> NoEntity]],
              uses |-> [v \in Evidences |-> [state |-> UNKNOWN, epoch |-> GenesisEpoch]]]]

Entry(op, id, r) == [op |-> op, id |-> id, from |-> 0, after |-> r]

(* A new ledger value; a readiness result does not fit it.                 *)
Becomes(log) ==
  /\ journal' = log
  /\ rows' = RowsOf(Replay(log))
  /\ token' = FALSE

OthersUnchanged == UNCHANGED <<published, registry, witness, backupVars, acked>>

(* _append with creates_authority.                                         *)
Create(op, id, r) ==
  /\ rows = RowsOf(Now)
  /\ token
  /\ Len(journal) < MaxJournal
  /\ Becomes(Append(journal, Entry(op, id, r)))
  /\ OthersUnchanged

(* _append without: no readiness is asked for.  WritesBehind = FALSE is an *)
(* operator who writes nothing to a ledger that lost witnessed history.    *)
Destroy(op, id, r) ==
  /\ rows = RowsOf(Now)
  /\ WritesBehind \/ IsPrefix(witness, journal)
  /\ Len(journal) < MaxJournal
  /\ Becomes(Append(journal, Entry(op, id, r)))
  /\ OthersUnchanged

(* Mutant of Prepare: the challenge's epoch is not compared.                *)
PrepareAnyEpoch(c, e) ==
  /\ Now.challenges[c].state = UNKNOWN
  /\ Create("PREPARE", c, [Now EXCEPT !.challenges[c] = [state |-> PREPARED, epoch |-> e, evidence |-> NoEntity]])

(* `e` is the epoch the challenge, or the evidence, was signed for.        *)
Prepare(c, e) ==
  /\ Now.challenges[c].state = UNKNOWN
  /\ e = Now.epoch
  /\ Create("PREPARE", c, [Now EXCEPT !.challenges[c] = [state |-> PREPARED, epoch |-> e, evidence |-> NoEntity]])

Consume(c) ==
  /\ Now.challenges[c].state = PREPARED
  /\ Now.challenges[c].epoch = Now.epoch
  /\ Create("CONSUME", c, [Now EXCEPT !.challenges[c].state = CONSUMED])

(* Mutant of Issue: consumed in an older epoch, issued in this one.         *)
IssueAnyEpoch(c, v) ==
  /\ Now.challenges[c].state = CONSUMED
  /\ Now.challenges[c].evidence = NoEntity
  /\ Now.uses[v].state = UNKNOWN
  /\ Create("ISSUE", v, [Now EXCEPT !.challenges[c].evidence = v,
                                    !.uses[v] = [state |-> ISSUED, epoch |-> Now.epoch]])

Issue(c, v) ==
  /\ Now.challenges[c].state = CONSUMED
  /\ Now.challenges[c].evidence = NoEntity
  /\ Now.challenges[c].epoch = Now.epoch
  /\ Now.uses[v].state = UNKNOWN
  /\ Create("ISSUE", v, [Now EXCEPT !.challenges[c].evidence = v,
                                    !.uses[v] = [state |-> ISSUED, epoch |-> Now.epoch]])

Reserve(v, e) ==
  /\ Now.uses[v].state = ISSUED
  /\ e = Now.uses[v].epoch /\ e = Now.epoch
  /\ Create("RESERVE", v, [Now EXCEPT !.uses[v].state = RESERVED])

Confirm(v) ==
  /\ Now.uses[v].state = RESERVED
  /\ Now.uses[v].epoch = Now.epoch
  /\ Create("CONFIRM", v, [Now EXCEPT !.uses[v].state = CONSUMED])

End(c, ending) ==
  /\ Now.challenges[c].state = PREPARED
  /\ Destroy("END", c, [Now EXCEPT !.challenges[c].state = ending])

Abandon(v) ==
  /\ Now.uses[v].state = RESERVED
  /\ Destroy("ABANDON", v, [Now EXCEPT !.uses[v].state = ABANDONED])

(* record_registry: the version the broker holds, with the key IDs the     *)
(* caller gives (the registry's, or the ones the ledger already named).    *)
RecordRegistry(key) ==
  /\ registry > Now.view
  /\ Destroy("REGISTRY_VIEW", NoEntity, [Now EXCEPT !.view = registry, !.key = key])

-----------------------------------------------------------------------------
(***************************************************************************)
(* The recovery ceremony.                                                  *)
(***************************************************************************)

(* Mutant of BeginRecovery: prepared work moves into the new epoch.         *)
BeginRecoveryRebinding(i) ==
  LET e == published[i].epoch
      rebound == [c \in Challenges |-> [Now.challenges[c] EXCEPT !.epoch = e]]
  IN  /\ e.counter = Witnessed.epoch.counter + 1
      /\ e.random # Witnessed.epoch.random
      /\ i > Witnessed.view
      /\ e.counter > Now.epoch.counter
      /\ i > Now.view
      /\ Becomes(Append(journal, [op |-> "ADVANCE_EPOCH", id |-> NoEntity, from |-> Len(witness),
                                  after |-> [Now EXCEPT !.epoch = e, !.view = i, !.key = published[i].key,
                                                        !.challenges = rebound]]))
      /\ registry' = i
      /\ UNCHANGED <<published, witness, backupVars, acked>>

(* begin_recovery under registry version `i`, on rows rebuilt from the log.*)
BeginRecovery(i) ==
  LET e == published[i].epoch
  IN  /\ e.counter = Witnessed.epoch.counter + 1
      /\ e.random # Witnessed.epoch.random
      /\ i > Witnessed.view
      /\ e.counter > Now.epoch.counter
      /\ i > Now.view
      /\ Becomes(Append(journal, [op |-> "ADVANCE_EPOCH", id |-> NoEntity, from |-> Len(witness),
                                  after |-> [Now EXCEPT !.epoch = e, !.view = i, !.key = published[i].key]]))
      /\ registry' = i
      /\ UNCHANGED <<published, witness, backupVars, acked>>

(* The ceremony starts from the journal, never from edited rows, and keeps *)
(* the rebuilt rows when begin_recovery then refuses.                      *)
RebuildRows ==
  /\ rows' = RowsOf(Now)
  /\ UNCHANGED <<journal, token>>
  /\ OthersUnchanged

(* Mutant of Without: one state for challenges and uses alike.              *)
WithoutOneState(r, items) ==
  [r EXCEPT
     !.challenges = [c \in Challenges |-> IF c \in items THEN [r.challenges[c] EXCEPT !.state = QUARANTINED_BY_RECOVERY]
                                          ELSE r.challenges[c]],
     !.uses = [v \in Evidences |-> IF v \in items THEN [r.uses[v] EXCEPT !.state = QUARANTINED_BY_RECOVERY]
                                   ELSE r.uses[v]]]

Without(r, items) ==
  [r EXCEPT
     !.challenges = [c \in Challenges |-> IF c \in items THEN [r.challenges[c] EXCEPT !.state = VOIDED_BY_RECOVERY]
                                          ELSE r.challenges[c]],
     !.uses = [v \in Evidences |-> IF v \in items THEN [r.uses[v] EXCEPT !.state = QUARANTINED_BY_RECOVERY]
                                   ELSE r.uses[v]]]

(* quarantine_pre_recovery: every stale challenge, then every stale use,   *)
(* each an entry of its own; the caller keeps the last ledger only.        *)
Quarantine ==
  LET order == SetToSeq(StalePrepared(Now)) \o SetToSeq(StaleReserved(Now))
      Gone(n) == {order[k] : k \in 1..n}
      Removal(n) == Entry(IF order[n] \in Challenges THEN "VOID_CHALLENGE" ELSE "QUARANTINE_USE",
                          order[n], Without(Now, Gone(n)))
  IN  /\ rows = RowsOf(Now)
      /\ order # <<>>
      /\ Becomes(journal \o [n \in DOMAIN order |-> Removal(n)])
      /\ OthersUnchanged

(* Mutant of Succeeds: within one epoch any ledger position follows.        *)
SucceedsAnyPosition(w, j) ==
  /\ ~Older(Replay(j).epoch, Replay(w).epoch) /\ ~Forked(Replay(j).epoch, Replay(w).epoch)
  /\ Replay(j).epoch.counter <= Replay(w).epoch.counter + 1
  /\ Replay(j).view >= Replay(w).view

(* Mutant of Succeeds: the ledger grows in an epoch advance too.            *)
SucceedsOnlyLonger(w, j) ==
  LET advanced == Older(Replay(w).epoch, Replay(j).epoch)
  IN  /\ ~Older(Replay(j).epoch, Replay(w).epoch) /\ ~Forked(Replay(j).epoch, Replay(w).epoch)
      /\ advanced => Replay(j).epoch.counter = Replay(w).epoch.counter + 1
      /\ Replay(j).view >= Replay(w).view
      /\ advanced => Replay(j).view > Replay(w).view
      /\ Len(j) >= Len(w)
      /\ Len(j) = Len(w) => j = w

(* witness_succession_reason is None for `j` after `w`.                    *)
Succeeds(w, j) ==
  LET advanced == Older(Replay(w).epoch, Replay(j).epoch)
  IN  /\ ~Older(Replay(j).epoch, Replay(w).epoch) /\ ~Forked(Replay(j).epoch, Replay(w).epoch)
      /\ advanced => Replay(j).epoch.counter = Replay(w).epoch.counter + 1
      /\ Replay(j).view >= Replay(w).view
      /\ advanced => Replay(j).view > Replay(w).view
      /\ advanced => j # w
      /\ ~advanced => /\ Len(j) >= Len(w)
                      /\ Len(j) = Len(w) => j = w

(* sign_state: the effects the journal holds are acknowledged.             *)
Sign ==
  /\ Succeeds(witness, journal)
  /\ witness' = journal
  /\ acked' = acked \cup Settled(Now)
  /\ UNCHANGED <<published, registry, ledgerVars, backupVars>>

-----------------------------------------------------------------------------
(***************************************************************************)
(* The owner, the gate's callers, backups.                                 *)
(***************************************************************************)

(* The owner signs the next registry, in epoch `e`: with a new signing key,*)
(* or with the one it has (a key belongs to one epoch).                    *)
Publish(e, rotate) ==
  /\ Len(published) < MaxVersion
  /\ ~rotate => e = published[Len(published)].epoch
  /\ published' = Append(published, [epoch |-> e, key |-> IF rotate THEN Len(published) + 1
                                                          ELSE published[Len(published)].key])
  /\ UNCHANGED <<registry, ledgerVars, witness, backupVars, acked>>

PublishRotation == \E rotate \in BOOLEAN : Publish(Witnessed.epoch, rotate)
PublishRecovery ==
  \E r \in Randoms \ {Witnessed.epoch.random} :
    Publish([counter |-> Witnessed.epoch.counter + 1, random |-> r], TRUE)

FetchRegistry ==
  /\ registry' = Len(published)
  /\ UNCHANGED <<published, ledgerVars, witness, backupVars, acked>>

EvaluateReadiness ==
  /\ Ready
  /\ token' = TRUE
  /\ UNCHANGED <<published, registry, journal, rows, witness, backupVars, acked>>

Snapshot ==
  /\ backup' = [journal |-> journal, registry |-> registry, witness |-> witness]
  /\ UNCHANGED <<published, registry, ledgerVars, witness, restores, acked>>

(* A restore is made on a stopped host: no readiness result outlives it.   *)
Restore(part) ==
  /\ part \in Restorable
  /\ restores < MaxRestores
  /\ restores' = restores + 1
  /\ token' = FALSE
  /\ journal'  = IF part = "ledger" THEN backup.journal ELSE journal
  /\ rows'     = IF part \in {"ledger", "rows"} THEN RowsOf(Replay(backup.journal)) ELSE rows
  /\ registry' = IF part = "registry" THEN backup.registry ELSE registry
  /\ witness'  = IF part = "witness" THEN backup.witness ELSE witness
  /\ UNCHANGED <<published, backup, acked>>

Init ==
  /\ published = <<[epoch |-> GenesisEpoch, key |-> 1]>>
  /\ registry = 1
  /\ journal = <<GenesisEntry>>
  /\ rows = RowsOf(GenesisEntry.after)
  /\ witness = <<GenesisEntry>>
  /\ token = FALSE
  /\ backup = [journal |-> <<GenesisEntry>>, registry |-> 1, witness |-> <<GenesisEntry>>]
  /\ restores = 0
  /\ acked = {}

SignedEpochs == {published[i].epoch : i \in DOMAIN published}

ChallengeStep ==
  \E c \in Challenges :
    \/ \E e \in SignedEpochs : Prepare(c, e)
    \/ Consume(c)
    \/ \E v \in Evidences : Issue(c, v)
    \/ \E ending \in Endings : End(c, ending)

UseStep ==
  \E v \in Evidences :
    \/ \E e \in SignedEpochs : Reserve(v, e)
    \/ Confirm(v)
    \/ Abandon(v)

RecoveryStep ==
  \/ \E i \in DOMAIN published : BeginRecovery(i)
  \/ RebuildRows
  \/ Quarantine
  \/ Sign

RegistryStep ==
  \/ PublishRotation
  \/ PublishRecovery
  \/ FetchRegistry
  \/ \E key \in {Now.key, published[registry].key} : RecordRegistry(key)

Next ==
  \/ ChallengeStep
  \/ UseStep
  \/ RecoveryStep
  \/ RegistryStep
  \/ EvaluateReadiness
  \/ Snapshot
  \/ \E part \in Parts : Restore(part)

Spec == Init /\ [][Next]_vars

(* begin_recovery waits for a registry: the ledger is in no later epoch    *)
(* than the witness, and none of the registries signed so far opens the    *)
(* next one.                                                               *)
NeedsRegistry ==
  /\ Now.epoch.counter <= Witnessed.epoch.counter
  /\ ~\E i \in DOMAIN published :
        /\ published[i].epoch.counter = Witnessed.epoch.counter + 1
        /\ published[i].epoch.random # Witnessed.epoch.random
        /\ i > Witnessed.view /\ i > Now.view

(* While the gate refuses, the operator or the owner eventually takes one  *)
(* of the steps of the ceremony that changes something; no order among     *)
(* them, and no other step, is fair.                                       *)
Ceremony ==
  \/ NeedsRegistry /\ PublishRecovery
  \/ FetchRegistry
  \/ \E i \in DOMAIN published : BeginRecovery(i)
  \/ Quarantine
  \/ Sign

FairSpec == Spec /\ WF_vars(~Ready /\ Ceremony)

-----------------------------------------------------------------------------
(***************************************************************************)
(* Properties.                                                             *)
(***************************************************************************)

Journals == Seq(Entries) \ {<<>>}
Items    == Challenges \cup Evidences
RowSets  == [challenges: [Challenges -> ChallengeRows], uses: [Evidences -> UseRows]]

TypeOK ==
  /\ published \in Seq([epoch: Epochs, key: Nat]) \ {<<>>}
  /\ registry \in DOMAIN published
  /\ journal \in Journals
  /\ rows \in RowSets
  /\ witness \in Journals
  /\ token \in BOOLEAN
  /\ backup \in [journal: Journals, registry: DOMAIN published, witness: Journals]
  /\ restores \in 0..MaxRestores
  /\ acked \subseteq Items \X Epochs

(* The step appends to the ledger; the entry is its last, for one append.  *)
Grows    == IsStrictPrefix(journal, journal')
NewEntry == journal'[Len(journal')]
EpochOf(entry) == IF entry.id \in Challenges THEN entry.after.challenges[entry.id].epoch
                  ELSE entry.after.uses[entry.id].epoch

(* Authority is created on the witnessed ledger, in the epoch the witness  *)
(* holds and in no other, whatever was restored: neither a backup of an    *)
(* older epoch or of a fork, nor evidence for a challenge of an older epoch*)
(* brings pending work back to life.                                       *)
AuthorityInWitnessedEpoch ==
  [][Grows /\ NewEntry.op \in AuthorityOps
       => /\ journal = witness
          /\ NewEntry.after.epoch = Witnessed.epoch
          /\ EpochOf(NewEntry) = Witnessed.epoch
          /\ \A c \in Challenges : NewEntry.after.challenges[c].evidence = NewEntry.id =>
               NewEntry.after.challenges[c].epoch = Witnessed.epoch]_vars

(* What can still become authority without a new challenge being prepared. *)
Pending(r) ==
  {c \in Challenges : /\ r.challenges[c].epoch = r.epoch
                      /\ \/ r.challenges[c].state = PREPARED
                         \/ r.challenges[c].state = CONSUMED /\ r.challenges[c].evidence = NoEntity}
    \cup {v \in Evidences : r.uses[v].epoch = r.epoch /\ r.uses[v].state \in {ISSUED, RESERVED}}

(* Recovery can only destroy pending authority: an append that asked for no*)
(* readiness result adds nothing to what is pending, and an epoch advance  *)
(* leaves nothing of it.                                                   *)
RecoveryOnlyDestroys ==
  [][Grows => /\ ~token => Pending(Replay(journal')) \subseteq Pending(Now)
              /\ Replay(journal').epoch # Now.epoch => Pending(Replay(journal')) = {}]_vars

(* Within one journal a terminal record is final: no later operation, of   *)
(* this epoch or of a recovery, reopens or rewrites it.                    *)
TerminalNeverReopens ==
  [][Grows =>
       LET next == Replay(journal')
       IN  /\ \A c \in Challenges : Now.challenges[c].state \in CHALLENGE_TERMINAL =>
                next.challenges[c].state = Now.challenges[c].state
           /\ \A v \in Evidences : Now.uses[v].state \in USE_TERMINAL => next.uses[v] = Now.uses[v]]_vars

(* An end the witness has covered (so the effect was acknowledged) is not  *)
(* undone by any restore the witness survives: no later operation creates  *)
(* authority from that challenge or use again.                             *)
NothingAcknowledgedTwice ==
  [][Grows /\ NewEntry.op \in AuthorityOps
       => <<NewEntry.id, EpochOf(NewEntry)>> \notin acked]_vars

(* recovery_contracts.py:137-138: the witness holds the journal's length   *)
(* and head "so a restore *within* one epoch is also detected": a ledger   *)
(* the gate accepts has every end of its epoch that was acknowledged.      *)
RestoreWithinEpochIsDetected ==
  Ready => \A s \in acked : s[2] = Now.epoch => s \in Settled(Now)

(* What the gate refuses is resolved by the ceremony, from every state a   *)
(* crash or a restore leaves, unless it needs a registry that MaxVersion   *)
(* does not allow.                                                         *)
OutOfBounds == NeedsRegistry /\ Len(published) >= MaxVersion

RefusalIsResolved == ~Ready ~> (Ready \/ OutOfBounds)

=============================================================================
