# Lilith OS: a TLA+ verification project

Lilith OS is a personal-assistant runtime whose distinguishing part is governed
memory: an owner-controlled authority that decides what may become a memory,
and the machinery that keeps that authority trustworthy across crashes, restores
and key rotations. This directory holds TLA+ models of that machinery, the TLC
configurations that check them, and TLAPS proofs.

Run everything from this directory:

    tlc -workers 2 -config MCWitnessStore_crash.cfg MCWitnessStore
    tlapm WitnessStoreProofs.tla

`PROJECT.json` lists every component, run, mutant, hazard and theorem, and maps
each definition that models code to the lines it stands for.

## 1. The system

| Component | Where | State it keeps | Operations | Talks to |
| --- | --- | --- | --- | --- |
| Recovery witness writer | `src/services/recovery-witness/.../writer.py`, `storage.py` | `chain/<v>.json` (append only), `authorizations/<id>.json` (write once), `witness.json` (active pointer), `.witness.json.tmp` (scratch), `witness.lock` | `bootstrap`, `record_ledger_advance`, `execute_registry_head_advance`, `execute_epoch_advance`, `recover` | the file system; the scan |
| Witness service process | `core.py`, `server.py`, `protocol.py`, systemd unit | one connection at a time | `READ_WITNESS`, health, the writer's operations, startup recovery | signer and owner tools over a Unix socket |
| Witness scan | `owner-memory-control/.../witness_readiness.py`, `authority_host/store_observer.py` | none (pure over an observation) | `classify_witness_store`, `verify_authorization_history` | read by writer, signer and owner tools, without a lock |
| Witness documents and planners | `rotation_contracts.py` | none (pure) | succession, the four planners, chain facts, ledger position | writer, scan, signer |
| Authority ledger journal | `authority_ledger_journal.py` | none (pure replay) | the 14 journal operations | durable ledger, TEST ledger |
| Durable authority ledger | `authority-dev/.../ledger.py` | SQLite journal and materialized rows | `provision`, `observe`, `append_recovery` | signer |
| Signer recovery handler | `authority-dev/.../recovery.py`, `server.py` | none of its own | `RECOVERY_ADVANCE_EPOCH`, `RECOVERY_VOID_CHALLENGE`, `RECOVERY_QUARANTINE_USE` | ledger, witness store (read), witness service (`RECORD_LEDGER_ADVANCE`), hold store snapshot |
| TEST recovery ledger | `lilith_authority_signer/synthetic_recovery_ledger.py`, `recovery_contracts.py` | immutable ledger states, the last witness signed | the authority-creating and the removing operations, `begin_recovery`, `quarantine_pre_recovery`, `sign_state`, `evaluate_restore_readiness` | the journal |
| Ceremony hold store | `authority-dev/lilith_authority_root/hold_store.py`, `successor_custody.py` | `<ceremonyId>.json` per ceremony, each HELD or RELEASED; a write scratch in the parent directory | `create_initial_held`, `create_successor_held`, `create_maintenance_held`, `create_custody_debt_held`, `release_initial`, `release_with_readiness`, `observe` | witness scan, owner; its snapshot goes to the witness and the signer |
| Successor readiness gate | `successor_readiness.py` | none (pure) | `verify_history`, `evaluate_compromise_recovery`, `evaluate_recovery_gate`, `evaluate_successor_readiness`, `authorize_custody_step`, `verify_destruction_order` | recovery handler, the owner's tools |
| Memory broker | `src/services/memory-broker`, `core-api/.../owner_proof.py` | two SQLite databases: challenges, requests, claims and links in one, evidence in the other | `prepare`, `cancel`, `confirm`, `recover`, the A2 stop barrier | owner clients over a Unix socket; an operator's recovery process |
| Canonical memory | `core-api/.../canonical_authority.py`, `learning_v2.py`, `canonical_store.py` | one SQLite file: actor evidence, policy decisions, consents, rollbacks, intents, candidates, proposals, acceptances, revisions, the active item | freezing and deciding an owner action, `apply` | privacy governance (read only) |
| Privacy governance and erasure | `core-api/.../privacy_governance.py`, `memory_v2.py` | a second SQLite file: holds, suppressions, erasure authorizations and results, receipts | `begin_forget`, the resource owners' erasures, `complete`, the restore verifier | canonical memory |
| Learning jobs | `core-api/.../learning_worker.py`, `learning_store.py`, `learning.py` | one SQLite file: jobs with leases, cursor, candidates | `run_once` with its three transactions | the career watcher's event stream (read only) |
| Application, front end, command core | `src/services/core-api/app.py`, `src/src` | sessions, UI state | HTTP handlers, command planning | core API |
| Ceremony and release tooling | `owner-memory-control/tools`, `authority-dev/ceremony`, `scripts` | files an operator moves | one-shot operator scripts | all of the above |

The path the project starts with is the trust root of everything else: the
recovery witness. The signer refuses to do anything unless the witness store
scans as `CONSISTENT` and its own ledger stands exactly where the witness says;
the owner signs authorizations (K-ROOT) for exactly one witness or registry
head, and the witness writer executes each at most once.

What is hard in it:

* a commit is nine storage calls on four names in three directories, and the
  process can be killed, the host can lose power or a call can fail between any
  two of them; recovery must roll forward what was committed and never report
  what was not;
* the signer and the owner tools read the store from other processes without
  the lock, in two steps, while the writer runs;
* evidence (the retained authorization) and effect (the chain entry) live in
  different directories and must become durable in that order, even if an
  earlier run died half way through;
* two authorizations for the same registry head can be outstanding;
* a ledger and its witness are updated one after the other, a reply can be lost,
  and a ledger can be restored from a backup between the two;
* a confirmation of the memory broker is four commits in two databases, which a
  recovery process reads one row at a time while the confirmation runs;
* a memory's admission reads a privacy hold from a database it cannot lock, and
  forgetting is a run of erasures that other rows may stop, that can die half way
  and that a restored backup may undo;
* a change of keys is gated by a hold that is written under one lock, released
  from a scan taken before that lock, and judged by the witness in a snapshot
  taken before the request;
* the learning worker reads its source outside any transaction under a lease
  that may run out, and compares the lease with a moment it sampled before it
  waited for the write lock.

## 2. Modules

| Module | What it is |
| --- | --- |
| `WitnessV2` | documents, succession, authorizations and planners (`rotation_contracts.py`) |
| `WitnessLog` | the abstract specification: one append-only log of lawful, singly authorized witnesses |
| `WitnessStore` | the service and its durable store, one action per storage call; refines `WitnessLog` |
| `MCWitnessStore` | constants for TLC |
| `WitnessStoreProofs` | TLAPS proofs about `WitnessStore` |
| `SignerRecovery` | compromise recovery: the signer's ledger, its concurrent handlers, the witness's log and the owner; refines `WitnessLog` |
| `MCSignerRecovery` | constants for TLC |
| `SignerRecoveryProofs` | TLAPS proofs about `SignerRecovery` |
| `RecoveryLedger` | the authority ledger with all its operations, the readiness gate, backups, the recovery ceremony and the V1 witness |
| `MCRecoveryLedger` | constants for TLC |
| `RecoveryLedgerProofs` | TLAPS proofs about `RecoveryLedger` |
| `WitnessV2Proofs` | lemmas about documents and planners, used by both |
| `SingleUseProof` | the abstract specification of the broker: one atomic, one-shot record per challenge |
| `MemoryBroker` | confirmations, cancellations and recoveries over two databases; refines `SingleUseProof` |
| `MCMemoryBroker` | constants for TLC |
| `MemoryBrokerProofs` | TLAPS proofs about `MemoryBroker` |
| `ForgettableMemory` | the abstract specification of one identity: a value, a closing, at most one late admission, then nothing for ever |
| `CanonicalMemory` | from an owner's action to a revision, and the forgetting of it; refines `ForgettableMemory` |
| `MCCanonicalMemory` | constants and scenarios for TLC |
| `CanonicalMemoryProofs` | TLAPS proofs about `CanonicalMemory` |
| `ConsolidationLog` | the abstract specification of the learning ledger: the source records up to a cursor, each once |
| `LearningWorker` | overlapping runs of the worker with leases and clocks; refines `ConsolidationLog` |
| `MCLearningWorker` | constants for TLC |
| `LearningWorkerProofs` | TLAPS proofs about `LearningWorker` |
| `HoldStore` | the ceremony hold store with its files and lock, the head changes it gates and the release |
| `MCHoldStore` | constants and symmetry for TLC |
| `HoldStoreProofs` | TLAPS proofs about `HoldStore` |

How they compose: `WitnessLog` is what the witness service promises.
`WitnessStore` implements it with files, and `SignerRecovery` is built on it:
there one witness commit is one action, and the module is shown to implement
`WitnessLog` in its turn (from the genesis on), so the joint behaviour of
signer, owner and service stays within the promise. `RecoveryLedger` stands
beside them: it is the earlier slice (b1b3c) with its own V1 witness, and the only
implementation of the operations that create authority. `MemoryBroker`,
`CanonicalMemory` and `LearningWorker` are the three durable state machines on the
memory side. In this code they meet only through documents (an evidence digest,
a candidate reference), so each is checked against a promise of its own.
`HoldStore` composes the hold store with the witness chain and the recovery gate,
as far as holds matter to them: an executed change is one step of the chain, and
the owner's commands run between the scan, the lock, the snapshot and the step.

### WitnessV2

A witness names its predecessor by SHA-256 digest. The model uses the lineage
itself as the document: a sequence of entries, each with the consumed
authorization, the epoch counter, the registry head and the ledger position.
Equal digests are equal lineages, `Len` is `witnessVersion`, `Front` is the
predecessor. A registry head is a version and the identity of the registry at
that version, so two competing registries of one version are different heads.
The planners return the set of entries they would add: empty when they refuse.

### WitnessStore

State: what the file system shows (`chain`, `retained`, `pointer`, `scratch`,
`dirs`), what the disk is sure to hold (`chainSynced`, `chainLinked`,
`retSynced`, `retLinked`, `stateDisk`), the service (`svc`, `pc`, `doc`,
`auth`), and its environment (`register`, `view`, `accepted`, `acked`,
`faults`).

* `pc` names the next storage call of the operation in progress. `Bootstrap`,
  `RecordLedgerAdvance` and `ExecuteAdvance` are the requests; they classify the
  store first, as the code does under `witness.lock`, and start the sequence.
  `MakeDirs` ... `StateFsync` are the storage port's calls. `Start` and
  `Recheck` are `startup_recovery`. `Reply` is the answer, which may be lost.
* `Classify` is `classify_witness_store`, with the order of its tests.
* `ReadState`, then `ReadChain`, is the lock-free observation of other
  processes; `Issue` is the owner signing an authorization for the witness it
  read.
* `Kill` keeps what the process wrote; `PowerLoss` picks what the disk keeps:
  an unsynced file may be torn, a name in an unsynced directory may be gone, and
  the state directory's entries return to any state they had since its last
  fsync, in order, and a rename may leave both names (rename(2) allows it). `IoError` fails the call in progress.

Deliberate abstractions: timestamps and the authorization's validity window,
registry bytes, the epoch's random part and the hold snapshot are not modelled,
so `Plan` may refuse at any time; the owner registers a new registry head
together with the authorization for it; one service instance runs (systemd and
`witness.lock`); a reader sees one directory's contents in one step
(authorizations only grow); what an owner repairs by hand after a fail-closed
classification is outside the model.

Fail-closed outcomes that are intended and do occur in the model: a kill
between the open and the write of a chain file is `TORN_TAIL` (`CHAIN_CORRUPT`
for the genesis), between the open and the write of a retained copy
`RETENTION_CORRUPT`; a service that met an `OSError` after the commit point
refuses until it is restarted. The ELSE branch of `ChainOpen`
(`CHAIN_ENTRY_EXISTS`) is unreachable in a store that only this service writes.

### SignerRecovery

State: the witness's `lineage`; the owner's `register`, `expired` and `accepted`;
the ledger `journal`; one record per signer thread in `handlers`; and the
`wire`, the `RECORD_LEDGER_ADVANCE` requests that were sent and not served.

* A handler is `RecoveryHandlerV1._handle`, one action per moment at which it
  reads or changes something shared: `View` (the witness store, and the gate
  decided from it), `Observe` (the ledger's position against the view), `Plan`
  (the journal read again), `AppendRecovery` (one transaction with the
  compare-and-swap on the observed position), `SendRecord` and `EndRecord`
  (the socket exchange and its 5 s limit). `ServeRecord` is the witness's side;
  it may happen after the handler has given up. `SignerCrash` ends every handler.
* A journal entry is one batch, so a position is the number of batches, and
  two equal positions of one journal have equal heads.
* A registry head is what it does to the issuance key: it `NAMES` a new key,
  `MARKS` the current one compromised, or `KEEPS` it. `Markings`,
  `RecoveryMarked` and `EpochAdvanced` are `evaluate_compromise_recovery` over
  the lineage; `AtWitness` and `OnlyMarkingLags` are
  `authority_ledger_position_reason` and `marking_lag_reason`.
* `Permitted` is the gate a request passes on the document its handler viewed;
  `Transitions` is the records of a document that change the registry head.
* `ExecuteHeadAdvance` and `ExecuteEpochAdvance` are the owner's requests to the
  witness, with the hold gates that depend on the lineage (`HeadHold`,
  `EpochHold`).

Abstractions: the work of the old epoch is a set of challenges and uses, and
one request removes all that is stale, as the code's batch does; a hold that is
present and valid is assumed, because a missing hold only refuses; the ledger
is never restored from a backup here (`RecoveryLedger` does that); a file an owner carries between
the machines arrives intact.

### RecoveryLedger

State: the `journal` and the materialized `rows` beside it; the `witness` last
signed; the registries the owner has `published` and the version the broker
holds (`registry`); whether a readiness result for the current ledger is held
(`token`); one `backup`; and the history variable `acked`.

* An entry is an operation with the state a replay up to it yields. So the
  ledger's hash-chained head is the journal itself, a witness is the journal it
  names, and `Replay` is `replay`.
* `Prepare`, `Consume`, `Issue`, `Reserve` and `Confirm` go through `Create`
  (`_append` with `creates_authority`, which needs the token); `End`, `Abandon`
  and `RecordRegistry` go through `Destroy`, which does not.
* `Checks` is `evaluate_restore_readiness`, in its order. `EvaluateReadiness` is a caller that keeps a positive result.
* `BeginRecovery`, `Quarantine` and `Sign` are the ceremony's functions, with
  `RebuildRows` for a ceremony that stops after rebuilding the rows. The steps are
  separate actions, so a crash may come between any two. `Succeeds` is
  `witness_succession_reason`.
* `Restore(part)` puts back the ledger, the rows, the registry or the witness,
  each alone. `Restorable` says which of them an instance restores.
* An effect is acknowledged when the witness has been signed over it, as the
  fixture's `commit` does; `acked` collects the terminal records covered then.

`WritesBehind` is an assumption about the operator, not the code: with FALSE,
nothing is written to a ledger that lost witnessed history until the ceremony
runs. The code does not enforce it, which is what run `ledger_grown` shows.

Abstractions: one environment, one policy version and a current privacy
boundary; the witness's version chain and time are by construction; a registry
has one current signing key; one backup is kept at a time; a restore is made on
a stopped host, so no readiness result survives it; an operation whose fields
are malformed is only refused.

### MemoryBroker

State: the rows of the owner database (`challenge`, `request`, `claim`, the
credential's `signCount`) and of the evidence database (`evidence`); for every
service thread and recovery process where it is (`at`), the challenge it works
on (`on`) and what it read (`saw`); the owner database's write `lock`; the
clock (`late`); what clients were told (`known`, `confirmed`); and the history
variable `issued`.

* `Prepare` and `SaveRequest` are the two transactions of `prepare_synthetic`;
  a crash between them leaves a challenge nobody can confirm, which is intended.
* `Verify` takes the write lock and reads the challenge, `Consume` samples the
  clock a second time after the cryptography and spends the proof. `Barrier` is
  the A2 fault arm, which stops the whole process. `Claim`, `Issue`, `Link` and
  `Reply` are the commits that follow, in the code's order, each of them an
  action.
* `ReadClaim`, `ReadState`, `Find`, `Abandon` and `Reconcile` are
  `recover`, which reads the claim, the challenge and the evidence one after the
  other and acts on what it read.
* `Fail` ends a call with what it has committed, `Kill` ends all calls of the
  service and leaves the recovery processes alone, `Delete` is a deletion of
  evidence from outside, `Tick` lets a challenge expire.

Abstractions: one credential with a valid record, so the rows of one challenge
always bind the same documents; the databases are durable at commit (WAL,
`synchronous=FULL`); the test-mode core, whose evidence can expire, is not modelled.

A limit that the model has too: a recovery may answer
`EVIDENCE_ABSENT_NO_REISSUE` while the confirmation that owns the claim is about
to commit its evidence. The evidence is then committed after that answer, and
the next recovery links it, also from `ABANDONED`. `EvidenceIsLinked` says that it
gets there, and nothing is issued twice on the way.

### CanonicalMemory

State: `db`, the rows of every action by kind with the active revision; the
`privacy` database (hold, suppression, owners with a result); `backup` and
`serving`; for every action what was `frozen`, whether its evidence `expired`
and the row its `call` is about to insert; for every applier where it is
(`at`, `on`) and who holds the write `lock`; the forget run (`run`, `round`,
`refs`); and the history variables `erased` and `late`.

* A row is a kind of an action. `Parents` is the foreign keys, `Reads` what each
  of the dozen calls of `canonical_authority.py` and `learning_v2.py` has to read before
  it inserts. `Read` and `Insert` are separate actions, because each call reads
  first and inserts in a later transaction, so a hold, an erasure or a
  revocation may come between. `Freeze` records what the owner asks for against
  the revision that is active then.
* `Begin`, `Write`, `Recheck` and `Commit` are the single transaction of
  `canonical_store.apply`, cut at its three looks at the privacy database:
  the transaction locks the cognitive database, not the other one. `Abort` rolls it
  back anywhere.
* `BeginForget` is one transaction; `Resolve`, `Erase`, `Record` and `Complete` are
  the run over the resource owners: the erasure in the first database, the
  result in the second, the receipt. `Erase` fails when a row of another owner
  still references what it would delete, as the foreign keys do. `LoseRun` is
  a run that dies with the references it had collected.
* `TakeBackup`, `RestoreBackup` and `Verify` are the backup of the cognitive
  database and the restore verifier, which replays the suppression before the
  service serves again.

Abstractions: one identity; an action's identifiers are abstracted, so a pending
call whose parent rows were erased is dropped (in the code it fails on the foreign
key); feature flags, capabilities, capacity, first-interaction capture and the
V1 proposals (`L18_V1`) are not modelled; FORGET's own actor evidence is not
either, so an identity is forgotten once.

What the model shows beyond its properties, and a maintainer should know:

* creating an intent, a candidate, a decision or a consent does not look at holds, so
  such rows can be inserted again after their erasure; the eligible assessment,
  the proposal and the admission cannot (`ProposalsStayErased`);
* applying a proposal that is still there after L04 has its result inserts a
  rejection, which stops `L18_V2` until L04 is called again. That is why
  `ForgetCompletes` exempts behaviours in which calls for the identity never
  end;
* a set of owners that lacks `CONSENT`, `POLICY` or `ROLLBACK` can leave
  `ACTOR_AUTHORITY` stopped for ever, and a crash of the run loses the references
  it had collected: the actor evidence they name then survives;
* the restore verifier removes the item, its revisions and admissions only: the
  authority and `L18_V2` rows of a restored backup come back, as
  `slice-15b2b-a-canonical-runtime-foundation.md:108-111` says.

### LearningWorker

State: the source (`events`), the ledger (`job`, `cursor`, `candidates`); where
each run is (`at`), what it goes on with (`batch`), and its clock sample
(`sampled`, `age`). Time is relative: `job.left` is what the lease has left,
`age[w]` how long ago `w` looked at the clock, so the state space needs no bound
on time.

* `Sample` is `now_fn()`, which runs before the transaction; the transaction
  waits for the write lock for at most SQLite's busy timeout (`Busy`). `LeaseJob`,
  `CommitBatch` and `FailJob` are the three transactions of `learning_store.py`,
  each comparing the lease with that older moment.
* `Read` is the read of the source and the derivation, outside any transaction:
  an invalid record fails the whole batch. `ReadFails`, `DBBusy` and `Crash` are
  the exceptions of `run_once` and the death of a run, which leaves the lease.
* `Reclaimed` is what `lease_job` does with an expired lease: back to the queue,
  or closed for good after `MAX_ATTEMPTS`, in which case a new job starts at the
  same cursor.

Abstractions: one stream; a candidate is the record it is derived from, so the
replay branch of `commit_batch` (an idempotency key that is already there) is
never taken; the wall clock does not go back, and no process is suspended
between its sample and its transaction for longer than `Busy`. `OpenJobIsUsable`
shows that `lease_job`'s own FAILED_TERMINAL fallback, which its exception rolls
back, is unreachable.

### HoldStore

State: the verified `chain`, of which an entry is what it did (`kind`), the
current key and the registry; what else gates a step (`adoption`, the custody's
`prepared` and `retired` blobs, the owner's `approved` digests); the store as a
process sees it (`holds`) and the stores a power loss may leave (`disk`), the
`scratch` file likewise; and, of each of the owner's commands, where it is
(`pc`), the record it is about to write (`req`) or the snapshot it took (`held`).

* `Begin...` are the writing commands up to the lock. Each scans the witness
  first, so `req.at`, the entry that goes into the record, and its predecessor
  may be old when the record is written.
* `Publish` takes the exclusive lock (`Observable` says that it is free and that
  the observation succeeds), runs the readiness again (`May`) and creates the
  scratch file; `Sync`, `Rename` and `Finish` are the calls that follow. `Kill`
  and `PowerLoss` come between any two of them.
* `Observe` is the snapshot of `execute-head-advance`, `execute-epoch-advance`
  and the recovery commands, taken under the shared lock and used after it is
  gone; `ExecuteRotation` ... `RecordLedger` are the steps taken with it, `Prepare`
  the custody's.
* `Base` and `Transition` are `derive_key_transition`; `Governing` and `Binds` are
  `governing_hold_reason` and `hold_binding_reason` of a HELD record; `Eligible`
  and `Current` are the two readiness modes. `Approve` is the owner's approval
  of a report, whose digest names the head and no hold.

Abstractions: a registry is its version, and a maintenance ceremony is the
registry it starts from; an authorization for a change exists when the step
does; the readiness checks but the hold's pass, and so do records,
publications and signatures; VACATE, INSTALL and ABANDON are not modelled, so a
rotation or an epoch advance retires the predecessor's blob with it; no command
is started that the store refuses at once, nor a hold for a change that the
bounded chain has no room for.

What the model shows beyond its properties, and a maintainer should know:

* the prep-B document (`slice-15b2b-b1b3e-source-prep-b-successor-custody.md`,
  lines 621-622) lets a custody-debt hold go to RELEASED "once" the inventory is
  steady. `hold_binding_reason` asks for `STEADY` only of a RELEASED record
  (`successor_readiness.py:531`), so the release may come first: full readiness
  then says `HOLD_CUSTODY_DEBT_OPEN` and the destruction that would end it is denied;
* a HELD debt dominates, so a maintenance hold under the same key cannot
  be released until the debt is;
* a hold that was placed and not executed can be neither released nor withdrawn:
  the rotation document (line 745) says "continue, or abandon", and no command
  abandons. Two HELD records wedge each other for the same reason, and so does
  a record whose predecessor went stale between scan and lock;
* a kill between the creation of the scratch and its rename leaves a file that every
  later command refuses (`HOLD_PARENT_UNEXPECTED_ENTRY`) until someone removes it;
* a record that a killed command had renamed and not synced is visible, may be acted
  on, and can be taken back by a power loss. `RecordsSurvive` is about what
  a command reported, and the next report covers it;
* with two successor keys that has a consequence outside the bounds of the run,
  found by TLC while the proof was looked for (2 keys, 4 commands, 2 kills). A
  recovery's hold for key m is renamed and its command killed before the fsync;
  three commands take it into their snapshots. A rotation's hold for key n is
  renamed, and killed, in the same way, and the blob of n is prepared under it. The
  older snapshots then carry the marking, the adoption and the epoch advance, which
  makes n current: `epoch_hold_reason` (`writer.py:195-217`) compares no successor. A
  power loss that takes only the hold of m leaves the HELD rotation record of n,
  which readiness will never release. So `ExecutedCanBeReleased` says of an epoch
  advance what it says for a single successor key (`OneSuccessor`).

## 3. Runs

| Run | Question | Bounds |
| --- | --- | --- |
| `witness_crash` | With two competing authorizations and ledger advances between them, can a power loss and a failing call, anywhere, lose what was reported, show a transition without durable evidence, or produce a classification that accuses someone? Does the durable lineage implement `WitnessLog`? | 2 competing authorizations (symmetric), 3 versions, 2 positions, a power loss and a failing call: 213 020 states |
| `witness_live` | Does a recoverable store come up by itself, and does a committed witness get published? | fairness, 1 authorization, 2 versions, a kill, a power loss and a failing call: 83 856 states |
| `witness_stale_pointer` | The documented claim that a lost fsync after the pointer rename leaves the pointer at most one behind: violated | 1 authorization, 3 versions, a kill and a power loss |
| `ledger_safe` | With a restored ledger or witness, and nobody writing to a ledger that lost history before the ceremony: does an accepted ledger hold every acknowledged end of its epoch, does nothing acknowledged become authority again, is authority only created in the witnessed epoch from work of that epoch, and does recovery only destroy? | 1 challenge, 1 evidence, 6 entries by ordinary operations, 3 registries, 2 random parts, 1 restore of either: 324 431 states |
| `ledger_live` | Does the ceremony lead out of every refusal of the gate? | fairness, 2 entries, 3 registries, 1 restore |
| `ledger_grown` | The documented claim that a restore within one epoch is detected: violated once the restored ledger is written to | 2 challenges, 6 entries |
| `signer_safe` | With two threads, lost and late records, crashes and an expiring authorization: is every append made where the witness stands, is old work only removed in an epoch the witness holds, is the witness's log still lawful, and is a journalled adoption executed in the end? | 2 handlers, 3 authorizations of any kind and a fourth (the epoch advance out of a second compromise) met by one handler, 1 of them may expire: 194 003 states |
| `signer_lag` | The documented remedy for a lost record after a removal, another epoch advance: refused by the code | 1 handler, 3 authorizations |
| `broker_confirm` | Confirmed, cancelled and retried by two clients while two recoveries run, with failures, kills, deletions and the A2 stop: does one proof yield evidence at most once and in time, do the databases agree at every crash point, and does every claim settle? | fairness, 1 challenge, 2 connections, 2 recoveries, 2 faults: 58 651 states |
| `memory_forget` | Do racing actions keep the history of an identity one chain, does every admission rest on standing authority, does what is erased stay erased, and does a repeated forget get its receipt? | fairness, three scenarios (below), 5 owners, 1 fault: 354 063 states |
| `learning_lease` | With overlapping runs, leases that expire at any step and old clock samples: is a lease respected while it lasts, are the candidates exactly the records up to the cursor, and is the stream never closed for ever? | fairness, 2 runs, 5 records (one invalid), batches of 2, a ledger of 3, leases of 2 ticks, samples at most 1 tick old, 1 fault: 432 290 states |
| `holds_ceremony` | With scans older than the lock and snapshots older than the step: does the head only change under a hold that binds the change, is only an approved head released, does what a command reported survive kills and power losses, and can the hold of an executed change always be released? | 2 commands at a time, 1 successor key, 4 chain entries, 1 kill, any number of power losses: 619 626 states |

The bounds of the witness. Three versions are the genesis, a predecessor and a successor: the
pointer can be one and two behind, which are the classes the scan tells apart.
A call that fails ends the operation, and past the commit point the process, with
what it wrote still in the cache, as a kill does: so one failing call and one
power loss make the mixed histories (left half way, continued, then lost) of
`witness_crash`, and `witness_live` has a kill as well. The proofs cover any number
of each. A second power loss starts from a store that is exactly what the disk holds,
which is a state the first one already reaches. Two authorizations make one competition, and two ledger
positions let the witness move under an authorization that was issued for it.

`MCNext` and `MCInOrder` leave out orders that only repeat what another order
shows. At the witness: an authorization issued in the middle of an operation
(no step of the operation reads it, so it may come before or after), a reader
that lists the state directory long before anything in it changes, and a reply
that is lost (nothing reads what the client knows; a reply that arrives obliges
the store to more). At the signer: the orders of interchangeable authorizations
and threads, a thread that rests between its append and the end of its request
(its record rests, or is lost, on the wire instead), and a clock window that
ends while no adoption waits for its execution (the owner who does not execute
is the same). The proofs are about `Spec` and use none of this.

Fairness. `WF_vars(ServiceStep)`: a running process makes its next storage
call, and systemd starts a stopped service again
(`Restart=on-failure`, `StartLimitBurst` is above the number of faults
injected). Clients, owners, readers and faults are under no obligation, and
without a request nothing is promised.
`MCFairSpec` of `MCSignerRecovery` has `WF_vars(CompleteAdoption)`: an owner who
began the ceremony of an epoch advance executes it as long as the witness would
accept it. (`MCInOrder` is explained under the bounds.) That is an obligation on a person, not on the code: the run shows that
the code never makes the owner's part impossible, except by letting the
authorization expire (below). Handlers, records and the signer itself are under no
obligation. Each request ends: no thread waits on another (a handler stops at
the first refusal), so nothing more is assumed of them.


`FairSpec` of `RecoveryLedger` has `WF_vars(~Ready /\ Ceremony)`: as long as the
gate refuses, the operator keeps taking ceremony steps that change something,
and the owner signs the next registry if none of those signed opens the next
epoch. No single step is fair, and nothing else is. The property allows one way
to stop: the ceremony needs a registry that `MaxVersion` does not allow.

Fairness of the memory side. `MemoryBroker`: a service thread and a recovery go
on until their call ends or fails, the controller kills what the barrier
stopped, and an operator runs the recovery of every challenge again and again
(strong fairness, because a recovery process is busy in between). Without such an
operator a claim may stay open: nothing in the code runs `recover` by itself.
`CanonicalMemory`: a forget run goes through its owners, round after round,
until it has its receipt, a restored service is verified, and no application
stays in the middle of its transaction. The repeated round is the operator's: nothing
in `src/` schedules it. `LearningWorker`: `WF_vars(Tick)` and, for each run,
`WF_vars(WorkerStep(w))`. Operators run the worker again and again, as nothing
schedules it either; time passes; a run that has not died goes on. `Consolidated`
exempts behaviours in which runs go on outliving their leases, which the code
cannot exclude, and promises only the records that every possible batch can
hold: a poisonous record or a full ledger stops the stream, by design.

The bounds of the memory side. One challenge is enough for the broker, whose
transactions share only the write lock and the sign counter; two connections make
a double confirmation, and two recoveries race with each other and with it.
`MCCanonicalMemory` divides the memory's state space into three scenarios, chosen
at the start: a `history` of three actions and two appliers without a forget
(fork, lost revision, RESTORE, expiry, revocation); a `race` of two actions with a
forget of L04 and L18_V2; and the `forget` of one action by all five
owners with a lost run or a restored backup. Two actions and a restore together are
too large. The proofs have no such division. The learning worker's third record fills
the ledger, and the batch of the fourth and fifth is one that can never succeed, so
records after it are out of reach; a lease of two ticks expires between any two steps.

The bounds of the holds. Four entries are the genesis, a marking, its epoch advance
and a ledger record, or any three changes in a row. Two commands make a scan or a
snapshot that another command overtakes. One kill is enough to leave a scratch or a
visible record that is not synced. One command with two successor keys and two kills
(771 114 states) was checked as well and is too slow to keep beside the other. The
proofs have no bound, except that `ExecutedCanBeReleased` speaks of an epoch advance
under `OneSuccessor`.

The bounds of the ledger. An ordinary operation needs `Len(journal) <
MaxJournal`; the ceremony's entries do not count against it. Five entries hold
a challenge that was prepared and consumed, an epoch advance and the attempt to
issue; six hold a whole admission. One restore makes one loss; three registries
are the genesis and two that compete for one epoch, or follow each other.

Each property has a mutant: a definition of the model changed the way a
plausible bug would change the code (a dropped fsync, a rename before the
fsync, a planner that no longer binds the exact witness). They sit next to what
they mutate, under a comment that says so, and nothing else uses them.

### Finding: a pointer two behind

`slice-15b2b-b1b3e-live-rehearsal-gate.md` section 6.4 says that losing the
directory fsync after the pointer rename leaves `CONSISTENT` or
`POINTER_BEHIND_BY_ONE`. `recover` (`writer.py:445`) does nothing when the scan
is `CONSISTENT`: if the process was killed between the rename and the fsync, the
restarted service serves from a pointer the disk may not hold. The next commit
makes its chain entry durable before its own pointer, and a power loss there
leaves `POINTER_BEHIND_MULTI`, which fails closed and needs the owner. No
committed witness is lost. A file system that journals all metadata in one
global order hides this; the code's own model of durability (one fsync per
directory) does not promise it.

### Finding: a restored ledger that outgrows the witness

`recovery_contracts.py:137-138` and the b1b3c document (line 190) say that the
journal's length and head are in the witness "so a restore within one epoch is
also detected". That holds while the ledger is left alone. But
`witness_succession_reason` (line 359) compares the heads only if the lengths are
equal, and `terminate`, `abandon` and `record_registry` need no readiness
result. A restored ledger that is written to until it is longer than the
witness is signed by `sign_state` and then `RESTORE_READY`, without the
operations that were acknowledged and lost. `ledger_safe` shows that the
property holds under `WritesBehind = FALSE`.

### A limit: historical reads with a witness behind the ledger

Seen in the code, without a run of its own. The b1b3c document (lines 279-281) blocks historical reads when the witness is
behind the ledger. `evaluate_restore_readiness` decides this from the first
failing check (`synthetic_recovery_ledger.py:511`), and a registry view that is
not the registry's, or rows that differ, are found first: historical reads are
then allowed on the floor of a witness that is behind.

### Finding: the remedy for a lost record is refused

`slice-15b2b-b1b3e-rotation-revocation-recovery.md` (line 748, and F17 at line
1100) says that a quarantine whose witness record was lost
(`LEDGER_AHEAD_OF_WITNESS`) is resolved by another epoch advance with a new
authorization. `RecoveryHandlerV1._handle` (`recovery.py:224`) journals an
adoption only when the ledger stands at the witness or lags by exactly the
marking, so in that state the advance is refused like every other recovery
operation. The owner's direct `RECORD_LEDGER_ADVANCE` to the witness remains.

### A limit: an adoption can outlive its authorization

The signer journals `ADVANCE_EPOCH` before the witness executes the
authorization, and does not look at its clock window; the witness does
(`rotation_contracts.py:946`). If `notAfter` passes in between, the witness
refuses the adopted authorization for ever, and the signer refuses any other
(`ADOPTION_ALREADY_JOURNALLED`). The same document (line 746) gives "witness
executes the same authorization" as the way out, without a limit in time.

## 4. Proofs

`WitnessStoreProofs` proves, for every number of authorizations, digests,
versions, positions and faults:

* `TypeCorrect`: `Spec => []TypeOK`;
* `ReportedIsNeverLost`: `Spec => []ReportedSurvives`. What an operation
  returned or a reader accepted stays in the durable lineage;
* `CommittedIsForever`: `Spec => AppendOnly`. No run repeats it: `ImplementsLog`
  says it of the durable lineage;
* `EvidenceIsDurable`: `Spec => []EvidenceBeforeEntry`. Every transition in `chain/`
  has its retained authorization durable, registered and binding;
* `CrashesAccuseNobody`: `Spec => []NoFalseAlarm`. Kills, power losses and failing
  calls, in any number, never make the scan report a fork, a replay, a lost chain, an
  unverified history or a pointer ahead of the chain;
* `StoreImplementsLog`: `Spec => ImplementsLog`, the refinement of `WitnessLog`.

The first inductive invariant, `IInv`, conjoins `TypeOK` with

* `ChainNamed`, `HomeDurable`: nothing is durable that is not there, and nothing
  in `chain/` is durable unless the directory is;
* `Planning`, `Writing`: where each `pc` may stand, what `doc` is there, and
  which of the file and its name are durable;
* `Published`: whatever the pointer, the scratch file, the disk's candidates for
  them, or a reader's open view hold is torn, absent or committed. This is why
  a lock-free reader may trust `CONSISTENT`: the pointer is only ever written
  after the commit point.

`AppendOnly` follows because the only step that changes a chain file is a write
at a version that is not yet durable.

The second, `LInv`, is inductive relative to `IInv` and says what the files are to one
another:

* `Contiguous`: all versions below the newest file are durable;
* `LineageLawful`: each chain file that parses extends the durable file before it as
  a planner may, and the authorization it consumed is unused before, registered,
  binding and durable. `DocInProgress` says the same of the document that is about to
  be written. This is the order the code takes pains over: the retained copy and its
  directory are synced, then the plan is made again, then the chain file opened;
* `Retention`: how far the retained copy has got at each `pc`. A copy that an earlier
  run left is synced again before it counts (`retain_fsync`), which is what the mutant
  of `EvidenceBeforeEntry` forgets;
* `PointerWhole`, `Untouched`, `Replying`: no torn bytes under the pointer's name,
  nothing beside the chain before the genesis, and an answer only for a document.

The refinement takes one step of `WitnessLog` where a chain file becomes durable
(at the fsync of its directory, or when a power loss leaves it there), one where a client or a reader is told, and stutters
elsewhere. The assumptions are the named ASSUMEs of
`WitnessV2` and `WitnessStore` (a marker is not an authorization, the genesis
digest is a digest, bounds are naturals), which TLC evaluates in every run.

`SignerRecoveryProofs` proves, for any number of handlers, authorizations and
work items:

* `TypeCorrect`, `LedgerIsNotFarAhead` (`AtMostOneBatchAhead`),
  `AppendsFollowTheWitness` (`AppendAtWitness`), `AdoptionIsNotOvertaken`
  (`AdoptionFitsWitness`) and `RemovalIsWitnessed`
  (`RemovalAfterWitnessedEpoch`);
* `SignerImplementsLog`: `Spec => Log!SpecFromGenesis`, the refinement of
  `WitnessLog`.

`AtMostOneBatchAhead`, `TerminalNeverReopens`, `BurnedStaysBurned` and
`ProposalsStayErased` are proved and no longer repeated by a run.

Its inductive invariant `IInv` conjoins `TypeOK` with

* `Witnessed`: the witness binds a position of this journal, and at most one
  batch follows it;
* `JournalOrdered`: epochs never fall along the journal, an adoption opens the
  epoch its authorization names and a removal stays in the epoch before it. The
  adoption an owner refers to is therefore the one batch ahead;
* `MarkedStays`: after a marking nothing but an epoch advance changes the
  registry head in that epoch. This is why nothing overtakes an adoption, and
  it is what the hold gate of `EXECUTE_REGISTRY_HEAD_ADVANCE` is needed for;
* `Adopting` and `Sound`: an adoption, journalled or about to be, fits the newest
  witness, unless the position has moved and the compare-and-swap will fail.
  `Sound` is what lets a handler use a view that may be old;
* `WireSound`: a record on the wire names a removal of this journal, so that a
  late one cannot pass an adoption.

`RecoveryLedgerProofs` proves, for any numbers of challenges, evidences, epochs,
registries and restores, for every `Restorable` and with or without
`WritesBehind`:

* `TypeCorrect`;
* `AuthorityIsWitnessed` (`AuthorityInWitnessedEpoch`): authority is created on
  the witnessed ledger, in its epoch, from work of that epoch;
* `RecoveryDestroys` (`RecoveryOnlyDestroys`) and `TerminalIsFinal`
  (`TerminalNeverReopens`).

Each operation is first described on the replayed state (`CreatesFrom`,
`DestroysFrom`), and each step then appends such an operation, keeps the journal
or goes back to the backup's. The inductive invariant is `TypeOK` with

* `Sound`, of the current and of the backed-up replay: work belongs to an epoch
  already reached, and evidence to the epoch of the challenge it was issued
  for. This is what makes "an epoch advance leaves nothing pending" true;
* a held token means that the journal is the witness's;
* the backup's journal is a prefix of the current one, so a restore never
  passes for an append.

Under one hypothesis, `RestoresOneSide`, it also proves what a witness covers across a
restore:

* `RestoreIsDetected` (`RestoreWithinEpochIsDetected`): a ledger that the gate
  accepts has every acknowledged end of its epoch;
* `AcknowledgedOnce` (`NothingAcknowledgedTwice`): no operation that creates authority
  is made again for work that the witness had acknowledged as ended.

The argument counts. An end is acknowledged when a witness covers it. A restored ledger
is behind the witness, and until the ceremony the only entries it can get in its
epoch are the quarantine's removals, one for each stale item. Its `Reach`, its length and
its stale items together, never grows in an epoch (`Orderly`, `Drains`), and the witness's
ledger had ended the same items with an entry each, so the restored ledger never gets longer than
the witness and `Succeeds` never signs it (`Sync`). `JInv` carries this for the journal, the witness
and the backup (work is only begun in an epoch once the stale work is gone, `Clean`);
`MInv` says that either such a loss is seen or nothing is lost.

The hypothesis says that the ledger is not restored at all, or that nothing is
written to it while it is behind (`WritesBehind = FALSE`) and that a witness is not restored as
well, except for a single restore of either. Neither part can be dropped: run
`ledger_grown` is the counterexample for writes, and where the ledger and the witness
both go back to one backup the gate has nothing to compare. The code tells
neither case from a sound one.

Lemmas about documents and planners that both proofs use are in
`WitnessV2Proofs`.

`MemoryBrokerProofs` proves, for any number of challenges, connections,
recoveries and faults: `TypeCorrect`, `RowsAlwaysAgree` (`RowsAgree`),
`ProofsAreInTime` (`NoLateProof`), `BurnedForGood` (`BurnedStaysBurned`) and
`BrokerImplementsPromise`, the refinement of `SingleUseProof`. Its inductive
invariant adds to `TypeOK` and `RowsAgree` that the write lock is the verifier's
(`Locking`), that a call past its proof is the only one of its challenge
(`Alone`, which is why `commit_once` and `link_evidence` need no compare-and-swap
against each other), and what a thread or a recovery may rely on at each of its
steps (`WorkerKnows`, `OperatorKnows`).

`CanonicalMemoryProofs` proves, for any number of actions, appliers and faults
and any owners with L04 among them: `TypeCorrect` (with the foreign keys),
`HistoryIsLinear` (`ChainIsLinear`), `ProposalsGone` (`ProposalsStayErased`),
`AuthorityHolds` (`AcceptedUnderAuthority`) and `PromiseKept`, the refinement of
`ForgettableMemory`. Its inductive invariant is

* `Sound`, of the database and of the backup alike: the foreign keys, the chain
  and the frozen request of every row. A restore puts back a sound database;
* `CallsFit`: a pending insertion finds the rows it references. The erasures keep
  this because a call whose parents go fails;
* `Knows`: what an application has read stays true to its commit, because it holds
  the write lock, and one that passed its last look before the suppression is
  the only late admission;
* `Forgotten`: the suppression comes before whatever forgetting does.

Its assumptions are that markers are not identifiers (`NoneAssumption`) and that L04
is one of the owners.

`LearningWorkerProofs` proves, for any runs, limits, capacities, leases, waits,
invalid records and faults: `TypeCorrect` (no job is attempted a fourth time),
`JobsAreUsable` (`OpenJobIsUsable`), `LeasesAreRespected` (`LeaseIsRespected`) and
`LedgerIsTheLog`, the refinement of `ConsolidationLog`. The inductive invariant adds
to the first two that a run which still holds the lease has a batch that
starts at its job's cursor (`Batches`), that a batch on its way to the commit has
no invalid record and none that is yet to be written (`Valid`), and that the
candidates are `1..cursor` (`Exact`).

`HoldStoreProofs` proves, for any number of sessions, successor keys, chain entries,
kills and power losses: `TypeCorrect`, `ReleasesBindTheHead` (`ReleaseBindsHead`),
`ReportedRecordsSurvive` (`RecordsSurvive`), `ChangesAreUnderHold` (`ChangeUnderHold`) and
`ExecutedIsReleasable` (`ExecutedCanBeReleased`). The first inductive invariant, `IInv`,
conjoins the first three with

* `ChainOK`: the chain starts at the genesis and its registry versions do not run
  ahead. A ceremony that governs an entry does so for ever (`GovernedForEver`),
  because what readiness derives of an entry depends on the entries up to it;
* `OneWriter`: one session at a time is between its scratch and its fsyncs;
* `Requested`: what a session is about to write names a scanned entry, and the
  approval of a release is no newer than its scan;
* `Decided`: what was decided under the lock stays true up to the rename.

The scan before the lock does no harm for this reason: the owner can only
approve a digest that a report has shown, so the approved head is no newer than the
scan; the scan is no newer than the head of the re-run under the lock; and the
re-run must give the approved digest again. So the three are one head.

`HInv`, relative to `IInv`, is for `ChangeUnderHold`, whose difficulty is the old snapshot:

* `ChainLaws`: what each kind of entry does to the key and the registry, that a key
  never comes back once it was left (`NoReturn`, because a successor is fresh) and
  that only a rotation or an epoch advance changes it;
* `ReleasesAreDone`: a release on its way is of a hold whose change is on the chain
  (`Done`), since readiness judged it so (`EligibleIsDone`);
* `SnapshotsLast`: what a session observed is HELD still, or was released, and then its
  change is done. A hold of a change that is done names a key or a registry that the head
  has left (`DoneIsPast`), so `NamesCurrent` on an old snapshot is enough;
* `MarkedUnderHold`: while no key is current the marking's hold is HELD, or a power
  loss took it, and then no snapshot is older than that loss.

`RInv`, relative to both, is for `ExecutedCanBeReleased`: each HELD record, on the disk too, says
what the chain says at the entry it names (`Fitting`); what a power loss brings back
is an earlier stage of what is seen (`Staged`); and the record of a successor that is current is that
of the change which made it so (`Agreed`). What was written before the change then
fits what readiness derives after it, because an entry with the predecessor current
comes before the change (`WrittenBefore`). `Agreed` holds for an epoch advance when there is one
successor key (`OneSuccessor`); the scenario under `HoldStore` above shows why.

All three were checked by TLC on the run's instance before they were proved.

What stays with TLC. Liveness under fairness is beyond the prover, as is ENABLED:
`RecoversWithoutOwner`, `CommittedIsPublished`, `RefusalIsResolved`, `AdoptionCompletes`,
`EvidenceIsLinked`, `ClaimSettles`, `ForgetCompletes` and `Consolidated` are
model-checked only. Every safety property and every refinement that a passing run checks is
proved, and a violated property has a run and no theorem, but for
`RestoreWithinEpochIsDetected`, which is proved under the hypothesis that
`ledger_grown` gives up.

## 5. Plan

1. Done: `WitnessV2`, `WitnessLog`, `WitnessStore` and the first proofs.
2. Done: `SignerRecovery`, its runs and first proofs.
3. Done: `RecoveryLedger`, its runs and first proofs. To add: the V2 admission
   adapter (`l04_v2_adapter.py`, `recovery_admission.py`), which puts the
   deployed V2 witness in the place of the V1 one.
4. Done: `MemoryBroker`, `CanonicalMemory` and `LearningWorker`, each with its
   abstract specification, its run and its proofs.
5. Done: `HoldStore`, its run and first proofs. To add: VACATE, INSTALL and ABANDON,
   and `SignerRecovery` with the hold snapshot as an input that may be old.
6. Done: a theorem for every safety property of the passing runs. To add: lemmas that
   bring the liveness arguments nearer (that what a fair step needs stays true until
   it is taken), and the theorems of the extensions named here.
7. The retention windows and the L18_V1 and capture owners of the erasure, the
   privacy database's own backup, and the broker's test-mode core.

## 6. Not modelled

Cryptography (a signature verifies exactly for what its owner signed), document
formats and canonical JSON, file ownership and modes, the operator scripts that
move files, the front end and its command core, the application's HTTP
handlers, and the retrieval and ranking of memories. `PROJECT.json` gives the
reason for each component.

Of what is modelled only in part: the hold store is an input of `SignerRecovery` (a hold
that is present and valid), and of the custody `HoldStore` has only the prepared and the
retired blob; SQLite's provisioning and the validation of files and
schemas at startup are refusals before the models' initial states; and the
documents' digests and signatures hold by construction, because a model's
document is the thing it names.
