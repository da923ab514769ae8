---------------------------- MODULE WitnessStore ----------------------------
(***************************************************************************)
(* The recovery witness service and its durable store.                     *)
(*                                                                         *)
(* One process (lilith-recovery-witness) owns a state directory: the       *)
(* append-only chain/<version>.json, the write-once retained copies of the *)
(* K-ROOT authorizations, the active pointer witness.json and its scratch  *)
(* file.  Every operation is a fixed sequence of storage-port calls (open, *)
(* write, fsync, rename, unlink); each call is an action here, because the *)
(* process may be killed, the host may lose power, or the call may fail    *)
(* with an OSError between any two of them.                                *)
(*                                                                         *)
(* The file system.  A killed process leaves what it wrote visible.  After *)
(* a power loss a chain or authorization file that was not fsynced may     *)
(* hold garbage, and its name may be gone unless the directory was fsynced.*)
(* The entries of the state directory (pointer and scratch) go back to any *)
(* state they had since its last fsync: metadata is journalled in order.   *)
(* A successful fsync is durable.  An empty document stands for bytes that *)
(* do not parse.                                                           *)
(*                                                                         *)
(* The signer and the owner tools read the store from other processes and  *)
(* take no lock: the state directory first, then the two directories in it.*)
(***************************************************************************)
EXTENDS WitnessV2, FiniteSetsExt

CONSTANTS
  MaxVersion,       \* bound: longest lineage
  Positions,        \* the ledger positions a caller may ask the witness to record
  MaxKills,         \* bound: process kills
  MaxPowerLosses,   \* bound: power losses
  MaxIoErrors,      \* bound: storage calls that fail with an OSError
  Absent            \* there is no file of that name

ASSUME WitnessStoreAssumption ==
  /\ MaxVersion \in Nat \ {0}
  /\ Positions \subseteq Nat
  /\ MaxKills \in Nat /\ MaxPowerLosses \in Nat /\ MaxIoErrors \in Nat
  /\ Absent \notin Seq(Entries)

Versions == 1..MaxVersion
Torn     == <<>>
Files    == Docs \cup {Torn, Absent}

VARIABLES
  (* what the file system shows to a running process *)
  chain,        \* version -> contents of chain/<version>.json
  retained,     \* authorization ID -> "absent", "torn" or "whole"
  pointer,      \* contents of witness.json
  scratch,      \* contents of .witness.json.tmp
  dirs,         \* chain/ and authorizations/: "absent", "made" or "durable"
  (* what the disk is sure to hold after a power loss *)
  chainSynced,  \* chain files whose contents were fsynced
  chainLinked,  \* chain files whose names were fsynced
  retSynced,    \* retained copies whose contents were fsynced
  retLinked,    \* retained copies whose names were fsynced
  stateDisk,    \* what the disk may hold for pointer and scratch
  (* the service process *)
  svc,          \* "down", "recovering" or "serving"
  pc,           \* the next storage call of the operation in progress
  doc,          \* the document being committed or published
  auth,         \* the authorization being retained
  (* owner and reader *)
  register,     \* the owner's register: ID -> the issued authorization
  view,         \* a reader's copy of the state directory, before it reads chain/
  accepted,     \* the last witness a reader accepted
  acked,        \* the last witness an operation returned
  faults        \* kills, power losses and I/O errors so far

diskVars  == <<chainSynced, chainLinked, retSynced, retLinked, stateDisk>>
storeVars == <<chain, retained, pointer, scratch, dirs, diskVars>>
ownerVars == <<register, view, accepted, acked>>
vars      == <<storeVars, svc, pc, doc, auth, ownerVars, faults>>

-----------------------------------------------------------------------------
(***************************************************************************)
(* The recovery scan (classify_witness_store): one read of the store,      *)
(* given the pointer and scratch the reader saw.                           *)
(***************************************************************************)

Names    == {v \in Versions : chain[v] # Absent}
Whole(v) == chain[v] \in Docs /\ Len(chain[v]) = v
Height   == IF Names = {} THEN 0 ELSE Max(Names)
ChainHead == chain[Height]

(* The first version above the genesis that breaks the lineage.            *)
Breaks == {v \in 2..Height : ~(Whole(v) /\ Succeeds(chain[v - 1], chain[v]))}

BrokenLineage(v, ptr) ==
  IF chain[v] = Absent \/ Whole(v) THEN "ORPHAN"
  ELSE IF v = Height /\ ptr = chain[v - 1] THEN "TORN_TAIL"
  ELSE "CHAIN_CORRUPT"

(* RR-20a: every transition of the lineage has a retained authorization    *)
(* that the owner registered and that binds both sides of the transition.  *)
HistoryVerified ==
  \A v \in 2..Height :
    LET id == Newest(chain[v]).auth
    IN  id # NoAuth => /\ retained[id] = "whole"
                       /\ register[id] # NoAuth
                       /\ Binds(register[id], chain[v - 1], Newest(chain[v]))

PointerClass(ptr) ==
  CASE ptr = Absent                                             -> "POINTER_MISSING"
    [] ptr = ChainHead                                          -> "CONSISTENT"
    [] ptr = Torn                                               -> "POINTER_CORRUPT"
    [] ptr \in Docs /\ \E v \in Names : v + 1 = Height /\ ptr = chain[v] -> "POINTER_BEHIND_BY_ONE"
    [] ptr \in Docs /\ \E v \in Names : v + 1 < Height /\ ptr = chain[v] -> "POINTER_BEHIND_MULTI"
    [] OTHER -> IF Len(ptr) <= Height THEN "FORK" ELSE "POINTER_AHEAD"

ScratchClass(scr, class) ==
  IF scr \in {Absent, Torn} \/ scr \in {chain[v] : v \in Names} THEN class
  ELSE IF Len(scr) <= Height THEN "FORK" ELSE "SCRATCH_ORDERING_VIOLATION"

Automatic == {"CONSISTENT", "POINTER_BEHIND_BY_ONE", "POINTER_MISSING", "POINTER_CORRUPT"}

Classify(ptr, scr) ==
  IF Names = {} THEN
    IF ptr = Absent /\ scr = Absent /\ \A id \in AuthIds : retained[id] = "absent"
      THEN "UNINITIALIZED" ELSE "CHAIN_MISSING"
  ELSE IF chain[1] = Absent  THEN "ORPHAN"
  ELSE IF ~Whole(1)          THEN "CHAIN_CORRUPT"
  ELSE IF chain[1] # Genesis THEN "GENESIS_MISMATCH"
  ELSE IF Breaks # {}        THEN BrokenLineage(Min(Breaks), ptr)
  ELSE IF ~SingleUse(ChainHead)   THEN "REPLAY_IN_CHAIN"
  ELSE IF \E id \in AuthIds : retained[id] = "torn" THEN "RETENTION_CORRUPT"
  ELSE IF ~HistoryVerified   THEN "AUTHORIZATION_HISTORY_INVALID"
  ELSE IF PointerClass(ptr) \notin Automatic THEN PointerClass(ptr)
  ELSE ScratchClass(scr, PointerClass(ptr))

Classification == Classify(pointer, scratch)

RollForward == {"POINTER_BEHIND_BY_ONE", "POINTER_MISSING", "POINTER_CORRUPT"}
FailClosed  == Classification \notin RollForward \cup {"CONSISTENT", "UNINITIALIZED"}
Consistent  == Classification = "CONSISTENT"

-----------------------------------------------------------------------------
(***************************************************************************)
(* Initial state: an installed, never bootstrapped store; the service has  *)
(* not been started.                                                       *)
(***************************************************************************)

NoView == [ptr |-> Absent, scr |-> Absent, open |-> FALSE]

Init ==
  /\ chain = [v \in Versions |-> Absent]
  /\ retained = [id \in AuthIds |-> "absent"]
  /\ pointer = Absent /\ scratch = Absent
  /\ dirs = "absent"
  /\ chainSynced = {} /\ chainLinked = {} /\ retSynced = {} /\ retLinked = {}
  /\ stateDisk = {[ptr |-> Absent, scr |-> Absent]}
  /\ svc = "down" /\ pc = "idle" /\ doc = Torn /\ auth = NoAuth
  /\ register = [id \in AuthIds |-> NoAuth]
  /\ view = NoView
  /\ accepted = Torn /\ acked = Torn
  /\ faults = [kills |-> 0, losses |-> 0, errors |-> 0]

-----------------------------------------------------------------------------
(***************************************************************************)
(* Owner and readers.                                                      *)
(***************************************************************************)

(* The owner signs and registers an authorization for the witness it read. *)
Issue(id, kind, digest) ==
  /\ accepted \in Docs
  /\ register[id] = NoAuth
  /\ register' = [register EXCEPT ![id] = AuthorizationFor(kind, accepted, digest)]
  /\ UNCHANGED <<storeVars, svc, pc, doc, auth, view, accepted, acked, faults>>

(* A reader in another process lists the state directory ...               *)
ReadState ==
  /\ ~view.open
  /\ view' = [ptr |-> pointer, scr |-> scratch, open |-> TRUE]
  /\ UNCHANGED <<storeVars, svc, pc, doc, auth, register, accepted, acked, faults>>

(* ... and then chain/ and authorizations/, and classifies what it saw.    *)
ReadChain ==
  /\ view.open
  /\ accepted' = IF Classify(view.ptr, view.scr) = "CONSISTENT" THEN ChainHead ELSE accepted
  /\ view' = NoView
  /\ UNCHANGED <<storeVars, svc, pc, doc, auth, register, acked, faults>>

(* READ_WITNESS, answered by the service between two operations.           *)
ReadWitness ==
  /\ svc = "serving" /\ pc = "idle" /\ Consistent
  /\ accepted' = ChainHead
  /\ UNCHANGED <<storeVars, svc, pc, doc, auth, register, view, acked, faults>>

-----------------------------------------------------------------------------
(***************************************************************************)
(* Operations.  The service is sequential; each operation classifies the   *)
(* store under witness.lock before its first storage call.  A refused      *)
(* request changes nothing and is not an action.                           *)
(***************************************************************************)

Begin(next, d, id) ==
  /\ svc = "serving" /\ pc = "idle"
  /\ pc' = next /\ doc' = d /\ auth' = id
  /\ UNCHANGED <<storeVars, svc, ownerVars, faults>>

(* _signed: the planned entry is signed only if it succeeds the head.      *)
Signed(entries) == {e \in entries : EntrySucceeds(Newest(ChainHead), e)}

(* BOOTSTRAP: the owner's genesis, only into an uninitialized store.       *)
Bootstrap ==
  /\ Classification = "UNINITIALIZED"
  /\ Begin("make_dirs", Genesis, NoAuth)

(* RECORD_LEDGER_ADVANCE: the signer names the witness it read.            *)
RecordLedgerAdvance(position) ==
  /\ Consistent /\ Height < MaxVersion
  /\ accepted = ChainHead
  /\ \E e \in Signed(PlanLedgerAdvance(ChainHead, position)) :
       Begin("chain_open", Append(ChainHead, e), NoAuth)

(* Mutant of ExecuteAdvance: a copy that is already there is not fsynced.  *)
ExecuteAdvanceTrustingCopy(id) ==
  /\ Consistent /\ Height < MaxVersion
  /\ register[id] # NoAuth
  /\ id \notin Consumed(ChainHead)
  /\ Begin(IF retained[id] = "absent" THEN "retain_open" ELSE "plan", Torn, id)

(* EXECUTE_REGISTRY_HEAD_ADVANCE and EXECUTE_EPOCH_ADVANCE: an authorization *)
(* the lineage has not consumed is retained first; planning comes after.   *)
ExecuteAdvance(id) ==
  /\ Consistent /\ Height < MaxVersion
  /\ register[id] # NoAuth
  /\ id \notin Consumed(ChainHead)
  /\ Begin(IF retained[id] = "absent" THEN "retain_open" ELSE "retain_fsync", Torn, id)

(* The planner, over the chain read at the start; the clock window, the    *)
(* registry bytes and the hold are not modelled, so it may always refuse.  *)
Plan(position) ==
  /\ pc = "plan"
  /\ \/ \E e \in Signed(IF register[auth].kind = HEAD
                          THEN PlanRegistryHeadAdvance(ChainHead, auth, register[auth])
                          ELSE PlanEpochAdvance(ChainHead, auth, register[auth], position)) :
          doc' = Append(ChainHead, e) /\ pc' = "chain_open"
     \/ doc' = Torn /\ pc' = "idle"
  /\ auth' = NoAuth
  /\ UNCHANGED <<storeVars, svc, ownerVars, faults>>

(* The reply; the client may be gone (3 s timeout, closed socket).  A      *)
(* genesis is returned only if the store is CONSISTENT with it.            *)
Reply ==
  /\ pc = "reply"
  /\ acked' \in {acked} \cup {d \in {doc} : doc = Genesis => Consistent}
  /\ pc' = "idle" /\ doc' = Torn
  /\ UNCHANGED <<storeVars, svc, auth, register, view, accepted, faults>>

-----------------------------------------------------------------------------
(***************************************************************************)
(* Storage-port calls, one action each.                                    *)
(***************************************************************************)

Step(from, next) == pc = from /\ pc' = next

(* make_directory for chain/ and authorizations/ (both tolerate existing). *)
MakeDirs ==
  /\ Step("make_dirs", "dirs_fsync")
  /\ dirs' = IF dirs = "absent" THEN "made" ELSE dirs
  /\ UNCHANGED <<chain, retained, pointer, scratch, diskVars, svc, doc, auth, ownerVars, faults>>

(* _retain, new copy: create_exclusive opens the file, then writes it.     *)
RetainOpen ==
  /\ Step("retain_open", "retain_write")
  /\ retained' = [retained EXCEPT ![auth] = "torn"]
  /\ UNCHANGED <<chain, pointer, scratch, dirs, diskVars, svc, doc, auth, ownerVars, faults>>

RetainWrite ==
  /\ Step("retain_write", "retain_fsync")
  /\ retained' = [retained EXCEPT ![auth] = "whole"]
  /\ UNCHANGED <<chain, pointer, scratch, dirs, diskVars, svc, doc, auth, ownerVars, faults>>

(* _retain, new copy or ALREADY_RETAINED: fsync the file, then the         *)
(* directory.                                                              *)
RetainFsync ==
  /\ Step("retain_fsync", "retain_dir_fsync")
  /\ retSynced' = retSynced \cup {auth}
  /\ UNCHANGED <<chain, retained, pointer, scratch, dirs, chainSynced, chainLinked, retLinked, stateDisk,
                 svc, doc, auth, ownerVars, faults>>

RetainDirFsync ==
  /\ Step("retain_dir_fsync", "plan")
  /\ retLinked' = {id \in AuthIds : retained[id] # "absent"}
  /\ UNCHANGED <<chain, retained, pointer, scratch, dirs, chainSynced, chainLinked, retSynced, stateDisk,
                 svc, doc, auth, ownerVars, faults>>

(* _commit: create_exclusive on chain/<version>; refused if it is listed.  *)
ChainOpen ==
  /\ pc = "chain_open"
  /\ IF chain[Len(doc)] = Absent
       THEN /\ chain' = [chain EXCEPT ![Len(doc)] = Torn]
            /\ pc' = "chain_write" /\ doc' = doc
       ELSE pc' = "idle" /\ doc' = Torn /\ UNCHANGED chain
  /\ UNCHANGED <<retained, pointer, scratch, dirs, diskVars, svc, auth, ownerVars, faults>>

(* Mutant of ChainWrite: the new chain file is not fsynced.                *)
ChainWriteUnsynced ==
  /\ Step("chain_write", "chain_dir_fsync")
  /\ chain' = [chain EXCEPT ![Len(doc)] = doc]
  /\ UNCHANGED <<retained, pointer, scratch, dirs, diskVars, svc, doc, auth, ownerVars, faults>>

ChainWrite ==
  /\ Step("chain_write", "chain_fsync")
  /\ chain' = [chain EXCEPT ![Len(doc)] = doc]
  /\ UNCHANGED <<retained, pointer, scratch, dirs, diskVars, svc, doc, auth, ownerVars, faults>>

(* Commit and roll-forward both fsync the head file and then chain/.       *)
ChainFsync ==
  /\ Step("chain_fsync", "chain_dir_fsync")
  /\ chainSynced' = chainSynced \cup {Len(doc)}
  /\ UNCHANGED <<chain, retained, pointer, scratch, dirs, chainLinked, retSynced, retLinked, stateDisk,
                 svc, doc, auth, ownerVars, faults>>

(* The commit point of a witness that is already fsynced.                  *)
ChainDirFsync ==
  /\ Step("chain_dir_fsync", "scratch_open")
  /\ chainLinked' = Names
  /\ UNCHANGED <<chain, retained, pointer, scratch, dirs, chainSynced, retSynced, retLinked, stateDisk,
                 svc, doc, auth, ownerVars, faults>>

(* _publish_pointer: write_scratch truncates or creates, then writes.      *)
ScratchOpen ==
  /\ Step("scratch_open", "scratch_write")
  /\ scratch' = Torn
  /\ stateDisk' = stateDisk \cup {[ptr |-> pointer, scr |-> Torn]}
  /\ UNCHANGED <<chain, retained, pointer, dirs, chainSynced, chainLinked, retSynced, retLinked,
                 svc, doc, auth, ownerVars, faults>>

(* Mutant of ScratchWrite: the rename comes before the fsync of the file.  *)
ScratchWriteUnsynced ==
  /\ Step("scratch_write", "pointer_replace")
  /\ scratch' = doc
  /\ stateDisk' = stateDisk \cup {[ptr |-> pointer, scr |-> doc]}
  /\ UNCHANGED <<chain, retained, pointer, dirs, chainSynced, chainLinked, retSynced, retLinked,
                 svc, doc, auth, ownerVars, faults>>

ScratchWrite ==
  /\ Step("scratch_write", "scratch_fsync")
  /\ scratch' = doc
  /\ stateDisk' = stateDisk \cup {[ptr |-> pointer, scr |-> doc]}
  /\ UNCHANGED <<chain, retained, pointer, dirs, chainSynced, chainLinked, retSynced, retLinked,
                 svc, doc, auth, ownerVars, faults>>

ScratchFsync ==
  /\ Step("scratch_fsync", "pointer_replace")
  /\ stateDisk' = {s \in stateDisk : s.scr # Torn}
  /\ UNCHANGED <<chain, retained, pointer, scratch, dirs, chainSynced, chainLinked, retSynced, retLinked,
                 svc, doc, auth, ownerVars, faults>>

(* The rename: whatever the disk may hold under the scratch name may now   *)
(* be under the pointer name, or under both (rename(2) allows that window). *)
PointerReplace ==
  /\ Step("pointer_replace", "state_fsync")
  /\ pointer' = scratch /\ scratch' = Absent
  /\ LET renamed == {s \in stateDisk : s.ptr = pointer /\ s.scr \in {scratch, Torn}}
     IN  stateDisk' = stateDisk \cup {[ptr |-> s.scr, scr |-> old] : s \in renamed, old \in {Absent, scratch}}
  /\ UNCHANGED <<chain, retained, dirs, chainSynced, chainLinked, retSynced, retLinked,
                 svc, doc, auth, ownerVars, faults>>

(* recover: unlink scratch that is discardable.                            *)
ScratchRemove ==
  /\ Step("scratch_remove", "state_fsync")
  /\ scratch' = Absent
  /\ stateDisk' = stateDisk \cup {[ptr |-> pointer, scr |-> Absent]}
  /\ UNCHANGED <<chain, retained, pointer, dirs, chainSynced, chainLinked, retSynced, retLinked,
                 svc, doc, auth, ownerVars, faults>>

(* fsync of the state directory, which also holds chain/ and               *)
(* authorizations/.                                                        *)
StateFsync ==
  /\ \/ Step("dirs_fsync", "chain_open")
     \/ Step("state_fsync", IF svc = "serving" THEN "reply" ELSE "recheck")
  /\ stateDisk' = {s \in stateDisk : s.ptr \in {pointer, Torn} /\ s.scr \in {scratch, Torn}}
  /\ dirs' = IF dirs = "made" THEN "durable" ELSE dirs
  /\ UNCHANGED <<chain, retained, pointer, scratch, chainSynced, chainLinked, retSynced, retLinked,
                 svc, doc, auth, ownerVars, faults>>

-----------------------------------------------------------------------------
(***************************************************************************)
(* Start and recovery.                                                     *)
(***************************************************************************)

(* Mutant of Start: only a pointer that is one behind is rolled forward.   *)
StartBehindOnly ==
  /\ svc = "down" /\ svc' = "recovering"
  /\ IF Classification = "POINTER_BEHIND_BY_ONE"
       THEN doc' = ChainHead /\ pc' = "chain_fsync"
       ELSE doc' = Torn /\ pc' = "recheck"
  /\ UNCHANGED <<storeVars, auth, ownerVars, faults>>

(* Start: classify, then roll forward, discard scratch, or do nothing.     *)
Start ==
  /\ svc = "down" /\ svc' = "recovering"
  /\ \/ /\ Classification \in RollForward
        /\ doc' = ChainHead /\ pc' = "chain_fsync"
     \/ /\ Consistent /\ scratch # Absent
        /\ doc' = Torn /\ pc' = "scratch_remove"
     \/ /\ Classification \notin RollForward /\ ~(Consistent /\ scratch # Absent)
        /\ doc' = Torn /\ pc' = "recheck"
  /\ UNCHANGED <<storeVars, auth, ownerVars, faults>>

(* Mutants of Recheck: an uninitialized store is not served; a failed      *)
(* start leaves its program counter behind.                                *)
RecheckConsistentOnly ==
  /\ pc = "recheck"
  /\ svc' = IF Consistent THEN "serving" ELSE "down"
  /\ pc' = "idle" /\ doc' = Torn
  /\ UNCHANGED <<storeVars, auth, ownerVars, faults>>

RecheckUnfinished ==
  /\ pc = "recheck"
  /\ IF FailClosed THEN svc' = "down" /\ pc' = pc ELSE svc' = "serving" /\ pc' = "idle"
  /\ doc' = Torn
  /\ UNCHANGED <<storeVars, auth, ownerVars, faults>>

(* Classify again: the service serves, or exits STORE_FAIL_CLOSED.         *)
Recheck ==
  /\ pc = "recheck"
  /\ svc' = IF FailClosed THEN "down" ELSE "serving"
  /\ pc' = "idle" /\ doc' = Torn
  /\ UNCHANGED <<storeVars, auth, ownerVars, faults>>

-----------------------------------------------------------------------------
(***************************************************************************)
(* Faults.                                                                 *)
(***************************************************************************)

(* A storage call raises OSError.  While serving the operation is refused  *)
(* (STORE_IO_ERROR) and the service goes on; at start the process exits.   *)
IoError ==
  /\ pc \notin {"idle", "plan", "reply", "recheck"}
  /\ faults.errors < MaxIoErrors
  /\ faults' = [faults EXCEPT !.errors = @ + 1]
  /\ svc' = IF svc = "serving" THEN "serving" ELSE "down"
  /\ pc' = "idle" /\ doc' = Torn /\ auth' = NoAuth
  /\ UNCHANGED <<storeVars, ownerVars>>

(* The process dies; the host, and what it wrote, stay.                    *)
Kill ==
  /\ svc # "down"
  /\ faults.kills < MaxKills
  /\ faults' = [faults EXCEPT !.kills = @ + 1]
  /\ svc' = "down" /\ pc' = "idle" /\ doc' = Torn /\ auth' = NoAuth
  /\ UNCHANGED <<storeVars, ownerVars>>

(* The host loses power: names that were not fsynced may be lost, contents *)
(* that were not fsynced may be torn.                                      *)
PowerLoss ==
  /\ faults.losses < MaxPowerLosses
  /\ faults' = [faults EXCEPT !.losses = @ + 1]
  /\ dirs' \in IF dirs = "made" THEN {"absent", "durable"} ELSE {dirs}
  /\ \E lost \in SUBSET (Names \ chainLinked), torn \in SUBSET (Names \ chainSynced) :
       chain' = [v \in Versions |-> IF v \in lost \/ dirs' = "absent" THEN Absent
                                    ELSE IF v \in torn THEN Torn ELSE chain[v]]
  /\ LET copies == {id \in AuthIds : retained[id] # "absent"}
     IN  \E lost \in SUBSET (copies \ retLinked), torn \in SUBSET (copies \ retSynced) :
           retained' = [id \in AuthIds |-> IF id \in lost \/ dirs' = "absent" THEN "absent"
                                           ELSE IF id \in torn THEN "torn" ELSE retained[id]]
  /\ \E s \in stateDisk :
       pointer' = s.ptr /\ scratch' = s.scr /\ stateDisk' = {s}
  /\ chainSynced' = {v \in Versions : chain'[v] # Absent} /\ chainLinked' = chainSynced'
  /\ retSynced' = {id \in AuthIds : retained'[id] # "absent"} /\ retLinked' = retSynced'
  /\ svc' = "down" /\ pc' = "idle" /\ doc' = Torn /\ auth' = NoAuth
  /\ view' = NoView
  /\ UNCHANGED <<register, accepted, acked>>

-----------------------------------------------------------------------------
ServiceStep ==
  \/ Start \/ Recheck \/ Reply
  \/ \E p \in Positions : Plan(p)
  \/ MakeDirs
  \/ RetainOpen \/ RetainWrite \/ RetainFsync \/ RetainDirFsync
  \/ ChainOpen \/ ChainWrite \/ ChainFsync \/ ChainDirFsync
  \/ ScratchOpen \/ ScratchWrite \/ ScratchFsync \/ PointerReplace
  \/ ScratchRemove \/ StateFsync

Request ==
  \/ Bootstrap
  \/ \E p \in Positions : RecordLedgerAdvance(p)
  \/ \E id \in AuthIds : ExecuteAdvance(id)

Reader ==
  \/ ReadState \/ ReadChain \/ ReadWitness
  \/ \E id \in AuthIds, kind \in {HEAD, EPOCH}, digest \in Digests : Issue(id, kind, digest)

Fault == IoError \/ Kill \/ PowerLoss

Next == ServiceStep \/ Request \/ Reader \/ Fault

(* A running process makes its next storage call, and systemd starts the   *)
(* service again (Restart=on-failure).  Clients, readers and faults are    *)
(* under no obligation.                                                    *)
Fairness == WF_vars(ServiceStep)

Spec == Init /\ [][Next]_vars

FairSpec == Spec /\ Fairness

-----------------------------------------------------------------------------
(***************************************************************************)
(* Properties.                                                             *)
(***************************************************************************)

PCs == {"idle", "make_dirs", "dirs_fsync", "retain_open", "retain_write", "retain_fsync", "retain_dir_fsync",
        "plan", "chain_open", "chain_write", "chain_fsync", "chain_dir_fsync", "scratch_open", "scratch_write",
        "scratch_fsync", "pointer_replace", "state_fsync", "reply", "scratch_remove", "recheck"}

StateEntries == [ptr: Files, scr: Files]

(* Every variable holds what the code can put there; the operation's       *)
(* program counter agrees with the life of the process.                    *)
TypeOK ==
  /\ chain \in [Versions -> Files]
  /\ retained \in [AuthIds -> {"absent", "torn", "whole"}]
  /\ pointer \in Files /\ scratch \in Files
  /\ dirs \in {"absent", "made", "durable"}
  /\ chainSynced \subseteq Versions /\ chainLinked \subseteq Versions
  /\ retSynced \subseteq AuthIds /\ retLinked \subseteq AuthIds
  /\ stateDisk \subseteq StateEntries
  /\ svc \in {"down", "recovering", "serving"}
  /\ pc \in PCs
  /\ svc = "down" => pc = "idle"
  /\ doc \in Docs \cup {Torn}
  /\ auth \in AuthIds \cup {NoAuth}
  /\ register \in [AuthIds -> Authorizations \cup {NoAuth}]
  /\ view \in [ptr: Files, scr: Files, open: BOOLEAN]
  /\ accepted \in Docs \cup {Torn} /\ acked \in Docs \cup {Torn}
  /\ faults \in [kills: 0..MaxKills, losses: 0..MaxPowerLosses, errors: 0..MaxIoErrors]

(* The committed lineage: versions whose contents and name survive a power *)
(* loss.                                                                   *)
Durable == {v \in chainSynced \cap chainLinked : Whole(v)}

Committed(d) == \E v \in Durable : chain[v] = d

(* A witness that an operation returned, or that a lock-free reader        *)
(* accepted as the head, is committed: no kill, power loss or I/O error    *)
(* takes it out of the lineage again.                                      *)
ReportedSurvives == \A d \in {accepted, acked} \ {Torn} : Committed(d)

(* Committed witnesses are never rewritten, removed or replaced.           *)
AppendOnly == [][\A v \in Durable : v \in Durable' /\ chain'[v] = chain[v]]_vars

(* Crashes and I/O errors alone never produce a store that the scan        *)
(* attributes to anything but a crash: no fork, orphan, replay, unverified *)
(* history, pointer ahead of the chain or lost chain.                      *)
NoFalseAlarm ==
  Classification \notin
    {"ORPHAN", "FORK", "POINTER_AHEAD", "POINTER_CORRUPT", "REPLAY_IN_CHAIN", "GENESIS_MISMATCH",
     "AUTHORIZATION_HISTORY_INVALID", "CHAIN_MISSING", "SCRATCH_ORDERING_VIOLATION"}

(* RR-20a retention: before a transition is visible in chain/, the         *)
(* authorization that binds it is durable, whatever run retained it.       *)
EvidenceBeforeEntry ==
  \A v \in 2..MaxVersion :
    Whole(v) /\ Newest(chain[v]).auth # NoAuth =>
      LET id == Newest(chain[v]).auth
      IN  /\ id \in retSynced \cap retLinked /\ retained[id] = "whole"
          /\ register[id] # NoAuth
          /\ Binds(register[id], chain[v - 1], Newest(chain[v]))

(* A store left in an automatically recoverable state is served again.     *)
RecoversWithoutOwner == svc = "down" /\ ~FailClosed ~> svc = "serving" \/ FailClosed

(* A committed witness becomes the active pointer, or the store is failed  *)
(* closed for the owner, or a storage call failed after the commit point:  *)
(* the service then refuses, one behind, until it is restarted.            *)
RefusingUntilRestart ==
  svc = "serving" /\ pc = "idle" /\ faults.errors > 0 /\ Classification \in RollForward

CommittedIsPublished ==
  \A v \in Versions :
    v \in Durable ~> (pointer \in Docs /\ Len(pointer) >= v) \/ FailClosed \/ RefusingUntilRestart

(* docs/architecture/slice-15b2b-b1b3e-live-rehearsal-gate.md section 6.4: *)
(* when the directory fsync after the pointer replacement is lost, the     *)
(* store is CONSISTENT or POINTER_BEHIND_BY_ONE after reboot.              *)
PointerAtMostOneBehind == Classification # "POINTER_BEHIND_MULTI"

-----------------------------------------------------------------------------
(* What the store promises: an append-only log of lawful witnesses.        *)
CommittedLog == IF Durable = {} THEN <<>> ELSE chain[Max(Durable)]

Log == INSTANCE WitnessLog WITH log <- CommittedLog

ImplementsLog == Log!Spec

=============================================================================
