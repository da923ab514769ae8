------------------------- MODULE WitnessStoreProofs -------------------------
(***************************************************************************)
(* Proofs about WitnessStore, for every value of its constants.            *)
(*                                                                         *)
(* IInv says what is durable at each storage call, so that nothing is      *)
(* published before it is committed.  LInv, inductive relative to IInv,    *)
(* says what the durable files are to one another: a lineage in which each *)
(* witness lawfully succeeds the one before it and its evidence is there.  *)
(* The refinement of WitnessLog follows from both.                         *)
(***************************************************************************)
EXTENDS WitnessStore, WitnessV2Proofs

-----------------------------------------------------------------------------
(***************************************************************************)
(* The inductive invariant.                                                *)
(***************************************************************************)

RetainPCs  == {"retain_open", "retain_write", "retain_fsync", "retain_dir_fsync", "plan"}
PublishPCs == {"scratch_open", "scratch_write", "scratch_fsync", "pointer_replace"}
WritePCs   == {"chain_open", "chain_write", "chain_fsync", "chain_dir_fsync"} \cup PublishPCs

(* A whole chain file holds a witness of the version it is named for.      *)
ChainNamed == \A v \in Versions : chain[v] \in Docs => Len(chain[v]) = v

(* chain/ and authorizations/ are durable before anything is put in them.  *)
HomeDurable ==
  /\ Names # {} \/ pc \in WritePCs => dirs = "durable"
  /\ pc = "dirs_fsync" => dirs # "absent"

(* Retention and planning work on the head of a whole chain with room.     *)
Planning ==
  pc \in RetainPCs =>
    /\ Height \in Versions /\ Height + 1 \in Versions /\ chain[Height] \in Docs
    /\ auth \in AuthIds /\ register[auth] # NoAuth

(* How far the document in progress has got.                               *)
Writing ==
  /\ pc \in WritePCs \cup {"make_dirs", "dirs_fsync"} => doc \in Docs /\ Len(doc) \in Versions
  /\ pc = "chain_write" => chain[Len(doc)] = Torn
  /\ pc \in {"chain_fsync", "chain_dir_fsync"} => chain[Len(doc)] = doc
  /\ pc = "chain_dir_fsync" => Len(doc) \in chainSynced
  /\ pc \in PublishPCs \cup {"state_fsync", "reply"} => doc = Torn \/ Committed(doc)
  /\ pc = "scratch_remove" => doc = Torn

(* Whatever parses under the pointer or the scratch name, now, in a view a *)
(* reader took, or on disk after a power loss, is committed.               *)
Published ==
  /\ \A d \in Docs \cap {pointer, scratch, view.ptr} : Committed(d)
  /\ \A s \in stateDisk : \A d \in Docs \cap {s.ptr, s.scr} : Committed(d)

IInv ==
  /\ TypeOK
  /\ ChainNamed
  /\ HomeDurable
  /\ Planning
  /\ Writing
  /\ Published
  /\ ReportedSurvives

-----------------------------------------------------------------------------
(***************************************************************************)
(* Numbers, documents and the recovery scan.                               *)
(***************************************************************************)

(* Bytes that parse are told apart from torn bytes and from no file.       *)
LEMMA DocsArePlain ==
  /\ Torn \notin Docs /\ Absent \notin Docs /\ Absent # Torn
  /\ \A d \in Docs : Len(d) \in Nat \ {0} /\ Newest(d) \in Entries
<1>1. Torn \in Seq(Entries) /\ Absent \notin Seq(Entries)
  BY WitnessStoreAssumption DEF Torn
<1> QED BY <1>1, DocsHaveNewest DEF Docs, Torn

(* The height of a chain is its highest file name.                         *)
LEMMA HeightIsHighest ==
  /\ Names = {} => Height = 0
  /\ Names # {} => Height \in Names /\ \A v \in Names : v <= Height
<1>1. MaxVersion \in Nat /\ Names \in SUBSET (1..MaxVersion)
  BY WitnessStoreAssumption DEF Names, Versions
<1> QED BY <1>1, MaxExists DEF Height

(* A store the scan accepts or rolls forward has a whole head; a store it  *)
(* accepts has the head under the pointer name.                            *)
LEMMA AcceptedHead ==
  ASSUME NEW ptr, NEW scr, Classify(ptr, scr) \in RollForward \cup {"CONSISTENT"}
  PROVE  /\ Height \in Versions /\ ChainHead \in Docs /\ Len(ChainHead) = Height
         /\ Classify(ptr, scr) = "CONSISTENT" => ptr = ChainHead
<1> DEFINE class == PointerClass(ptr)
<1>1. /\ Names # {} /\ Whole(1) /\ Breaks = {}
      /\ Classify(ptr, scr) = ScratchClass(scr, class)
  BY DEF Classify, RollForward, BrokenLineage, Automatic
<1>2. Height \in Versions
  BY <1>1, HeightIsHighest DEF Names
<1>3. Whole(Height)
  <2>1. CASE Height = 1
    BY <1>1, <2>1
  <2>2. CASE Height # 1
    <3>1. Height \in 2..Height
      BY <1>2, <2>2, WitnessStoreAssumption DEF Versions
    <3> QED BY <1>1, <3>1 DEF Breaks
  <2> QED BY <2>1, <2>2
<1>4. Classify(ptr, scr) = "CONSISTENT" => class = "CONSISTENT"
  BY <1>1 DEF ScratchClass
<1>5. class = "CONSISTENT" => ptr = ChainHead
  BY DEF PointerClass
<1> QED BY <1>2, <1>3, <1>4, <1>5 DEF Whole, ChainHead

-----------------------------------------------------------------------------
(***************************************************************************)
(* Type correctness of one step.                                           *)
(***************************************************************************)

(* Who can move the chain and what the disk is sure to hold.               *)
LEMMA Frames ==
  ASSUME [Next]_vars
  PROVE  /\ UNCHANGED chain \/ ChainOpen \/ ChainWrite \/ PowerLoss
         /\ UNCHANGED <<chainSynced, chainLinked>> \/ ChainFsync \/ ChainDirFsync \/ PowerLoss
         /\ UNCHANGED dirs \/ MakeDirs \/ StateFsync \/ PowerLoss
<1>1. CASE ServiceStep
  BY <1>1 DEF ServiceStep, Start, Recheck, Reply, Plan, MakeDirs, RetainOpen, RetainWrite, RetainFsync,
     RetainDirFsync, ChainOpen, ChainWrite, ChainFsync, ChainDirFsync, ScratchOpen, ScratchWrite,
     ScratchFsync, PointerReplace, ScratchRemove, StateFsync, storeVars, diskVars
<1>2. CASE Request
  BY <1>2 DEF Request, Bootstrap, RecordLedgerAdvance, ExecuteAdvance, Begin, storeVars, diskVars
<1>3. CASE Reader
  BY <1>3 DEF Reader, ReadState, ReadChain, ReadWitness, Issue, storeVars, diskVars
<1>4. CASE Fault
  BY <1>4 DEF Fault, IoError, Kill, storeVars, diskVars
<1>5. CASE UNCHANGED vars
  BY <1>5 DEF vars, storeVars, diskVars
<1> QED BY <1>1, <1>2, <1>3, <1>4, <1>5 DEF Next

(* An operation begins with a type-correct document and authorization.     *)
LEMMA BeginType ==
  ASSUME TypeOK, NEW next \in PCs, NEW d \in Docs \cup {Torn}, NEW id \in AuthIds \cup {NoAuth},
         Begin(next, d, id)
  PROVE  TypeOK'
BY DEF TypeOK, Begin, storeVars, diskVars, ownerVars, Versions

(* A fault below its bound can be counted.                                 *)
LEMMA FaultsCounted ==
  ASSUME TypeOK
  PROVE  LET Counts == [kills: 0..MaxKills, losses: 0..MaxPowerLosses, errors: 0..MaxIoErrors]
         IN  /\ faults.kills  < MaxKills       => [faults EXCEPT !.kills  = @ + 1] \in Counts
             /\ faults.losses < MaxPowerLosses => [faults EXCEPT !.losses = @ + 1] \in Counts
             /\ faults.errors < MaxIoErrors    => [faults EXCEPT !.errors = @ + 1] \in Counts
<1>1. /\ faults \in [kills: 0..MaxKills, losses: 0..MaxPowerLosses, errors: 0..MaxIoErrors]
      /\ MaxKills \in Nat /\ MaxPowerLosses \in Nat /\ MaxIoErrors \in Nat
  BY WitnessStoreAssumption DEF TypeOK
<1>2. \A n, m \in Nat : n < m => n + 1 \in 0..m
  OBVIOUS
<1> QED BY <1>1, <1>2

(* Every step keeps every variable in its type.                            *)
LEMMA TypeStep ==
  ASSUME IInv, [Next]_vars
  PROVE  TypeOK'
<1> USE DocsArePlain
<1>0. TypeOK
  BY DEF IInv
<1>1. CASE Start
  BY <1>0, <1>1, AcceptedHead DEF TypeOK, Start, Classification, PCs, storeVars, diskVars, ownerVars, Versions
<1>2. CASE Recheck \/ Reply
  BY <1>0, <1>2 DEF TypeOK, Recheck, Reply, PCs, storeVars, diskVars, ownerVars, Versions
<1>3. ASSUME NEW p \in Positions, Plan(p) PROVE TypeOK'
  <2>1. doc' \in Docs \cup {Torn}
    <3>1. ChainHead \in Docs /\ auth \in AuthIds /\ register[auth] \in Authorizations /\ p \in Nat
      BY <1>0, <1>3, WitnessStoreAssumption DEF IInv, Planning, RetainPCs, Plan, ChainHead, TypeOK
    <3>2. \A e \in Entries : Append(ChainHead, e) \in Docs
      BY <3>1, AppendIsDoc
    <3> QED BY <1>3, <3>1, <3>2, PlansAreEntries DEF Plan, Signed
  <2> QED BY <1>0, <1>3, <2>1 DEF TypeOK, Plan, PCs, storeVars, diskVars, ownerVars, Versions
<1>4. CASE MakeDirs \/ RetainOpen \/ RetainWrite \/ RetainFsync \/ RetainDirFsync
  <2>1. pc \in RetainPCs => auth \in AuthIds
    BY DEF IInv, Planning
  <2> QED BY <1>0, <1>4, <2>1 DEF TypeOK, MakeDirs, RetainOpen, RetainWrite, RetainFsync, RetainDirFsync, RetainPCs,
       Step, PCs, storeVars, diskVars, ownerVars, Versions
<1>5. CASE ChainOpen \/ ChainWrite \/ ChainFsync \/ ChainDirFsync
  <2>1. pc \in WritePCs => doc \in Docs /\ Len(doc) \in Versions
    BY DEF IInv, Writing
  <2>2. chain' \in [Versions -> Files] /\ doc' \in Docs \cup {Torn}
    BY <1>0, <1>5, <2>1 DEF TypeOK, ChainOpen, ChainWrite, ChainFsync, ChainDirFsync, Step, Files
  <2>3. chainSynced' \subseteq Versions /\ chainLinked' \subseteq Versions
    BY <1>0, <1>5, <2>1 DEF TypeOK, ChainOpen, ChainWrite, ChainFsync, ChainDirFsync, Step, WritePCs, Names, diskVars
  <2>4. UNCHANGED <<retained, pointer, scratch, dirs, retSynced, retLinked, stateDisk, svc, auth, ownerVars, faults>>
    BY <1>5 DEF ChainOpen, ChainWrite, ChainFsync, ChainDirFsync, diskVars
  <2>5. pc' \in PCs /\ (svc' = "down" => pc' = "idle")
    BY <1>0, <1>5 DEF TypeOK, ChainOpen, ChainWrite, ChainFsync, ChainDirFsync, Step, PCs
  <2> QED BY <1>0, <2>2, <2>3, <2>4, <2>5 DEF TypeOK, ownerVars, Versions
<1>6. CASE ScratchOpen \/ ScratchWrite \/ ScratchFsync
  <2>1. scratch' \in Files /\ stateDisk' \subseteq StateEntries
    BY <1>0, <1>6 DEF TypeOK, ScratchOpen, ScratchWrite, ScratchFsync, Files, StateEntries
  <2>2. UNCHANGED <<chain, retained, pointer, dirs, chainSynced, chainLinked, retSynced, retLinked,
                    svc, doc, auth, ownerVars, faults>>
    BY <1>6 DEF ScratchOpen, ScratchWrite, ScratchFsync
  <2>3. pc' \in PCs /\ (svc' = "down" => pc' = "idle")
    BY <1>0, <1>6 DEF TypeOK, ScratchOpen, ScratchWrite, ScratchFsync, Step, PCs
  <2> QED BY <1>0, <2>1, <2>2, <2>3 DEF TypeOK, ownerVars, Versions
<1>7. CASE PointerReplace
  BY <1>0, <1>7 DEF TypeOK, PointerReplace, Files, StateEntries, Step, PCs, storeVars, diskVars, ownerVars, Versions
<1>8. CASE ScratchRemove \/ StateFsync
  <2>1. scratch' \in Files /\ stateDisk' \subseteq StateEntries /\ dirs' \in {"absent", "made", "durable"}
    BY <1>0, <1>8 DEF TypeOK, ScratchRemove, StateFsync, Files, StateEntries
  <2>2. UNCHANGED <<chain, retained, pointer, chainSynced, chainLinked, retSynced, retLinked,
                    svc, doc, auth, ownerVars, faults>>
    BY <1>8 DEF ScratchRemove, StateFsync
  <2>3. pc' \in PCs /\ (svc' = "down" => pc' = "idle")
    BY <1>0, <1>8 DEF TypeOK, ScratchRemove, StateFsync, Step, PCs
  <2> QED BY <1>0, <2>1, <2>2, <2>3 DEF TypeOK, ownerVars, Versions
<1>9. CASE Bootstrap
  BY <1>0, <1>9, BeginType, GenesisIsDoc DEF Bootstrap, PCs
<1>10. ASSUME NEW p \in Positions, RecordLedgerAdvance(p) PROVE TypeOK'
  <2>1. ChainHead \in Docs /\ p \in Nat
    BY <1>10, AcceptedHead, WitnessStoreAssumption DEF RecordLedgerAdvance, Consistent, Classification
  <2>2. \A e \in PlanLedgerAdvance(ChainHead, p) : Append(ChainHead, e) \in Docs
    BY <2>1, AppendIsDoc, PlansAreEntries
  <2> QED BY <1>0, <1>10, <2>2, BeginType DEF RecordLedgerAdvance, Signed, PCs
<1>11. ASSUME NEW id \in AuthIds, ExecuteAdvance(id) PROVE TypeOK'
  BY <1>0, <1>11, BeginType DEF ExecuteAdvance, PCs
<1>12. CASE ReadState
  BY <1>0, <1>12 DEF TypeOK, ReadState, storeVars, diskVars, Versions
<1>13. CASE ReadChain \/ ReadWitness
  <2>1. accepted' \in Docs \cup {Torn}
    BY <1>0, <1>13, AcceptedHead DEF TypeOK, ReadChain, ReadWitness, Consistent, Classification
  <2>2. view' \in [ptr: Files, scr: Files, open: BOOLEAN]
    <3>1. NoView \in [ptr: Files, scr: Files, open: BOOLEAN]
      BY DEF NoView, Files
    <3> QED BY <1>0, <1>13, <3>1 DEF TypeOK, ReadChain, ReadWitness, ownerVars
  <2>3. UNCHANGED <<storeVars, svc, pc, doc, auth, register, acked, faults>>
    BY <1>13 DEF ReadChain, ReadWitness
  <2> QED BY <1>0, <2>1, <2>2, <2>3 DEF TypeOK, storeVars, diskVars, Versions
<1>14. ASSUME NEW id \in AuthIds, NEW kind \in {HEAD, EPOCH}, NEW digest \in Digests, Issue(id, kind, digest)
       PROVE  TypeOK'
  BY <1>0, <1>14, IssuedIsAuthorization DEF TypeOK, Issue, storeVars, diskVars, Versions
<1>15. CASE IoError \/ Kill
  <2>1. faults' \in [kills: 0..MaxKills, losses: 0..MaxPowerLosses, errors: 0..MaxIoErrors]
    BY <1>0, <1>15, FaultsCounted DEF IoError, Kill
  <2> QED BY <1>0, <1>15, <2>1 DEF TypeOK, IoError, Kill, PCs, storeVars, diskVars, ownerVars, Versions
<1>16. CASE PowerLoss
  <2>1. chain' \in [Versions -> Files] /\ retained' \in [AuthIds -> {"absent", "torn", "whole"}]
    BY <1>0, <1>16 DEF TypeOK, PowerLoss, Files
  <2>2. pointer' \in Files /\ scratch' \in Files /\ stateDisk' \subseteq StateEntries
    BY <1>0, <1>16 DEF TypeOK, PowerLoss, StateEntries
  <2>3. faults' \in [kills: 0..MaxKills, losses: 0..MaxPowerLosses, errors: 0..MaxIoErrors]
    BY <1>0, <1>16, FaultsCounted DEF PowerLoss
  <2>4. view' \in [ptr: Files, scr: Files, open: BOOLEAN]
    BY <1>16 DEF PowerLoss, NoView, Files
  <2>5. /\ dirs' \in {"absent", "made", "durable"}
        /\ chainSynced' \subseteq Versions /\ chainLinked' \subseteq Versions
        /\ retSynced' \subseteq AuthIds /\ retLinked' \subseteq AuthIds
    BY <1>0, <1>16 DEF TypeOK, PowerLoss
  <2>6. /\ svc' = "down" /\ pc' = "idle" /\ doc' = Torn /\ auth' = NoAuth
        /\ UNCHANGED <<register, accepted, acked>>
    BY <1>16 DEF PowerLoss
  <2> QED BY <1>0, <2>1, <2>2, <2>3, <2>4, <2>5, <2>6 DEF TypeOK, PCs, Versions
<1>17. CASE UNCHANGED vars
  BY <1>0, <1>17 DEF TypeOK, vars, storeVars, diskVars, ownerVars, Versions
<1> QED
  BY <1>1, <1>2, <1>3, <1>4, <1>5, <1>6, <1>7, <1>8, <1>9, <1>10, <1>11, <1>12, <1>13, <1>14, <1>15, <1>16, <1>17
  DEF Next, ServiceStep, Request, Reader, Fault

-----------------------------------------------------------------------------
(***************************************************************************)
(* Committed witnesses stay.                                               *)
(***************************************************************************)

(* No step takes a durable version away or changes its contents.           *)
LEMMA DurableKept ==
  ASSUME IInv, [Next]_vars
  PROVE  \A v \in Durable : v \in Durable' /\ chain'[v] = chain[v]
<1> USE DocsArePlain
<1> SUFFICES ASSUME NEW v \in Durable
             PROVE  v \in Durable' /\ chain'[v] = chain[v]
  OBVIOUS
<1>1. /\ v \in chainSynced /\ v \in chainLinked /\ v \in Versions
      /\ chain[v] \in Docs /\ Len(chain[v]) = v /\ v \in Names
      /\ dirs = "durable"
  BY DEF IInv, TypeOK, HomeDurable, Durable, Whole, Names
<1>2. chain'[v] = chain[v]
  <2>1. CASE ChainOpen
    BY <1>1, <2>1 DEF ChainOpen, IInv, TypeOK
  <2>2. CASE ChainWrite
    <3>1. chain[Len(doc)] = Torn /\ chain' = [chain EXCEPT ![Len(doc)] = doc]
      BY <2>2 DEF ChainWrite, Step, IInv, Writing
    <3> QED BY <1>1, <3>1 DEF IInv, TypeOK
  <2>3. CASE PowerLoss
    <3>1. dirs' = "durable"
      BY <1>1, <2>3 DEF PowerLoss
    <3> QED BY <1>1, <2>3, <3>1 DEF PowerLoss
  <2> QED BY <2>1, <2>2, <2>3, Frames
<1>3. v \in chainSynced' /\ v \in chainLinked'
  <2>1. CASE ChainFsync \/ ChainDirFsync
    BY <1>1, <2>1 DEF ChainFsync, ChainDirFsync
  <2>2. CASE PowerLoss
    BY <1>1, <1>2, <2>2 DEF PowerLoss
  <2> QED BY <1>1, <2>1, <2>2, Frames
<1> QED BY <1>1, <1>2, <1>3 DEF Durable, Whole

(* A committed witness is still committed after any step.                  *)
LEMMA CommittedKept ==
  ASSUME IInv, [Next]_vars, NEW d, Committed(d)
  PROVE  Committed(d)'
BY DurableKept DEF Committed

-----------------------------------------------------------------------------
(***************************************************************************)
(* The other conjuncts, one step.                                          *)
(***************************************************************************)

(* Every step keeps whole chain files under the name of their version.     *)
LEMMA ChainNamedStep ==
  ASSUME IInv, [Next]_vars
  PROVE  ChainNamed'
<1> USE DocsArePlain
<1>0. TypeOK /\ ChainNamed
  BY DEF IInv
<1>1. CASE UNCHANGED chain
  BY <1>0, <1>1 DEF ChainNamed, Versions
<1>2. CASE ChainOpen
  BY <1>0, <1>2 DEF ChainNamed, ChainOpen, TypeOK, Versions
<1>3. CASE ChainWrite
  BY <1>0, <1>3 DEF ChainNamed, ChainWrite, Step, TypeOK, Versions
<1>4. CASE PowerLoss
  <2>1. \A v \in Versions : chain'[v] \in {Absent, Torn, chain[v]}
    BY <1>4 DEF PowerLoss
  <2> QED BY <1>0, <2>1 DEF ChainNamed, Versions
<1> QED BY <1>1, <1>2, <1>3, <1>4, Frames

(* While the chain does not move, neither does what is defined from it.    *)
LEMMA ChainUnmoved ==
  ASSUME UNCHANGED chain
  PROVE  Names' = Names /\ Height' = Height /\ ChainHead' = ChainHead
<1>1. Names' = Names
  BY DEF Names, Versions
<1> QED BY <1>1 DEF Height, ChainHead

(* Every step keeps chain/ and authorizations/ durable once they are used. *)
LEMMA HomeDurableStep ==
  ASSUME IInv, [Next]_vars
  PROVE  HomeDurable'
<1>0. TypeOK /\ HomeDurable
  BY DEF IInv
<1>1. CASE ServiceStep
  <2>1. CASE ChainOpen \/ ChainWrite
    <3>1. dirs = "durable" /\ dirs' = dirs /\ pc' # "dirs_fsync"
      BY <1>0, <2>1 DEF ChainOpen, ChainWrite, Step, HomeDurable, WritePCs
    <3> QED BY <3>1 DEF HomeDurable
  <2>2. CASE MakeDirs
    <3>1. UNCHANGED chain
      BY <2>2 DEF MakeDirs
    <3> QED BY <1>0, <2>2, <3>1, ChainUnmoved DEF MakeDirs, Step, HomeDurable, WritePCs, PublishPCs, TypeOK
  <2>3. CASE StateFsync
    <3>1. UNCHANGED chain
      BY <2>3 DEF StateFsync
    <3> QED BY <1>0, <2>3, <3>1, ChainUnmoved DEF StateFsync, Step, HomeDurable, WritePCs, PublishPCs, TypeOK
  <2>4. CASE Start
    <3>1. UNCHANGED <<chain, dirs>> /\ pc' # "dirs_fsync"
      BY <2>4 DEF Start, storeVars
    <3>2. Classification \in RollForward => Names # {}
      BY AcceptedHead, HeightIsHighest DEF Classification, Versions
    <3> QED BY <1>0, <2>4, <3>1, <3>2, ChainUnmoved DEF Start, HomeDurable, WritePCs, PublishPCs
  <2>5. ASSUME NEW p \in Positions, Plan(p) PROVE HomeDurable'
    <3>1. UNCHANGED <<chain, dirs>> /\ pc' # "dirs_fsync"
      BY <2>5 DEF Plan, storeVars
    <3>2. Names # {}
      BY <2>5, HeightIsHighest DEF Plan, IInv, Planning, RetainPCs, Versions
    <3> QED BY <1>0, <3>1, <3>2, ChainUnmoved DEF HomeDurable
  <2>6. CASE \/ ChainFsync \/ ChainDirFsync \/ ScratchOpen \/ ScratchWrite \/ ScratchFsync \/ PointerReplace
    <3>1. UNCHANGED <<chain, dirs>> /\ pc \in WritePCs /\ pc' # "dirs_fsync"
      BY <2>6 DEF ChainFsync, ChainDirFsync, ScratchOpen, ScratchWrite, ScratchFsync, PointerReplace, Step,
         WritePCs, PublishPCs
    <3> QED BY <1>0, <3>1, ChainUnmoved DEF HomeDurable
  <2>7. CASE \/ Recheck \/ Reply \/ RetainOpen \/ RetainWrite \/ RetainFsync \/ RetainDirFsync \/ ScratchRemove
    <3>1. UNCHANGED <<chain, dirs>> /\ pc' \notin WritePCs /\ pc' # "dirs_fsync"
      BY <2>7 DEF Recheck, Reply, RetainOpen, RetainWrite, RetainFsync, RetainDirFsync, ScratchRemove, Step,
         WritePCs, PublishPCs, storeVars
    <3> QED BY <1>0, <3>1, ChainUnmoved DEF HomeDurable
  <2> QED BY <1>1, <2>1, <2>2, <2>3, <2>4, <2>5, <2>6, <2>7 DEF ServiceStep
<1>2. CASE Request
  <2>1. UNCHANGED <<chain, dirs>> /\ pc' # "dirs_fsync"
    BY <1>2 DEF Request, Bootstrap, RecordLedgerAdvance, ExecuteAdvance, Begin, storeVars
  <2>2. pc' \in WritePCs => Consistent
    BY <1>2 DEF Request, Bootstrap, RecordLedgerAdvance, ExecuteAdvance, Begin, WritePCs, PublishPCs
  <2>3. Consistent => Names # {}
    BY AcceptedHead, HeightIsHighest DEF Consistent, Classification, Versions
  <2> QED BY <1>0, <2>1, <2>2, <2>3, ChainUnmoved DEF HomeDurable
<1>3. CASE Reader \/ UNCHANGED vars
  <2>1. UNCHANGED <<chain, dirs, pc>>
    BY <1>3 DEF Reader, ReadState, ReadChain, ReadWitness, Issue, vars, storeVars
  <2> QED BY <1>0, <2>1, ChainUnmoved DEF HomeDurable
<1>4. CASE IoError \/ Kill
  <2>1. UNCHANGED <<chain, dirs>> /\ pc' = "idle"
    BY <1>4 DEF IoError, Kill, storeVars
  <2> QED BY <1>0, <2>1, ChainUnmoved DEF HomeDurable, WritePCs, PublishPCs
<1>5. CASE PowerLoss
  <2>1. pc' = "idle" /\ (Names = {} => Names' = {})
    BY <1>5 DEF PowerLoss, Names, Versions
  <2>2. dirs = "durable" => dirs' = "durable"
    BY <1>5 DEF PowerLoss
  <2> QED BY <1>0, <2>1, <2>2 DEF HomeDurable, WritePCs, PublishPCs
<1> QED BY <1>1, <1>2, <1>3, <1>4, <1>5 DEF Next, Fault

(* Every step keeps a retention in progress on a whole, unfinished chain.  *)
LEMMA PlanningStep ==
  ASSUME IInv, [Next]_vars
  PROVE  Planning'
<1>0. TypeOK /\ Planning
  BY DEF IInv
<1> SUFFICES ASSUME pc' \in RetainPCs
             PROVE  /\ Height' \in Versions /\ Height' + 1 \in Versions /\ chain'[Height'] \in Docs
                    /\ auth' \in AuthIds /\ register'[auth'] # NoAuth
  BY DEF Planning, Versions
<1>1. ASSUME UNCHANGED <<chain, auth>>, pc \in RetainPCs, register'[auth] = register[auth]
      PROVE  /\ Height' \in Versions /\ Height' + 1 \in Versions /\ chain'[Height'] \in Docs
             /\ auth' \in AuthIds /\ register'[auth'] # NoAuth
  BY <1>0, <1>1, ChainUnmoved DEF Planning
<1>2. CASE ServiceStep
  <2>1. UNCHANGED <<chain, auth, register>> /\ pc \in RetainPCs
    BY <1>2 DEF ServiceStep, Start, Recheck, Reply, Plan, MakeDirs, RetainOpen, RetainWrite, RetainFsync,
       RetainDirFsync, ChainOpen, ChainWrite, ChainFsync, ChainDirFsync, ScratchOpen, ScratchWrite,
       ScratchFsync, PointerReplace, ScratchRemove, StateFsync, Step, RetainPCs, storeVars, ownerVars
  <2> QED BY <1>1, <2>1
<1>3. ASSUME NEW id \in AuthIds, ExecuteAdvance(id)
      PROVE  /\ Height' \in Versions /\ Height' + 1 \in Versions /\ chain'[Height'] \in Docs
             /\ auth' \in AuthIds /\ register'[auth'] # NoAuth
  <2>1. UNCHANGED <<chain, register>> /\ auth' = id /\ register[id] # NoAuth
    BY <1>3 DEF ExecuteAdvance, Begin, storeVars, ownerVars
  <2>2. Height \in Versions /\ chain[Height] \in Docs
    BY <1>3, AcceptedHead DEF ExecuteAdvance, Consistent, Classification, ChainHead
  <2>3. Height + 1 \in Versions
    BY <1>3, <2>2, WitnessStoreAssumption DEF ExecuteAdvance, Versions
  <2> QED BY <2>1, <2>2, <2>3, ChainUnmoved
<1>4. CASE Bootstrap \/ \E p \in Positions : RecordLedgerAdvance(p)
  BY <1>4 DEF Bootstrap, RecordLedgerAdvance, Begin, RetainPCs
<1>5. CASE Reader
  <2>1. UNCHANGED <<chain, auth, pc>>
    BY <1>5 DEF Reader, ReadState, ReadChain, ReadWitness, Issue, storeVars
  <2>2. register[auth] # NoAuth => register'[auth] = register[auth]
    <3>1. CASE UNCHANGED register
      BY <3>1
    <3>2. ASSUME NEW id \in AuthIds, NEW kind \in {HEAD, EPOCH}, NEW digest \in Digests, Issue(id, kind, digest)
          PROVE  register[auth] # NoAuth => register'[auth] = register[auth]
      BY <1>0, <3>2 DEF Issue, TypeOK
    <3> QED BY <1>5, <3>1, <3>2 DEF Reader, ReadState, ReadChain, ReadWitness
  <2>3. register[auth] # NoAuth
    BY <1>0, <2>1 DEF Planning
  <2> QED BY <1>1, <2>1, <2>2, <2>3
<1>6. CASE Fault
  BY <1>6 DEF Fault, IoError, Kill, PowerLoss, RetainPCs
<1>7. CASE UNCHANGED vars
  BY <1>1, <1>7 DEF vars, storeVars, ownerVars
<1> QED BY <1>2, <1>3, <1>4, <1>5, <1>6, <1>7 DEF Next, Request

(* Where the pointer, the scratch file and what the disk holds for them    *)
(* come from.                                                              *)
LEMMA PublishedStep ==
  ASSUME IInv, [Next]_vars
  PROVE  Published'
<1> USE DocsArePlain
<1>0. TypeOK /\ Published /\ Writing
  BY DEF IInv
<1>1. \A d : Committed(d) => Committed(d)'
  BY CommittedKept
<1>2. ASSUME UNCHANGED <<pointer, scratch, stateDisk>>, view' \in {view, NoView}
      PROVE  Published'
  BY <1>0, <1>1, <1>2 DEF Published, NoView
<1>3. CASE ScratchOpen \/ ScratchWrite \/ ScratchFsync \/ PointerReplace \/ ScratchRemove \/ StateFsync
  <2>1. doc \in Docs => (pc = "scratch_write" => Committed(doc))
    BY <1>0 DEF Writing, PublishPCs
  <2>2. view' = view
    BY <1>3 DEF ScratchOpen, ScratchWrite, ScratchFsync, PointerReplace, ScratchRemove, StateFsync, ownerVars
  <2>3. \A d \in Docs \cap {pointer', scratch'} : Committed(d)
    BY <1>0, <1>3, <2>1 DEF Published, Step, ScratchOpen, ScratchWrite, ScratchFsync, PointerReplace,
       ScratchRemove, StateFsync
  <2>4. ASSUME NEW s \in stateDisk', NEW d \in Docs \cap {s.ptr, s.scr}
        PROVE  Committed(d)
    <3>1. CASE s \in stateDisk
      BY <1>0, <2>4, <3>1 DEF Published
    <3>2. CASE s \in {[ptr |-> pointer, scr |-> Torn], [ptr |-> pointer, scr |-> Absent]}
      BY <1>0, <2>4, <3>2 DEF Published
    <3>3. CASE ScratchWrite /\ s = [ptr |-> pointer, scr |-> doc]
      BY <1>0, <2>1, <2>4, <3>3 DEF Published, ScratchWrite, Step
    <3>4. CASE \E t \in stateDisk, old \in {Absent, scratch} : s = [ptr |-> t.scr, scr |-> old]
      BY <1>0, <2>4, <3>4 DEF Published
    <3> QED BY <1>3, <3>1, <3>2, <3>3, <3>4 DEF ScratchOpen, ScratchWrite, ScratchFsync, PointerReplace,
         ScratchRemove, StateFsync
  <2> QED BY <1>0, <1>1, <2>2, <2>3, <2>4 DEF Published
<1>4. CASE ReadState
  <2>1. UNCHANGED <<pointer, scratch, stateDisk>> /\ view' = [ptr |-> pointer, scr |-> scratch, open |-> TRUE]
    BY <1>4 DEF ReadState, storeVars, diskVars
  <2> QED BY <1>0, <1>1, <2>1 DEF Published
<1>5. CASE PowerLoss
  <2>1. PICK s \in stateDisk : pointer' = s.ptr /\ scratch' = s.scr /\ stateDisk' = {s}
    BY <1>5 DEF PowerLoss
  <2>2. view' = NoView
    BY <1>5 DEF PowerLoss
  <2> QED BY <1>0, <1>1, <2>1, <2>2 DEF Published, NoView
<1>6. CASE ServiceStep /\ ~(ScratchOpen \/ ScratchWrite \/ ScratchFsync \/ PointerReplace \/ ScratchRemove \/ StateFsync)
  BY <1>2, <1>6 DEF ServiceStep, Start, Recheck, Reply, Plan, MakeDirs, RetainOpen, RetainWrite, RetainFsync,
     RetainDirFsync, ChainOpen, ChainWrite, ChainFsync, ChainDirFsync, storeVars, diskVars, ownerVars
<1>7. CASE Request
  BY <1>2, <1>7 DEF Request, Bootstrap, RecordLedgerAdvance, ExecuteAdvance, Begin, storeVars, diskVars, ownerVars
<1>8. CASE Reader /\ ~ReadState
  BY <1>2, <1>8 DEF Reader, ReadChain, ReadWitness, Issue, storeVars, diskVars
<1>9. CASE IoError \/ Kill \/ UNCHANGED vars
  BY <1>2, <1>9 DEF IoError, Kill, vars, storeVars, diskVars, ownerVars
<1> QED BY <1>3, <1>4, <1>5, <1>6, <1>7, <1>8, <1>9 DEF Next, Fault

(* What a step reports, and what was reported before it, is committed.     *)
LEMMA ReportedStep ==
  ASSUME IInv, [Next]_vars
  PROVE  ReportedSurvives'
<1> USE DocsArePlain
<1>0. TypeOK /\ Published /\ Writing /\ ReportedSurvives
  BY DEF IInv
<1>1. \A d : Committed(d) => Committed(d)'
  BY CommittedKept
<1>2. acked' \in {Torn, acked} \/ Committed(acked')
  <2>1. CASE Reply
    BY <1>0, <2>1 DEF Reply, Writing
  <2>2. CASE ~Reply
    BY <2>2 DEF Next, ServiceStep, Start, Recheck, Plan, MakeDirs, RetainOpen, RetainWrite, RetainFsync,
       RetainDirFsync, ChainOpen, ChainWrite, ChainFsync, ChainDirFsync, ScratchOpen, ScratchWrite, ScratchFsync,
       PointerReplace, ScratchRemove, StateFsync, Request, Bootstrap, RecordLedgerAdvance, ExecuteAdvance, Begin,
       Reader, ReadState, ReadChain, ReadWitness, Issue, Fault, IoError, Kill, PowerLoss, ownerVars, vars
  <2> QED BY <2>1, <2>2
<1>3. accepted' = accepted \/ Committed(accepted')
  <2>1. CASE ReadChain
    <3>1. Classify(view.ptr, view.scr) = "CONSISTENT" => ChainHead \in Docs /\ view.ptr = ChainHead
      BY AcceptedHead
    <3> QED BY <1>0, <2>1, <3>1 DEF ReadChain, Published
  <2>2. CASE ReadWitness
    <3>1. ChainHead \in Docs /\ pointer = ChainHead
      BY <2>2, AcceptedHead DEF ReadWitness, Consistent, Classification
    <3> QED BY <1>0, <2>2, <3>1 DEF ReadWitness, Published
  <2>3. CASE ~ReadChain /\ ~ReadWitness
    BY <2>3 DEF Next, ServiceStep, Start, Recheck, Reply, Plan, MakeDirs, RetainOpen, RetainWrite, RetainFsync,
       RetainDirFsync, ChainOpen, ChainWrite, ChainFsync, ChainDirFsync, ScratchOpen, ScratchWrite, ScratchFsync,
       PointerReplace, ScratchRemove, StateFsync, Request, Bootstrap, RecordLedgerAdvance, ExecuteAdvance, Begin,
       Reader, ReadState, Issue, Fault, IoError, Kill, PowerLoss, ownerVars, vars
  <2> QED BY <2>1, <2>2, <2>3
<1> QED BY <1>0, <1>1, <1>2, <1>3 DEF ReportedSurvives

(* The storage calls that come between opening a chain file and publishing *)
(* the pointer keep what the document in progress has reached.             *)
LEMMA WritingStep ==
  ASSUME IInv, [Next]_vars
  PROVE  Writing'
<1> USE DocsArePlain
<1> DEFINE AllPCs == WritePCs \cup {"make_dirs", "dirs_fsync"}
           LatePCs == PublishPCs \cup {"state_fsync", "reply"}
<1>0. TypeOK /\ Writing
  BY DEF IInv
<1>1. \A d : Committed(d) => Committed(d)'
  BY CommittedKept
<1>2. ASSUME pc' \notin AllPCs \cup LatePCs, pc' = "scratch_remove" => doc' = Torn
      PROVE  Writing'
  BY <1>2 DEF Writing, WritePCs, PublishPCs
<1>3. ASSUME pc' \in {"chain_open", "make_dirs", "dirs_fsync"}, doc' \in Docs, Len(doc') \in Versions
      PROVE  Writing'
  BY <1>3 DEF Writing, WritePCs, PublishPCs, Versions
<1>4. ASSUME UNCHANGED <<chain, chainSynced, pc, doc>>
      PROVE  Writing'
  BY <1>0, <1>1, <1>4 DEF Writing, Versions
<1>5. ASSUME pc' \in LatePCs, doc' = Torn \/ Committed(doc'), pc' \in PublishPCs => doc' \in Docs /\ Len(doc') \in Versions
      PROVE  Writing'
  BY <1>1, <1>5 DEF Writing, WritePCs, PublishPCs, Versions
<1>6. CASE Start
  <2>1. CASE Classification \in RollForward
    <3>1. pc' = "chain_fsync" /\ doc' = ChainHead /\ chain' = chain
      BY <1>6, <2>1, AcceptedHead DEF Start, Consistent, Classification, RollForward, storeVars
    <3>2. Height \in Versions /\ ChainHead \in Docs /\ Len(ChainHead) = Height
      BY <2>1, AcceptedHead DEF Classification
    <3> QED BY <3>1, <3>2 DEF Writing, WritePCs, PublishPCs, ChainHead, Versions
  <2>2. CASE Classification \notin RollForward
    BY <1>2, <1>6, <2>2 DEF Start, WritePCs, PublishPCs
  <2> QED BY <2>1, <2>2
<1>7. CASE Recheck \/ Reply \/ RetainOpen \/ RetainWrite \/ RetainFsync \/ RetainDirFsync
  BY <1>2, <1>7 DEF Recheck, Reply, RetainOpen, RetainWrite, RetainFsync, RetainDirFsync, Step, WritePCs, PublishPCs
<1>8. ASSUME NEW p \in Positions, Plan(p) PROVE Writing'
  <2>1. /\ ChainHead \in Docs /\ Height \in Versions /\ Height + 1 \in Versions /\ Len(ChainHead) = Height
        /\ auth \in AuthIds /\ register[auth] \in Authorizations /\ p \in Nat
    BY <1>0, <1>8, WitnessStoreAssumption DEF IInv, Planning, RetainPCs, Plan, ChainHead, TypeOK, ChainNamed
  <2>2. CASE pc' = "idle"
    BY <1>2, <2>2 DEF WritePCs, PublishPCs
  <2>3. CASE pc' # "idle"
    <3>1. pc' = "chain_open" /\ \E e \in Entries : doc' = Append(ChainHead, e)
      BY <1>8, <2>1, <2>3, PlansAreEntries DEF Plan, Signed
    <3> QED BY <1>3, <2>1, <3>1, AppendIsDoc
  <2> QED BY <2>2, <2>3
<1>9. CASE MakeDirs
  BY <1>0, <1>3, <1>9 DEF MakeDirs, Step, Writing
<1>10. CASE ChainOpen
  <2>1. doc \in Docs /\ Len(doc) \in Versions
    BY <1>0, <1>10 DEF ChainOpen, Writing, WritePCs
  <2>2. CASE chain[Len(doc)] = Absent
    <3>1. pc' = "chain_write" /\ doc' = doc /\ chain'[Len(doc)] = Torn
      BY <1>0, <1>10, <2>1, <2>2 DEF ChainOpen, TypeOK
    <3> QED BY <2>1, <3>1 DEF Writing, WritePCs, PublishPCs, Versions
  <2>3. CASE chain[Len(doc)] # Absent
    BY <1>2, <1>10, <2>3 DEF ChainOpen, WritePCs, PublishPCs
  <2> QED BY <2>2, <2>3
<1>11. CASE ChainWrite
  <2>1. doc \in Docs /\ Len(doc) \in Versions
    BY <1>0, <1>11 DEF ChainWrite, Step, Writing, WritePCs
  <2>2. pc' = "chain_fsync" /\ doc' = doc /\ chain'[Len(doc)] = doc
    BY <1>0, <1>11, <2>1 DEF ChainWrite, Step, TypeOK
  <2> QED BY <2>1, <2>2 DEF Writing, WritePCs, PublishPCs, Versions
<1>12. CASE ChainFsync
  <2>1. doc \in Docs /\ Len(doc) \in Versions /\ chain[Len(doc)] = doc
    BY <1>0, <1>12 DEF ChainFsync, Step, Writing, WritePCs
  <2>2. pc' = "chain_dir_fsync" /\ doc' = doc /\ chain' = chain /\ Len(doc) \in chainSynced'
    BY <1>12 DEF ChainFsync, Step
  <2> QED BY <2>1, <2>2 DEF Writing, WritePCs, PublishPCs, Versions
<1>13. CASE ChainDirFsync
  <2>1. doc \in Docs /\ Len(doc) \in Versions /\ chain[Len(doc)] = doc /\ Len(doc) \in chainSynced
    BY <1>0, <1>13 DEF ChainDirFsync, Step, Writing, WritePCs
  <2>2. /\ pc' = "scratch_open" /\ doc' = doc /\ chain' = chain
        /\ Len(doc) \in chainSynced' /\ Len(doc) \in chainLinked'
    BY <1>13, <2>1 DEF ChainDirFsync, Step, Names
  <2>3. Committed(doc)'
    <3>1. Len(doc) \in Durable' /\ chain'[Len(doc)] = doc'
      BY <2>1, <2>2 DEF Durable, Whole
    <3> QED BY <3>1 DEF Committed
  <2>4. doc' \in Docs /\ Len(doc') \in Versions /\ pc' = "scratch_open"
    BY <2>1, <2>2
  <2> QED BY <2>3, <2>4 DEF Writing, WritePCs, PublishPCs, Versions
<1>14. CASE ScratchOpen \/ ScratchWrite \/ ScratchFsync \/ PointerReplace
  <2>1. /\ doc \in Docs /\ Len(doc) \in Versions /\ Committed(doc)
        /\ doc' = doc /\ pc' \in LatePCs
    BY <1>0, <1>14 DEF ScratchOpen, ScratchWrite, ScratchFsync, PointerReplace, Step, Writing, WritePCs, PublishPCs
  <2> QED BY <1>5, <2>1
<1>15. CASE ScratchRemove
  <2>1. pc' = "state_fsync" /\ doc' = doc /\ doc = Torn
    BY <1>0, <1>15 DEF ScratchRemove, Step, Writing
  <2> QED BY <1>5, <2>1 DEF PublishPCs
<1>16. CASE StateFsync
  <2>1. CASE pc = "dirs_fsync"
    BY <1>0, <1>3, <1>16, <2>1 DEF StateFsync, Step, Writing
  <2>2. CASE pc = "state_fsync"
    <3>1. doc' = doc /\ pc' \in {"reply", "recheck"} /\ (doc = Torn \/ Committed(doc))
      BY <1>0, <1>16, <2>2 DEF StateFsync, Step, Writing
    <3> QED BY <1>2, <1>5, <3>1 DEF WritePCs, PublishPCs
  <2> QED BY <1>16, <2>1, <2>2 DEF StateFsync, Step
<1>17. CASE Bootstrap
  <2>1. pc' = "make_dirs" /\ doc' = Genesis
    BY <1>17 DEF Bootstrap, Begin
  <2> QED BY <1>3, <2>1, GenesisIsDoc, WitnessStoreAssumption DEF Versions
<1>18. ASSUME NEW p \in Positions, RecordLedgerAdvance(p) PROVE Writing'
  <2>1. ChainHead \in Docs /\ Height \in Versions /\ Len(ChainHead) = Height /\ p \in Nat /\ Height < MaxVersion
    BY <1>18, AcceptedHead, WitnessStoreAssumption DEF RecordLedgerAdvance, Consistent, Classification
  <2>2. pc' = "chain_open" /\ \E e \in Entries : doc' = Append(ChainHead, e)
    BY <1>18, <2>1, PlansAreEntries DEF RecordLedgerAdvance, Signed, Begin
  <2>3. Height + 1 \in Versions
    BY <2>1, WitnessStoreAssumption DEF Versions
  <2> QED BY <1>3, <2>1, <2>2, <2>3, AppendIsDoc
<1>19. ASSUME NEW id \in AuthIds, ExecuteAdvance(id) PROVE Writing'
  BY <1>2, <1>19 DEF ExecuteAdvance, Begin, WritePCs, PublishPCs
<1>20. CASE Reader \/ UNCHANGED vars
  BY <1>4, <1>20 DEF Reader, ReadState, ReadChain, ReadWitness, Issue, vars, storeVars, diskVars
<1>21. CASE Fault
  BY <1>2, <1>21 DEF Fault, IoError, Kill, PowerLoss, WritePCs, PublishPCs
<1> QED
  BY <1>6, <1>7, <1>8, <1>9, <1>10, <1>11, <1>12, <1>13, <1>14, <1>15, <1>16, <1>17, <1>18, <1>19, <1>20, <1>21
  DEF Next, ServiceStep, Request

-----------------------------------------------------------------------------
(***************************************************************************)
(* The lineage: what the files in chain/ say of one another, of the        *)
(* retained authorizations and of the pointer.  A second inductive         *)
(* invariant, relative to the first.                                       *)
(***************************************************************************)

(* The witness `d` extends the durable lineage as an operation of the      *)
(* owner or the signer may: it is the genesis, or a successor whose whole  *)
(* past is durable and whose authorization, if it consumed one, is unused, *)
(* durable, registered and binds both sides of the step.                   *)
Evidence(d) ==
  LET id == Newest(d).auth
      p  == chain[Len(d) - 1]
  IN  id # NoAuth => /\ id \notin Consumed(p)
                     /\ id \in retSynced \cap retLinked /\ retained[id] = "whole"
                     /\ register[id] # NoAuth
                     /\ Binds(register[id], p, Newest(d))

LawfulDoc(d) ==
  \/ d = Genesis
  \/ /\ Len(d) > 1
     /\ \A u \in 1..(Len(d) - 1) : u \in Durable /\ chain[u] = SubSeq(d, 1, u)
     /\ Succeeds(chain[Len(d) - 1], d)
     /\ SingleUse(d)
     /\ Evidence(d)

(* The versions have no gaps, and only the newest may still be lost.       *)
Contiguous ==
  \A v \in Names : \A u \in 1..(v - 1) : u \in Durable

(* Every chain file that parses is lawful.                                 *)
LineageLawful == \A v \in Names : \A d \in Docs \cap {chain[v]} : LawfulDoc(d)

(* So is the document an operation is about to put there, in a free place. *)
DocInProgress ==
  /\ pc \in {"make_dirs", "dirs_fsync"} => doc = Genesis /\ Names = {}
  /\ pc \in {"chain_open", "chain_write"} => \A d \in {doc} : LawfulDoc(d)
  /\ pc = "chain_open" => chain[Len(doc)] = Absent

(* How far the retention of an authorization has got.                      *)
Retention ==
  /\ pc \in RetainPCs => Height \in Durable /\ auth \notin Consumed(ChainHead)
  /\ pc = "retain_open" => retained[auth] = "absent"
  /\ pc = "retain_write" => retained[auth] = "torn"
  /\ pc \in {"retain_fsync", "retain_dir_fsync", "plan"} => retained[auth] = "whole"
  /\ pc \in {"retain_dir_fsync", "plan"} => auth \in retSynced
  /\ pc = "plan" => auth \in retLinked

(* Torn bytes never get under the pointer name, whatever the disk holds.   *)
PointerWhole ==
  /\ pointer # Torn /\ \A s \in stateDisk : s.ptr # Torn
  /\ pc \in {"scratch_fsync", "pointer_replace"} => scratch = doc
  /\ pc = "pointer_replace" => \A s \in stateDisk : s.scr # Torn

(* Nothing but a chain file is there before the genesis is committed.      *)
Untouched ==
  Durable = {} => /\ pointer = Absent /\ scratch = Absent
                  /\ stateDisk = {[ptr |-> Absent, scr |-> Absent]}
                  /\ \A id \in AuthIds : retained[id] = "absent"

(* Only a recovery that discards scratch publishes no document.            *)
Replying ==
  /\ pc = "scratch_remove" => svc = "recovering"
  /\ pc = "state_fsync" /\ svc = "serving" => doc # Torn
  /\ pc = "reply" => doc # Torn

LInv ==
  /\ Contiguous
  /\ LineageLawful
  /\ DocInProgress
  /\ Retention
  /\ PointerWhole
  /\ Untouched
  /\ Replying

(* A durable version is a whole chain file under its own name.             *)
LEMMA DurableFacts ==
  ASSUME TypeOK
  PROVE  \A v \in Durable : /\ v \in Versions /\ v \in Nat /\ v \in Names
                            /\ chain[v] \in Docs /\ Len(chain[v]) = v
<1> USE DocsArePlain
<1> QED BY DEF TypeOK, Durable, Whole, Names, Versions

(* Everything below the newest chain file is durable.                      *)
LEMMA BelowHeight ==
  ASSUME TypeOK, Contiguous, NEW v \in Names, v # Height
  PROVE  v \in Durable
<1>1. v \in Versions /\ Height \in Names /\ v <= Height /\ Height \in Versions
  BY HeightIsHighest DEF Names
<1>2. v \in 1..(Height - 1)
  BY <1>1 DEF Versions
<1> QED BY <1>1, <1>2 DEF Contiguous

(* A store the scan accepts has a committed head, and no torn copy.        *)
LEMMA ConsistentHead ==
  ASSUME IInv, Consistent
  PROVE  /\ Height \in Durable /\ Height \in Versions
         /\ ChainHead \in Docs /\ Len(ChainHead) = Height
         /\ \A id \in AuthIds : retained[id] # "torn"
<1>1. Height \in Versions /\ ChainHead \in Docs /\ Len(ChainHead) = Height /\ pointer = ChainHead
  BY AcceptedHead DEF Consistent, Classification
<1>2. Committed(ChainHead)
  BY <1>1 DEF IInv, Published
<1>3. \A id \in AuthIds : retained[id] # "torn"
  BY DEF Consistent, Classification, Classify, BrokenLineage
<1> QED BY <1>1, <1>2, <1>3, DurableFacts DEF Committed, IInv

(* Who can move the retained copies, the register, and the state directory.*)
LEMMA RetainFrames ==
  ASSUME [Next]_vars
  PROVE  /\ \/ UNCHANGED <<retained, retSynced, retLinked>>
            \/ RetainOpen \/ RetainWrite \/ RetainFsync \/ RetainDirFsync \/ PowerLoss
         /\ \/ UNCHANGED register
            \/ \E id \in AuthIds, kind \in {HEAD, EPOCH}, digest \in Digests : Issue(id, kind, digest)
         /\ \/ UNCHANGED <<pointer, scratch, stateDisk>>
            \/ ScratchOpen \/ ScratchWrite \/ ScratchFsync \/ PointerReplace \/ ScratchRemove \/ StateFsync
            \/ PowerLoss
<1>1. CASE ServiceStep
  BY <1>1 DEF ServiceStep, Start, Recheck, Reply, Plan, MakeDirs, RetainOpen, RetainWrite, RetainFsync,
     RetainDirFsync, ChainOpen, ChainWrite, ChainFsync, ChainDirFsync, ScratchOpen, ScratchWrite,
     ScratchFsync, PointerReplace, ScratchRemove, StateFsync, storeVars, diskVars, ownerVars
<1>2. CASE Request
  BY <1>2 DEF Request, Bootstrap, RecordLedgerAdvance, ExecuteAdvance, Begin, storeVars, diskVars, ownerVars
<1>3. CASE Reader
  BY <1>3 DEF Reader, ReadState, ReadChain, ReadWitness, Issue, storeVars, diskVars
<1>4. CASE Fault
  BY <1>4 DEF Fault, IoError, Kill, PowerLoss, storeVars, diskVars, ownerVars
<1>5. CASE UNCHANGED vars
  BY <1>5 DEF vars, storeVars, diskVars, ownerVars
<1> QED BY <1>1, <1>2, <1>3, <1>4, <1>5 DEF Next

(* What the owner registered stays registered as it is.                    *)
LEMMA RegisterKept ==
  ASSUME TypeOK, [Next]_vars, NEW id \in AuthIds, register[id] # NoAuth
  PROVE  register'[id] = register[id]
BY RetainFrames DEF Issue, TypeOK

(* A durable copy of an authorization is never lost or torn again.         *)
LEMMA CopyKept ==
  ASSUME IInv, LInv, [Next]_vars, dirs = "durable",
         NEW id \in retSynced \cap retLinked, retained[id] = "whole"
  PROVE  id \in retSynced' \cap retLinked' /\ retained'[id] = "whole"
<1>0. TypeOK /\ Retention /\ id \in AuthIds
  BY DEF IInv, LInv, TypeOK
<1>1. CASE RetainOpen
  BY <1>0, <1>1 DEF RetainOpen, Step, Retention, TypeOK, diskVars
<1>2. CASE RetainWrite
  BY <1>0, <1>2 DEF RetainWrite, Step, TypeOK, diskVars
<1>3. CASE RetainFsync \/ RetainDirFsync
  BY <1>0, <1>3 DEF RetainFsync, RetainDirFsync
<1>4. CASE PowerLoss
  <2>1. dirs' = "durable"
    BY <1>4 DEF PowerLoss
  <2> QED BY <1>0, <1>4, <2>1 DEF PowerLoss
<1> QED BY <1>1, <1>2, <1>3, <1>4, RetainFrames

(* A lawful document stays lawful: nothing its evidence rests on is taken  *)
(* away by any step.                                                       *)
LEMMA LawfulKept ==
  ASSUME IInv, LInv, [Next]_vars, NEW d, d \in Docs, LawfulDoc(d)
  PROVE  LawfulDoc(d)'
<1> SUFFICES ASSUME d # Genesis PROVE LawfulDoc(d)'
  BY DEF LawfulDoc
<1>0. TypeOK /\ Len(d) \in Nat
  BY DocsHaveNewest DEF IInv
<1>1. /\ Len(d) > 1
      /\ \A u \in 1..(Len(d) - 1) : u \in Durable /\ chain[u] = SubSeq(d, 1, u)
      /\ Succeeds(chain[Len(d) - 1], d) /\ SingleUse(d) /\ Evidence(d)
  BY DEF LawfulDoc
<1>2. \A u \in 1..(Len(d) - 1) : u \in Durable' /\ chain'[u] = SubSeq(d, 1, u)
  BY <1>1, DurableKept
<1>3. Len(d) - 1 \in Durable /\ chain'[Len(d) - 1] = chain[Len(d) - 1]
  BY <1>0, <1>1, DurableKept
<1>4. Evidence(d)'
  <2> DEFINE id == Newest(d).auth
  <2> SUFFICES ASSUME id # NoAuth
               PROVE  /\ id \notin Consumed(chain'[Len(d) - 1])
                      /\ id \in retSynced' \cap retLinked' /\ retained'[id] = "whole"
                      /\ register'[id] # NoAuth
                      /\ Binds(register'[id], chain'[Len(d) - 1], Newest(d))
    BY DEF Evidence
  <2>1. /\ id \notin Consumed(chain[Len(d) - 1])
        /\ id \in retSynced \cap retLinked /\ retained[id] = "whole"
        /\ register[id] # NoAuth /\ Binds(register[id], chain[Len(d) - 1], Newest(d))
    BY <1>1 DEF Evidence
  <2>2. id \in AuthIds
    BY <1>0, <2>1 DEF TypeOK
  <2>3. dirs = "durable"
    BY <1>0, <1>3, DurableFacts DEF IInv, HomeDurable
  <2>4. register'[id] = register[id]
    BY <1>0, <2>1, <2>2, RegisterKept
  <2>5. id \in retSynced' \cap retLinked' /\ retained'[id] = "whole"
    BY <2>1, <2>3, CopyKept
  <2> QED BY <1>3, <2>1, <2>4, <2>5
<1>5. Succeeds(chain'[Len(d) - 1], d)
  BY <1>1, <1>3
<1> QED BY <1>1, <1>2, <1>4, <1>5 DEF LawfulDoc

(* A document that adds an unused authorization consumes each once.        *)
LEMMA SingleUseAppend ==
  ASSUME NEW p \in Docs, NEW e \in Entries, SingleUse(p), e.auth # NoAuth => e.auth \notin Consumed(p)
  PROVE  SingleUse(Append(p, e))
<1> DEFINE f == Append(p, e)
<1>1. /\ DOMAIN p = 1..Len(p) /\ DOMAIN f = 1..(Len(p) + 1) /\ Len(p) \in Nat
      /\ f[Len(p) + 1] = e /\ \A i \in 1..Len(p) : f[i] = p[i]
  BY AppendIsDoc DEF Docs, Newest
<1> HIDE DEF f
<1>2. \A i \in DOMAIN f : i = Len(p) + 1 \/ i \in DOMAIN p
  BY <1>1
<1>3. \A i \in DOMAIN p : p[i].auth # NoAuth => p[i].auth # e.auth
  BY DEF Consumed
<1>4. SUFFICES ASSUME NEW i \in DOMAIN f, NEW j \in DOMAIN f, f[i].auth = f[j].auth, f[i].auth # NoAuth
               PROVE  i = j
  BY DEF SingleUse, f
<1>5. \A k \in DOMAIN p : f[k] = p[k]
  BY <1>1
<1> QED BY <1>1, <1>2, <1>3, <1>4, <1>5 DEF SingleUse

(* What is lawful has a past that it extends.                              *)
LEMMA LawfulPast ==
  ASSUME NEW d \in Docs, LawfulDoc(d)
  PROVE  /\ SingleUse(d)
         /\ \A u \in 1..Len(d) : u # Len(d) => chain[u] = SubSeq(d, 1, u)
<1>1. SingleUse(Genesis) /\ Len(Genesis) = 1
  BY DEF SingleUse, Genesis
<1>2. Len(d) \in Nat /\ \A u \in 1..Len(d) : u # Len(d) => u \in 1..(Len(d) - 1)
  BY DocsHaveNewest
<1>3. CASE d = Genesis
  <2>1. Len(d) = 1 /\ \A u \in 1..1 : u = 1
    BY <1>1, <1>3
  <2> QED BY <1>1, <1>3, <2>1
<1>4. CASE d # Genesis
  BY <1>2, <1>4 DEF LawfulDoc
<1> QED BY <1>3, <1>4

(* An entry that succeeds the committed head, with evidence if it consumes *)
(* an authorization, gives a lawful document for the next, free version.   *)
LEMMA ExtendLawful ==
  ASSUME IInv, LInv, Height \in Durable, Height + 1 \in Versions,
         NEW e \in Entries, EntrySucceeds(Newest(ChainHead), e),
         e.auth # NoAuth => /\ e.auth \notin Consumed(ChainHead)
                            /\ e.auth \in retSynced \cap retLinked /\ retained[e.auth] = "whole"
                            /\ register[e.auth] # NoAuth
                            /\ Binds(register[e.auth], ChainHead, e)
  PROVE  /\ LawfulDoc(Append(ChainHead, e))
         /\ chain[Len(Append(ChainHead, e))] = Absent
<1> DEFINE d == Append(ChainHead, e)
<1>0. TypeOK /\ Contiguous /\ LineageLawful
  BY DEF IInv, LInv
<1>1. ChainHead \in Docs /\ Len(ChainHead) = Height /\ Height \in Names /\ Height \in Nat \ {0}
  BY <1>0, DurableFacts DEF ChainHead, Versions
<1>2. d \in Docs /\ Len(d) = Height + 1 /\ Newest(d) = e
  BY <1>1, AppendIsDoc
<1>3. LawfulDoc(ChainHead)
  BY <1>0, <1>1 DEF LineageLawful, ChainHead
<1>4. SingleUse(d)
  BY <1>1, <1>3, LawfulPast, SingleUseAppend
<1>5. ASSUME NEW u \in 1..(Len(d) - 1)
      PROVE  u \in Durable /\ chain[u] = SubSeq(d, 1, u)
  <2>1. u \in 1..Height /\ u <= Len(ChainHead)
    BY <1>1, <1>2
  <2>2. u \in Durable
    BY <1>0, <1>1, <2>1 DEF Contiguous
  <2>3. chain[u] = SubSeq(ChainHead, 1, u)
    <3>1. CASE u = Height
      <4>1. SubSeq(ChainHead, 1, Len(ChainHead)) = ChainHead
        BY <1>1 DEF Docs
      <4> QED BY <1>1, <3>1, <4>1 DEF ChainHead
    <3>2. CASE u # Height
      BY <1>1, <1>3, <2>1, <3>2, LawfulPast
    <3> QED BY <3>1, <3>2
  <2>4. SubSeq(d, 1, u) = SubSeq(ChainHead, 1, u)
    BY <1>1, <2>1 DEF Docs
  <2> QED BY <2>2, <2>3, <2>4
<1>6. chain[Len(d) - 1] = ChainHead
  BY <1>1, <1>2 DEF ChainHead
<1>7. Succeeds(ChainHead, d)
  BY <1>2 DEF Succeeds
<1>8. Evidence(d)
  BY <1>2, <1>6 DEF Evidence
<1>9. LawfulDoc(d)
  BY <1>1, <1>2, <1>4, <1>5, <1>6, <1>7, <1>8 DEF LawfulDoc
<1>10. Height + 1 \notin Names
  BY <1>0, <1>1, HeightIsHighest
<1> QED BY <1>2, <1>9, <1>10 DEF Names

(* Every step keeps the versions without a gap.                            *)
LEMMA ContiguousStep ==
  ASSUME IInv, LInv, [Next]_vars
  PROVE  Contiguous'
<1> USE DocsArePlain
<1>0. TypeOK /\ Contiguous /\ Writing /\ DocInProgress
  BY DEF IInv, LInv
<1>1. SUFFICES ASSUME NEW v \in Names', NEW u \in 1..(v - 1)
               PROVE  u \in Durable
  BY DurableKept DEF Contiguous
<1>2. CASE v \in Names
  BY <1>0, <1>1, <1>2 DEF Contiguous
<1>3. CASE ChainOpen /\ v = Len(doc)
  <2>1. LawfulDoc(doc)
    BY <1>0, <1>3 DEF ChainOpen, DocInProgress
  <2>2. v # 1
    BY <1>1
  <2>3. doc # Genesis
    BY <1>3, <2>2, GenesisIsDoc
  <2> QED BY <1>1, <1>3, <2>1, <2>3 DEF LawfulDoc
<1>4. v \in Names \/ (ChainOpen /\ v = Len(doc))
  <2>1. CASE UNCHANGED chain
    BY <1>1, <2>1, ChainUnmoved
  <2>2. CASE ChainOpen
    BY <1>0, <1>1, <2>2 DEF ChainOpen, Names, TypeOK, Versions
  <2>3. CASE ChainWrite
    BY <1>0, <1>1, <2>3 DEF ChainWrite, Step, Writing, WritePCs, Names, TypeOK, Versions
  <2>4. CASE PowerLoss
    BY <1>1, <2>4 DEF PowerLoss, Names, Versions
  <2> QED BY <2>1, <2>2, <2>3, <2>4, Frames
<1> QED BY <1>2, <1>3, <1>4

(* Every step keeps every chain file that parses lawful.                   *)
LEMMA LineageLawfulStep ==
  ASSUME IInv, LInv, [Next]_vars
  PROVE  LineageLawful'
<1> USE DocsArePlain
<1>0. TypeOK /\ LineageLawful /\ Writing /\ DocInProgress
  BY DEF IInv, LInv
<1>1. SUFFICES ASSUME NEW v \in Names', NEW d \in Docs, d = chain'[v]
               PROVE  LawfulDoc(d)
  BY LawfulKept DEF LineageLawful
<1>2. v \in Versions
  BY <1>1 DEF Names, Versions
<1>4. CASE chain'[v] = chain[v]
  <2>1. v \in Names
    BY <1>1, <1>2, <1>4 DEF Names
  <2> QED BY <1>0, <1>1, <1>4, <2>1 DEF LineageLawful
<1>5. CASE ChainWrite /\ chain'[v] = doc
  BY <1>0, <1>1, <1>5 DEF ChainWrite, Step, DocInProgress
<1>6. chain'[v] = chain[v] \/ (ChainWrite /\ chain'[v] = doc)
  <2>1. CASE ChainOpen
    BY <1>0, <1>1, <1>2, <2>1 DEF ChainOpen, TypeOK
  <2>2. CASE ChainWrite
    BY <1>0, <1>2, <2>2 DEF ChainWrite, TypeOK
  <2>3. CASE PowerLoss
    BY <1>1, <1>2, <2>3 DEF PowerLoss
  <2> QED BY <2>1, <2>2, <2>3, Frames
<1> QED BY <1>4, <1>5, <1>6

(* The next entry of a retained authorization, or of a ledger advance, is  *)
(* lawful.                                                                 *)
LEMMA PlannedIsLawful ==
  ASSUME IInv, LInv, NEW p \in Positions, Plan(p), pc' # "idle"
  PROVE  pc' = "chain_open" /\ LawfulDoc(doc') /\ chain[Len(doc')] = Absent
<1> DEFINE a == register[auth]
<1>0. TypeOK /\ Retention /\ Planning /\ pc = "plan"
  BY DEF IInv, LInv, Plan
<1>1. /\ Height \in Durable /\ Height + 1 \in Versions /\ auth \notin Consumed(ChainHead)
      /\ auth \in AuthIds /\ a # NoAuth
      /\ auth \in retSynced \cap retLinked /\ retained[auth] = "whole"
  BY <1>0 DEF Retention, Planning, RetainPCs
<1>2. ChainHead \in Docs /\ a \in Authorizations /\ p \in Nat
  BY <1>0, <1>1, DurableFacts, WitnessStoreAssumption DEF ChainHead, TypeOK
<1>3. pc' = "chain_open" /\ \E e \in Signed(IF a.kind = HEAD THEN PlanRegistryHeadAdvance(ChainHead, auth, a)
                                              ELSE PlanEpochAdvance(ChainHead, auth, a, p)) :
                              doc' = Append(ChainHead, e)
  BY <1>0 DEF Plan
<1>4. PICK e \in Signed(IF a.kind = HEAD THEN PlanRegistryHeadAdvance(ChainHead, auth, a)
                         ELSE PlanEpochAdvance(ChainHead, auth, a, p)) :
        doc' = Append(ChainHead, e)
  BY <1>3
<1>5. e \in Entries /\ EntrySucceeds(Newest(ChainHead), e)
  BY <1>1, <1>2, <1>4, PlansAreEntries DEF Signed
<1>6. e.auth = auth /\ Binds(a, ChainHead, e)
  <2>1. Newest(ChainHead) \in Entries
    BY <1>2, DocsHaveNewest
  <2>2. CASE a.kind = HEAD
    <3>1. e \in PlanRegistryHeadAdvance(ChainHead, auth, a)
      BY <1>4, <2>2 DEF Signed
    <3> QED BY <2>1, <2>2, <3>1 DEF PlanRegistryHeadAdvance, Binds, Entries, HEAD, EPOCH
  <2>3. CASE a.kind # HEAD
    <3>1. e \in PlanEpochAdvance(ChainHead, auth, a, p) /\ a.kind = EPOCH
      BY <1>2, <1>4, <2>3 DEF Signed, Authorizations
    <3> QED BY <3>1 DEF PlanEpochAdvance, Binds
  <2> QED BY <2>2, <2>3
<1> QED BY <1>1, <1>3, <1>4, <1>5, <1>6, ExtendLawful

LEMMA RecordedIsLawful ==
  ASSUME IInv, LInv, NEW p \in Positions, RecordLedgerAdvance(p)
  PROVE  pc' = "chain_open" /\ LawfulDoc(doc') /\ chain[Len(doc')] = Absent
<1>1. /\ Height \in Durable /\ Height + 1 \in Versions /\ ChainHead \in Docs /\ p \in Nat
  BY ConsistentHead, WitnessStoreAssumption DEF RecordLedgerAdvance, Versions
<1>2. PICK e \in Signed(PlanLedgerAdvance(ChainHead, p)) :
        pc' = "chain_open" /\ doc' = Append(ChainHead, e)
  BY DEF RecordLedgerAdvance, Begin
<1>3. e \in Entries /\ EntrySucceeds(Newest(ChainHead), e)
  BY <1>1, <1>2, PlansAreEntries DEF Signed
<1>4. e.auth = NoAuth
  BY <1>1, <1>2, DocsHaveNewest DEF Signed, PlanLedgerAdvance, Entries
<1> QED BY <1>1, <1>2, <1>3, <1>4, ExtendLawful

(* Every step keeps the document in progress lawful and its place free.    *)
LEMMA DocInProgressStep ==
  ASSUME IInv, LInv, [Next]_vars
  PROVE  DocInProgress'
<1> USE DocsArePlain
<1>0. TypeOK /\ Writing /\ DocInProgress
  BY DEF IInv, LInv
<1>1. ASSUME pc' \notin {"make_dirs", "dirs_fsync", "chain_open", "chain_write"}
      PROVE  DocInProgress'
  BY <1>1 DEF DocInProgress
<1>2. ASSUME pc' \in {"make_dirs", "dirs_fsync"}, doc' = Genesis, Names' = {}
      PROVE  DocInProgress'
  BY <1>2 DEF DocInProgress
<1>3. ASSUME pc' = "chain_open", NEW d \in Docs, d = doc', LawfulDoc(d), chain[Len(d)] = Absent, UNCHANGED chain
      PROVE  DocInProgress'
  BY <1>3, LawfulKept DEF DocInProgress
<1>4. CASE Bootstrap
  <2>1. Names = {}
    BY <1>4 DEF Bootstrap, Classify, Classification, BrokenLineage, Automatic, PointerClass, ScratchClass
  <2>2. pc' = "make_dirs" /\ doc' = Genesis /\ UNCHANGED chain
    BY <1>4 DEF Bootstrap, Begin, storeVars
  <2> QED BY <1>2, <2>1, <2>2, ChainUnmoved
<1>5. CASE MakeDirs
  <2>1. pc = "make_dirs" /\ pc' = "dirs_fsync" /\ doc' = doc /\ UNCHANGED chain
    BY <1>5 DEF MakeDirs, Step
  <2> QED BY <1>0, <1>2, <2>1, ChainUnmoved DEF DocInProgress
<1>6. CASE StateFsync
  <2>1. CASE pc = "dirs_fsync"
    <3>1. pc' = "chain_open" /\ doc' = Genesis /\ UNCHANGED chain /\ Names = {}
      BY <1>0, <1>6, <2>1 DEF StateFsync, Step, DocInProgress
    <3>2. chain[Len(Genesis)] = Absent
      BY <3>1, GenesisIsDoc, WitnessStoreAssumption DEF Names, Versions
    <3> QED BY <1>3, <3>1, <3>2, GenesisIsDoc DEF LawfulDoc
  <2>2. CASE pc # "dirs_fsync"
    BY <1>1, <1>6, <2>2 DEF StateFsync, Step
  <2> QED BY <2>1, <2>2
<1>7. CASE ChainOpen
  <2>1. doc \in Docs /\ LawfulDoc(doc)
    BY <1>0, <1>7 DEF ChainOpen, Writing, WritePCs, DocInProgress
  <2>2. CASE pc' = "chain_write"
    <3>1. doc' = doc
      BY <1>7, <2>2 DEF ChainOpen
    <3> QED BY <2>1, <2>2, <3>1, LawfulKept DEF DocInProgress
  <2>3. CASE pc' # "chain_write"
    BY <1>1, <1>7, <2>3 DEF ChainOpen
  <2> QED BY <2>2, <2>3
<1>8. ASSUME NEW p \in Positions, Plan(p) PROVE DocInProgress'
  <2>1. CASE pc' = "idle"
    BY <1>1, <2>1
  <2>2. CASE pc' # "idle"
    <3>1. doc' \in Docs
      BY <1>8, <2>2, PlannedIsLawful, WritingStep DEF Writing, WritePCs
    <3>2. UNCHANGED chain
      BY <1>8 DEF Plan, storeVars
    <3> QED BY <1>3, <1>8, <2>2, <3>1, <3>2, PlannedIsLawful
  <2> QED BY <2>1, <2>2
<1>9. ASSUME NEW p \in Positions, RecordLedgerAdvance(p) PROVE DocInProgress'
  <2>1. doc' \in Docs
    BY <1>9, RecordedIsLawful, WritingStep DEF Writing, WritePCs
  <2>2. UNCHANGED chain
    BY <1>9 DEF RecordLedgerAdvance, Begin, storeVars
  <2> QED BY <1>3, <1>9, <2>1, <2>2, RecordedIsLawful
<1>10. CASE Reader \/ UNCHANGED vars
  <2>1. UNCHANGED <<chain, pc, doc>>
    BY <1>10 DEF Reader, ReadState, ReadChain, ReadWitness, Issue, vars, storeVars
  <2>2. pc \in {"chain_open", "chain_write"} => doc \in Docs /\ LawfulDoc(doc)
    BY <1>0 DEF DocInProgress, Writing, WritePCs
  <2> QED BY <1>0, <2>1, <2>2, ChainUnmoved, LawfulKept DEF DocInProgress
<1>11. CASE Start
  BY <1>1, <1>11 DEF Start
<1>12. CASE \/ Recheck \/ Reply \/ RetainOpen \/ RetainWrite \/ RetainFsync \/ RetainDirFsync \/ ChainWrite
            \/ ChainFsync \/ ChainDirFsync \/ ScratchOpen \/ ScratchWrite \/ ScratchFsync \/ PointerReplace
            \/ ScratchRemove
  BY <1>1, <1>12 DEF Recheck, Reply, RetainOpen, RetainWrite, RetainFsync, RetainDirFsync, ChainWrite, ChainFsync,
     ChainDirFsync, ScratchOpen, ScratchWrite, ScratchFsync, PointerReplace, ScratchRemove, Step
<1>13. ASSUME NEW id \in AuthIds, ExecuteAdvance(id) PROVE DocInProgress'
  BY <1>1, <1>13 DEF ExecuteAdvance, Begin
<1>14. CASE Fault
  BY <1>1, <1>14 DEF Fault, IoError, Kill, PowerLoss
<1> QED
  BY <1>4, <1>5, <1>6, <1>7, <1>8, <1>9, <1>10, <1>11, <1>12, <1>13, <1>14 DEF Next, ServiceStep, Request

(* Every step keeps a retention in progress on the committed head, and its *)
(* copy where the last storage call left it.                               *)
LEMMA RetentionStep ==
  ASSUME IInv, LInv, [Next]_vars
  PROVE  Retention'
<1>0. TypeOK /\ Retention /\ Planning
  BY DEF IInv, LInv
<1>1. ASSUME pc' \notin RetainPCs
      PROVE  Retention'
  BY <1>1 DEF Retention, RetainPCs
<1>2. ASSUME UNCHANGED chain, Height \in Durable
      PROVE  Height' \in Durable' /\ ChainHead' = ChainHead
  BY <1>2, ChainUnmoved, DurableKept
<1>3. pc \in RetainPCs => auth \in AuthIds /\ Height \in Durable /\ auth \notin Consumed(ChainHead)
  BY <1>0 DEF Retention, Planning
<1>4. CASE RetainOpen \/ RetainWrite \/ RetainFsync \/ RetainDirFsync
  <2>1. /\ UNCHANGED <<chain, auth>> /\ pc \in RetainPCs /\ pc' \in RetainPCs
    BY <1>4 DEF RetainOpen, RetainWrite, RetainFsync, RetainDirFsync, Step, RetainPCs
  <2>2. Height' \in Durable' /\ auth' \notin Consumed(ChainHead')
    BY <1>2, <1>3, <2>1
  <2>3. CASE RetainOpen
    <3>1. pc' = "retain_write" /\ retained'[auth'] = "torn"
      BY <1>0, <1>3, <2>1, <2>3 DEF RetainOpen, Step, TypeOK
    <3> QED BY <2>2, <3>1 DEF Retention
  <2>4. CASE RetainWrite
    <3>1. pc' = "retain_fsync" /\ retained'[auth'] = "whole"
      BY <1>0, <1>3, <2>1, <2>4 DEF RetainWrite, Step, TypeOK
    <3> QED BY <2>2, <3>1 DEF Retention
  <2>5. CASE RetainFsync
    <3>1. pc' = "retain_dir_fsync" /\ retained'[auth'] = "whole" /\ auth' \in retSynced'
      BY <1>0, <2>1, <2>5 DEF RetainFsync, Step, Retention
    <3> QED BY <2>2, <3>1 DEF Retention
  <2>6. CASE RetainDirFsync
    <3>1. pc' = "plan" /\ retained'[auth'] = "whole" /\ auth' \in retSynced' /\ auth' \in retLinked'
      BY <1>0, <1>3, <2>1, <2>6 DEF RetainDirFsync, Step, Retention
    <3> QED BY <2>2, <3>1 DEF Retention
  <2> QED BY <1>4, <2>3, <2>4, <2>5, <2>6
<1>5. ASSUME NEW id \in AuthIds, ExecuteAdvance(id) PROVE Retention'
  <2>1. /\ Height \in Durable /\ id \notin Consumed(ChainHead) /\ retained[id] # "torn"
        /\ UNCHANGED <<chain, retained>> /\ auth' = id
        /\ pc' = IF retained[id] = "absent" THEN "retain_open" ELSE "retain_fsync"
    BY <1>5, ConsistentHead DEF ExecuteAdvance, Begin, storeVars
  <2>2. retained[id] \in {"absent", "whole"}
    BY <1>0, <2>1 DEF TypeOK
  <2>3. Height' \in Durable' /\ auth' \notin Consumed(ChainHead')
    BY <1>2, <2>1
  <2> QED BY <2>1, <2>2, <2>3 DEF Retention
<1>6. CASE Reader \/ UNCHANGED vars
  <2>1. UNCHANGED <<chain, pc, auth, retained, retSynced, retLinked>>
    BY <1>6 DEF Reader, ReadState, ReadChain, ReadWitness, Issue, vars, storeVars, diskVars
  <2> QED BY <1>0, <1>2, <2>1 DEF Retention
<1>7. CASE Start \/ Recheck \/ Reply
  BY <1>1, <1>7 DEF Start, Recheck, Reply, RetainPCs
<1>8. ASSUME NEW p \in Positions, Plan(p) PROVE Retention'
  BY <1>1, <1>8 DEF Plan, RetainPCs
<1>9. CASE \/ MakeDirs \/ ChainOpen \/ ChainWrite \/ ChainFsync \/ ChainDirFsync \/ ScratchOpen \/ ScratchWrite
           \/ ScratchFsync \/ PointerReplace \/ ScratchRemove \/ StateFsync
  BY <1>1, <1>9 DEF MakeDirs, ChainOpen, ChainWrite, ChainFsync, ChainDirFsync, ScratchOpen, ScratchWrite,
     ScratchFsync, PointerReplace, ScratchRemove, StateFsync, Step, RetainPCs
<1>10. CASE Bootstrap \/ \E p \in Positions : RecordLedgerAdvance(p)
  BY <1>1, <1>10 DEF Bootstrap, RecordLedgerAdvance, Begin, RetainPCs
<1>11. CASE Fault
  BY <1>1, <1>11 DEF Fault, IoError, Kill, PowerLoss, RetainPCs
<1> QED BY <1>4, <1>5, <1>6, <1>7, <1>8, <1>9, <1>10, <1>11 DEF Next, ServiceStep, Request

(* Every step keeps torn bytes away from the pointer name.                 *)
LEMMA PointerWholeStep ==
  ASSUME IInv, LInv, [Next]_vars
  PROVE  PointerWhole'
<1> USE DocsArePlain
<1>0. TypeOK /\ Writing /\ PointerWhole
  BY DEF IInv, LInv
<1>1. ASSUME UNCHANGED <<pointer, scratch, stateDisk, doc>>, pc' = pc \/ pc' \notin {"scratch_fsync", "pointer_replace"}
      PROVE  PointerWhole'
  BY <1>0, <1>1 DEF PointerWhole
<1>2. ASSUME UNCHANGED <<pointer, scratch, stateDisk>>, pc' \notin {"scratch_fsync", "pointer_replace"}
      PROVE  PointerWhole'
  BY <1>0, <1>2 DEF PointerWhole
<1>3. CASE ScratchOpen \/ ScratchWrite \/ ScratchFsync \/ ScratchRemove \/ StateFsync
  BY <1>0, <1>3 DEF ScratchOpen, ScratchWrite, ScratchFsync, ScratchRemove, StateFsync, Step, PointerWhole
<1>4. CASE PointerReplace
  <2>1. scratch = doc /\ doc # Torn /\ pc' = "state_fsync" /\ pointer' = scratch /\ \A s \in stateDisk : s.scr # Torn
    BY <1>0, <1>4 DEF PointerReplace, Step, PointerWhole, Writing, WritePCs, PublishPCs
  <2> QED BY <1>0, <1>4, <2>1 DEF PointerReplace, PointerWhole
<1>5. CASE PowerLoss
  BY <1>0, <1>5 DEF PowerLoss, PointerWhole
<1>6. CASE \/ Start \/ Recheck \/ Reply \/ MakeDirs \/ RetainOpen \/ RetainWrite \/ RetainFsync \/ RetainDirFsync
           \/ ChainOpen \/ ChainWrite \/ ChainFsync \/ ChainDirFsync \/ \E p \in Positions : Plan(p)
  BY <1>2, <1>6 DEF Start, Recheck, Reply, MakeDirs, RetainOpen, RetainWrite, RetainFsync, RetainDirFsync,
     ChainOpen, ChainWrite, ChainFsync, ChainDirFsync, Plan, Step, storeVars, diskVars
<1>7. CASE Request
  BY <1>2, <1>7 DEF Request, Bootstrap, RecordLedgerAdvance, ExecuteAdvance, Begin, storeVars, diskVars
<1>8. CASE Reader \/ IoError \/ Kill \/ UNCHANGED vars
  BY <1>1, <1>2, <1>8 DEF Reader, ReadState, ReadChain, ReadWitness, Issue, IoError, Kill, vars, storeVars, diskVars
<1> QED BY <1>3, <1>4, <1>5, <1>6, <1>7, <1>8 DEF Next, ServiceStep, Fault

(* Every step keeps the rest of the store empty until the genesis is       *)
(* committed.                                                              *)
LEMMA UntouchedStep ==
  ASSUME IInv, LInv, [Next]_vars
  PROVE  Untouched'
<1> DEFINE Empty == [ptr |-> Absent, scr |-> Absent]
<1>0. TypeOK /\ Writing /\ Retention /\ Untouched
  BY DEF IInv, LInv
<1>1. SUFFICES ASSUME Durable = {}
               PROVE  /\ pointer' = Absent /\ scratch' = Absent /\ stateDisk' = {Empty}
                      /\ \A id \in AuthIds : retained'[id] = "absent"
  BY DurableKept DEF Untouched
<1>2. /\ pointer = Absent /\ scratch = Absent /\ stateDisk = {Empty}
      /\ \A id \in AuthIds : retained[id] = "absent"
  BY <1>0, <1>1 DEF Untouched
<1>3. pc \notin RetainPCs \cup PublishPCs
  <2>1. pc \in PublishPCs => doc # Torn
    BY <1>0, DocsArePlain DEF Writing, WritePCs
  <2> QED BY <1>0, <1>1, <2>1 DEF Retention, Writing, Committed
<1>4. /\ ~RetainOpen /\ ~RetainWrite /\ ~RetainFsync /\ ~RetainDirFsync
      /\ ~ScratchOpen /\ ~ScratchWrite /\ ~ScratchFsync /\ ~PointerReplace
  BY <1>3 DEF RetainOpen, RetainWrite, RetainFsync, RetainDirFsync, ScratchOpen, ScratchWrite, ScratchFsync,
     PointerReplace, Step, RetainPCs, PublishPCs
<1>5. pointer' = Absent /\ scratch' = Absent /\ stateDisk' = {Empty}
  <2>1. CASE UNCHANGED <<pointer, scratch, stateDisk>>
    BY <1>2, <2>1
  <2>2. CASE ScratchRemove
    BY <1>2, <2>2 DEF ScratchRemove
  <2>3. CASE StateFsync
    BY <1>2, <2>3 DEF StateFsync
  <2>4. CASE PowerLoss
    BY <1>2, <2>4 DEF PowerLoss
  <2> QED BY <1>4, <2>1, <2>2, <2>3, <2>4, RetainFrames
<1>6. \A id \in AuthIds : retained'[id] = "absent"
  <2>1. CASE PowerLoss
    BY <1>2, <2>1 DEF PowerLoss
  <2> QED BY <1>2, <1>4, <2>1, RetainFrames
<1> QED BY <1>5, <1>6

(* Every step keeps a document with every reply.                           *)
LEMMA ReplyingStep ==
  ASSUME IInv, LInv, [Next]_vars
  PROVE  Replying'
<1>0. TypeOK /\ Writing /\ Replying
  BY DEF IInv, LInv
<1>1. ASSUME pc' \notin {"scratch_remove", "state_fsync", "reply"}
      PROVE  Replying'
  BY <1>1 DEF Replying
<1>2. CASE PointerReplace
  <2>1. doc # Torn
    BY <1>0, <1>2, DocsArePlain DEF PointerReplace, Step, Writing, WritePCs, PublishPCs
  <2> QED BY <1>2, <2>1 DEF PointerReplace, Step, Replying
<1>3. CASE ScratchRemove \/ StateFsync
  BY <1>0, <1>3 DEF ScratchRemove, StateFsync, Step, Replying
<1>4. CASE Start
  BY <1>4 DEF Start, Replying
<1>5. CASE Reader \/ UNCHANGED vars
  <2>1. UNCHANGED <<pc, svc, doc>>
    BY <1>5 DEF Reader, ReadState, ReadChain, ReadWitness, Issue, vars
  <2> QED BY <1>0, <2>1 DEF Replying
<1>6. CASE \/ Recheck \/ Reply \/ MakeDirs \/ RetainOpen \/ RetainWrite \/ RetainFsync \/ RetainDirFsync
           \/ ChainOpen \/ ChainWrite \/ ChainFsync \/ ChainDirFsync \/ ScratchOpen \/ ScratchWrite \/ ScratchFsync
           \/ \E p \in Positions : Plan(p)
  BY <1>1, <1>6 DEF Recheck, Reply, MakeDirs, RetainOpen, RetainWrite, RetainFsync, RetainDirFsync, ChainOpen,
     ChainWrite, ChainFsync, ChainDirFsync, ScratchOpen, ScratchWrite, ScratchFsync, Plan, Step
<1>7. CASE Request
  BY <1>1, <1>7 DEF Request, Bootstrap, RecordLedgerAdvance, ExecuteAdvance, Begin
<1>8. CASE Fault
  BY <1>1, <1>8 DEF Fault, IoError, Kill, PowerLoss
<1> QED BY <1>2, <1>3, <1>4, <1>5, <1>6, <1>7, <1>8 DEF Next, ServiceStep

(* The initial states satisfy what is said of the lineage ...              *)
LEMMA LineageInit == Init => LInv
<1> SUFFICES ASSUME Init PROVE LInv
  OBVIOUS
<1> USE DocsArePlain
<1>1. Names = {}
  BY DEF Init, Names
<1>2. Contiguous /\ LineageLawful
  BY <1>1 DEF Contiguous, LineageLawful
<1>3. DocInProgress /\ Retention /\ PointerWhole /\ Untouched /\ Replying
  BY DEF Init, DocInProgress, Retention, PointerWhole, Untouched, Replying, RetainPCs
<1> QED BY <1>2, <1>3 DEF LInv

(* ... and every step keeps it.                                            *)
LEMMA LineageStep ==
  ASSUME IInv, LInv, [Next]_vars
  PROVE  LInv'
BY ContiguousStep, LineageLawfulStep, DocInProgressStep, RetentionStep, PointerWholeStep, UntouchedStep, ReplyingStep
DEF LInv

-----------------------------------------------------------------------------
(***************************************************************************)
(* The theorems.                                                           *)
(***************************************************************************)

(* The initial states satisfy the inductive invariant.                     *)
LEMMA InitHolds == Init => IInv
<1> SUFFICES ASSUME Init PROVE IInv
  OBVIOUS
<1> USE DocsArePlain
<1>1. Names = {}
  BY DEF Init, Names
<1>2. TypeOK
  <2>1. faults \in [kills: 0..MaxKills, losses: 0..MaxPowerLosses, errors: 0..MaxIoErrors]
    BY WitnessStoreAssumption DEF Init
  <2> QED BY <2>1 DEF Init, TypeOK, Files, StateEntries, NoView, PCs
<1>3. ChainNamed /\ HomeDurable /\ Planning /\ Writing
  BY <1>1 DEF Init, ChainNamed, HomeDurable, Planning, Writing, RetainPCs, WritePCs, PublishPCs
<1>4. Published /\ ReportedSurvives
  BY DEF Init, Published, ReportedSurvives, NoView
<1> QED BY <1>2, <1>3, <1>4 DEF IInv

(* Every step keeps the inductive invariant.                               *)
LEMMA InvariantStep == IInv /\ [Next]_vars => IInv'
BY TypeStep, ChainNamedStep, HomeDurableStep, PlanningStep, WritingStep, PublishedStep, ReportedStep DEF IInv

(* The inductive invariant holds in every reachable state.                 *)
THEOREM Invariance == Spec => []IInv
BY InitHolds, InvariantStep, PTL DEF Spec

(* Every variable of the service, its store and its readers keeps its type *)
(* through every interleaving of storage calls, readers and faults.        *)
THEOREM TypeCorrect == Spec => []TypeOK
<1>1. IInv => TypeOK
  BY DEF IInv
<1> QED BY <1>1, Invariance, PTL

(* A witness the service returned, or a lock-free reader accepted, is      *)
(* never lost: for every number of versions, authorizations, kills, power  *)
(* losses and failing storage calls.                                       *)
THEOREM ReportedIsNeverLost == Spec => []ReportedSurvives
<1>1. IInv => ReportedSurvives
  BY DEF IInv
<1> QED BY <1>1, Invariance, PTL

(* A committed witness is never rewritten, removed or replaced.            *)
THEOREM CommittedIsForever == Spec => AppendOnly
<1>1. IInv /\ [Next]_vars => [\A v \in Durable : v \in Durable' /\ chain'[v] = chain[v]]_vars
  BY DurableKept
<1> QED BY <1>1, Invariance, PTL DEF Spec, AppendOnly

(* What is said of the lineage holds in every reachable state.             *)
THEOREM LineageInvariance == Spec => []LInv
<1>1. IInv /\ LInv /\ [Next]_vars => LInv'
  BY LineageStep
<1> QED BY <1>1, LineageInit, Invariance, PTL DEF Spec

(* The pointer is absent, the head, or behind it.                          *)
LEMMA PointerClassIsKnown ==
  ASSUME IInv, LInv, Names # {}
  PROVE  PointerClass(pointer) \in {"POINTER_MISSING", "CONSISTENT", "POINTER_BEHIND_BY_ONE", "POINTER_BEHIND_MULTI"}
<1> USE DocsArePlain
<1>0. TypeOK /\ Published /\ PointerWhole
  BY DEF IInv, LInv
<1>1. pointer = Absent \/ pointer \in Docs
  BY <1>0 DEF TypeOK, Files, PointerWhole
<1>2. CASE pointer = Absent
  BY <1>2 DEF PointerClass
<1>3. CASE pointer \in Docs
  <2>1. PICK v \in Durable : chain[v] = pointer
    BY <1>0, <1>3 DEF Published, Committed
  <2>2. v \in Names /\ v \in Nat /\ v <= Height /\ Height \in Nat
    BY <1>0, <2>1, DurableFacts, HeightIsHighest DEF Names, Versions
  <2>3. CASE v = Height
    BY <1>3, <2>1, <2>3 DEF PointerClass, ChainHead
  <2>4. CASE v # Height
    <3>1. v + 1 = Height \/ v + 1 < Height
      BY <2>2, <2>4
    <3> QED BY <1>3, <2>1, <2>2, <3>1 DEF PointerClass
  <2> QED BY <2>3, <2>4
<1> QED BY <1>1, <1>2, <1>3

(* What is committed accuses nobody.                                       *)
LEMMA LineageAccusesNobody == IInv /\ LInv => NoFalseAlarm
<1> SUFFICES ASSUME IInv, LInv PROVE NoFalseAlarm
  OBVIOUS
<1> USE DocsArePlain
<1>0. TypeOK /\ ChainNamed /\ Published /\ Contiguous /\ LineageLawful /\ PointerWhole /\ Untouched
  BY DEF IInv, LInv
<1>1. CASE Names = {}
  <2>1. Durable = {}
    BY <1>0, <1>1, DurableFacts
  <2>2. pointer = Absent /\ scratch = Absent /\ \A id \in AuthIds : retained[id] = "absent"
    BY <1>0, <2>1 DEF Untouched
  <2>3. Classification = "UNINITIALIZED"
    BY <1>1, <2>2 DEF Classification, Classify
  <2> QED BY <2>3 DEF NoFalseAlarm
<1>2. CASE Names # {}
  <2>1. /\ Height \in Names /\ Height \in Versions /\ Height \in Nat
        /\ \A v \in 1..Height : v \in Names /\ v \in Versions
    <3>1. Height \in Names /\ Height \in Versions
      BY <1>2, HeightIsHighest DEF Names
    <3>2. \A v \in 1..Height : v = Height \/ v \in 1..(Height - 1)
      BY <3>1 DEF Versions
    <3>3. \A v \in 1..(Height - 1) : v \in Names /\ v \in Versions
      BY <1>0, <3>1, DurableFacts DEF Contiguous
    <3> QED BY <3>1, <3>2, <3>3 DEF Versions
  <2>2. chain[1] # Absent /\ (Whole(1) => chain[1] = Genesis)
    <3>1. 1 \in Names
      BY <2>1 DEF Versions
    <3>2. ASSUME Whole(1) PROVE chain[1] = Genesis
      <4>1. LawfulDoc(chain[1]) /\ Len(chain[1]) = 1
        BY <1>0, <3>1, <3>2 DEF LineageLawful, Whole
      <4> QED BY <4>1 DEF LawfulDoc
    <3> QED BY <3>1, <3>2 DEF Names
  <2>3. ASSUME NEW v \in 2..Height, Whole(v)
        PROVE  Succeeds(chain[v - 1], chain[v]) /\ Evidence(chain[v])
    <3>1. v \in Names /\ chain[v] \in Docs /\ Len(chain[v]) = v
      BY <2>1, <2>3 DEF Whole, Versions
    <3>2. v # 1
      BY <2>3
    <3>3. LawfulDoc(chain[v]) /\ chain[v] # Genesis
      BY <1>0, <3>1, <3>2, GenesisIsDoc DEF LineageLawful
    <3> QED BY <3>1, <3>3 DEF LawfulDoc
  <2>4. Breaks # {} => BrokenLineage(Min(Breaks), pointer) \in {"TORN_TAIL", "CHAIN_CORRUPT"}
    <3>1. Breaks \in SUBSET (1..Height)
      BY <2>1 DEF Breaks
    <3>2. Breaks # {} => Min(Breaks) \in Breaks
      BY <2>1, <3>1, MinExists
    <3>3. \A v \in Breaks : chain[v] # Absent /\ ~Whole(v)
      BY <2>1, <2>3 DEF Breaks, Names
    <3> QED BY <3>2, <3>3 DEF BrokenLineage
  <2>5. ASSUME Whole(1), Breaks = {}
        PROVE  SingleUse(ChainHead) /\ HistoryVerified
    <3>1. \A v \in 1..Height : Whole(v)
      BY <2>1, <2>5 DEF Breaks, Versions
    <3>2. SingleUse(ChainHead)
      <4>1. ChainHead \in Docs /\ LawfulDoc(ChainHead)
        BY <1>0, <2>1, <3>1 DEF LineageLawful, Whole, ChainHead, Versions
      <4> QED BY <4>1, LawfulPast
    <3>3. HistoryVerified
      <4> SUFFICES ASSUME NEW v \in 2..Height, Newest(chain[v]).auth # NoAuth
                   PROVE  LET id == Newest(chain[v]).auth
                          IN  /\ retained[id] = "whole" /\ register[id] # NoAuth
                              /\ Binds(register[id], chain[v - 1], Newest(chain[v]))
        BY DEF HistoryVerified
      <4>1. Whole(v) /\ Len(chain[v]) = v
        BY <2>1, <3>1 DEF Whole, Versions
      <4>2. Evidence(chain[v])
        BY <2>3, <4>1
      <4> QED BY <4>1, <4>2 DEF Evidence
    <3> QED BY <3>2, <3>3
  <2>6. PointerClass(pointer) \in {"POINTER_MISSING", "CONSISTENT", "POINTER_BEHIND_BY_ONE", "POINTER_BEHIND_MULTI"}
    BY <1>2, PointerClassIsKnown
  <2>7. ScratchClass(scratch, PointerClass(pointer)) = PointerClass(pointer)
    <3>1. scratch \in {Absent, Torn} \/ scratch \in {chain[v] : v \in Names}
      <4>1. scratch \in Docs => \E v \in Durable : chain[v] = scratch
        BY <1>0 DEF Published, Committed
      <4> QED BY <1>0, <4>1, DurableFacts DEF TypeOK, Files
    <3> QED BY <3>1 DEF ScratchClass
  <2>8. Classification \in {"CHAIN_CORRUPT", "TORN_TAIL", "RETENTION_CORRUPT", "POINTER_MISSING", "CONSISTENT",
                            "POINTER_BEHIND_BY_ONE", "POINTER_BEHIND_MULTI"}
    BY <1>2, <2>2, <2>4, <2>5, <2>6, <2>7 DEF Classification, Classify
  <2> QED BY <2>8 DEF NoFalseAlarm
<1> QED BY <1>1, <1>2

(* Kills, power losses and failing calls alone, whatever their number and  *)
(* order, never make the scan accuse anyone of a fork, a replay, a lost    *)
(* chain, an unverified history or a pointer ahead of the chain.           *)
THEOREM CrashesAccuseNobody == Spec => []NoFalseAlarm
BY LineageAccusesNobody, LineageInvariance, Invariance, PTL

(* Every transition in chain/ has its authorization durable, registered    *)
(* and binding, before it is visible and ever after.                       *)
THEOREM EvidenceIsDurable == Spec => []EvidenceBeforeEntry
<1>1. ASSUME IInv, LInv PROVE EvidenceBeforeEntry
  <2> USE DocsArePlain
  <2>0. TypeOK /\ LineageLawful
    BY <1>1 DEF IInv, LInv
  <2> SUFFICES ASSUME NEW v \in 2..MaxVersion, Whole(v), Newest(chain[v]).auth # NoAuth
               PROVE  LET id == Newest(chain[v]).auth
                      IN  /\ id \in retSynced \cap retLinked /\ retained[id] = "whole"
                          /\ register[id] # NoAuth
                          /\ Binds(register[id], chain[v - 1], Newest(chain[v]))
    BY DEF EvidenceBeforeEntry
  <2>1. v \in Versions /\ v # 1 /\ chain[v] \in Docs /\ Len(chain[v]) = v
    BY WitnessStoreAssumption DEF Whole, Versions
  <2>2. LawfulDoc(chain[v]) /\ chain[v] # Genesis
    BY <2>0, <2>1, GenesisIsDoc DEF LineageLawful, Names
  <2> QED BY <2>1, <2>2 DEF LawfulDoc, Evidence
<1> QED BY <1>1, LineageInvariance, Invariance, PTL

-----------------------------------------------------------------------------
(***************************************************************************)
(* The refinement: the durable lineage is the log of WitnessLog.           *)
(***************************************************************************)

(* Both modules extend WitnessV2 with the same constants.                  *)
LEMMA SameWitness ==
  /\ Log!HEAD = HEAD /\ Log!EPOCH = EPOCH /\ Log!GenesisEntry = GenesisEntry
  /\ \A d : Log!Newest(d) = Newest(d) /\ Log!Consumed(d) = Consumed(d)
  /\ \A e, f : Log!EntrySucceeds(e, f) <=> EntrySucceeds(e, f)
  /\ \A a, p, f : Log!Binds(a, p, f) <=> Binds(a, p, f)
  /\ \A kind, d, digest : Log!AuthorizationFor(kind, d, digest) = AuthorizationFor(kind, d, digest)
<1>1. Log!HEAD = HEAD /\ Log!EPOCH = EPOCH /\ Log!GenesisEntry = GenesisEntry
  BY DEF HEAD, EPOCH, GenesisEntry, Log!HEAD, Log!EPOCH, Log!GenesisEntry
<1>2. \A d : Log!Newest(d) = Newest(d) /\ Log!Consumed(d) = Consumed(d)
  BY DEF Newest, Consumed, Log!Newest, Log!Consumed
<1>3. \A e, f : Log!EntrySucceeds(e, f) <=> EntrySucceeds(e, f)
  BY DEF EntrySucceeds, Log!EntrySucceeds
<1>4. \A a, p, f : Log!Binds(a, p, f) <=> Binds(a, p, f)
  BY <1>1, <1>2 DEF Binds, Log!Binds
<1>5. \A kind, d, digest : Log!AuthorizationFor(kind, d, digest) = AuthorizationFor(kind, d, digest)
  BY <1>2 DEF AuthorizationFor, Log!AuthorizationFor
<1> QED BY <1>1, <1>2, <1>3, <1>4, <1>5

(* The durable versions are the first ones, without a gap.                 *)
LEMMA DurableIsInitial ==
  ASSUME TypeOK, Contiguous, Durable # {}
  PROVE  /\ Max(Durable) \in Durable
         /\ \A v \in Durable : v <= Max(Durable)
         /\ \A v \in 1..Max(Durable) : v \in Durable
<1>1. MaxVersion \in Nat /\ Durable \in SUBSET (1..MaxVersion)
  BY WitnessStoreAssumption, DurableFacts DEF Versions
<1>2. Max(Durable) \in Durable /\ \A v \in Durable : v <= Max(Durable)
  BY <1>1, MaxExists
<1>3. \A v \in 1..(Max(Durable) - 1) : v \in Durable
  BY <1>2, DurableFacts DEF Contiguous
<1>4. Max(Durable) \in Nat
  <2>1. Max(Durable) \in 1..MaxVersion
    BY <1>1, <1>2
  <2> QED BY <1>1, <2>1
<1>5. \A v \in 1..Max(Durable) : v = Max(Durable) \/ v \in 1..(Max(Durable) - 1)
  BY <1>4
<1> QED BY <1>2, <1>3, <1>5

(* A committed witness is a prefix of the log.                             *)
LEMMA CommittedIsPrefix ==
  ASSUME IInv, LInv, NEW d, Committed(d)
  PROVE  d \in Log!Prefixes
<1> DEFINE n == Max(Durable)
<1>0. TypeOK /\ Contiguous /\ LineageLawful /\ Durable # {}
  BY DEF IInv, LInv, Committed
<1>1. PICK v \in Durable : chain[v] = d
  BY DEF Committed
<1>2. n \in Durable /\ v <= n
  BY <1>0, DurableIsInitial
<1>3. /\ chain[n] \in Docs /\ Len(chain[n]) = n /\ n \in Names /\ n \in Nat
      /\ v \in Nat \ {0} /\ d \in Docs /\ Len(d) = v
  BY <1>0, <1>1, <1>2, DurableFacts DEF Versions
<1>4. LawfulDoc(chain[n])
  BY <1>0, <1>3 DEF LineageLawful
<1>5. chain[v] = SubSeq(chain[n], 1, v)
  <2>1. CASE v = n
    <3>1. SubSeq(d, 1, Len(d)) = d
      BY <1>3 DEF Docs
    <3> QED BY <1>1, <1>3, <2>1, <3>1
  <2>2. CASE v # n
    <3>1. v \in 1..Len(chain[n]) /\ v # Len(chain[n])
      BY <1>2, <1>3, <2>2
    <3> QED BY <1>3, <1>4, <3>1, LawfulPast
  <2> QED BY <2>1, <2>2
<1>6. v \in 1..Len(CommittedLog) /\ d = SubSeq(CommittedLog, 1, v)
  BY <1>0, <1>1, <1>2, <1>3, <1>5 DEF CommittedLog
<1> QED BY <1>6 DEF Log!Prefixes

(* A step that makes a version durable makes durable the next one only,    *)
(* lawfully, and reports nothing.                                          *)
LEMMA LogGrows ==
  ASSUME IInv, LInv, IInv', LInv', [Next]_vars, CommittedLog' # CommittedLog
  PROVE  Log!Commit
<1> USE DocsArePlain
<1>0. /\ TypeOK /\ Contiguous /\ TypeOK' /\ Contiguous' /\ LineageLawful'
      /\ \A v \in Durable : v \in Durable' /\ chain'[v] = chain[v]
  BY DurableKept DEF IInv, LInv
<1>1. Durable' # Durable
  <2> SUFFICES ASSUME Durable' = Durable PROVE CommittedLog' = CommittedLog
    OBVIOUS
  <2>1. CASE Durable = {}
    BY <2>1 DEF CommittedLog
  <2>2. CASE Durable # {}
    <3>1. Max(Durable) \in Durable
      BY <1>0, <2>2, DurableIsInitial
    <3> QED BY <1>0, <2>2, <3>1 DEF CommittedLog
  <2> QED BY <2>1, <2>2
<1>2. UNCHANGED <<register, accepted, acked>>
  <2>1. ~UNCHANGED <<chain, chainSynced, chainLinked>>
    <3> SUFFICES ASSUME UNCHANGED <<chain, chainSynced, chainLinked>> PROVE FALSE
      OBVIOUS
    <3> QED BY <1>1 DEF Durable, Whole
  <2>2. ChainOpen \/ ChainWrite \/ ChainFsync \/ ChainDirFsync \/ PowerLoss
    BY <2>1, Frames
  <2> QED BY <2>2 DEF ChainOpen, ChainWrite, ChainFsync, ChainDirFsync, PowerLoss, ownerVars
<1>3. PICK v \in Durable' : v \notin Durable
  BY <1>0, <1>1
<1>4. v \in Versions /\ v \in Names' /\ chain'[v] \in Docs /\ Len(chain'[v]) = v /\ v \in Nat \ {0}
  BY <1>0, <1>3 DEF TypeOK, Durable, Whole, Names, Versions
<1>5. \A x \in Durable' : x \in Names /\ x \in Nat
  <2> SUFFICES ASSUME NEW x \in Durable' PROVE x \in Names /\ x \in Nat
    OBVIOUS
  <2>1. x \in Versions /\ x \in Nat /\ chain'[x] \in Docs /\ Len(chain'[x]) = x
    BY <1>0 DEF TypeOK, Durable, Whole, Versions
  <2>2. CASE ChainOpen
    BY <1>0, <2>1, <2>2 DEF ChainOpen, TypeOK, Names
  <2>3. CASE ChainWrite
    BY <1>0, <2>1, <2>3 DEF ChainWrite, Step, IInv, Writing, WritePCs, TypeOK, Names
  <2>4. CASE PowerLoss
    BY <2>1, <2>4 DEF PowerLoss, Names
  <2> QED BY <2>1, <2>2, <2>3, <2>4, Frames DEF Names
<1>6. (\A w \in Names : w <= v) /\ \A w \in Durable : w < v
  <2>1. \A w \in Names : w \in Nat /\ ~(w > v)
    BY <1>0, <1>3, <1>4 DEF Contiguous, Names, Versions
  <2>2. \A w \in Durable : w \in Names /\ w # v
    BY <1>0, <1>3, DurableFacts
  <2> QED BY <1>4, <2>1, <2>2
<1>7. \A u \in 1..(v - 1) : u \in Durable
  BY <1>0, <1>3, <1>5 DEF Contiguous
<1>8. CommittedLog' = chain'[v]
  <2>1. MaxVersion \in Nat /\ Durable' \in SUBSET (1..MaxVersion)
    BY <1>0, WitnessStoreAssumption DEF TypeOK, Durable, Versions
  <2>2. Max(Durable') \in Durable' /\ v <= Max(Durable')
    BY <1>3, <2>1, MaxExists
  <2>3. PICK m \in Durable' : m = Max(Durable') /\ v <= m
    BY <2>2
  <2>4. m \in Nat /\ m <= v
    BY <1>5, <1>6
  <2>5. m = v
    BY <1>4, <2>3, <2>4
  <2> QED BY <1>3, <2>3, <2>5 DEF CommittedLog
<1>9. PICK d \in Docs : d = chain'[v] /\ LawfulDoc(d)'
  BY <1>0, <1>4 DEF LineageLawful
<1>10. CASE v = 1
  <2>1. d = Genesis
    BY <1>4, <1>9, <1>10 DEF LawfulDoc
  <2>2. CommittedLog = <<>>
    <3>1. \A w \in Durable : w \in Nat \ {0}
      BY <1>0, DurableFacts DEF Versions
    <3> QED BY <1>6, <1>10, <3>1 DEF CommittedLog
  <2>3. Newest(Genesis) = GenesisEntry /\ Genesis = Append(<<>>, GenesisEntry) /\ Genesis # <<>>
    BY DEF Genesis, Newest
  <2>4. Log!Lawful(Newest(d))
    BY <2>1, <2>2, <2>3, SameWitness DEF Log!Lawful
  <2> QED BY <1>2, <1>8, <1>9, <2>1, <2>2, <2>3, <2>4, SameWitness DEF Log!Commit
<1>11. CASE v # 1
  <2> DEFINE p == chain[v - 1]
             e == Newest(d)
  <2>1. v - 1 \in Durable /\ chain'[v - 1] = p /\ p \in Docs
    BY <1>0, <1>4, <1>7, <1>11, DurableFacts
  <2>2. CommittedLog = p
    <3>1. Max(Durable) \in Durable /\ v - 1 <= Max(Durable)
      BY <1>0, <2>1, DurableIsInitial
    <3>2. Max(Durable) = v - 1
      <4>1. Max(Durable) \in Nat /\ Max(Durable) < v
        BY <1>0, <1>6, <3>1, DurableFacts
      <4> QED BY <1>4, <3>1, <4>1
    <3> QED BY <2>1, <3>2 DEF CommittedLog
  <2>3. d # Genesis /\ Len(d) = v
    BY <1>4, <1>9, <1>11, GenesisIsDoc
  <2>4. /\ d = Append(p, e) /\ EntrySucceeds(Newest(p), e)
        /\ e.auth # NoAuth => /\ e.auth \notin Consumed(p)
                              /\ register[e.auth] # NoAuth
                              /\ Binds(register[e.auth], p, e)
    BY <1>2, <1>9, <2>1, <2>3 DEF LawfulDoc, Succeeds, Evidence
  <2>5. Log!Lawful(e)
    <3>1. p # <<>>
      BY <2>1 DEF Docs
    <3> QED BY <2>2, <2>4, <3>1, SameWitness DEF Log!Lawful
  <2>6. d # <<>>
    BY DEF Docs
  <2> QED BY <1>2, <1>8, <1>9, <2>2, <2>4, <2>5, <2>6, SameWitness DEF Log!Commit
<1> QED BY <1>10, <1>11

(* Every step of the service, its readers and its faults is a step of the  *)
(* log, or none.                                                           *)
LEMMA StepRefinesLog ==
  ASSUME IInv, LInv, IInv', LInv', [Next]_vars
  PROVE  [Log!Next]_(Log!vars)
<1> USE DocsArePlain
<1>0. TypeOK /\ Writing /\ Replying /\ Published
  BY DEF IInv, LInv
<1>1. CASE CommittedLog' # CommittedLog
  BY <1>1, LogGrows DEF Log!Next
<1>2. CASE CommittedLog' = CommittedLog
  <2>1. ASSUME UNCHANGED <<register, accepted, acked>>
        PROVE  [Log!Next]_(Log!vars)
    BY <1>2, <2>1 DEF Log!vars
  <2>2. ASSUME NEW id \in AuthIds, NEW kind \in {HEAD, EPOCH}, NEW digest \in Digests, Issue(id, kind, digest)
        PROVE  [Log!Next]_(Log!vars)
    <3>1. Log!Issue
      BY <1>2, <2>2, SameWitness DEF Issue, Log!Issue, Torn
    <3> QED BY <3>1 DEF Log!Next
  <2>3. CASE ReadChain \/ ReadWitness
    <3>1. UNCHANGED <<register, acked>>
      BY <2>3 DEF ReadChain, ReadWitness
    <3>2. accepted' = accepted \/ Committed(accepted')
      <4>1. CASE ReadChain
        <5>1. Classify(view.ptr, view.scr) = "CONSISTENT" => ChainHead \in Docs /\ view.ptr = ChainHead
          BY AcceptedHead
        <5> QED BY <1>0, <4>1, <5>1 DEF ReadChain, Published
      <4>2. CASE ReadWitness
        <5>1. ChainHead \in Docs /\ pointer = ChainHead
          BY <4>2, AcceptedHead DEF ReadWitness, Consistent, Classification
        <5> QED BY <1>0, <4>2, <5>1 DEF ReadWitness, Published
      <4> QED BY <2>3, <4>1, <4>2
    <3>3. CASE Committed(accepted')
      <4>1. Log!Read
        BY <1>2, <3>1, <3>3, CommittedIsPrefix DEF Log!Read
      <4> QED BY <4>1 DEF Log!Next
    <3> QED BY <2>1, <3>1, <3>2, <3>3
  <2>4. CASE Reply
    <3>1. UNCHANGED <<register, accepted>> /\ (acked' = acked \/ acked' = doc)
      BY <2>4 DEF Reply
    <3>2. Committed(doc)
      BY <1>0, <2>4 DEF Reply, Writing, Replying
    <3>3. CASE acked' = doc
      <4>1. Log!Reply
        BY <1>2, <3>1, <3>2, <3>3, CommittedIsPrefix DEF Log!Reply
      <4> QED BY <4>1 DEF Log!Next
    <3> QED BY <2>1, <3>1, <3>3
  <2>5. CASE ServiceStep /\ ~Reply
    BY <2>1, <2>5 DEF ServiceStep, Start, Recheck, Plan, MakeDirs, RetainOpen, RetainWrite, RetainFsync,
       RetainDirFsync, ChainOpen, ChainWrite, ChainFsync, ChainDirFsync, ScratchOpen, ScratchWrite, ScratchFsync,
       PointerReplace, ScratchRemove, StateFsync, ownerVars
  <2>6. CASE Request \/ ReadState \/ Fault \/ UNCHANGED vars
    BY <2>1, <2>6 DEF Request, Bootstrap, RecordLedgerAdvance, ExecuteAdvance, Begin, ReadState, Fault, IoError, Kill,
       PowerLoss, ownerVars, vars
  <2> QED BY <2>2, <2>3, <2>4, <2>5, <2>6 DEF Next, Reader
<1> QED BY <1>1, <1>2

(* The witness service implements WitnessLog: through kills, power losses  *)
(* and failing calls its durable lineage is an append-only log of lawful   *)
(* witnesses, of which readers and clients are told prefixes.              *)
THEOREM StoreImplementsLog == Spec => ImplementsLog
<1>1. Init => CommittedLog = <<>> /\ register = [id \in AuthIds |-> NoAuth] /\ accepted = <<>> /\ acked = <<>>
  BY DEF Init, CommittedLog, Durable, Torn
<1>2. Init => Log!Init
  BY <1>1 DEF Log!Init
<1>3. IInv /\ LInv /\ IInv' /\ LInv' /\ [Next]_vars => [Log!Next]_(Log!vars)
  BY StepRefinesLog
<1> QED BY <1>2, <1>3, Invariance, LineageInvariance, PTL DEF Spec, ImplementsLog, Log!Spec

=============================================================================
