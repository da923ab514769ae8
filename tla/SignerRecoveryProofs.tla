------------------------ MODULE SignerRecoveryProofs ------------------------
(***************************************************************************)
(* Proofs about SignerRecovery, for every value of its constants.          *)
(***************************************************************************)
EXTENDS SignerRecovery, WitnessV2Proofs

-----------------------------------------------------------------------------
(***************************************************************************)
(* The inductive invariant.                                                *)
(***************************************************************************)

(* Epochs never fall along the lineage, and a marked key stays current for *)
(* the rest of its epoch: only an epoch advance follows a marking.         *)
MarkedStays ==
  \A i \in 1..Len(lineage) :
    /\ lineage[i].epoch <= Newest(lineage).epoch
    /\ lineage[i].head.dig = MARKS /\ lineage[i].epoch = Newest(lineage).epoch
         => Newest(lineage).head.dig = MARKS

(* An authorization is one epoch and one registry ahead of its witness.    *)
Issued ==
  \A id \in AuthIds : register[id] # NoAuth =>
    /\ register[id].epoch = Newest(register[id].witness).epoch
    /\ register[id].target.ver = Newest(register[id].witness).head.ver + 1

(* Epochs never fall along the journal; an adoption opens the epoch its    *)
(* authorization names, a removal stays in the epoch before it.            *)
JournalOrdered ==
  /\ journal[1] = GenesisBatch
  /\ \A i, k \in 1..Len(journal) : i <= k => journal[i].epoch <= journal[k].epoch
  /\ \A k \in 2..Len(journal) :
       IF journal[k].op = ADVANCE_EPOCH
         THEN /\ journal[k].by \in AuthIds /\ register[journal[k].by] # NoAuth
              /\ journal[k].epoch = register[journal[k].by].epoch + 1
         ELSE journal[k].epoch = journal[k - 1].epoch /\ journal[k].by = journal[k - 1].by

(* The witness binds a position of this journal, and at most one follows.  *)
Witnessed ==
  /\ WitnessPosition \in 1..Len(journal)
  /\ Len(journal) <= WitnessPosition + 1
  /\ EpochsEqual(lineage, journal[WitnessPosition])

(* The authorization `id` still fits the newest witness.                   *)
Fits(id, d) ==
  /\ id \in AuthIds /\ register[id] # NoAuth /\ register[id].witness = d
  /\ id \notin Consumed(d)
  /\ Newest(d).head.dig = MARKS

Adopting ==
  Len(journal) = WitnessPosition + 1 /\ Last(journal).op = ADVANCE_EPOCH
    => Fits(Last(journal).by, lineage)

(* What a handler knows of the witness, at each of its steps.  If it is    *)
(* about to adopt, the witness it saw is still the newest one or the       *)
(* position has moved, so that its compare-and-swap fails.                 *)
Sound(r) ==
  /\ r.pc # "idle" => Newest(r.doc).pos <= WitnessPosition
  /\ r.pc \in {"viewed", "observed", "planned"} /\ r.op = ADVANCE_EPOCH =>
       /\ Fits(r.auth, r.doc)
       /\ lineage = r.doc \/ Newest(r.doc).pos < WitnessPosition
  /\ r.pc \in {"observed", "planned", "appended"} => r.seen = Newest(r.doc).pos
  /\ r.pc = "planned" =>
       /\ r.batch.op = r.op
       /\ Len(journal) = r.seen =>
            IF r.op = ADVANCE_EPOCH
              THEN /\ r.batch.by = r.auth /\ r.batch.epoch = register[r.auth].epoch + 1
                   /\ r.batch.epoch > Last(journal).epoch /\ r.batch.items = {}
              ELSE /\ r.batch.by = Last(journal).by /\ r.batch.epoch = Last(journal).epoch
                   /\ Last(journal).epoch # 1
  /\ r.pc = "appended" =>
       r.seen + 1 \in 1..Len(journal) /\ journal[r.seen + 1].op # ADVANCE_EPOCH

(* A record on the wire names a removal of this journal.                   *)
WireSound == \A m \in wire : m.pos \in 1..Len(journal) /\ journal[m.pos].op # ADVANCE_EPOCH

(* Everything but the handlers and the wire.                               *)
LogInv ==
  /\ MarkedStays
  /\ Issued
  /\ JournalOrdered
  /\ Witnessed
  /\ Adopting
  /\ RemovalAfterWitnessedEpoch

IInv ==
  /\ TypeOK
  /\ LogInv
  /\ \A h \in Handlers : Sound(handlers[h])
  /\ WireSound

-----------------------------------------------------------------------------
(***************************************************************************)
(* Lineages.                                                               *)
(***************************************************************************)

(* Who opened the current epoch, after one more entry.                     *)
LEMMA EpochOpenedByAppend ==
  ASSUME NEW d \in Docs, NEW e \in Entries
  PROVE  EpochOpenedBy(Append(d, e)) =
           IF e.epoch = Newest(d).epoch THEN EpochOpenedBy(d) ELSE e.auth
<1> DEFINE f    == Append(d, e)
           n    == Len(d)
           old  == {i \in 2..Len(d) : d[i].epoch # d[i - 1].epoch}
           new  == {i \in 2..Len(f) : f[i].epoch # f[i - 1].epoch}
<1>1. /\ n \in Nat \ {0} /\ Len(f) = n + 1 /\ f[n + 1] = e
      /\ \A i \in 1..n : f[i] = d[i]
  BY DocsHaveNewest, AppendIsDoc DEF Newest
<1>2. /\ EpochOpenedBy(d) = IF old = {} THEN NoAuth ELSE d[Max(old)].auth
      /\ EpochOpenedBy(f) = IF new = {} THEN NoAuth ELSE f[Max(new)].auth
  BY DEF EpochOpenedBy
<1> HIDE DEF f
<1>3. \A i \in 2..n : i \in new <=> i \in old
  <2>1. \A i \in 2..n : i \in 1..n /\ i - 1 \in 1..n /\ i \in 2..(n + 1)
    BY <1>1
  <2> QED BY <1>1, <2>1
<1>4. n + 1 \in new <=> e.epoch # Newest(d).epoch
  <2>1. f[n] = Newest(d) /\ n + 1 \in 2..(n + 1) /\ (n + 1) - 1 = n
    BY <1>1 DEF Newest
  <2> QED BY <1>1, <2>1
<1>5. new \subseteq 2..(n + 1) /\ old \subseteq 2..n
  BY <1>1
<1>6. CASE e.epoch = Newest(d).epoch
  <2>1. new = old
    <3>1. \A i \in 2..(n + 1) : i = n + 1 \/ i \in 2..n
      BY <1>1
    <3>2. n + 1 \notin 2..n
      BY <1>1
    <3> QED BY <1>3, <1>4, <1>5, <1>6, <3>1, <3>2
  <2>2. CASE old = {}
    BY <1>2, <1>6, <2>1, <2>2 DEF f
  <2>3. CASE old # {}
    <3>1. Max(old) \in 1..n
      <4>1. old \in SUBSET (1..n)
        BY <1>1, <1>5
      <4> HIDE DEF old
      <4> QED BY <1>1, <2>3, <4>1, MaxExists
    <3> QED BY <1>1, <1>2, <1>6, <2>1, <2>3, <3>1 DEF f
  <2> QED BY <2>2, <2>3
<1>7. CASE e.epoch # Newest(d).epoch
  <2>1. new # {} /\ new \in SUBSET (1..(n + 1)) /\ n + 1 \in new /\ n + 1 \in Nat
    BY <1>1, <1>4, <1>5, <1>7
  <2>2. Max(new) = n + 1
    <3>1. Max(new) \in new /\ \A y \in new : y <= Max(new)
      <4> HIDE DEF new
      <4> QED BY <2>1, MaxExists
    <3>2. Max(new) \in 1..(n + 1) /\ n + 1 <= Max(new)
      BY <2>1, <3>1
    <3> QED BY <1>1, <3>2
  <2> QED BY <1>1, <1>2, <1>7, <2>1, <2>2 DEF f
<1> QED BY <1>6, <1>7

-----------------------------------------------------------------------------
(***************************************************************************)
(* What a commit of the witness keeps.                                     *)
(***************************************************************************)

LEMMA WitnessCommits ==
  ASSUME IInv, NEW e \in Entries, lineage' = Append(lineage, e), UNCHANGED <<register, journal>>,
         e.pos \in 1..Len(journal), e.pos >= WitnessPosition,
         e.epoch \in {Newest(lineage).epoch, Newest(lineage).epoch + 1},
         EpochsEqual(Append(lineage, e), journal[e.pos]),
         e.epoch = Newest(lineage).epoch /\ Newest(lineage).head.dig = MARKS => e.head.dig = MARKS,
         e.pos = WitnessPosition => Newest(lineage).head.dig # MARKS
  PROVE  /\ lineage' \in Docs
         /\ LogInv'
         /\ \A r \in Requests : Sound(r) => Sound(r)'
<1>1. /\ lineage \in Docs /\ Newest(lineage) \in Entries /\ Len(lineage) \in Nat \ {0}
      /\ lineage' \in Docs /\ Len(lineage') = Len(lineage) + 1 /\ Newest(lineage') = e
      /\ \A i \in 1..Len(lineage) : lineage'[i] = lineage[i] /\ lineage[i] \in Entries
      /\ lineage'[Len(lineage) + 1] = e
  <2>1. lineage \in Docs
    BY DEF IInv, TypeOK
  <2> QED BY <2>1, DocsHaveNewest, AppendIsDoc DEF Docs, Newest
<1>2. WitnessPosition' = e.pos /\ WitnessPosition \in Nat /\ e.pos \in Nat
  BY <1>1 DEF WitnessPosition, Entries
<1>3. MarkedStays'
  <2>1. ASSUME NEW i \in 1..(Len(lineage) + 1)
        PROVE  /\ lineage'[i].epoch <= e.epoch
               /\ lineage'[i].head.dig = MARKS /\ lineage'[i].epoch = e.epoch => e.head.dig = MARKS
    <3>1. CASE i = Len(lineage) + 1
      BY <1>1, <3>1 DEF Entries
    <3>2. CASE i \in 1..Len(lineage)
      <4>1. /\ lineage[i].epoch <= Newest(lineage).epoch
            /\ lineage[i].head.dig = MARKS /\ lineage[i].epoch = Newest(lineage).epoch
                 => Newest(lineage).head.dig = MARKS
        BY <3>2 DEF IInv, LogInv, MarkedStays
      <4>2. Newest(lineage).epoch \in Nat /\ lineage[i].epoch \in Nat /\ e.epoch \in Nat
        BY <1>1, <3>2 DEF Entries
      <4> QED BY <1>1, <3>2, <4>1, <4>2
    <3> QED BY <1>1, <3>1, <3>2
  <2> QED BY <1>1, <2>1 DEF MarkedStays
<1>4. Issued' /\ JournalOrdered'
  BY DEF IInv, LogInv, Issued, JournalOrdered
<1>5. Witnessed'
  <2>1. Len(journal) \in Nat /\ Len(journal) <= WitnessPosition + 1
    BY DEF IInv, TypeOK, LogInv, Witnessed, Batches
  <2>2. Len(journal') <= WitnessPosition' + 1 /\ WitnessPosition' \in 1..Len(journal')
    BY <1>2, <2>1
  <2>3. EpochsEqual(lineage', journal'[WitnessPosition'])
    BY <1>2
  <2> QED BY <2>2, <2>3 DEF Witnessed
<1>6. Adopting'
  <2>1. Len(journal) \in Nat /\ Len(journal) <= WitnessPosition + 1
    BY DEF IInv, TypeOK, LogInv, Witnessed
  <2>2. SUFFICES ASSUME Len(journal) = e.pos + 1, Last(journal).op = ADVANCE_EPOCH PROVE FALSE
    BY <1>2 DEF Adopting, Last
  <2>3. e.pos = WitnessPosition
    BY <1>2, <2>1, <2>2
  <2>4. Fits(Last(journal).by, lineage)
    BY <2>2, <2>3 DEF IInv, LogInv, Adopting
  <2> QED BY <2>3, <2>4 DEF Fits
<1>7. RemovalAfterWitnessedEpoch'
  <2>1. ASSUME NEW n \in DOMAIN journal, journal[n].items # {}
        PROVE  \E i \in DOMAIN lineage' :
                 lineage'[i].pos < n /\ lineage'[i].epoch = journal[n].epoch /\ lineage'[i].epoch > 1
    <3>1. PICK i \in DOMAIN lineage :
                 lineage[i].pos < n /\ lineage[i].epoch = journal[n].epoch /\ lineage[i].epoch > 1
      BY <2>1 DEF IInv, LogInv, RemovalAfterWitnessedEpoch
    <3>2. i \in 1..Len(lineage) /\ i \in DOMAIN lineage'
      BY <1>1 DEF Docs
    <3> QED BY <1>1, <3>1, <3>2
  <2> QED BY <2>1 DEF RemovalAfterWitnessedEpoch
<1>8. ASSUME NEW r \in Requests, Sound(r) PROVE Sound(r)'
  <2>1. Newest(r.doc).pos \in Nat
    BY DocsHaveNewest DEF Requests, Entries
  <2>2. r.pc # "idle" => Newest(r.doc).pos <= WitnessPosition'
    BY <1>2, <1>8, <2>1 DEF Sound
  <2>3. ASSUME r.pc \in {"viewed", "observed", "planned"}, r.op = ADVANCE_EPOCH
        PROVE  Fits(r.auth, r.doc)' /\ Newest(r.doc).pos < WitnessPosition'
    <3>1. Fits(r.auth, r.doc) /\ (lineage = r.doc \/ Newest(r.doc).pos < WitnessPosition)
      BY <1>8, <2>3 DEF Sound
    <3>2. Newest(r.doc).pos < e.pos
      <4>1. CASE lineage = r.doc
        BY <1>2, <2>1, <3>1, <4>1 DEF Fits, WitnessPosition
      <4> QED BY <1>2, <2>1, <3>1, <4>1
    <3> QED BY <1>2, <3>1, <3>2 DEF Fits
  <2> QED BY <1>8, <2>2, <2>3 DEF Sound, Last
<1> QED BY <1>1, <1>3, <1>4, <1>5, <1>6, <1>7, <1>8 DEF LogInv

-----------------------------------------------------------------------------
(***************************************************************************)
(* One step.                                                               *)
(***************************************************************************)

(* The current entry of the ledger.                                        *)
LEMMA JournalHasLast ==
  ASSUME TypeOK
  PROVE  /\ Len(journal) \in Nat \ {0} /\ Last(journal) \in Batches
         /\ DOMAIN journal = 1..Len(journal)
         /\ \A k \in 1..Len(journal) : journal[k] \in Batches
BY DEF TypeOK, Last

(* A commit on the request of the owner or of a record.                    *)
LEMMA CommitStep ==
  ASSUME IInv, NEW e \in Entries, lineage' = Append(lineage, e),
         UNCHANGED <<ownerVars, journal, handlers>>, wire' \subseteq wire,
         e.pos \in 1..Len(journal), e.pos >= WitnessPosition,
         e.epoch \in {Newest(lineage).epoch, Newest(lineage).epoch + 1},
         EpochsEqual(Append(lineage, e), journal[e.pos]),
         e.epoch = Newest(lineage).epoch /\ Newest(lineage).head.dig = MARKS => e.head.dig = MARKS,
         e.pos = WitnessPosition => Newest(lineage).head.dig # MARKS
  PROVE  IInv'
<1>1. UNCHANGED <<register, journal>>
  BY DEF ownerVars
<1>2. lineage' \in Docs /\ LogInv' /\ \A r \in Requests : Sound(r) => Sound(r)'
  BY <1>1, WitnessCommits
<1>3. TypeOK'
  BY <1>2 DEF IInv, TypeOK, ownerVars
<1>4. \A h \in Handlers : handlers[h] \in Requests /\ handlers'[h] = handlers[h] /\ Sound(handlers[h])
  BY DEF IInv, TypeOK
<1>5. \A h \in Handlers : Sound(handlers[h])'
  <2>1. ASSUME NEW h \in Handlers PROVE Sound(handlers[h])'
    <3>1. PICK r \in Requests : r = handlers[h] /\ r = handlers'[h]
      BY <1>4
    <3>2. Sound(r)'
      BY <1>2, <1>4, <3>1
    <3> QED BY <3>1, <3>2
  <2> QED BY <2>1
<1>6. WireSound'
  BY <1>1 DEF IInv, WireSound
<1> QED BY <1>2, <1>3, <1>5, <1>6 DEF IInv

(* Entries that keep the epoch and are bound at the next position, or at   *)
(* this one, are still those of the ledger.                                *)
LEMMA EpochKept ==
  ASSUME IInv, NEW e \in Entries, e.epoch = Newest(lineage).epoch,
         NEW b, b.epoch = journal[WitnessPosition].epoch, b.by = journal[WitnessPosition].by
  PROVE  EpochsEqual(Append(lineage, e), b)
<1>1. lineage \in Docs /\ EpochsEqual(lineage, journal[WitnessPosition])
  BY DEF IInv, TypeOK, LogInv, Witnessed
<1>2. Newest(Append(lineage, e)) = e /\ EpochOpenedBy(Append(lineage, e)) = EpochOpenedBy(lineage)
  BY <1>1, AppendIsDoc, EpochOpenedByAppend
<1> QED BY <1>1, <1>2 DEF EpochsEqual

LEMMA HeadAdvanceStep ==
  ASSUME IInv, NEW id \in AuthIds, ExecuteHeadAdvance(id)
  PROVE  IInv'
<1>1. PICK e \in PlanRegistryHeadAdvance(lineage, id, register[id]) : lineage' = Append(lineage, e)
  BY DEF ExecuteHeadAdvance
<1>2. lineage \in Docs /\ register[id] \in Authorizations /\ Newest(lineage) \in Entries
  BY DocsHaveNewest DEF IInv, TypeOK, ExecuteHeadAdvance
<1>3. e \in Entries
  BY <1>1, <1>2, PlansAreEntries
<1>4. e.epoch = Newest(lineage).epoch /\ e.pos = WitnessPosition
  BY <1>1, <1>2 DEF PlanRegistryHeadAdvance, WitnessPosition, Entries
<1>5. Newest(lineage).head.dig # MARKS
  BY DEF ExecuteHeadAdvance, HeadHold, CurrentKey, Newest
<1>6. EpochsEqual(Append(lineage, e), journal[e.pos])
  BY <1>3, <1>4, EpochKept
<1>7. e.pos \in 1..Len(journal) /\ e.pos >= WitnessPosition
  BY <1>2, <1>4 DEF IInv, LogInv, Witnessed, Entries, WitnessPosition
<1>8. UNCHANGED <<ownerVars, journal, handlers>> /\ wire' \subseteq wire
  BY DEF ExecuteHeadAdvance
<1> QED BY <1>1, <1>3, <1>4, <1>5, <1>6, <1>7, <1>8, CommitStep

(* The adoption the owner refers to is the one batch ahead of the witness. *)
LEMMA EpochAdvanceStep ==
  ASSUME IInv, NEW id \in AuthIds, ExecuteEpochAdvance(id)
  PROVE  IInv'
<1>i. PICK n \in DOMAIN journal :
        /\ journal[n].op = ADVANCE_EPOCH /\ journal[n].by = id
        /\ \E position \in n..Len(journal) :
             \E e \in PlanEpochAdvance(lineage, id, register[id], position) : lineage' = Append(lineage, e)
  BY DEF ExecuteEpochAdvance
<1>ii. PICK position \in n..Len(journal) :
        \E e \in PlanEpochAdvance(lineage, id, register[id], position) : lineage' = Append(lineage, e)
  BY <1>i
<1>iii. PICK e \in PlanEpochAdvance(lineage, id, register[id], position) : lineage' = Append(lineage, e)
  BY <1>ii
<1>1. journal[n].op = ADVANCE_EPOCH /\ journal[n].by = id /\ lineage' = Append(lineage, e)
  BY <1>i, <1>iii
<1>2. TypeOK /\ lineage \in Docs /\ register[id] \in Authorizations /\ Newest(lineage) \in Entries
  BY DocsHaveNewest DEF IInv, TypeOK, ExecuteEpochAdvance
<1>3. /\ Len(journal) \in Nat /\ n \in 1..Len(journal) /\ position \in Nat
      /\ WitnessPosition \in 1..Len(journal) /\ Len(journal) <= WitnessPosition + 1
  BY <1>1, <1>2, JournalHasLast DEF IInv, LogInv, Witnessed
<1>4. e \in Entries
  BY <1>1, <1>2, <1>3, PlansAreEntries
<1>5. /\ e.epoch = Newest(lineage).epoch + 1 /\ e.auth = id /\ e.pos = position
      /\ register[id].epoch = Newest(lineage).epoch
  BY <1>1 DEF PlanEpochAdvance
<1>6. journal[n].epoch = Newest(lineage).epoch + 1
  <2>1. n # 1
    BY <1>1 DEF IInv, LogInv, JournalOrdered, GenesisBatch, ADVANCE_EPOCH
  <2>2. n \in 2..Len(journal)
    BY <1>3, <2>1
  <2> QED BY <1>1, <1>5, <2>2 DEF IInv, LogInv, JournalOrdered
<1>7. n = Len(journal) /\ position = n /\ n = WitnessPosition + 1
  <2>1. ~(n <= WitnessPosition)
    <3>1. n <= WitnessPosition => journal[n].epoch <= journal[WitnessPosition].epoch
      BY <1>3 DEF IInv, LogInv, JournalOrdered
    <3>2. journal[WitnessPosition].epoch = Newest(lineage).epoch
      BY DEF IInv, LogInv, Witnessed, EpochsEqual
    <3>3. Newest(lineage).epoch \in Nat
      BY <1>2 DEF Entries
    <3> QED BY <1>6, <3>1, <3>2, <3>3
  <2> QED BY <1>1, <1>3, <2>1
<1>8. EpochsEqual(Append(lineage, e), journal[e.pos])
  <2>1. Newest(Append(lineage, e)) = e /\ EpochOpenedBy(Append(lineage, e)) = id
    <3>1. e.epoch # Newest(lineage).epoch
      BY <1>2, <1>5 DEF Entries
    <3> QED BY <1>2, <1>4, <1>5, <3>1, AppendIsDoc, EpochOpenedByAppend
  <2> QED BY <1>1, <1>5, <1>6, <1>7, <2>1 DEF EpochsEqual
<1>9. e.pos \in 1..Len(journal) /\ e.pos >= WitnessPosition /\ e.pos # WitnessPosition
  BY <1>3, <1>5, <1>7
<1>10. e.epoch # Newest(lineage).epoch
  BY <1>2, <1>5 DEF Entries
<1>11. UNCHANGED <<ownerVars, journal, handlers>> /\ wire' \subseteq wire
  BY DEF ExecuteEpochAdvance
<1> QED BY <1>1, <1>4, <1>5, <1>8, <1>9, <1>10, <1>11, CommitStep

LEMMA ServeRecordStep ==
  ASSUME IInv, NEW m \in wire, ServeRecord(m)
  PROVE  IInv'
<1>1. CASE lineage' = lineage
  <2>1. UNCHANGED <<lineage, ownerVars, journal, handlers>> /\ wire' \subseteq wire
    BY <1>1 DEF ServeRecord
  <2> QED BY <2>1 DEF IInv, TypeOK, LogInv, MarkedStays, Issued, JournalOrdered, Witnessed, WitnessPosition,
       Adopting, RemovalAfterWitnessedEpoch, Fits, Sound, WireSound, Last, ownerVars
<1>2. CASE lineage' # lineage
  <2>1. PICK e \in PlanLedgerAdvance(lineage, m.pos) : lineage' = Append(lineage, e)
    BY <1>2 DEF ServeRecord
  <2>2. TypeOK /\ lineage \in Docs /\ Newest(lineage) \in Entries /\ m.pos \in Nat
    BY DocsHaveNewest DEF IInv, TypeOK
  <2>3. e \in Entries
    BY <2>1, <2>2, PlansAreEntries
  <2>4. /\ e.epoch = Newest(lineage).epoch /\ e.head = Newest(lineage).head
        /\ e.pos = m.pos /\ m.pos > WitnessPosition
    BY <2>1, <2>2 DEF PlanLedgerAdvance, WitnessPosition, Entries
  <2>5. m.pos \in 1..Len(journal) /\ journal[m.pos].op # ADVANCE_EPOCH
    BY DEF IInv, WireSound
  <2>6. WitnessPosition \in 1..Len(journal) /\ Len(journal) <= WitnessPosition + 1 /\ Len(journal) \in Nat
    BY <2>2, JournalHasLast DEF IInv, LogInv, Witnessed
  <2>7. m.pos = WitnessPosition + 1 /\ m.pos \in 2..Len(journal)
    BY <2>2, <2>4, <2>5, <2>6
  <2>8. /\ journal[m.pos].epoch = journal[WitnessPosition].epoch
        /\ journal[m.pos].by = journal[WitnessPosition].by
    <3>1. m.pos - 1 = WitnessPosition
      BY <2>6, <2>7
    <3> QED BY <2>5, <2>7, <3>1 DEF IInv, LogInv, JournalOrdered
  <2>9. EpochsEqual(Append(lineage, e), journal[e.pos])
    BY <2>3, <2>4, <2>8, EpochKept
  <2>10. e.pos >= WitnessPosition /\ e.pos # WitnessPosition
    BY <2>4, <2>6, <2>7
  <2>11. UNCHANGED <<ownerVars, journal, handlers>> /\ wire' \subseteq wire
    BY DEF ServeRecord
  <2> QED BY <2>1, <2>3, <2>4, <2>5, <2>9, <2>10, <2>11, CommitStep
<1> QED BY <1>1, <1>2

(* The steps that leave the witness, the register and the ledger alone: a  *)
(* handler may learn something, and a record may be sent or lost.          *)
LEMMA QuietStep ==
  ASSUME IInv, TypeOK', UNCHANGED <<lineage, register, journal>>,
         \A h \in Handlers : handlers'[h] = handlers[h] \/ Sound(handlers'[h]),
         \A m \in wire' \ wire : m.pos \in 1..Len(journal) /\ journal[m.pos].op # ADVANCE_EPOCH
  PROVE  IInv'
<1>1. LogInv'
  BY DEF IInv, LogInv, MarkedStays, Issued, JournalOrdered, Witnessed, WitnessPosition, Adopting,
     RemovalAfterWitnessedEpoch, Fits, Last, EpochsEqual
<1>2. ASSUME NEW h \in Handlers PROVE Sound(handlers[h])'
  <2>1. Sound(handlers'[h])
    BY DEF IInv
  <2> QED BY <2>1 DEF Sound, Fits, WitnessPosition, Last
<1>3. WireSound'
  BY DEF IInv, WireSound
<1> QED BY <1>1, <1>2, <1>3 DEF IInv

(* Changing one handler.                                                   *)
LEMMA OneHandler ==
  ASSUME TypeOK, NEW h \in Handlers, NEW r, handlers' = [handlers EXCEPT ![h] = r], Sound(r)
  PROVE  \A g \in Handlers : handlers'[g] = handlers[g] \/ Sound(handlers'[g])
BY DEF TypeOK

LEMMA IdleIsSound == Idle \in Requests /\ Sound(Idle)
<1>1. GenesisBatch \in Batches
  BY DEF GenesisBatch, Batches
<1>2. Idle \in Requests
  BY <1>1, GenesisIsDoc DEF Idle, Requests, PCs, Operations
<1>3. Idle.pc = "idle"
  BY DEF Idle
<1> QED BY <1>2, <1>3 DEF Sound

(* A handler that is over.                                                 *)
LEMMA StopStep ==
  ASSUME IInv, NEW h \in Handlers, Stops(h), UNCHANGED <<lineage, ownerVars, journal, wire>>
  PROVE  IInv'
<1>1. TypeOK'
  BY IdleIsSound DEF IInv, TypeOK, Stops, ownerVars
<1>2. \A g \in Handlers : handlers'[g] = handlers[g] \/ Sound(handlers'[g])
  BY IdleIsSound, OneHandler DEF IInv, Stops
<1> QED BY <1>1, <1>2, QuietStep DEF ownerVars

(* The gate of an adoption: the key that was current is marked in the      *)
(* newest witness, and its authorization binds that witness.               *)
LEMMA ViewStep ==
  ASSUME IInv, NEW h \in Handlers, NEW op \in Operations, NEW id \in AuthIds \cup {NoAuth},
         NEW p \in Predecessors, View(h, op, id, p)
  PROVE  IInv'
<1> DEFINE r == [pc |-> "viewed", op |-> op, auth |-> id, pred |-> p, doc |-> lineage, seen |-> 0,
                 batch |-> GenesisBatch]
<1>1. TypeOK /\ lineage \in Docs /\ handlers' = [handlers EXCEPT ![h] = r]
      /\ UNCHANGED <<lineage, ownerVars, journal, wire>>
  BY DEF IInv, TypeOK, View
<1>2. p \in Nat
  <2>1. PICK i \in DOMAIN lineage : p = lineage[i].head.ver
    BY DEF Predecessors
  <2>2. lineage[i] \in Entries
    BY <1>1, <2>1 DEF Docs
  <2> QED BY <2>1, <2>2 DEF Entries, Heads
<1>4. r \in Requests
  <2>1. GenesisBatch \in Batches
    BY DEF GenesisBatch, Batches
  <2> QED BY <1>1, <1>2, <2>1 DEF Requests, PCs
<1>5. TypeOK'
  BY <1>1, <1>4 DEF TypeOK, ownerVars
<1>6. op = ADVANCE_EPOCH => Fits(id, lineage)
  <2>1. SUFFICES ASSUME op = ADVANCE_EPOCH PROVE Fits(id, lineage)
    OBVIOUS
  <2>2. /\ RecoveryMarked(lineage, p) /\ id \in AuthIds /\ id \notin Consumed(lineage)
        /\ register[id] # NoAuth /\ register[id].witness = lineage
    BY <2>1 DEF View, Permitted
  <2>3. PICK i \in Markings(lineage, p) : lineage[i].epoch = Newest(lineage).epoch
    BY <2>2 DEF RecoveryMarked
  <2>4. i \in 1..Len(lineage) /\ lineage[i].head.dig = MARKS
    BY <1>1 DEF Markings, Transitions, Docs
  <2>5. Newest(lineage).head.dig = MARKS
    BY <2>3, <2>4 DEF IInv, LogInv, MarkedStays
  <2> QED BY <2>2, <2>5 DEF Fits
<1>7. Sound(r)
  <2>1. Newest(lineage).pos <= WitnessPosition
    BY <1>1, DocsHaveNewest DEF WitnessPosition, Entries
  <2> QED BY <1>6, <2>1 DEF Sound
<1>8. \A g \in Handlers : handlers'[g] = handlers[g] \/ Sound(handlers'[g])
  BY <1>1, <1>7, OneHandler
<1> QED BY <1>1, <1>5, <1>8, QuietStep DEF ownerVars

LEMMA ObserveStep ==
  ASSUME IInv, NEW h \in Handlers, Observe(h)
  PROVE  IInv'
<1> DEFINE r == handlers[h]
           t == [r EXCEPT !.pc = "observed", !.seen = Len(journal)]
<1>1. /\ TypeOK /\ r \in Requests /\ r.pc = "viewed" /\ Sound(r) /\ Len(journal) \in Nat
      /\ UNCHANGED <<lineage, ownerVars, journal, wire>>
  BY JournalHasLast DEF IInv, TypeOK, Observe
<1>2. CASE Stops(h)
  BY <1>1, <1>2, StopStep
<1>3. CASE ~Stops(h)
  <2>1. /\ handlers' = [handlers EXCEPT ![h] = t]
        /\ PositionEqual(r.doc, Len(journal), Last(journal))
    BY <1>1, <1>3 DEF Observe, AtWitness, OnlyMarkingLags, TypeOK
  <2>2. t \in Requests
    BY <1>1 DEF Requests, PCs
  <2>3. TypeOK'
    BY <1>1, <2>1, <2>2 DEF TypeOK, ownerVars
  <2>4. t.pc = "observed" /\ t.op = r.op /\ t.auth = r.auth /\ t.doc = r.doc /\ t.seen = Len(journal)
    BY <1>1 DEF Requests
  <2>5. Sound(t)
    BY <1>1, <2>1, <2>4 DEF Sound, PositionEqual
  <2>6. \A g \in Handlers : handlers'[g] = handlers[g] \/ Sound(handlers'[g])
    BY <1>1, <2>1, <2>5, OneHandler
  <2> QED BY <1>1, <2>3, <2>6, QuietStep DEF ownerVars
<1> QED BY <1>2, <1>3

(* What the planner returns is a batch that may follow the ledger it read. *)
LEMMA PlannedIsBatch ==
  ASSUME TypeOK, NEW r \in Requests, NEW b \in PlannedBatches(r),
         r.op = ADVANCE_EPOCH => r.auth \in AuthIds /\ register[r.auth] # NoAuth
  PROVE  /\ b \in Batches /\ b.op = r.op
         /\ IF r.op = ADVANCE_EPOCH
              THEN /\ b.by = r.auth /\ b.epoch = register[r.auth].epoch + 1
                   /\ b.epoch > Last(journal).epoch /\ b.items = {}
              ELSE /\ b.by = Last(journal).by /\ b.epoch = Last(journal).epoch
                   /\ Last(journal).epoch # 1
<1>1. Last(journal) \in Batches
  BY JournalHasLast
<1>2. CASE r.op = ADVANCE_EPOCH
  <2>1. register[r.auth] \in Authorizations /\ b \in AdoptionBatches(r.auth)
    BY <1>2 DEF TypeOK, PlannedBatches
  <2>2. /\ b = [op |-> ADVANCE_EPOCH, items |-> {}, epoch |-> register[r.auth].epoch + 1,
                by |-> r.auth, view |-> register[r.auth].target.ver]
        /\ b.epoch > Last(journal).epoch
    BY <2>1 DEF AdoptionBatches
  <2> QED BY <1>2, <2>1, <2>2 DEF Batches, Authorizations, Heads, Operations
<1>3. CASE r.op # ADVANCE_EPOCH
  <2> DEFINE stale == Stale(journal, IF r.op = VOID_CHALLENGE THEN Challenges ELSE Uses)
  <2>1. stale # {} /\ b = [Last(journal) EXCEPT !.op = r.op, !.items = stale]
    BY <1>3 DEF PlannedBatches, RemovalBatches
  <2>2. Last(journal).epoch # 1 /\ stale \subseteq Challenges \cup Uses
    BY <2>1 DEF Stale
  <2> HIDE DEF stale
  <2>3. b = [op |-> r.op, items |-> stale, epoch |-> Last(journal).epoch,
             by |-> Last(journal).by, view |-> Last(journal).view]
    BY <1>1, <2>1 DEF Batches
  <2> QED BY <1>1, <1>3, <2>2, <2>3 DEF Batches, Requests, Operations
<1> QED BY <1>2, <1>3

LEMMA PlanStep ==
  ASSUME IInv, NEW h \in Handlers, Plan(h)
  PROVE  IInv'
<1> DEFINE r == handlers[h]
<1>1. /\ TypeOK /\ r \in Requests /\ r.pc = "observed" /\ Sound(r)
      /\ UNCHANGED <<lineage, ownerVars, journal, wire>>
  BY DEF IInv, TypeOK, Plan
<1>2. CASE Stops(h)
  BY <1>1, <1>2, StopStep
<1>3. CASE ~Stops(h)
  <2>1. PICK b \in PlannedBatches(r) : handlers' = [handlers EXCEPT ![h].pc = "planned", ![h].batch = b]
    BY <1>3 DEF Plan
  <2> DEFINE t == [r EXCEPT !.pc = "planned", !.batch = b]
  <2>2. handlers' = [handlers EXCEPT ![h] = t]
    BY <1>1, <2>1 DEF TypeOK
  <2>3. r.op = ADVANCE_EPOCH => r.auth \in AuthIds /\ register[r.auth] # NoAuth
    BY <1>1 DEF Sound, Fits
  <2>4. /\ b \in Batches /\ b.op = r.op
        /\ IF r.op = ADVANCE_EPOCH
             THEN /\ b.by = r.auth /\ b.epoch = register[r.auth].epoch + 1
                  /\ b.epoch > Last(journal).epoch /\ b.items = {}
             ELSE /\ b.by = Last(journal).by /\ b.epoch = Last(journal).epoch
                  /\ Last(journal).epoch # 1
    BY <1>1, <2>3, PlannedIsBatch
  <2>5. t \in Requests
    BY <1>1, <2>4 DEF Requests, PCs
  <2>6. TypeOK'
    BY <1>1, <2>2, <2>5 DEF TypeOK, ownerVars
  <2>7. /\ t.pc = "planned" /\ t.op = r.op /\ t.auth = r.auth /\ t.doc = r.doc /\ t.seen = r.seen
        /\ t.batch = b
    BY <1>1 DEF Requests
  <2>8. Sound(t)
    <3> HIDE DEF t
    <3> QED BY <1>1, <2>4, <2>7 DEF Sound
  <2>9. \A g \in Handlers : handlers'[g] = handlers[g] \/ Sound(handlers'[g])
    BY <1>1, <2>2, <2>8, OneHandler
  <2> QED BY <1>1, <2>6, <2>9, QuietStep DEF ownerVars
<1> QED BY <1>2, <1>3

(* A batch that passes the compare-and-swap follows the position the       *)
(* witness holds now; an adoption still fits the newest witness.           *)
LEMMA AppendsAtWitness ==
  ASSUME IInv, NEW h \in Handlers, handlers[h].pc = "planned", Len(journal) = handlers[h].seen
  PROVE  /\ Len(journal) = WitnessPosition
         /\ PositionEqual(lineage, Len(journal), Last(journal))
         /\ handlers[h].op = ADVANCE_EPOCH => Fits(handlers[h].auth, lineage)
<1> DEFINE r == handlers[h]
<1>1. /\ TypeOK /\ r \in Requests /\ r.pc = "planned" /\ Sound(r)
      /\ Len(journal) \in Nat /\ WitnessPosition \in 1..Len(journal)
  BY JournalHasLast DEF IInv, TypeOK, LogInv, Witnessed
<1>2. Newest(r.doc).pos = Len(journal) /\ Newest(r.doc).pos <= WitnessPosition
  BY <1>1 DEF Sound
<1>3. Len(journal) = WitnessPosition
  BY <1>1, <1>2
<1>4. PositionEqual(lineage, Len(journal), Last(journal))
  BY <1>3 DEF IInv, LogInv, Witnessed, PositionEqual, WitnessPosition, Last
<1>5. r.op = ADVANCE_EPOCH => Fits(r.auth, lineage)
  BY <1>1, <1>2, <1>3 DEF Sound
<1> QED BY <1>3, <1>4, <1>5

LEMMA AppendStep ==
  ASSUME IInv, NEW h \in Handlers, AppendRecovery(h)
  PROVE  IInv'
<1> DEFINE r == handlers[h]
           n == Len(journal)
<1>1. /\ TypeOK /\ r \in Requests /\ r.pc = "planned" /\ Sound(r) /\ n \in Nat \ {0}
      /\ UNCHANGED <<lineage, ownerVars, wire>>
  BY JournalHasLast DEF IInv, TypeOK, AppendRecovery
<1>2. CASE n # r.seen
  BY <1>1, <1>2, StopStep DEF AppendRecovery
<1>3. CASE n = r.seen
  <2> DEFINE b == r.batch
             t == IF r.op = ADVANCE_EPOCH THEN Idle ELSE [r EXCEPT !.pc = "appended"]
  <2>1. journal' = Append(journal, b) /\ handlers' = [handlers EXCEPT ![h] = t]
    <3>1. journal' = Append(journal, b)
      BY <1>3 DEF AppendRecovery
    <3>2. CASE r.op = ADVANCE_EPOCH
      BY <1>3, <3>1, <3>2 DEF AppendRecovery, Stops
    <3>3. CASE r.op # ADVANCE_EPOCH
      BY <1>1, <1>3, <3>1, <3>3 DEF AppendRecovery, Goes, TypeOK
    <3> QED BY <3>1, <3>2, <3>3
  <2>2. b \in Batches
    BY <1>1 DEF Requests
  <2>3. /\ journal' \in Seq(Batches) \ {<<>>} /\ Len(journal') = n + 1 /\ journal'[n + 1] = b
        /\ Last(journal') = b /\ \A k \in 1..n : journal'[k] = journal[k]
    BY <1>1, <2>1, <2>2 DEF TypeOK, Last
  <2>4. /\ n = WitnessPosition /\ EpochsEqual(lineage, journal[n])
        /\ r.op = ADVANCE_EPOCH => Fits(r.auth, lineage)
    BY <1>1, <1>3, AppendsAtWitness DEF PositionEqual, Last
  <2>5. /\ b.op = r.op
        /\ IF r.op = ADVANCE_EPOCH
             THEN /\ b.by = r.auth /\ b.epoch = register[r.auth].epoch + 1
                  /\ b.epoch > journal[n].epoch /\ b.items = {}
             ELSE b.by = journal[n].by /\ b.epoch = journal[n].epoch /\ journal[n].epoch # 1
    BY <1>1, <1>3 DEF Sound, Last
  <2>6. \A k \in 1..n : journal[k].epoch \in Nat /\ journal[k].epoch <= journal[n].epoch
    BY <1>1, JournalHasLast DEF IInv, LogInv, JournalOrdered, Batches
  <2>7. b.epoch \in Nat /\ journal[n].epoch \in Nat /\ journal[n].epoch <= b.epoch
    <3>1. b.epoch \in Nat /\ journal[n].epoch \in Nat
      BY <1>1, <2>2, <2>6 DEF Batches
    <3> QED BY <2>5, <3>1
  <2> HIDE DEF b
  <2>8. TypeOK'
    <3>1. t \in Requests
      BY <1>1, IdleIsSound DEF Requests, PCs
    <3> QED BY <1>1, <2>1, <2>3, <3>1 DEF TypeOK, ownerVars
  <2>9. JournalOrdered'
    <3>1. journal'[1] = GenesisBatch
      BY <1>1, <2>3 DEF IInv, LogInv, JournalOrdered
    <3>2. ASSUME NEW i \in 1..(n + 1), NEW k \in 1..(n + 1), i <= k
          PROVE  journal'[i].epoch <= journal'[k].epoch
      <4>1. CASE k \in 1..n
        <5>1. i \in 1..n
          BY <1>1, <3>2, <4>1
        <5> QED BY <2>3, <3>2, <4>1, <5>1 DEF IInv, LogInv, JournalOrdered
      <4>2. CASE k = n + 1 /\ i \in 1..n
        BY <2>3, <2>6, <2>7, <4>2
      <4>3. CASE k = n + 1 /\ i = n + 1
        BY <2>3, <2>7, <4>3
      <4> QED BY <1>1, <4>1, <4>2, <4>3
    <3>3. ASSUME NEW k \in 2..(n + 1)
          PROVE  IF journal'[k].op = ADVANCE_EPOCH
                   THEN /\ journal'[k].by \in AuthIds /\ register'[journal'[k].by] # NoAuth
                        /\ journal'[k].epoch = register'[journal'[k].by].epoch + 1
                   ELSE journal'[k].epoch = journal'[k - 1].epoch /\ journal'[k].by = journal'[k - 1].by
      <4>0. register' = register
        BY <1>1 DEF ownerVars
      <4>1. CASE k \in 2..n
        <5>1. k \in 1..n /\ k - 1 \in 1..n
          BY <1>1, <4>1
        <5> QED BY <2>3, <4>0, <4>1, <5>1 DEF IInv, LogInv, JournalOrdered
      <4>2. CASE k = n + 1
        <5>1. k - 1 = n /\ n \in 1..n
          BY <1>1, <4>2
        <5> QED BY <2>3, <2>4, <2>5, <4>0, <4>2, <5>1 DEF Fits
      <4> QED BY <1>1, <4>1, <4>2
    <3> QED BY <2>3, <3>1, <3>2, <3>3 DEF JournalOrdered
  <2>10. MarkedStays' /\ Issued'
    BY <1>1 DEF IInv, LogInv, MarkedStays, Issued, ownerVars
  <2>11. Witnessed'
    BY <1>1, <2>3, <2>4 DEF Witnessed, WitnessPosition, EpochsEqual
  <2>12. Adopting'
    BY <1>1, <2>3, <2>4, <2>5 DEF Adopting, Fits, ownerVars
  <2>13. RemovalAfterWitnessedEpoch'
    <3>1. ASSUME NEW k \in 1..(n + 1), journal'[k].items # {}
          PROVE  \E i \in DOMAIN lineage :
                   lineage[i].pos < k /\ lineage[i].epoch = journal'[k].epoch /\ lineage[i].epoch > 1
      <4>1. CASE k \in 1..n
        BY <1>1, <2>3, <3>1, <4>1, JournalHasLast DEF IInv, LogInv, RemovalAfterWitnessedEpoch
      <4>2. CASE k = n + 1
        <5>1. r.op # ADVANCE_EPOCH /\ b.epoch = journal[n].epoch /\ journal[n].epoch # 1
          BY <2>3, <2>5, <3>1, <4>2
        <5>2. journal[n].epoch > 1
          <6>1. journal[1].epoch = 1 /\ 1 \in 1..n
            BY <1>1 DEF IInv, LogInv, JournalOrdered, GenesisBatch
          <6> QED BY <2>6, <2>7, <5>1, <6>1
        <5>3. Len(lineage) \in DOMAIN lineage
          BY <1>1 DEF TypeOK, Docs
        <5>4. lineage[Len(lineage)].pos = n /\ lineage[Len(lineage)].epoch = journal[n].epoch
          BY <2>4 DEF WitnessPosition, EpochsEqual, Newest
        <5>5. n < n + 1
          BY <1>1
        <5> QED BY <2>3, <4>2, <5>1, <5>2, <5>3, <5>4, <5>5
      <4> QED BY <1>1, <4>1, <4>2
    <3>2. DOMAIN journal' = 1..(n + 1)
      BY <2>3
    <3> QED BY <1>1, <3>1, <3>2 DEF RemovalAfterWitnessedEpoch
  <2>14. ASSUME NEW g \in Handlers PROVE Sound(handlers[g])'
    <3>1. CASE g = h /\ r.op = ADVANCE_EPOCH
      <4>1. handlers'[g].pc = "idle"
        BY <1>1, <2>1, <3>1 DEF TypeOK, Idle
      <4> QED BY <4>1 DEF Sound
    <3>2. CASE g = h /\ r.op # ADVANCE_EPOCH
      <4>1. /\ handlers'[g].pc = "appended" /\ handlers'[g].op = r.op /\ handlers'[g].seen = n
            /\ handlers'[g].doc = r.doc
        BY <1>1, <1>3, <2>1, <3>2 DEF TypeOK, Requests
      <4>2. Newest(r.doc).pos <= WitnessPosition /\ n = Newest(r.doc).pos
        BY <1>1, <1>3 DEF Sound
      <4>3. n + 1 \in 1..Len(journal') /\ journal'[n + 1].op # ADVANCE_EPOCH
        BY <1>1, <2>3, <2>5, <3>2
      <4> QED BY <1>1, <4>1, <4>2, <4>3 DEF Sound, WitnessPosition
    <3>3. CASE g # h
      <4>0. handlers'[g] = handlers[g] /\ Sound(handlers[g]) /\ handlers[g] \in Requests
        BY <1>1, <2>1, <3>3 DEF TypeOK, IInv
      <4> PICK q \in Requests : q = handlers[g] /\ q = handlers'[g]
        BY <4>0
      <4>1. Sound(q)
        BY <4>0
      <4>2. q.pc = "planned" => Len(journal') # q.seen
        <5>1. q.pc = "planned" => q.seen = Newest(q.doc).pos /\ Newest(q.doc).pos <= n
          BY <2>4, <4>1 DEF Sound
        <5>2. Newest(q.doc).pos \in Nat
          BY <4>1, DocsHaveNewest DEF Requests, Entries
        <5> QED BY <1>1, <2>3, <5>1, <5>2
      <4>3. q.pc = "appended" => q.seen + 1 \in 1..Len(journal') /\ journal'[q.seen + 1].op # ADVANCE_EPOCH
        <5>1. q.pc = "appended" => q.seen + 1 \in 1..n /\ journal[q.seen + 1].op # ADVANCE_EPOCH
          BY <4>1 DEF Sound
        <5>2. \A k \in 1..n : k \in 1..(n + 1)
          BY <1>1
        <5> QED BY <2>3, <5>1, <5>2
      <4>4. Sound(q)'
        BY <1>1, <4>1, <4>2, <4>3 DEF Sound, Fits, WitnessPosition, ownerVars
      <4> QED BY <4>4
    <3> QED BY <3>1, <3>2, <3>3
  <2>15. WireSound'
    <3>1. \A k \in 1..n : k \in 1..(n + 1)
      BY <1>1
    <3> QED BY <1>1, <2>3, <3>1 DEF IInv, WireSound
  <2> QED BY <2>8, <2>9, <2>10, <2>11, <2>12, <2>13, <2>14, <2>15 DEF IInv, LogInv
<1> QED BY <1>2, <1>3

LEMMA SendRecordStep ==
  ASSUME IInv, NEW h \in Handlers, SendRecord(h)
  PROVE  IInv'
<1> DEFINE r == handlers[h]
           t == [r EXCEPT !.pc = "waiting"]
<1>1. /\ TypeOK /\ r \in Requests /\ r.pc = "appended" /\ Sound(r)
      /\ UNCHANGED <<lineage, ownerVars, journal>>
      /\ wire' = wire \cup {[doc |-> r.doc, pos |-> r.seen + 1]}
  BY DEF IInv, TypeOK, SendRecord
<1>2. handlers' = [handlers EXCEPT ![h] = t]
  BY <1>1 DEF SendRecord, Goes, TypeOK
<1>3. t \in Requests /\ t.pc = "waiting" /\ t.doc = r.doc
  BY <1>1 DEF Requests, PCs
<1>4. r.doc \in Docs /\ r.seen + 1 \in Nat
  BY <1>1 DEF Requests
<1>5. TypeOK'
  BY <1>1, <1>2, <1>3, <1>4 DEF TypeOK, ownerVars
<1>6. Sound(t)
  BY <1>1, <1>3 DEF Sound
<1>7. \A g \in Handlers : handlers'[g] = handlers[g] \/ Sound(handlers'[g])
  BY <1>1, <1>2, <1>6, OneHandler
<1>8. \A m \in wire' \ wire : m.pos \in 1..Len(journal) /\ journal[m.pos].op # ADVANCE_EPOCH
  BY <1>1 DEF Sound
<1> QED BY <1>1, <1>5, <1>7, <1>8, QuietStep DEF ownerVars

LEMMA IssueStep ==
  ASSUME IInv, NEW id \in AuthIds, NEW kind \in {HEAD, EPOCH}, NEW digest \in Digests,
         Issue(id, kind, digest)
  PROVE  IInv'
<1> DEFINE a == AuthorizationFor(kind, accepted, digest)
<1>1. /\ TypeOK /\ accepted \in Docs /\ register[id] = NoAuth
      /\ register' = [register EXCEPT ![id] = a]
      /\ UNCHANGED <<lineage, expired, accepted, journal, handlers, wire>>
  BY DEF IInv, TypeOK, Issue
<1>2. a \in Authorizations
  BY <1>1, IssuedIsAuthorization
<1>3. TypeOK'
  BY <1>1, <1>2 DEF TypeOK
<1>4. \A x \in AuthIds : register[x] # NoAuth => register'[x] = register[x]
  BY <1>1 DEF TypeOK
<1>5. \A x \in AuthIds, d \in Docs : Fits(x, d) => Fits(x, d)'
  BY <1>4 DEF Fits
<1>6. Issued'
  <2>1. register'[id] = a
    BY <1>1 DEF TypeOK
  <2>2. /\ a.epoch = Newest(a.witness).epoch
        /\ a.target.ver = Newest(a.witness).head.ver + 1
    BY DEF AuthorizationFor
  <2>3. \A x \in AuthIds : x # id => register'[x] = register[x]
    BY <1>1 DEF TypeOK
  <2> QED BY <2>1, <2>2, <2>3 DEF IInv, LogInv, Issued
<1>7. JournalOrdered'
  BY <1>1, <1>4 DEF IInv, LogInv, JournalOrdered
<1>8. Adopting'
  <2>1. lineage \in Docs
    BY <1>1 DEF TypeOK
  <2> QED BY <1>1, <1>5, <2>1 DEF IInv, LogInv, Adopting, WitnessPosition, Last, Fits
<1>9. MarkedStays' /\ Witnessed' /\ RemovalAfterWitnessedEpoch' /\ WireSound'
  BY <1>1 DEF IInv, LogInv, MarkedStays, Witnessed, WitnessPosition, RemovalAfterWitnessedEpoch,
     EpochsEqual, WireSound
<1>10. ASSUME NEW h \in Handlers PROVE Sound(handlers[h])'
  <2>1. handlers'[h] = handlers[h] /\ Sound(handlers[h]) /\ handlers[h] \in Requests
    BY <1>1 DEF IInv, TypeOK
  <2> PICK r \in Requests : r = handlers[h] /\ r = handlers'[h]
    BY <2>1
  <2>2. Sound(r) /\ r.doc \in Docs
    BY <2>1 DEF Requests
  <2>3. r.pc \in {"viewed", "observed", "planned"} /\ r.op = ADVANCE_EPOCH =>
          /\ Fits(r.auth, r.doc)' /\ register'[r.auth] = register[r.auth]
    BY <1>4, <1>5, <2>2 DEF Sound, Fits
  <2>4. Sound(r)'
    BY <1>1, <2>2, <2>3 DEF Sound, WitnessPosition, Last
  <2> QED BY <2>4
<1> QED BY <1>3, <1>6, <1>7, <1>8, <1>9, <1>10 DEF IInv, LogInv

-----------------------------------------------------------------------------
(***************************************************************************)
(* Theorems.                                                               *)
(***************************************************************************)

LEMMA InitIInv == Init => IInv
<1> SUFFICES ASSUME Init PROVE IInv
  OBVIOUS
<1>1. /\ Genesis \in Docs /\ Len(Genesis) = 1 /\ Newest(Genesis) = GenesisEntry
      /\ GenesisBatch \in Batches
  BY GenesisIsDoc DEF GenesisBatch, Batches, Genesis, Newest
<1>2. TypeOK
  BY <1>1, IdleIsSound DEF Init, TypeOK
<1>3. lineage = <<GenesisEntry>> /\ journal = <<GenesisBatch>> /\ WitnessPosition = 1
  BY <1>1 DEF Init, Genesis, WitnessPosition, GenesisEntry
<1>4. EpochsEqual(lineage, journal[1])
  <2>1. EpochOpenedBy(lineage) = NoAuth
    BY <1>3 DEF EpochOpenedBy
  <2> QED BY <1>3, <2>1 DEF EpochsEqual, Newest, GenesisEntry, GenesisBatch
<1>5. LogInv
  BY <1>3, <1>4 DEF Init, LogInv, MarkedStays, Issued, JournalOrdered, Witnessed, Adopting, Newest,
     RemovalAfterWitnessedEpoch, GenesisBatch, GenesisEntry
<1>6. \A h \in Handlers : Sound(handlers[h])
  BY IdleIsSound DEF Init
<1>7. WireSound
  BY DEF Init, WireSound
<1> QED BY <1>2, <1>5, <1>6, <1>7 DEF IInv

LEMMA NextIInv == IInv /\ [Next]_vars => IInv'
<1> SUFFICES ASSUME IInv, [Next]_vars PROVE IInv'
  OBVIOUS
<1>1. CASE ReadWitness
  <2>1. TypeOK'
    BY <1>1 DEF IInv, TypeOK, ReadWitness
  <2> QED BY <1>1, <2>1, QuietStep DEF ReadWitness
<1>2. ASSUME NEW id \in AuthIds, Expire(id) PROVE IInv'
  <2>1. TypeOK'
    BY <1>2 DEF IInv, TypeOK, Expire
  <2> QED BY <1>2, <2>1, QuietStep DEF Expire
<1>3. CASE OwnerStep
  BY <1>1, <1>2, <1>3, IssueStep, HeadAdvanceStep, EpochAdvanceStep DEF OwnerStep
<1>4. ASSUME NEW h \in Handlers, EndRecord(h) PROVE IInv'
  BY <1>4, StopStep DEF EndRecord
<1>5. ASSUME NEW h \in Handlers, HandlerStep(h) PROVE IInv'
  BY <1>4, <1>5, ViewStep, ObserveStep, PlanStep, AppendStep, SendRecordStep DEF HandlerStep
<1>6. ASSUME NEW m \in wire, LoseRecord(m) PROVE IInv'
  <2>1. UNCHANGED <<lineage, ownerVars, journal, handlers>> /\ wire' \subseteq wire
    BY <1>6 DEF LoseRecord
  <2>2. TypeOK'
    BY <2>1 DEF IInv, TypeOK, ownerVars
  <2> QED BY <2>1, <2>2, QuietStep DEF ownerVars
<1>7. CASE SignerCrash
  <2>1. handlers' = [h \in Handlers |-> Idle] /\ UNCHANGED <<lineage, ownerVars, journal, wire>>
    BY <1>7 DEF SignerCrash
  <2>2. TypeOK'
    BY <2>1, IdleIsSound DEF IInv, TypeOK, ownerVars
  <2> QED BY <2>1, <2>2, IdleIsSound, QuietStep DEF ownerVars
<1>8. CASE UNCHANGED vars
  <2>1. UNCHANGED <<lineage, register, expired, accepted, journal, handlers, wire>>
    BY <1>8 DEF vars, ownerVars
  <2>2. TypeOK'
    BY <2>1 DEF IInv, TypeOK
  <2> QED BY <2>1, <2>2, QuietStep
<1> QED BY <1>3, <1>5, <1>6, <1>7, <1>8, ServeRecordStep DEF Next

(* Every variable keeps its type.                                          *)
THEOREM TypeCorrect == Spec => []TypeOK
<1>1. IInv => TypeOK
  BY DEF IInv
<1> QED BY <1>1, InitIInv, NextIInv, PTL DEF Spec

(* Whatever threads, crashes and lost or late records do, at most one batch*)
(* of the signer's ledger is not witnessed (append_recovery).              *)
THEOREM LedgerIsNotFarAhead == Spec => []AtMostOneBatchAhead
<1>1. IInv => AtMostOneBatchAhead
  <2> SUFFICES ASSUME IInv PROVE AtMostOneBatchAhead
    OBVIOUS
  <2>1. Len(journal) \in Nat
    BY JournalHasLast DEF IInv
  <2>2. WitnessPosition \in 1..Len(journal) /\ Len(journal) <= WitnessPosition + 1
    BY DEF IInv, LogInv, Witnessed
  <2> QED BY <2>1, <2>2 DEF AtMostOneBatchAhead
<1> QED BY <1>1, InitIInv, NextIInv, PTL DEF Spec

(* An adoption that was journalled can be executed: nothing overtakes it.  *)
THEOREM AdoptionIsNotOvertaken == Spec => []AdoptionFitsWitness
<1>1. IInv => AdoptionFitsWitness
  <2> SUFFICES ASSUME IInv, Last(journal).epoch # Newest(lineage).epoch PROVE AdoptionFitsWitness
    BY DEF AdoptionFitsWitness
  <2> DEFINE id == Last(journal).by
  <2>1. /\ TypeOK /\ Len(journal) \in Nat \ {0} /\ lineage \in Docs /\ Newest(lineage) \in Entries
        /\ WitnessPosition \in 1..Len(journal) /\ Len(journal) <= WitnessPosition + 1
    BY JournalHasLast, DocsHaveNewest DEF IInv, TypeOK, LogInv, Witnessed
  <2>2. journal[WitnessPosition].epoch = Newest(lineage).epoch
    BY DEF IInv, LogInv, Witnessed, EpochsEqual
  <2>3. Len(journal) # WitnessPosition
    BY <2>2 DEF Last
  <2>4. Len(journal) = WitnessPosition + 1 /\ Len(journal) \in 2..Len(journal)
        /\ Len(journal) - 1 = WitnessPosition
    BY <2>1, <2>3
  <2>5. Last(journal).op = ADVANCE_EPOCH
    BY <2>2, <2>4 DEF IInv, LogInv, JournalOrdered, Last
  <2>6. Fits(id, lineage)
    BY <2>4, <2>5 DEF IInv, LogInv, Adopting
  <2>7. /\ register[id].epoch = Newest(lineage).epoch
        /\ register[id].target.ver = Newest(lineage).head.ver + 1
    BY <2>6 DEF IInv, LogInv, Issued, Fits
  <2>8. Len(journal) # Newest(lineage).pos
    BY <2>3 DEF WitnessPosition
  <2>9. PlanEpochAdvance(lineage, id, register[id], Len(journal)) # {}
    BY <2>6, <2>7, <2>8 DEF PlanEpochAdvance, Fits
  <2> QED BY <2>5, <2>6, <2>9 DEF AdoptionFitsWitness, Fits
<1> QED BY <1>1, InitIInv, NextIInv, PTL DEF Spec

(* Work is voided or quarantined only in an epoch the witness holds.       *)
THEOREM RemovalIsWitnessed == Spec => []RemovalAfterWitnessedEpoch
<1>1. IInv => RemovalAfterWitnessedEpoch
  BY DEF IInv, LogInv
<1> QED BY <1>1, InitIInv, NextIInv, PTL DEF Spec

(* The signer appends only on the position and in the epoch the witness    *)
(* holds at that moment (the compare-and-swap of append_recovery).         *)
THEOREM AppendsFollowTheWitness == Spec => AppendAtWitness
<1>1. ASSUME IInv, [Next]_vars
      PROVE  [journal' # journal => PositionEqual(lineage, Len(journal), Last(journal))]_vars
  <2>1. ASSUME NEW h \in Handlers, AppendRecovery(h), journal' # journal
        PROVE  PositionEqual(lineage, Len(journal), Last(journal))
    <3>1. handlers[h].pc = "planned" /\ Len(journal) = handlers[h].seen
      BY <2>1 DEF AppendRecovery
    <3> QED BY <1>1, <3>1, AppendsAtWitness
  <2>2. journal' = journal \/ \E h \in Handlers : AppendRecovery(h)
    BY <1>1 DEF Next, OwnerStep, ReadWitness, Issue, Expire, ExecuteHeadAdvance, ExecuteEpochAdvance,
       HandlerStep, View, Observe, Plan, SendRecord, EndRecord, ServeRecord, LoseRecord, SignerCrash, vars
  <2> QED BY <2>1, <2>2
<1> QED BY <1>1, InitIInv, NextIInv, PTL DEF Spec, AppendAtWitness

-----------------------------------------------------------------------------
(***************************************************************************)
(* Refinement.                                                             *)
(***************************************************************************)

(* The definitions of WitnessLog are those of WitnessV2.                   *)
LEMMA SameDocuments ==
  /\ Log!Genesis = Genesis
  /\ Log!HEAD = HEAD /\ Log!EPOCH = EPOCH
  /\ \A d : Log!Newest(d) = Newest(d) /\ Log!Consumed(d) = Consumed(d)
  /\ \A e, f : Log!EntrySucceeds(e, f) <=> EntrySucceeds(e, f)
  /\ \A a, p, f : Log!Binds(a, p, f) <=> Binds(a, p, f)
  /\ \A kind, d, digest : Log!AuthorizationFor(kind, d, digest) = AuthorizationFor(kind, d, digest)
<1>1. Log!Genesis = Genesis
  BY DEF Genesis, GenesisEntry, Log!Genesis, Log!GenesisEntry
<1>2. Log!HEAD = HEAD /\ Log!EPOCH = EPOCH
  BY DEF HEAD, EPOCH, Log!HEAD, Log!EPOCH
<1>3. \A d : Log!Newest(d) = Newest(d) /\ Log!Consumed(d) = Consumed(d)
  BY DEF Newest, Consumed, Log!Newest, Log!Consumed
<1>4. \A e, f : Log!EntrySucceeds(e, f) <=> EntrySucceeds(e, f)
  BY DEF EntrySucceeds, Log!EntrySucceeds
<1>5. \A a, p, f : Log!Binds(a, p, f) <=> Binds(a, p, f)
  BY <1>2, <1>3 DEF Binds, Log!Binds
<1>6. \A kind, d, digest : Log!AuthorizationFor(kind, d, digest) = AuthorizationFor(kind, d, digest)
  BY <1>3 DEF AuthorizationFor, Log!AuthorizationFor
<1> QED BY <1>1, <1>2, <1>3, <1>4, <1>5, <1>6

(* A commit of a lawful entry is a commit of the log.                      *)
LEMMA LawfulCommit ==
  ASSUME IInv, NEW e \in Entries, lineage' = Append(lineage, e), UNCHANGED ownerVars,
         EntrySucceeds(Newest(lineage), e),
         e.auth # NoAuth => /\ e.auth \notin Consumed(lineage)
                            /\ register[e.auth] # NoAuth
                            /\ Binds(register[e.auth], lineage, e)
  PROVE  Log!Commit
<1>1. lineage \in Docs /\ lineage # <<>>
  BY DEF IInv, TypeOK, Docs
<1>2. Newest(lineage') = e /\ lineage' # <<>>
  <2>1. Newest(lineage') = e /\ lineage' \in Docs
    BY <1>1, AppendIsDoc
  <2> QED BY <2>1 DEF Docs
<1>3. Log!Lawful(e)
  BY <1>1, SameDocuments DEF Log!Lawful
<1> QED BY <1>2, <1>3, SameDocuments DEF Log!Commit, ownerVars

LEMMA StepRefines ==
  ASSUME IInv, [Next]_vars
  PROVE  [Log!Next]_(Log!vars)
<1>1. TypeOK /\ lineage \in Docs /\ Newest(lineage) \in Entries
  BY DocsHaveNewest DEF IInv, TypeOK
<1>2. CASE ReadWitness
  <2>1. lineage = SubSeq(lineage, 1, Len(lineage)) /\ Len(lineage) \in 1..Len(lineage)
    BY <1>1 DEF Docs
  <2>2. lineage \in Log!Prefixes
    BY <2>1 DEF Log!Prefixes
  <2>3. Log!Read
    BY <1>2, <2>2 DEF ReadWitness, Log!Read
  <2> QED BY <2>3 DEF Log!Next
<1>3. ASSUME NEW id \in AuthIds, NEW kind \in {HEAD, EPOCH}, NEW digest \in Digests, Issue(id, kind, digest)
      PROVE  Log!Next
  <2>1. accepted # <<>>
    BY <1>1 DEF TypeOK, Docs
  <2>2. Log!Issue
    BY <1>3, <2>1, SameDocuments DEF Issue, Log!Issue
  <2> QED BY <2>2 DEF Log!Next
<1>4. ASSUME NEW id \in AuthIds, ExecuteHeadAdvance(id) PROVE Log!Next
  <2>1. PICK e \in PlanRegistryHeadAdvance(lineage, id, register[id]) : lineage' = Append(lineage, e)
    BY <1>4 DEF ExecuteHeadAdvance
  <2>2. register[id] \in Authorizations /\ register[id] # NoAuth /\ register[id].kind = HEAD
    BY <1>1, <1>4 DEF TypeOK, ExecuteHeadAdvance
  <2>3. e \in Entries
    BY <1>1, <2>1, <2>2, PlansAreEntries
  <2>4. /\ e.auth = id /\ e.head = register[id].target /\ e.pos = Newest(lineage).pos
        /\ e.epoch = Newest(lineage).epoch /\ e.epoch = register[id].epoch
        /\ register[id].prior = Newest(lineage).head /\ e.head.ver = Newest(lineage).head.ver + 1
        /\ id \notin Consumed(lineage)
    BY <1>1, <2>1, <2>2 DEF PlanRegistryHeadAdvance, Entries
  <2>5. EntrySucceeds(Newest(lineage), e)
    BY <1>1, <2>3, <2>4, WitnessV2Assumption DEF EntrySucceeds, Entries
  <2>6. Binds(register[id], lineage, e)
    BY <2>2, <2>4 DEF Binds, HEAD, EPOCH
  <2>7. Log!Commit
    BY <1>4, <2>1, <2>2, <2>3, <2>4, <2>5, <2>6, LawfulCommit DEF ExecuteHeadAdvance
  <2> QED BY <2>7 DEF Log!Next
<1>5. ASSUME NEW id \in AuthIds, ExecuteEpochAdvance(id) PROVE Log!Next
  <2>1. PICK position \in Nat :
          \E e \in PlanEpochAdvance(lineage, id, register[id], position) : lineage' = Append(lineage, e)
    BY <1>1, <1>5, JournalHasLast DEF ExecuteEpochAdvance
  <2>2. PICK e \in PlanEpochAdvance(lineage, id, register[id], position) : lineage' = Append(lineage, e)
    BY <2>1
  <2>3. register[id] \in Authorizations /\ register[id] # NoAuth /\ register[id].kind = EPOCH
    BY <1>1, <1>5 DEF TypeOK, ExecuteEpochAdvance
  <2>4. e \in Entries
    BY <1>1, <2>2, <2>3, PlansAreEntries
  <2>5. /\ e.auth = id /\ e.head = register[id].target /\ e.pos = position
        /\ e.epoch = Newest(lineage).epoch + 1 /\ position # Newest(lineage).pos
        /\ register[id].witness = lineage /\ e.head.ver = Newest(lineage).head.ver + 1
        /\ id \notin Consumed(lineage)
    BY <2>2 DEF PlanEpochAdvance
  <2>6. EntrySucceeds(Newest(lineage), e)
    BY <1>1, <2>4, <2>5, WitnessV2Assumption DEF EntrySucceeds, Entries
  <2>7. Binds(register[id], lineage, e)
    BY <2>3, <2>5 DEF Binds, HEAD, EPOCH
  <2>8. Log!Commit
    BY <1>5, <2>2, <2>3, <2>4, <2>5, <2>6, <2>7, LawfulCommit DEF ExecuteEpochAdvance
  <2> QED BY <2>8 DEF Log!Next
<1>6. ASSUME NEW m \in wire, ServeRecord(m), lineage' # lineage PROVE Log!Next
  <2>1. PICK e \in PlanLedgerAdvance(lineage, m.pos) : lineage' = Append(lineage, e)
    BY <1>6 DEF ServeRecord
  <2>2. m.pos \in Nat
    BY <1>1 DEF TypeOK
  <2>3. e \in Entries
    BY <1>1, <2>1, <2>2, PlansAreEntries
  <2>4. /\ e.auth = NoAuth /\ e.epoch = Newest(lineage).epoch /\ e.head = Newest(lineage).head
        /\ e.pos = m.pos /\ m.pos > Newest(lineage).pos
    BY <1>1, <2>1, <2>2 DEF PlanLedgerAdvance, Entries
  <2>5. EntrySucceeds(Newest(lineage), e)
    BY <1>1, <2>2, <2>3, <2>4 DEF EntrySucceeds, Entries, Heads
  <2>6. Log!Commit
    BY <1>6, <2>1, <2>3, <2>4, <2>5, LawfulCommit DEF ServeRecord
  <2> QED BY <2>6 DEF Log!Next
<1>7. CASE UNCHANGED <<lineage, register, accepted>>
  BY <1>7 DEF Log!vars
<1>8. \/ UNCHANGED <<lineage, register, accepted>>
      \/ ReadWitness
      \/ \E id \in AuthIds :
           \/ \E kind \in {HEAD, EPOCH}, digest \in Digests : Issue(id, kind, digest)
           \/ ExecuteHeadAdvance(id) \/ ExecuteEpochAdvance(id)
      \/ \E m \in wire : ServeRecord(m) /\ lineage' # lineage
  BY DEF Next, OwnerStep, Expire, HandlerStep, View, Observe, Plan, AppendRecovery, SendRecord, EndRecord,
     ServeRecord, LoseRecord, SignerCrash, vars, ownerVars
<1> QED BY <1>2, <1>3, <1>4, <1>5, <1>6, <1>7, <1>8

(* The signer, the owner and the witness service together keep the promise *)
(* of WitnessLog: one append-only log of lawful, singly authorized entries.*)
THEOREM SignerImplementsLog == Spec => ImplementsLog
<1>1. Init => /\ lineage = Log!Genesis /\ accepted = Log!Genesis
              /\ register = [id \in AuthIds |-> NoAuth]
  BY SameDocuments DEF Init
<1> QED BY <1>1, InitIInv, NextIInv, StepRefines, PTL DEF Spec, ImplementsLog, Log!SpecFromGenesis

=============================================================================
