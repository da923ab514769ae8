------------------------ MODULE RecoveryLedgerProofs ------------------------
(***************************************************************************)
(* What recovery and restores can never do to the authority ledger, proved *)
(* for any numbers of challenges, evidences, epochs, registries, restores  *)
(* and for every choice of what the backups restore.                       *)
(*                                                                         *)
(* Argument.  Every operation is first described on the replayed state: it *)
(* keeps the state sound (work belongs to an epoch already reached, and    *)
(* evidence to the epoch of its challenge), keeps terminal records, and    *)
(* either keeps the epoch and touches one item, or narrows what is pending.*)
(* A step then either appends such an operation, keeps the journal, or puts*)
(* back a backup, which is always a prefix of the journal it replaces.     *)
(*                                                                         *)
(* Under RestoresOneSide, a second argument counts what a restored ledger  *)
(* can become in its epoch, and so shows that the gate sees each loss.     *)
(***************************************************************************)
EXTENDS RecoveryLedger, FiniteSetTheorems, SequenceTheorems, TLAPS

(* Work belongs to an epoch the ledger has reached, and evidence to the    *)
(* epoch of the challenge it was issued for.                               *)
WorkIsReached(r) ==
  /\ \A c \in Challenges : r.challenges[c].state # UNKNOWN =>
       r.challenges[c].epoch.counter <= r.epoch.counter
  /\ \A v \in Evidences : r.uses[v].state # UNKNOWN => r.uses[v].epoch.counter <= r.epoch.counter

EvidenceFollowsChallenge(r) ==
  \A c \in Challenges, v \in Evidences : r.challenges[c].evidence = v =>
    /\ r.uses[v].state # UNKNOWN
    /\ r.challenges[c].epoch = r.uses[v].epoch

Sound(r) == r \in Replays /\ WorkIsReached(r) /\ EvidenceFollowsChallenge(r)

TerminalKept(r, s) ==
  /\ \A c \in Challenges : r.challenges[c].state \in CHALLENGE_TERMINAL =>
       s.challenges[c].state = r.challenges[c].state
  /\ \A v \in Evidences : r.uses[v].state \in USE_TERMINAL => s.uses[v] = r.uses[v]

Narrows(r, s) ==
  /\ Pending(s) \subseteq Pending(r)
  /\ s.epoch # r.epoch => Pending(s) = {}

(* All the work `id` stands for belongs to the epoch of `s`.               *)
WorkOfEpoch(s, id) ==
  /\ IF id \in Challenges THEN s.challenges[id].epoch = s.epoch ELSE s.uses[id].epoch = s.epoch
  /\ \A c \in Challenges : s.challenges[c].evidence = id => s.challenges[c].epoch = s.epoch

CreatesFrom(r, s, id) ==
  Sound(s) /\ TerminalKept(r, s) /\ s.epoch = r.epoch /\ id \in Items /\ WorkOfEpoch(s, id)

DestroysFrom(r, s) == Sound(s) /\ TerminalKept(r, s) /\ Narrows(r, s)

USE DEF PREPARED, CONSUMED, RESERVED, ISSUED, ABANDONED, UNKNOWN, VOIDED_BY_RECOVERY,
        QUARANTINED_BY_RECOVERY, EndingStates, CHALLENGE_TERMINAL, USE_TERMINAL

-----------------------------------------------------------------------------
(***************************************************************************)
(* The operations on a replayed state.                                     *)
(***************************************************************************)

LEMMA PrepareCreates ==
  ASSUME NEW r, Sound(r), NEW c \in Challenges, r.challenges[c].state = UNKNOWN
  PROVE  CreatesFrom(r, [r EXCEPT !.challenges[c] =
                           [state |-> PREPARED, epoch |-> r.epoch, evidence |-> NoEntity]], c)
<1> DEFINE s == [r EXCEPT !.challenges[c] = [state |-> PREPARED, epoch |-> r.epoch, evidence |-> NoEntity]]
<1>1. s \in Replays /\ s.epoch = r.epoch /\ s.uses = r.uses
  BY DEF Sound, Replays, ChallengeRows
<1>2. s.challenges[c] = [state |-> PREPARED, epoch |-> r.epoch, evidence |-> NoEntity]
  BY DEF Sound, Replays
<1>3. \A d \in Challenges : d # c => s.challenges[d] = r.challenges[d]
  BY DEF Sound, Replays
<1>4. r.epoch \in Epochs
  BY DEF Sound, Replays
<1> HIDE DEF s
<1>5. WorkIsReached(s)
  BY <1>1, <1>2, <1>3, <1>4 DEF Sound, WorkIsReached, Epochs
<1>6. EvidenceFollowsChallenge(s)
  BY <1>1, <1>2, <1>3, RecoveryLedgerAssumption DEF Sound, EvidenceFollowsChallenge
<1>7. TerminalKept(r, s)
  BY <1>1, <1>2, <1>3 DEF TerminalKept
<1>8. WorkOfEpoch(s, c)
  <2>1. \A d \in Challenges : s.challenges[d].evidence # c
    BY <1>1, RecoveryLedgerAssumption DEF Replays, ChallengeRows
  <2> QED BY <1>1, <1>2, <2>1 DEF WorkOfEpoch
<1> QED BY <1>1, <1>5, <1>6, <1>7, <1>8 DEF CreatesFrom, Sound, Items, s

LEMMA ConsumeCreates ==
  ASSUME NEW r, Sound(r), NEW c \in Challenges,
         r.challenges[c].state = PREPARED, r.challenges[c].epoch = r.epoch
  PROVE  CreatesFrom(r, [r EXCEPT !.challenges[c].state = CONSUMED], c)
<1> DEFINE s == [r EXCEPT !.challenges[c].state = CONSUMED]
<1>1. s \in Replays /\ s.epoch = r.epoch /\ s.uses = r.uses
  BY DEF Sound, Replays, ChallengeRows
<1>2. s.challenges[c].state = CONSUMED /\ s.challenges[c].epoch = r.challenges[c].epoch
      /\ s.challenges[c].evidence = r.challenges[c].evidence
  BY DEF Sound, Replays, ChallengeRows
<1>3. \A d \in Challenges : d # c => s.challenges[d] = r.challenges[d]
  BY DEF Sound, Replays
<1> HIDE DEF s
<1>5. WorkIsReached(s)
  BY <1>1, <1>2, <1>3 DEF Sound, WorkIsReached
<1>6. EvidenceFollowsChallenge(s)
  BY <1>1, <1>2, <1>3 DEF Sound, EvidenceFollowsChallenge
<1>7. TerminalKept(r, s)
  BY <1>1, <1>2, <1>3 DEF TerminalKept
<1>8. WorkOfEpoch(s, c)
  <2>1. \A d \in Challenges : s.challenges[d].evidence # c
    BY <1>1, RecoveryLedgerAssumption DEF Replays, ChallengeRows
  <2> QED BY <1>1, <1>2, <2>1 DEF WorkOfEpoch
<1> QED BY <1>1, <1>5, <1>6, <1>7, <1>8 DEF CreatesFrom, Sound, Items, s

LEMMA IssueCreates ==
  ASSUME NEW r, Sound(r), NEW c \in Challenges, NEW v \in Evidences,
         r.challenges[c].state = CONSUMED, r.challenges[c].epoch = r.epoch,
         r.uses[v].state = UNKNOWN
  PROVE  CreatesFrom(r, [r EXCEPT !.challenges[c].evidence = v,
                                  !.uses[v] = [state |-> ISSUED, epoch |-> r.epoch]], v)
<1> DEFINE s == [r EXCEPT !.challenges[c].evidence = v, !.uses[v] = [state |-> ISSUED, epoch |-> r.epoch]]
<1> DEFINE q == [r EXCEPT !.challenges[c].evidence = v]
<1>0. q \in Replays /\ q.epoch = r.epoch
  BY DEF Sound, Replays, ChallengeRows
<1>0a. \A p \in Replays : /\ [p EXCEPT !.uses[v] = [state |-> ISSUED, epoch |-> p.epoch]] \in Replays
                          /\ [p EXCEPT !.uses[v] = [state |-> ISSUED, epoch |-> p.epoch]].epoch = p.epoch
  BY DEF Replays, UseRows
<1>0b. s = [q EXCEPT !.uses[v] = [state |-> ISSUED, epoch |-> q.epoch]]
  BY <1>0
<1>1. s \in Replays /\ s.epoch = r.epoch
  <2> HIDE DEF s, q
  <2> QED BY <1>0, <1>0a, <1>0b
<1>2. s.challenges[c].state = CONSUMED /\ s.challenges[c].epoch = r.epoch /\ s.challenges[c].evidence = v
  BY DEF Sound, Replays, ChallengeRows
<1>3. \A d \in Challenges : d # c => s.challenges[d] = r.challenges[d]
  BY DEF Sound, Replays
<1>4. s.uses[v] = [state |-> ISSUED, epoch |-> r.epoch] /\ \A w \in Evidences : w # v => s.uses[w] = r.uses[w]
  BY DEF Sound, Replays
<1>4a. r.epoch \in Epochs /\ \A d \in Challenges : r.challenges[d].evidence # v
  BY DEF Sound, Replays, EvidenceFollowsChallenge
<1> HIDE DEF s
<1>5. WorkIsReached(s)
  BY <1>1, <1>2, <1>3, <1>4, <1>4a DEF Sound, WorkIsReached, Epochs
<1>6. EvidenceFollowsChallenge(s)
  BY <1>1, <1>2, <1>3, <1>4, <1>4a DEF Sound, EvidenceFollowsChallenge
<1>7. TerminalKept(r, s)
  BY <1>1, <1>2, <1>3, <1>4 DEF TerminalKept
<1>8. WorkOfEpoch(s, v)
  <2>1. v \notin Challenges
    BY RecoveryLedgerAssumption
  <2> QED BY <1>1, <1>2, <1>3, <1>4, <1>4a, <2>1 DEF WorkOfEpoch
<1> QED BY <1>1, <1>5, <1>6, <1>7, <1>8 DEF CreatesFrom, Sound, Items, s

(* Reserve, Confirm, Abandon: one use of evidence changes its state.       *)
LEMMA UseStateChanges ==
  ASSUME NEW r, Sound(r), NEW v \in Evidences, NEW to \in {RESERVED, CONSUMED, ABANDONED},
         r.uses[v].state \in {ISSUED, RESERVED},
         NEW s, s = [r EXCEPT !.uses[v].state = to]
  PROVE  /\ Sound(s) /\ TerminalKept(r, s) /\ s.epoch = r.epoch /\ s.challenges = r.challenges
         /\ s.uses[v].epoch = r.uses[v].epoch
         /\ s.uses[v].state = to
         /\ \A w \in Evidences : w # v => s.uses[w] = r.uses[w]
<1>1. s \in Replays /\ s.epoch = r.epoch /\ s.challenges = r.challenges
  BY DEF Sound, Replays, UseRows
<1>2. s.uses[v].state = to /\ s.uses[v].epoch = r.uses[v].epoch
  BY DEF Sound, Replays, UseRows
<1>3. \A w \in Evidences : w # v => s.uses[w] = r.uses[w]
  BY DEF Sound, Replays
<1>5. WorkIsReached(s)
  BY <1>1, <1>2, <1>3 DEF Sound, WorkIsReached
<1>6. EvidenceFollowsChallenge(s)
  BY <1>1, <1>2, <1>3 DEF Sound, EvidenceFollowsChallenge
<1>7. TerminalKept(r, s)
  BY <1>1, <1>2, <1>3 DEF TerminalKept
<1> QED BY <1>1, <1>2, <1>3, <1>5, <1>6, <1>7 DEF Sound

LEMMA UseCreates ==
  ASSUME NEW r, Sound(r), NEW v \in Evidences, NEW to \in {RESERVED, CONSUMED},
         r.uses[v].state \in {ISSUED, RESERVED}, r.uses[v].epoch = r.epoch
  PROVE  CreatesFrom(r, [r EXCEPT !.uses[v].state = to], v)
<1> DEFINE s == [r EXCEPT !.uses[v].state = to]
<1>0. to \in {RESERVED, CONSUMED, ABANDONED} /\ s = [r EXCEPT !.uses[v].state = to]
  OBVIOUS
<1> HIDE DEF s
<1>0a. Sound(s) /\ TerminalKept(r, s) /\ s.epoch = r.epoch /\ s.challenges = r.challenges
       /\ s.uses[v].epoch = r.uses[v].epoch
  BY <1>0, UseStateChanges
<1>1. Sound(s) /\ TerminalKept(r, s) /\ s.epoch = r.epoch /\ s.challenges = r.challenges
      /\ s.uses[v].epoch = r.epoch
  BY <1>0a
<1>2. v \notin Challenges
  BY RecoveryLedgerAssumption
<1>3. WorkOfEpoch(s, v)
  BY <1>1, <1>2 DEF WorkOfEpoch, Sound, EvidenceFollowsChallenge
<1> QED BY <1>1, <1>3 DEF CreatesFrom, Items, s

LEMMA AbandonDestroys ==
  ASSUME NEW r, Sound(r), NEW v \in Evidences, r.uses[v].state = RESERVED
  PROVE  DestroysFrom(r, [r EXCEPT !.uses[v].state = ABANDONED])
<1> DEFINE s == [r EXCEPT !.uses[v].state = ABANDONED]
<1>1. Sound(s) /\ TerminalKept(r, s) /\ s.epoch = r.epoch /\ s.challenges = r.challenges
      /\ s.uses[v].state = ABANDONED /\ \A w \in Evidences : w # v => s.uses[w] = r.uses[w]
  BY UseStateChanges
<1> HIDE DEF s
<1>2. Pending(s) \subseteq Pending(r)
  BY <1>1, RecoveryLedgerAssumption DEF Pending
<1> QED BY <1>1, <1>2 DEF DestroysFrom, Narrows, s

LEMMA EndDestroys ==
  ASSUME NEW r, Sound(r), NEW c \in Challenges, NEW to \in EndingStates, r.challenges[c].state = PREPARED
  PROVE  DestroysFrom(r, [r EXCEPT !.challenges[c].state = to])
<1> DEFINE s == [r EXCEPT !.challenges[c].state = to]
<1>1. s \in Replays /\ s.epoch = r.epoch /\ s.uses = r.uses
  BY DEF Sound, Replays, ChallengeRows
<1>2. s.challenges[c].state = to /\ s.challenges[c].epoch = r.challenges[c].epoch
      /\ s.challenges[c].evidence = r.challenges[c].evidence
  BY DEF Sound, Replays, ChallengeRows
<1>3. \A d \in Challenges : d # c => s.challenges[d] = r.challenges[d]
  BY DEF Sound, Replays
<1> HIDE DEF s
<1>5. WorkIsReached(s)
  BY <1>1, <1>2, <1>3 DEF Sound, WorkIsReached
<1>6. EvidenceFollowsChallenge(s)
  BY <1>1, <1>2, <1>3 DEF Sound, EvidenceFollowsChallenge
<1>7. TerminalKept(r, s)
  BY <1>1, <1>2, <1>3 DEF TerminalKept
<1>8. Pending(s) \subseteq Pending(r)
  BY <1>1, <1>2, <1>3 DEF Pending
<1> QED BY <1>1, <1>5, <1>6, <1>7, <1>8 DEF DestroysFrom, Narrows, Sound, s

LEMMA RegistryViewDestroys ==
  ASSUME NEW r, Sound(r), NEW view \in Nat, NEW key \in Nat
  PROVE  DestroysFrom(r, [r EXCEPT !.view = view, !.key = key])
<1> DEFINE s == [r EXCEPT !.view = view, !.key = key]
<1>1. s \in Replays /\ s.epoch = r.epoch /\ s.uses = r.uses /\ s.challenges = r.challenges
  BY DEF Sound, Replays
<1> HIDE DEF s
<1>2. WorkIsReached(s) /\ EvidenceFollowsChallenge(s) /\ TerminalKept(r, s)
  BY <1>1 DEF Sound, WorkIsReached, EvidenceFollowsChallenge, TerminalKept
<1>3. Pending(s) = Pending(r)
  BY <1>1 DEF Pending
<1> QED BY <1>1, <1>2, <1>3 DEF DestroysFrom, Narrows, Sound, s

LEMMA AdvanceDestroys ==
  ASSUME NEW r, Sound(r), NEW e \in Epochs, NEW view \in Nat, NEW key \in Nat, e.counter > r.epoch.counter
  PROVE  DestroysFrom(r, [r EXCEPT !.epoch = e, !.view = view, !.key = key])
<1> DEFINE s == [r EXCEPT !.epoch = e, !.view = view, !.key = key]
<1>1. s \in Replays /\ s.epoch = e /\ s.uses = r.uses /\ s.challenges = r.challenges
  BY DEF Sound, Replays
<1>2. r.epoch.counter \in Nat /\ e.counter \in Nat
      /\ (\A c \in Challenges : r.challenges[c].epoch.counter \in Nat)
      /\ (\A v \in Evidences : r.uses[v].epoch.counter \in Nat)
  BY DEF Sound, Replays, Epochs, ChallengeRows, UseRows
<1> HIDE DEF s
<1>3. WorkIsReached(s) /\ EvidenceFollowsChallenge(s) /\ TerminalKept(r, s)
  BY <1>1, <1>2 DEF Sound, WorkIsReached, EvidenceFollowsChallenge, TerminalKept
<1>4. Pending(s) = {}
  BY <1>1, <1>2 DEF Pending, Sound, WorkIsReached
<1> QED BY <1>1, <1>3, <1>4 DEF DestroysFrom, Narrows, Sound, s

LEMMA WithoutDestroys ==
  ASSUME NEW r, Sound(r), NEW items \in SUBSET (StalePrepared(r) \cup StaleReserved(r))
  PROVE  DestroysFrom(r, Without(r, items))
<1> DEFINE s == Without(r, items)
<1> DEFINE voided(c) == [r.challenges[c] EXCEPT !.state = VOIDED_BY_RECOVERY]
           quarantined(v) == [r.uses[v] EXCEPT !.state = QUARANTINED_BY_RECOVERY]
<1> DEFINE F == [c \in Challenges |-> IF c \in items THEN voided(c) ELSE r.challenges[c]]
           G == [v \in Evidences |-> IF v \in items THEN quarantined(v) ELSE r.uses[v]]
<1>0. s = [[r EXCEPT !.challenges = F] EXCEPT !.uses = G]
  BY DEF Without
<1>0a. \A c \in Challenges : voided(c) \in ChallengeRows /\ r.challenges[c] \in ChallengeRows
  BY DEF Sound, Replays, ChallengeRows
<1>0b. \A v \in Evidences : quarantined(v) \in UseRows /\ r.uses[v] \in UseRows
  BY DEF Sound, Replays, UseRows
<1>0c. F \in [Challenges -> ChallengeRows] /\ G \in [Evidences -> UseRows]
  <2> HIDE DEF voided, quarantined
  <2> QED BY <1>0a, <1>0b
<1>0d. \A p \in Replays : /\ \A f \in [Challenges -> ChallengeRows] :
                               /\ [p EXCEPT !.challenges = f] \in Replays
                               /\ [p EXCEPT !.challenges = f].epoch = p.epoch
                          /\ \A g \in [Evidences -> UseRows] :
                               /\ [p EXCEPT !.uses = g] \in Replays
                               /\ [p EXCEPT !.uses = g].epoch = p.epoch
  BY DEF Replays
<1>1. s \in Replays /\ s.epoch = r.epoch
  <2>1. r \in Replays
    BY DEF Sound
  <2> HIDE DEF s, F, G
  <2> QED BY <2>1, <1>0, <1>0c, <1>0d
<1>2. \A c \in Challenges : /\ s.challenges[c].epoch = r.challenges[c].epoch
                            /\ s.challenges[c].evidence = r.challenges[c].evidence
                            /\ s.challenges[c].state = IF c \in items THEN VOIDED_BY_RECOVERY
                                                       ELSE r.challenges[c].state
  BY DEF Sound, Replays, Without, ChallengeRows
<1>3. \A v \in Evidences : v \notin items => s.uses[v] = r.uses[v]
  BY DEF Sound, Replays, Without, UseRows
<1>3a. \A v \in Evidences : /\ s.uses[v].epoch = r.uses[v].epoch
                            /\ v \in items => s.uses[v].state = QUARANTINED_BY_RECOVERY
  BY DEF Sound, Replays, Without, UseRows
<1>4. /\ \A c \in Challenges : c \in items => r.challenges[c].state = PREPARED
      /\ \A v \in Evidences : v \in items => r.uses[v].state = RESERVED
  BY RecoveryLedgerAssumption DEF StalePrepared, StaleReserved
<1> HIDE DEF s
<1>5. WorkIsReached(s)
  BY <1>1, <1>2, <1>3, <1>3a, <1>4 DEF Sound, WorkIsReached
<1>6. EvidenceFollowsChallenge(s)
  BY <1>1, <1>2, <1>3, <1>3a DEF Sound, EvidenceFollowsChallenge
<1>7. TerminalKept(r, s)
  BY <1>1, <1>2, <1>3, <1>4 DEF TerminalKept
<1>8. Pending(s) \subseteq Pending(r)
  BY <1>1, <1>2, <1>3, <1>3a, <1>4 DEF Pending
<1> QED BY <1>1, <1>5, <1>6, <1>7, <1>8 DEF DestroysFrom, Narrows, Sound, s

-----------------------------------------------------------------------------
(***************************************************************************)
(* Journals: appending to them and comparing them.                         *)
(***************************************************************************)

LEMMA PrefixByElements ==
  ASSUME NEW S, NEW s \in Seq(S), NEW t \in Seq(S)
  PROVE  IsPrefix(s, t) <=> Len(s) <= Len(t) /\ \A i \in 1..Len(s) : s[i] = t[i]
<1>1. Len(s) \in Nat /\ Len(t) \in Nat
  OBVIOUS
<1>2. SubSeq(s, 1, Len(s)) = s
  OBVIOUS
<1>3. CASE Len(s) <= Len(t)
  <2>1. SubSeq(t, 1, Len(s)) \in Seq(S) /\ Len(SubSeq(t, 1, Len(s))) = Len(s)
        /\ \A i \in 1..Len(s) : SubSeq(t, 1, Len(s))[i] = t[i]
    BY <1>1, <1>3
  <2>2. (\A i \in 1..Len(s) : s[i] = t[i]) => s = SubSeq(t, 1, Len(s))
    BY <2>1, SeqEqual
  <2> QED BY <1>2, <1>3, <2>1, <2>2 DEF IsPrefix
<1> QED BY <1>3 DEF IsPrefix

LEMMA PrefixIsPartialOrder ==
  ASSUME NEW S, NEW s \in Seq(S), NEW t \in Seq(S), NEW u \in Seq(S)
  PROVE  /\ IsPrefix(s, s)
         /\ IsPrefix(s, t) /\ IsPrefix(t, u) => IsPrefix(s, u)
         /\ IsPrefix(s, t) /\ IsPrefix(t, s) => s = t
<1>1. Len(s) \in Nat /\ Len(t) \in Nat /\ Len(u) \in Nat
  OBVIOUS
<1>2. IsPrefix(s, s)
  BY PrefixByElements
<1>3. ASSUME IsPrefix(s, t), IsPrefix(t, u) PROVE IsPrefix(s, u)
  BY <1>1, <1>3, PrefixByElements
<1>4. ASSUME IsPrefix(s, t), IsPrefix(t, s) PROVE s = t
  <2>1. Len(s) = Len(t) /\ \A i \in 1..Len(s) : s[i] = t[i]
    BY <1>1, <1>4, PrefixByElements
  <2> QED BY <2>1, SeqEqual
<1> QED BY <1>2, <1>3, <1>4

LEMMA ConcatExtends ==
  ASSUME NEW j \in Journals, NEW e \in Seq(Entries), e # <<>>
  PROVE  /\ j \o e \in Journals
         /\ IsPrefix(j, j \o e)
         /\ (j \o e)[Len(j \o e)] = e[Len(e)]
         /\ Replay(j \o e) = e[Len(e)].after
<1>1. j \in Seq(Entries) /\ Len(j) \in Nat \ {0} /\ Len(e) \in Nat \ {0}
  BY EmptySeq DEF Journals
<1>2. /\ j \o e \in Seq(Entries) /\ Len(j \o e) = Len(j) + Len(e)
      /\ \A i \in 1..(Len(j) + Len(e)) : (j \o e)[i] = IF i <= Len(j) THEN j[i] ELSE e[i - Len(j)]
  BY <1>1, ConcatProperties
<1>3. j \o e # <<>>
  BY <1>1, <1>2, EmptySeq
<1>4. (j \o e)[Len(j \o e)] = e[Len(e)]
  BY <1>1, <1>2
<1>5. IsPrefix(j, j \o e)
  <2> DEFINE k == j \o e
  <2>1. k \in Seq(Entries) /\ Len(j) <= Len(k)
    BY <1>1, <1>2
  <2>2. \A i \in 1..Len(j) : j[i] = k[i]
    BY <1>1, <1>2
  <2> HIDE DEF k
  <2>3. IsPrefix(j, k)
    BY <1>1, <2>1, <2>2, PrefixByElements
  <2> QED BY <2>3 DEF k
<1> QED BY <1>2, <1>3, <1>4, <1>5 DEF Journals, Replay

LEMMA AppendExtends ==
  ASSUME NEW j \in Journals, NEW e \in Entries
  PROVE  /\ Append(j, e) \in Journals
         /\ IsPrefix(j, Append(j, e))
         /\ Append(j, e)[Len(Append(j, e))] = e
         /\ Replay(Append(j, e)) = e.after
<1>1. Append(j, e) = j \o <<e>> /\ <<e>> \in Seq(Entries) /\ <<e>> # <<>>
      /\ <<e>>[Len(<<e>>)] = e
  BY DEF Journals
<1> QED BY <1>1, ConcatExtends

LEMMA ReplaysOfJournals ==
  ASSUME NEW j \in Journals
  PROVE  Replay(j) \in Replays /\ RowsOf(Replay(j)) \in RowSets /\ Settled(Replay(j)) \subseteq Items \X Epochs
<1>1. j[Len(j)] \in Entries
  BY DEF Journals
<1>2. Replay(j) \in Replays
  BY <1>1 DEF Replay, Entries
<1> DEFINE r == Replay(j)
<1> HIDE DEF r
<1>3. RowsOf(r) \in RowSets
  BY <1>2 DEF r, RowsOf, RowSets, Replays
<1>4. (\A c \in Challenges : r.challenges[c].epoch \in Epochs) /\ \A v \in Evidences : r.uses[v].epoch \in Epochs
  BY <1>2 DEF r, Replays, ChallengeRows, UseRows
<1>5. Settled(r) \subseteq Items \X Epochs
  BY <1>4 DEF Settled, Items
<1> QED BY <1>2, <1>3, <1>5 DEF r

LEMMA EntryIsEntry ==
  ASSUME NEW op \in AuthorityOps \cup {"END", "ABANDON", "REGISTRY_VIEW", "VOID_CHALLENGE", "QUARANTINE_USE"},
         NEW id \in Challenges \cup Evidences \cup {NoEntity}, NEW s \in Replays
  PROVE  Entry(op, id, s) \in Entries /\ Entry(op, id, s).after = s
         /\ Entry(op, id, s).op = op /\ Entry(op, id, s).id = id
BY DEF Entry, Entries

LEMMA RemovalIsEntry ==
  \A op \in {"VOID_CHALLENGE", "QUARANTINE_USE"}, id \in Challenges \cup Evidences \cup {NoEntity}, s \in Replays :
    Entry(op, id, s) \in Entries /\ Entry(op, id, s).after = s /\ Entry(op, id, s).op = op
BY EntryIsEntry

LEMMA SetToSeqElements ==
  ASSUME NEW S, IsFiniteSet(S)
  PROVE  SetToSeq(S) \in Seq(S)
<1>1. Cardinality(S) \in Nat /\ ExistsBijection(1..Cardinality(S), S)
  BY FS_CardinalityType
<1>2. \E f \in [1..Cardinality(S) -> S] : IsInjective(f)
  BY <1>1 DEF ExistsBijection, Bijection, Injection
<1>3. SetToSeq(S) \in [1..Cardinality(S) -> S]
  BY <1>2 DEF SetToSeq
<1> QED BY <1>1, <1>3, SeqDef

-----------------------------------------------------------------------------
(***************************************************************************)
(* The inductive invariant and what one step does to the journal.          *)
(***************************************************************************)

IInv ==
  /\ TypeOK
  /\ Sound(Now)
  /\ Sound(Replay(backup.journal))
  /\ token => journal = witness
  /\ IsPrefix(backup.journal, journal)

AppendsAuthority ==
  /\ token
  /\ NewEntry.op \in AuthorityOps
  /\ NewEntry.after = Replay(journal')
  /\ CreatesFrom(Now, Replay(journal'), NewEntry.id)

AppendsRemoval ==
  /\ NewEntry.op \notin AuthorityOps
  /\ DestroysFrom(Now, Replay(journal'))

Appends ==
  /\ journal' \in Journals
  /\ IsPrefix(journal, journal')
  /\ rows' = RowsOf(Replay(journal'))
  /\ token' = FALSE
  /\ AppendsAuthority \/ AppendsRemoval

LEMMA RegistriesAreTyped ==
  ASSUME TypeOK, NEW i \in DOMAIN published
  PROVE  i \in Nat /\ published[i].epoch \in Epochs /\ published[i].key \in Nat
<1> DEFINE R == [epoch: Epochs, key: Nat]
<1>1. published \in Seq(R)
  BY DEF TypeOK
<1> HIDE DEF R
<1>2. i \in Nat /\ published[i] \in R
  BY <1>1
<1> QED BY <1>2 DEF R

(* Every authority-creating operation goes through Create.                 *)
LEMMA CreateAppends ==
  ASSUME journal \in Journals, NEW op \in AuthorityOps, NEW id \in Items, NEW s,
         CreatesFrom(Now, s, id), Create(op, id, s)
  PROVE  Appends /\ OthersUnchanged
<1>0. s \in Replays /\ id \in Challenges \cup Evidences \cup {NoEntity}
  BY DEF CreatesFrom, Sound, Items
<1>1. Entry(op, id, s) \in Entries /\ Entry(op, id, s).after = s
      /\ Entry(op, id, s).op = op /\ Entry(op, id, s).id = id
  BY <1>0, EntryIsEntry
<1>2. journal' = Append(journal, Entry(op, id, s)) /\ token' = FALSE /\ token
      /\ rows' = RowsOf(Replay(Append(journal, Entry(op, id, s)))) /\ OthersUnchanged
  BY DEF Create, Becomes
<1>3. journal' \in Journals /\ IsPrefix(journal, journal') /\ NewEntry = Entry(op, id, s)
      /\ Replay(journal') = s
  BY <1>1, <1>2, AppendExtends DEF NewEntry
<1>4. AppendsAuthority
  BY <1>1, <1>2, <1>3 DEF AppendsAuthority
<1> QED BY <1>2, <1>3, <1>4 DEF Appends

LEMMA DestroyAppends ==
  ASSUME journal \in Journals, NEW op \in {"END", "ABANDON", "REGISTRY_VIEW"},
         NEW id \in Items \cup {NoEntity}, NEW s, DestroysFrom(Now, s), Destroy(op, id, s)
  PROVE  Appends /\ OthersUnchanged
<1>0. s \in Replays /\ id \in Challenges \cup Evidences \cup {NoEntity}
  BY DEF DestroysFrom, Sound, Items
<1>1. Entry(op, id, s) \in Entries /\ Entry(op, id, s).after = s
      /\ Entry(op, id, s).op = op /\ Entry(op, id, s).id = id
  BY <1>0, EntryIsEntry
<1>2. journal' = Append(journal, Entry(op, id, s)) /\ token' = FALSE
      /\ rows' = RowsOf(Replay(Append(journal, Entry(op, id, s)))) /\ OthersUnchanged
  BY DEF Destroy, Becomes
<1>3. journal' \in Journals /\ IsPrefix(journal, journal') /\ NewEntry = Entry(op, id, s)
      /\ Replay(journal') = s
  BY <1>1, <1>2, AppendExtends DEF NewEntry
<1>4. AppendsRemoval
  BY <1>1, <1>3 DEF AppendsRemoval, AuthorityOps
<1> QED BY <1>2, <1>3, <1>4 DEF Appends

LEMMA ChallengeStepAppends ==
  ASSUME IInv, ChallengeStep
  PROVE  Appends /\ OthersUnchanged
<1> journal \in Journals /\ Sound(Now)
  BY DEF IInv, TypeOK
<1>1. PICK c \in Challenges : \/ \E e \in SignedEpochs : Prepare(c, e)
                              \/ Consume(c)
                              \/ \E v \in Evidences : Issue(c, v)
                              \/ \E ending \in Endings : End(c, ending)
  BY DEF ChallengeStep
<1>2. CASE \E e \in SignedEpochs : Prepare(c, e)
  <2> DEFINE s == [Now EXCEPT !.challenges[c] = [state |-> PREPARED, epoch |-> Now.epoch, evidence |-> NoEntity]]
  <2>1. Create("PREPARE", c, s) /\ Now.challenges[c].state = UNKNOWN
    BY <1>2 DEF Prepare
  <2>2. CreatesFrom(Now, s, c)
    BY <2>1, PrepareCreates
  <2> QED BY <2>1, <2>2, CreateAppends DEF AuthorityOps, Items
<1>3. CASE Consume(c)
  <2> DEFINE s == [Now EXCEPT !.challenges[c].state = CONSUMED]
  <2>1. Create("CONSUME", c, s) /\ Now.challenges[c].state = PREPARED /\ Now.challenges[c].epoch = Now.epoch
    BY <1>3 DEF Consume
  <2>2. CreatesFrom(Now, s, c)
    BY <2>1, ConsumeCreates
  <2> QED BY <2>1, <2>2, CreateAppends DEF AuthorityOps, Items
<1>4. CASE \E v \in Evidences : Issue(c, v)
  <2>0. PICK v \in Evidences : Issue(c, v)
    BY <1>4
  <2> DEFINE s == [Now EXCEPT !.challenges[c].evidence = v, !.uses[v] = [state |-> ISSUED, epoch |-> Now.epoch]]
  <2>1. Create("ISSUE", v, s) /\ Now.challenges[c].state = CONSUMED /\ Now.challenges[c].epoch = Now.epoch
        /\ Now.uses[v].state = UNKNOWN
    BY <2>0 DEF Issue
  <2>2. CreatesFrom(Now, s, v)
    BY <2>1, IssueCreates
  <2> QED BY <2>1, <2>2, CreateAppends DEF AuthorityOps, Items
<1>5. CASE \E ending \in Endings : End(c, ending)
  <2>0. PICK ending \in Endings : End(c, ending)
    BY <1>5
  <2> DEFINE s == [Now EXCEPT !.challenges[c].state = ending]
  <2>1. Destroy("END", c, s) /\ Now.challenges[c].state = PREPARED /\ ending \in EndingStates
    BY <2>0, RecoveryLedgerAssumption DEF End
  <2>2. DestroysFrom(Now, s)
    BY <2>1, EndDestroys
  <2> QED BY <2>1, <2>2, DestroyAppends DEF Items
<1> QED BY <1>1, <1>2, <1>3, <1>4, <1>5

LEMMA UseStepAppends ==
  ASSUME IInv, UseStep
  PROVE  Appends /\ OthersUnchanged
<1> journal \in Journals /\ Sound(Now)
  BY DEF IInv, TypeOK
<1>1. PICK v \in Evidences : (\E e \in SignedEpochs : Reserve(v, e)) \/ Confirm(v) \/ Abandon(v)
  BY DEF UseStep
<1>2. CASE \E e \in SignedEpochs : Reserve(v, e)
  <2> DEFINE s == [Now EXCEPT !.uses[v].state = RESERVED]
  <2>1. Create("RESERVE", v, s) /\ Now.uses[v].state = ISSUED /\ Now.uses[v].epoch = Now.epoch
    BY <1>2 DEF Reserve
  <2>2. CreatesFrom(Now, s, v)
    BY <2>1, UseCreates
  <2> QED BY <2>1, <2>2, CreateAppends DEF AuthorityOps, Items
<1>3. CASE Confirm(v)
  <2> DEFINE s == [Now EXCEPT !.uses[v].state = CONSUMED]
  <2>1. Create("CONFIRM", v, s) /\ Now.uses[v].state = RESERVED /\ Now.uses[v].epoch = Now.epoch
    BY <1>3 DEF Confirm
  <2>2. CreatesFrom(Now, s, v)
    BY <2>1, UseCreates
  <2> QED BY <2>1, <2>2, CreateAppends DEF AuthorityOps, Items
<1>4. CASE Abandon(v)
  <2> DEFINE s == [Now EXCEPT !.uses[v].state = ABANDONED]
  <2>1. Destroy("ABANDON", v, s) /\ Now.uses[v].state = RESERVED
    BY <1>4 DEF Abandon
  <2>2. DestroysFrom(Now, s)
    BY <2>1, AbandonDestroys
  <2> QED BY <2>1, <2>2, DestroyAppends DEF Items
<1> QED BY <1>1, <1>2, <1>3, <1>4

LEMMA RecordRegistryAppends ==
  ASSUME IInv, NEW key \in {Now.key, published[registry].key}, RecordRegistry(key)
  PROVE  Appends /\ OthersUnchanged
<1>0. TypeOK /\ registry \in DOMAIN published
  BY DEF IInv, TypeOK
<1>1. journal \in Journals /\ Sound(Now) /\ registry \in Nat /\ published[registry].key \in Nat
  BY <1>0, RegistriesAreTyped DEF IInv, TypeOK
<1>2. key \in Nat
  BY <1>1 DEF Sound, Replays
<1> DEFINE s == [Now EXCEPT !.view = registry, !.key = key]
<1>3. Destroy("REGISTRY_VIEW", NoEntity, s)
  BY DEF RecordRegistry
<1>4. DestroysFrom(Now, s)
  BY <1>1, <1>2, RegistryViewDestroys
<1> QED BY <1>1, <1>3, <1>4, DestroyAppends

LEMMA BeginRecoveryAppends ==
  ASSUME IInv, NEW i \in DOMAIN published, BeginRecovery(i)
  PROVE  Appends
<1> DEFINE e == published[i].epoch
           s == [Now EXCEPT !.epoch = e, !.view = i, !.key = published[i].key]
           x == [op |-> "ADVANCE_EPOCH", id |-> NoEntity, from |-> Len(witness), after |-> s]
<1>1. journal \in Journals /\ Sound(Now) /\ i \in Nat /\ published[i].key \in Nat /\ e \in Epochs
      /\ Len(witness) \in Nat
  <2>1. i \in Nat /\ published[i].key \in Nat /\ e \in Epochs
    BY RegistriesAreTyped DEF IInv
  <2>2. journal \in Journals /\ witness \in Journals /\ Sound(Now)
    BY DEF IInv, TypeOK
  <2> HIDE DEF e
  <2> QED BY <2>1, <2>2 DEF Journals
<1>2. e.counter > Now.epoch.counter /\ Becomes(Append(journal, x))
  BY DEF BeginRecovery
<1>3. DestroysFrom(Now, s)
  BY <1>1, <1>2, AdvanceDestroys
<1>4. x \in Entries /\ x.op = "ADVANCE_EPOCH" /\ x.after = s
  BY <1>1, <1>3 DEF Entries, DestroysFrom, Sound
<1> HIDE DEF x, s, e
<1>5. journal' \in Journals /\ IsPrefix(journal, journal') /\ NewEntry = x /\ Replay(journal') = s
  BY <1>1, <1>2, <1>4, AppendExtends DEF NewEntry, Becomes
<1>6. AppendsRemoval
  BY <1>3, <1>4, <1>5 DEF AppendsRemoval, AuthorityOps
<1> QED BY <1>2, <1>5, <1>6 DEF Appends, Becomes

(* The stale items in the order they are removed, and the first n of them.  *)
RemovalOrder == SetToSeq(StalePrepared(Now)) \o SetToSeq(StaleReserved(Now))
Removed(n)   == {RemovalOrder[k] : k \in 1..n}

LEMMA RemovalOrderElements ==
  /\ RemovalOrder \in Seq(StalePrepared(Now) \cup StaleReserved(Now))
  /\ Len(RemovalOrder) \in Nat
  /\ \A n \in 1..Len(RemovalOrder) :
       /\ RemovalOrder[n] \in Challenges \cup Evidences
       /\ Removed(n) \in SUBSET (StalePrepared(Now) \cup StaleReserved(Now))
<1> DEFINE order == RemovalOrder
           S == StalePrepared(Now) \cup StaleReserved(Now)
<1>1. IsFiniteSet(StalePrepared(Now)) /\ IsFiniteSet(StaleReserved(Now))
  BY RecoveryLedgerAssumption, FS_Subset DEF StalePrepared, StaleReserved
<1>2. SetToSeq(StalePrepared(Now)) \in Seq(S) /\ SetToSeq(StaleReserved(Now)) \in Seq(S)
  BY <1>1, SetToSeqElements, SeqMonotonic
<1>3. order \in Seq(S)
  BY <1>2, ConcatProperties DEF RemovalOrder
<1>4. S \subseteq Challenges \cup Evidences
  BY DEF StalePrepared, StaleReserved
<1> HIDE DEF order, S
<1>5. Len(order) \in Nat /\ \A n \in 1..Len(order) : order[n] \in S
  BY <1>3, ElementOfSeq
<1>6. \A n \in 1..Len(order) : \A k \in 1..n : order[k] \in S
  BY <1>5
<1>7. \A n \in 1..Len(order) : Removed(n) \in SUBSET S
  BY <1>6 DEF Removed, order
<1> QED BY <1>3, <1>4, <1>5, <1>7 DEF order, S

(* A quarantine is a batch of removals, each from the state without the    *)
(* items removed so far.                                                   *)
LEMMA QuarantineBatch ==
  ASSUME IInv, Quarantine
  PROVE  \E b \in Seq(Entries) :
           /\ b # <<>> /\ Len(b) = Len(RemovalOrder)
           /\ Becomes(journal \o b) /\ OthersUnchanged
           /\ \A n \in 1..Len(b) : /\ b[n].op \in {"VOID_CHALLENGE", "QUARANTINE_USE"}
                                   /\ b[n].after = Without(Now, Removed(n))
<1> DEFINE order == RemovalOrder
           Kind(n) == IF order[n] \in Challenges THEN "VOID_CHALLENGE" ELSE "QUARANTINE_USE"
           Removal(n) == Entry(Kind(n), order[n], Without(Now, Removed(n)))
           batch == [n \in DOMAIN order |-> Removal(n)]
<1>1. Sound(Now)
  BY DEF IInv
<1>2. order # <<>> /\ Becomes(journal \o batch) /\ OthersUnchanged
  BY DEF Quarantine, RemovalOrder, Removed
<1>3. DOMAIN order = 1..Len(order) /\ Len(order) \in Nat \ {0}
  BY <1>2, RemovalOrderElements, EmptySeq, LenProperties
<1>4. \A n \in 1..Len(order) : /\ Removal(n) \in Entries
                                /\ Removal(n).op \in {"VOID_CHALLENGE", "QUARANTINE_USE"}
                                /\ Removal(n).after = Without(Now, Removed(n))
  <2> TAKE n \in 1..Len(order)
  <2> DEFINE w == Without(Now, Removed(n))
             k == Kind(n)
             id == order[n]
  <2>1. k \in {"VOID_CHALLENGE", "QUARANTINE_USE"}
    OBVIOUS
  <2>2. id \in Challenges \cup Evidences \cup {NoEntity}
    BY RemovalOrderElements
  <2>3. w \in Replays
    BY <1>1, RemovalOrderElements, WithoutDestroys DEF DestroysFrom, Sound
  <2>4. Removal(n) = Entry(k, id, w)
    OBVIOUS
  <2> HIDE DEF Kind, Removal, w, k, id
  <2>5. Entry(k, id, w) \in Entries /\ Entry(k, id, w).op = k /\ Entry(k, id, w).after = w
    BY <2>1, <2>2, <2>3, RemovalIsEntry
  <2>6. Removal(n) \in Entries /\ Removal(n).op \in {"VOID_CHALLENGE", "QUARANTINE_USE"} /\ Removal(n).after = w
    BY <2>1, <2>4, <2>5
  <2> QED BY <2>6 DEF w
<1> HIDE DEF Removal, order
<1>5. batch = [n \in 1..Len(order) |-> Removal(n)]
  BY <1>3
<1>6. batch \in [1..Len(order) -> Entries]
  BY <1>4, <1>5
<1>7. batch \in Seq(Entries)
  BY <1>3, <1>6, SeqDef
<1>8. Len(batch) = Len(order)
  BY <1>3, <1>5, <1>7, LenProperties
<1>9. batch # <<>>
  BY <1>3, <1>8, EmptySeq
<1>10. \A n \in 1..Len(batch) : batch[n] = Removal(n)
  BY <1>5, <1>8
<1> HIDE DEF batch
<1>11. \A n \in 1..Len(batch) : /\ batch[n].op \in {"VOID_CHALLENGE", "QUARANTINE_USE"}
                                /\ batch[n].after = Without(Now, Removed(n))
  BY <1>4, <1>8, <1>10
<1> QED BY <1>2, <1>7, <1>8, <1>9, <1>11 DEF order

LEMMA QuarantineAppends ==
  ASSUME IInv, Quarantine
  PROVE  Appends /\ OthersUnchanged
<1>1. journal \in Journals /\ Sound(Now)
  BY DEF IInv, TypeOK
<1>2. PICK b \in Seq(Entries) :
        /\ b # <<>> /\ Len(b) = Len(RemovalOrder)
        /\ Becomes(journal \o b) /\ OthersUnchanged
        /\ \A n \in 1..Len(b) : /\ b[n].op \in {"VOID_CHALLENGE", "QUARANTINE_USE"}
                                /\ b[n].after = Without(Now, Removed(n))
  BY QuarantineBatch
<1>3. Len(b) \in 1..Len(b)
  BY <1>2, EmptySeq
<1>4. /\ journal' \in Journals /\ IsPrefix(journal, journal') /\ NewEntry = b[Len(b)]
      /\ Replay(journal') = b[Len(b)].after
  BY <1>1, <1>2, ConcatExtends DEF NewEntry, Becomes
<1>5. DestroysFrom(Now, Without(Now, Removed(Len(b))))
  BY <1>1, <1>2, <1>3, RemovalOrderElements, WithoutDestroys
<1>6. AppendsRemoval
  BY <1>2, <1>3, <1>4, <1>5 DEF AppendsRemoval, AuthorityOps
<1> QED BY <1>2, <1>4, <1>6 DEF Appends, Becomes

-----------------------------------------------------------------------------
(***************************************************************************)
(* Every step appends, keeps the journal, or restores a prefix of it.      *)
(***************************************************************************)

(* A step that appends nothing leaves the journal, or goes back to the     *)
(* backup's.                                                               *)
Retreats == journal' \in {journal, backup.journal}

LEMMA StepAppendsOrRetreats ==
  ASSUME IInv, [Next]_vars
  PROVE  Appends \/ Retreats
<1>1. CASE ChallengeStep
  BY <1>1, ChallengeStepAppends
<1>2. CASE UseStep
  BY <1>2, UseStepAppends
<1>3. CASE RecoveryStep
  <2>1. CASE \E i \in DOMAIN published : BeginRecovery(i)
    BY <2>1, BeginRecoveryAppends
  <2>2. CASE RebuildRows
    BY <2>2 DEF RebuildRows, Retreats
  <2>3. CASE Quarantine
    BY <2>3, QuarantineAppends
  <2>4. CASE Sign
    BY <2>4 DEF Sign, ledgerVars, Retreats
  <2> QED BY <1>3, <2>1, <2>2, <2>3, <2>4 DEF RecoveryStep
<1>4. CASE RegistryStep
  <2>1. CASE PublishRotation
    BY <2>1 DEF PublishRotation, Publish, ledgerVars, Retreats
  <2>2. CASE PublishRecovery
    BY <2>2 DEF PublishRecovery, Publish, ledgerVars, Retreats
  <2>3. CASE FetchRegistry
    BY <2>3 DEF FetchRegistry, ledgerVars, Retreats
  <2>4. CASE \E key \in {Now.key, published[registry].key} : RecordRegistry(key)
    BY <2>4, RecordRegistryAppends
  <2> QED BY <1>4, <2>1, <2>2, <2>3, <2>4 DEF RegistryStep
<1>5. CASE EvaluateReadiness
  BY <1>5 DEF EvaluateReadiness, Retreats
<1>6. CASE Snapshot
  BY <1>6 DEF Snapshot, ledgerVars, Retreats
<1>7. CASE \E part \in Parts : Restore(part)
  BY <1>7 DEF Restore, Retreats
<1>8. CASE UNCHANGED vars
  BY <1>8 DEF vars, ledgerVars, Retreats
<1> QED BY <1>1, <1>2, <1>3, <1>4, <1>5, <1>6, <1>7, <1>8 DEF Next

(* So a journal grows by appended operations only: a restore never extends.*)
LEMMA OnlyAppendsGrow ==
  ASSUME IInv, [Next]_vars, Grows
  PROVE  Appends
<1>1. journal \in Seq(Entries) /\ backup.journal \in Seq(Entries) /\ IsPrefix(backup.journal, journal)
  BY DEF IInv, TypeOK, Journals
<1>2. SUFFICES ASSUME Retreats PROVE FALSE
  BY StepAppendsOrRetreats
<1>3. IsPrefix(journal, journal') /\ journal # journal'
  BY DEF Grows, IsStrictPrefix
<1>4. journal' = backup.journal
  BY <1>2, <1>3 DEF Retreats
<1> QED BY <1>1, <1>3, <1>4, PrefixIsPartialOrder

-----------------------------------------------------------------------------
(***************************************************************************)
(* The invariant is inductive.                                             *)
(***************************************************************************)

LEMMA InitIInv == Init => IInv
<1> SUFFICES ASSUME Init PROVE IInv
  OBVIOUS
<1> DEFINE g == GenesisEntry.after
<1>1. GenesisEpoch \in Epochs
  BY RecoveryLedgerAssumption DEF GenesisEpoch, Epochs
<1>2. /\ \A c \in Challenges : g.challenges[c] = [state |-> UNKNOWN, epoch |-> GenesisEpoch, evidence |-> NoEntity]
      /\ \A v \in Evidences : g.uses[v] = [state |-> UNKNOWN, epoch |-> GenesisEpoch]
  BY DEF GenesisEntry
<1>3. g \in Replays
  BY <1>1 DEF GenesisEntry, Replays, ChallengeRows, UseRows
<1>4. GenesisEntry \in Entries
  BY <1>3 DEF GenesisEntry, Entries
<1>5. WorkIsReached(g) /\ EvidenceFollowsChallenge(g)
  BY <1>2, RecoveryLedgerAssumption DEF WorkIsReached, EvidenceFollowsChallenge
<1> HIDE DEF g
<1>6. <<GenesisEntry>> \in Journals /\ Replay(<<GenesisEntry>>) = g
  BY <1>4 DEF Journals, Replay, g
<1>7. Sound(Now) /\ Sound(Replay(backup.journal))
  BY <1>3, <1>5, <1>6 DEF Init, Now, Sound
<1>8. TypeOK
  <2>1. published \in Seq([epoch: Epochs, key: Nat]) \ {<<>>} /\ DOMAIN published = {1}
    BY <1>1 DEF Init
  <2>2. rows \in RowSets
    BY <1>6, ReplaysOfJournals DEF Init, g
  <2>3. backup \in [journal: Journals, registry: DOMAIN published, witness: Journals]
    BY <1>6, <2>1 DEF Init
  <2>4. registry \in DOMAIN published /\ token \in BOOLEAN
    BY <2>1 DEF Init
  <2>5. restores \in 0..MaxRestores
    BY RecoveryLedgerAssumption DEF Init
  <2>6. journal \in Journals /\ witness \in Journals /\ acked \subseteq Items \X Epochs
    BY <1>6 DEF Init
  <2> QED BY <2>1, <2>2, <2>3, <2>4, <2>5, <2>6 DEF TypeOK
<1>9. IsPrefix(backup.journal, journal)
  <2>1. <<GenesisEntry>> \in Seq(Entries)
    BY <1>4
  <2> QED BY <2>1, PrefixIsPartialOrder DEF Init
<1> QED BY <1>7, <1>8, <1>9 DEF Init, IInv

(* A step that appends, whatever it does to the version the broker holds.  *)
LEMMA AppendsPreserves ==
  ASSUME IInv, Appends, registry' \in DOMAIN published,
         UNCHANGED <<published, witness, backupVars, acked>>
  PROVE  IInv'
<1>1. Sound(Replay(journal'))
  BY DEF Appends, AppendsAuthority, AppendsRemoval, CreatesFrom, DestroysFrom
<1>2. journal' \in Journals /\ IsPrefix(journal, journal') /\ token' = FALSE /\ rows' \in RowSets
  BY ReplaysOfJournals DEF Appends
<1>3. backup' = backup /\ backup.journal \in Journals /\ IsPrefix(backup.journal, journal)
      /\ journal \in Journals
  BY DEF backupVars, IInv, TypeOK
<1>4. IsPrefix(backup.journal, journal')
  BY <1>2, <1>3, PrefixIsPartialOrder DEF Journals
<1>5. TypeOK'
  BY <1>2, <1>3 DEF IInv, TypeOK, backupVars
<1> QED BY <1>1, <1>2, <1>3, <1>4, <1>5 DEF IInv, Now

LEMMA RecoveryStepPreserves ==
  ASSUME IInv, RecoveryStep
  PROVE  IInv'
<1>0. registry \in DOMAIN published /\ journal \in Journals
  BY DEF IInv, TypeOK
<1>1. CASE \E i \in DOMAIN published : BeginRecovery(i)
  BY <1>1, BeginRecoveryAppends, AppendsPreserves DEF BeginRecovery
<1>2. CASE RebuildRows
  <2>1. RowsOf(Now) \in RowSets
    BY <1>0, ReplaysOfJournals DEF Now
  <2> QED BY <1>2, <2>1 DEF RebuildRows, OthersUnchanged, backupVars, IInv, TypeOK, Now
<1>3. CASE Quarantine
  BY <1>0, <1>3, QuarantineAppends, AppendsPreserves DEF OthersUnchanged
<1>4. CASE Sign
  <2>1. Settled(Now) \subseteq Items \X Epochs
    BY <1>0, ReplaysOfJournals DEF Now
  <2> QED BY <1>4, <2>1 DEF Sign, ledgerVars, backupVars, IInv, TypeOK, Now
<1> QED BY <1>1, <1>2, <1>3, <1>4 DEF RecoveryStep

LEMMA PublishPreserves ==
  ASSUME IInv, NEW e \in Epochs, NEW rotate \in BOOLEAN, Publish(e, rotate)
  PROVE  IInv'
<1> DEFINE R == [epoch: Epochs, key: Nat]
           x == [epoch |-> e, key |-> IF rotate THEN Len(published) + 1 ELSE published[Len(published)].key]
<1>1. published \in Seq(R) /\ published # <<>>
  BY DEF IInv, TypeOK
<1>2. Len(published) \in DOMAIN published /\ Len(published) \in Nat
  BY <1>1, EmptySeq
<1>3. published[Len(published)].key \in Nat
  BY <1>2, RegistriesAreTyped DEF IInv
<1>4. x \in R
  BY <1>2, <1>3
<1>5. published' = Append(published, x)
  BY DEF Publish
<1> HIDE DEF x, R
<1>6. published' \in Seq(R) \ {<<>>} /\ DOMAIN published \subseteq DOMAIN published'
  BY <1>1, <1>4, <1>5
<1>7. UNCHANGED <<registry, ledgerVars, witness, backupVars, acked>>
  BY DEF Publish
<1>8. TypeOK'
  BY <1>6, <1>7 DEF R, IInv, TypeOK, ledgerVars, backupVars
<1> QED BY <1>7, <1>8 DEF IInv, Now, ledgerVars, backupVars

LEMMA RegistryStepPreserves ==
  ASSUME IInv, RegistryStep
  PROVE  IInv'
<1>0. registry \in DOMAIN published
  BY DEF IInv, TypeOK
<1>1. Witnessed.epoch \in Epochs
  <2>1. witness \in Journals
    BY DEF IInv, TypeOK
  <2>2. Witnessed \in Replays
    BY <2>1, ReplaysOfJournals DEF Witnessed
  <2> QED BY <2>2 DEF Replays
<1>2. CASE PublishRotation
  BY <1>1, <1>2, PublishPreserves DEF PublishRotation
<1>3. CASE PublishRecovery
  <2>1. PICK r \in Randoms : Publish([counter |-> Witnessed.epoch.counter + 1, random |-> r], TRUE)
    BY <1>3 DEF PublishRecovery
  <2>2. [counter |-> Witnessed.epoch.counter + 1, random |-> r] \in Epochs
    BY <1>1 DEF Epochs
  <2> QED BY <2>1, <2>2, PublishPreserves
<1>4. CASE FetchRegistry
  <2>1. Len(published) \in DOMAIN published
    BY EmptySeq DEF IInv, TypeOK
  <2> QED BY <1>4, <2>1 DEF FetchRegistry, ledgerVars, backupVars, IInv, TypeOK, Now
<1>5. CASE \E key \in {Now.key, published[registry].key} : RecordRegistry(key)
  BY <1>0, <1>5, RecordRegistryAppends, AppendsPreserves DEF OthersUnchanged
<1> QED BY <1>2, <1>3, <1>4, <1>5 DEF RegistryStep

(* The gate accepts only the ledger the witness names.                     *)
LEMMA ReadyIsWitnessed == Ready => journal = witness
<1>1. DOMAIN Checks = 1..14 /\ Checks[12].ok = (journal = witness)
  BY DEF Checks
<1>2. Ready => Checks[12].ok
  BY <1>1 DEF Ready, Failing
<1> QED BY <1>1, <1>2

LEMMA RestorePreserves ==
  ASSUME IInv, NEW part \in Parts, Restore(part)
  PROVE  IInv'
<1>1. /\ journal \in Journals /\ backup.journal \in Journals /\ witness \in Journals /\ backup.witness \in Journals
      /\ registry \in DOMAIN published /\ backup.registry \in DOMAIN published
      /\ rows \in RowSets /\ restores \in Nat
  BY DEF IInv, TypeOK
<1>2. journal' \in {journal, backup.journal} /\ backup' = backup /\ token' = FALSE
  BY DEF Restore
<1>3. IsPrefix(backup'.journal, journal')
  BY <1>1, <1>2, PrefixIsPartialOrder DEF IInv, Journals
<1>4. rows' \in RowSets
  BY <1>1, ReplaysOfJournals DEF Restore
<1>5. restores' \in 0..MaxRestores
  BY <1>1, RecoveryLedgerAssumption DEF Restore
<1>6. TypeOK'
  BY <1>1, <1>2, <1>4, <1>5 DEF Restore, IInv, TypeOK
<1>7. Sound(Replay(journal')) /\ Sound(Replay(backup'.journal))
  BY <1>2 DEF IInv, Now
<1> QED BY <1>2, <1>3, <1>6, <1>7 DEF IInv, Now

LEMMA NextIInv == IInv /\ [Next]_vars => IInv'
<1> SUFFICES ASSUME IInv, [Next]_vars PROVE IInv'
  OBVIOUS
<1>0. registry \in DOMAIN published
  BY DEF IInv, TypeOK
<1>1. CASE ChallengeStep
  BY <1>0, <1>1, ChallengeStepAppends, AppendsPreserves DEF OthersUnchanged
<1>2. CASE UseStep
  BY <1>0, <1>2, UseStepAppends, AppendsPreserves DEF OthersUnchanged
<1>3. CASE RecoveryStep
  BY <1>3, RecoveryStepPreserves
<1>4. CASE RegistryStep
  BY <1>4, RegistryStepPreserves
<1>5. CASE EvaluateReadiness
  BY <1>5, ReadyIsWitnessed DEF EvaluateReadiness, backupVars, IInv, TypeOK, Now
<1>6. CASE Snapshot
  <2>1. journal \in Seq(Entries) /\ IsPrefix(journal, journal)
    BY PrefixIsPartialOrder DEF IInv, TypeOK, Journals
  <2>2. backup'.journal = journal /\ UNCHANGED <<journal, rows, token, witness>>
    BY <1>6 DEF Snapshot, ledgerVars
  <2>3. TypeOK'
    BY <1>6 DEF Snapshot, ledgerVars, IInv, TypeOK
  <2> QED BY <2>1, <2>2, <2>3 DEF IInv, Now
<1>7. CASE \E part \in Parts : Restore(part)
  BY <1>7, RestorePreserves
<1>8. CASE UNCHANGED vars
  BY <1>8 DEF vars, ledgerVars, backupVars, IInv, TypeOK, Now
<1> QED BY <1>1, <1>2, <1>3, <1>4, <1>5, <1>6, <1>7, <1>8 DEF Next

-----------------------------------------------------------------------------
(***************************************************************************)
(* What a restore can lose, and why the gate sees it.                      *)
(*                                                                         *)
(* An end is acknowledged when a witness covers it.  A restored witness    *)
(* loses nothing: the journal still has every end.  A restored ledger does,*)
(* and is then behind the witness.  The only entries it can still get in   *)
(* its epoch are the removals of the quarantine, one for each item that is *)
(* still stale.  So the longest ledger it can become, its Reach, is no     *)
(* longer than the one the witness names, which ended each of those items  *)
(* with an entry too: within the epoch no such ledger can be signed.       *)
(***************************************************************************)

Stale(r) == StalePrepared(r) \cup StaleReserved(r)

(* Work of the current epoch exists.                                       *)
InEpoch(r) ==
  \/ \E c \in Challenges : r.challenges[c].state # UNKNOWN /\ r.challenges[c].epoch = r.epoch
  \/ \E v \in Evidences : r.uses[v].state # UNKNOWN /\ r.uses[v].epoch = r.epoch

(* No work is begun in an epoch before the stale work is gone.             *)
Clean(r) == InEpoch(r) => Stale(r) = {}

Reach(j) == Len(j) + Cardinality(Stale(Replay(j)))

(* `d` entries lead from `r` to `s`: what is ended stays ended, and either *)
(* the epoch advances or each of them ends at most one stale item.         *)
Drains(r, s, d) ==
  /\ Settled(r) \subseteq Settled(s)
  /\ \/ r.epoch = s.epoch /\ Cardinality(Stale(r)) <= d + Cardinality(Stale(s))
     \/ r.epoch.counter < s.epoch.counter

Orderly(j) == \A n, m \in 1..Len(j) : n <= m => Drains(j[n].after, j[m].after, m - n)

(* A ledger in the witness's epoch has all of the witness's history, or can*)
(* never outgrow it.                                                       *)
Sync(j) == Replay(j).epoch = Witnessed.epoch => IsPrefix(witness, j) \/ Reach(j) <= Reach(witness)

(* The witness has every acknowledged end of its epoch.                    *)
Covers ==
  \A s \in acked : /\ s[2].counter <= Witnessed.epoch.counter
                   /\ s[2] = Witnessed.epoch => s \in Settled(Witnessed)

JInv ==
  /\ Clean(Now) /\ Clean(Witnessed) /\ Clean(Replay(backup.journal)) /\ Clean(Replay(backup.witness))
  /\ Orderly(journal)
  /\ token => Stale(Now) = {}

LossIsSeen   == Sync(journal) /\ Sync(backup.journal) /\ Covers
LosesNothing == acked \subseteq Settled(Now)

(* What the theorems ask of the restores.  Restoring the ledger and the    *)
(* witness of one backup together leaves nothing to compare, and a ledger  *)
(* that is written to while it is behind can outgrow the witness.          *)
RestoresOneSide ==
  \/ "ledger" \notin Restorable
  \/ ~WritesBehind /\ ("witness" \notin Restorable \/ MaxRestores <= 1)

MInv ==
  RestoresOneSide =>
    /\ "ledger" \notin Restorable => LosesNothing
    /\ "ledger" \in Restorable =>
         /\ LossIsSeen \/ (LosesNothing /\ restores > 0)
         /\ restores = 0 => LosesNothing
         /\ "witness" \notin Restorable => LossIsSeen

(* One entry changes the work of at most one item, one not yet terminal.   *)
SameWork(a, b) == a.state = b.state /\ a.epoch = b.epoch

Open(r, x) ==
  /\ x \in Challenges => r.challenges[x].state \notin CHALLENGE_TERMINAL
  /\ x \in Evidences => r.uses[x].state \notin USE_TERMINAL

Touches(r, s, x) ==
  /\ s \in Replays /\ s.epoch = r.epoch
  /\ \A c \in Challenges \ {x} : SameWork(r.challenges[c], s.challenges[c])
  /\ \A v \in Evidences \ {x} : SameWork(r.uses[v], s.uses[v])
  /\ Open(r, x)

(* The item had work, keeps its epoch, and is not pending afterwards.      *)
EndsWork(r, s, x) ==
  /\ x \in Challenges => /\ r.challenges[x].state # UNKNOWN
                         /\ s.challenges[x].state # PREPARED
                         /\ s.challenges[x].epoch = r.challenges[x].epoch
  /\ x \in Evidences => /\ r.uses[x].state # UNKNOWN
                        /\ s.uses[x].state # RESERVED
                        /\ s.uses[x].epoch = r.uses[x].epoch

LEMMA StaleIsFinite ==
  ASSUME NEW r
  PROVE  IsFiniteSet(Stale(r)) /\ Cardinality(Stale(r)) \in Nat
<1>1. Stale(r) \in SUBSET (Challenges \cup Evidences)
  BY DEF Stale, StalePrepared, StaleReserved
<1>2. IsFiniteSet(Challenges \cup Evidences)
  BY RecoveryLedgerAssumption, FS_Union
<1> QED BY <1>1, <1>2, FS_Subset, FS_CardinalityType

LEMMA StaleDrops ==
  ASSUME NEW r, NEW s, NEW D, IsFiniteSet(D), Stale(r) \subseteq Stale(s) \cup D
  PROVE  Cardinality(Stale(r)) <= Cardinality(Stale(s)) + Cardinality(D)
<1> DEFINE A == Stale(r)
           B == Stale(s)
<1>1. IsFiniteSet(A) /\ IsFiniteSet(B)
  BY StaleIsFinite
<1>2. Cardinality(A) \in Nat /\ Cardinality(B) \in Nat /\ Cardinality(D) \in Nat
  BY <1>1, FS_CardinalityType
<1> HIDE DEF A, B
<1>3. IsFiniteSet(B \cup D) /\ IsFiniteSet(B \cap D)
      /\ Cardinality(B \cup D) = Cardinality(B) + Cardinality(D) - Cardinality(B \cap D)
  BY <1>1, FS_Union, FS_Intersection
<1>4. Cardinality(B \cap D) \in Nat /\ Cardinality(B \cup D) \in Nat
  BY <1>3, FS_CardinalityType
<1>5. A \in SUBSET (B \cup D)
  BY DEF A, B
<1>6. Cardinality(A) <= Cardinality(B \cup D)
  BY <1>3, <1>5, FS_Subset
<1>7. Cardinality(A) <= Cardinality(B) + Cardinality(D)
  BY <1>2, <1>3, <1>4, <1>6
<1> QED BY <1>7 DEF A, B

LEMMA TouchKeepsSettled ==
  ASSUME NEW r, NEW s, NEW x, Touches(r, s, x)
  PROVE  Settled(r) \subseteq Settled(s)
<1>1. ASSUME NEW c \in Challenges, r.challenges[c].state \in CHALLENGE_TERMINAL
      PROVE  s.challenges[c].state \in CHALLENGE_TERMINAL /\ s.challenges[c].epoch = r.challenges[c].epoch
  BY <1>1 DEF Touches, Open, SameWork
<1>2. ASSUME NEW v \in Evidences, r.uses[v].state \in USE_TERMINAL
      PROVE  s.uses[v].state \in USE_TERMINAL /\ s.uses[v].epoch = r.uses[v].epoch
  BY <1>2 DEF Touches, Open, SameWork
<1> QED BY <1>1, <1>2 DEF Settled

LEMMA TouchStale ==
  ASSUME NEW r, NEW s, NEW x, Touches(r, s, x)
  PROVE  /\ Stale(r) \subseteq Stale(s) \cup {x}
         /\ Stale(s) \subseteq Stale(r) \cup {x}
         /\ Cardinality(Stale(r)) <= Cardinality(Stale(s)) + 1
<1>1. Stale(r) \subseteq Stale(s) \cup {x}
  BY DEF Touches, SameWork, Stale, StalePrepared, StaleReserved
<1>2. Stale(s) \subseteq Stale(r) \cup {x}
  BY DEF Touches, SameWork, Stale, StalePrepared, StaleReserved
<1> QED BY <1>1, <1>2, StaleDrops, FS_Singleton

(* An operation that creates authority runs on a ledger without stale work.*)
LEMMA CreatesClean ==
  ASSUME NEW r, NEW s, NEW x, Touches(r, s, x), WorkOfEpoch(s, x), Stale(r) = {}
  PROVE  Clean(s)
<1>1. x \notin Stale(s)
  BY RecoveryLedgerAssumption DEF WorkOfEpoch, Stale, StalePrepared, StaleReserved
<1> QED BY <1>1, TouchStale DEF Clean

LEMMA EndsClean ==
  ASSUME NEW r, NEW s, NEW x, Touches(r, s, x), EndsWork(r, s, x), Clean(r)
  PROVE  Clean(s)
<1>1. InEpoch(s) => InEpoch(r)
  BY DEF Touches, SameWork, EndsWork, InEpoch
<1>2. x \notin Stale(s)
  BY DEF EndsWork, Stale, StalePrepared, StaleReserved
<1> QED BY <1>1, <1>2, TouchStale DEF Clean

LEMMA DrainsOn ==
  ASSUME NEW r \in Replays, NEW s \in Replays, NEW t \in Replays, NEW d \in Nat, NEW e \in Nat,
         Drains(r, s, d), Drains(s, t, e)
  PROVE  Drains(r, t, d + e)
<1>1. r.epoch.counter \in Nat /\ s.epoch.counter \in Nat /\ t.epoch.counter \in Nat
  BY DEF Replays, Epochs
<1>2. Cardinality(Stale(r)) \in Nat /\ Cardinality(Stale(s)) \in Nat /\ Cardinality(Stale(t)) \in Nat
  BY StaleIsFinite
<1> QED BY <1>1, <1>2 DEF Drains

LEMMA OrderlyConcat ==
  ASSUME NEW j \in Journals, NEW b \in Seq(Entries), Orderly(j),
         \A m \in 1..Len(b) : Drains(Replay(j), b[m].after, m),
         \A n, m \in 1..Len(b) : n <= m => Drains(b[n].after, b[m].after, m - n)
  PROVE  Orderly(j \o b)
<1> DEFINE k == j \o b
           L == Len(j)
<1>1. j \in Seq(Entries) /\ L \in Nat \ {0} /\ Len(b) \in Nat
  BY EmptySeq DEF Journals
<1>2. k \in Seq(Entries) /\ Len(k) = L + Len(b)
      /\ \A i \in 1..(L + Len(b)) : k[i] = IF i <= L THEN j[i] ELSE b[i - L]
  BY <1>1, ConcatProperties
<1>3. Replay(j) = j[L].after
  BY DEF Replay
<1> HIDE DEF k, L
<1> SUFFICES ASSUME NEW n \in 1..Len(k), NEW m \in 1..Len(k), n <= m
             PROVE  Drains(k[n].after, k[m].after, m - n)
  BY DEF Orderly, k
<1>4. k[n].after \in Replays /\ k[m].after \in Replays
  <2>1. k[n] \in Entries /\ k[m] \in Entries
    BY <1>2
  <2> QED BY <2>1 DEF Entries
<1>5. CASE m <= L
  <2>1. k[n] = j[n] /\ k[m] = j[m] /\ n \in 1..L /\ m \in 1..L
    BY <1>1, <1>2, <1>5
  <2> QED BY <2>1 DEF Orderly, L
<1>6. CASE n > L
  <2>1. k[n] = b[n - L] /\ k[m] = b[m - L] /\ n - L \in 1..Len(b) /\ m - L \in 1..Len(b)
        /\ n - L <= m - L /\ (m - L) - (n - L) = m - n
    BY <1>1, <1>2, <1>6
  <2> QED BY <2>1
<1>7. CASE n <= L /\ m > L
  <2>1. k[n] = j[n] /\ k[m] = b[m - L] /\ n \in 1..L /\ L \in 1..L /\ m - L \in 1..Len(b)
        /\ L - n \in Nat /\ m - L \in Nat /\ (L - n) + (m - L) = m - n
    BY <1>1, <1>2, <1>7
  <2>2. Drains(j[n].after, j[L].after, L - n)
    BY <1>7, <2>1 DEF Orderly, L
  <2>3. Drains(j[L].after, b[m - L].after, m - L)
    BY <1>3, <2>1
  <2>4. j[L].after \in Replays
    BY <1>3, ReplaysOfJournals
  <2> QED BY <1>4, <2>1, <2>2, <2>3, <2>4, DrainsOn
<1> QED BY <1>1, <1>2, <1>5, <1>6, <1>7

LEMMA OrderlyPrefix ==
  ASSUME NEW j \in Journals, NEW p \in Journals, IsPrefix(p, j), Orderly(j)
  PROVE  /\ Orderly(p)
         /\ Drains(Replay(p), Replay(j), Len(j) - Len(p))
         /\ Replay(p).epoch = Replay(j).epoch => Reach(p) <= Reach(j)
<1>1. j \in Seq(Entries) /\ p \in Seq(Entries) /\ Len(j) \in Nat \ {0} /\ Len(p) \in Nat \ {0}
  BY EmptySeq DEF Journals
<1>2. Len(p) <= Len(j) /\ \A i \in 1..Len(p) : p[i] = j[i]
  BY <1>1, PrefixByElements
<1>3. Orderly(p)
  BY <1>1, <1>2 DEF Orderly
<1>4. Drains(p[Len(p)].after, j[Len(j)].after, Len(j) - Len(p))
  BY <1>1, <1>2 DEF Orderly
<1>5. Replay(p) \in Replays /\ Replay(j) \in Replays
  BY ReplaysOfJournals
<1>6. Replay(p).epoch.counter \in Nat /\ Cardinality(Stale(Replay(p))) \in Nat
      /\ Cardinality(Stale(Replay(j))) \in Nat
  BY <1>5, StaleIsFinite DEF Replays, Epochs
<1>7. Drains(Replay(p), Replay(j), Len(j) - Len(p))
  BY <1>4 DEF Replay
<1>8. Replay(p).epoch = Replay(j).epoch => Reach(p) <= Reach(j)
  BY <1>1, <1>6, <1>7 DEF Drains, Reach
<1> QED BY <1>3, <1>7, <1>8

(* What every step that appends does, beside Appends.                      *)
Extends ==
  /\ Settled(Now) \subseteq Settled(Replay(journal'))
  /\ Clean(Replay(journal'))
  /\ Orderly(journal')
  /\ \/ WritesBehind \/ IsPrefix(witness, journal)
     \/ Replay(journal').epoch = Now.epoch /\ Reach(journal') <= Reach(journal)
     \/ Replay(journal').epoch.counter = Witnessed.epoch.counter + 1
  /\ token /\ NewEntry.op \in AuthorityOps => Open(Now, NewEntry.id)

LEMMA OneEntryExtends ==
  ASSUME IInv, JInv, NEW e \in Entries, journal' = Append(journal, e), NEW x,
         Touches(Now, e.after, x), Clean(e.after), e.op \in AuthorityOps => x = e.id,
         WritesBehind \/ IsPrefix(witness, journal)
  PROVE  Extends
<1>1. journal \in Journals /\ journal' = journal \o <<e>> /\ <<e>> \in Seq(Entries)
      /\ Len(<<e>>) = 1 /\ <<e>>[1] = e
  BY DEF IInv, TypeOK, Journals
<1>2. Replay(journal') = e.after /\ NewEntry = e
  <2>1. Replay(Append(journal, e)) = e.after /\ Append(journal, e)[Len(Append(journal, e))] = e
    BY <1>1, AppendExtends
  <2> QED BY <2>1 DEF NewEntry
<1>3. Drains(Replay(journal), e.after, 1)
  <2>1. Cardinality(Stale(Now)) <= Cardinality(Stale(e.after)) + 1 /\ e.after.epoch = Now.epoch
    BY TouchStale DEF Touches
  <2>2. Cardinality(Stale(e.after)) \in Nat
    BY StaleIsFinite
  <2> QED BY <2>1, <2>2, TouchKeepsSettled DEF Drains, Now
<1>4. Drains(e.after, e.after, 0)
  BY StaleIsFinite DEF Drains
<1>5. Orderly(journal')
  <2> DEFINE b == <<e>>
  <2>1. \A m \in 1..Len(b) : Drains(Replay(journal), b[m].after, m)
    BY <1>1, <1>3
  <2>2. \A n, m \in 1..Len(b) : n <= m => Drains(b[n].after, b[m].after, m - n)
    BY <1>1, <1>4
  <2>3. b \in Seq(Entries) /\ Orderly(journal) /\ journal' = journal \o b
    BY <1>1 DEF JInv
  <2> HIDE DEF b
  <2> QED BY <1>1, <2>1, <2>2, <2>3, OrderlyConcat
<1>6. Settled(Now) \subseteq Settled(e.after)
  BY TouchKeepsSettled
<1> QED BY <1>2, <1>5, <1>6 DEF Extends, Touches

LEMMA CreateExtends ==
  ASSUME IInv, JInv, NEW op \in AuthorityOps, NEW id \in Items, NEW s,
         Touches(Now, s, id), CreatesFrom(Now, s, id), Create(op, id, s)
  PROVE  Extends
<1>1. Entry(op, id, s) \in Entries /\ Entry(op, id, s).after = s /\ Entry(op, id, s).id = id
  BY EntryIsEntry DEF Items, Touches
<1>2. journal' = Append(journal, Entry(op, id, s)) /\ token
  BY DEF Create, Becomes
<1>3. Clean(s)
  BY <1>2, CreatesClean DEF JInv, CreatesFrom
<1>4. IsPrefix(witness, journal)
  BY <1>2, PrefixIsPartialOrder DEF IInv, TypeOK, Journals
<1> QED BY <1>1, <1>2, <1>3, <1>4, OneEntryExtends

LEMMA DestroyExtends ==
  ASSUME IInv, JInv, NEW op \in {"END", "ABANDON", "REGISTRY_VIEW"}, NEW id \in Items \cup {NoEntity}, NEW s,
         Touches(Now, s, id), EndsWork(Now, s, id), Destroy(op, id, s)
  PROVE  Extends
<1>1. Entry(op, id, s) \in Entries /\ Entry(op, id, s).after = s /\ Entry(op, id, s).id = id
  <2>1. id \in Challenges \cup Evidences \cup {NoEntity} /\ s \in Replays
    BY DEF Items, Touches
  <2> QED BY <2>1, EntryIsEntry
<1>2. journal' = Append(journal, Entry(op, id, s)) /\ (WritesBehind \/ IsPrefix(witness, journal))
  BY DEF Destroy, Becomes
<1>3. Clean(s)
  BY EndsClean DEF JInv
<1> QED BY <1>1, <1>2, <1>3, OneEntryExtends

LEMMA ChallengeStepExtends ==
  ASSUME IInv, JInv, ChallengeStep
  PROVE  Extends
<1> Sound(Now)
  BY DEF IInv
<1>1. PICK c \in Challenges : \/ \E e \in SignedEpochs : Prepare(c, e)
                              \/ Consume(c)
                              \/ \E v \in Evidences : Issue(c, v)
                              \/ \E ending \in Endings : End(c, ending)
  BY DEF ChallengeStep
<1>2. CASE \E e \in SignedEpochs : Prepare(c, e)
  <2> DEFINE s == [Now EXCEPT !.challenges[c] = [state |-> PREPARED, epoch |-> Now.epoch, evidence |-> NoEntity]]
  <2>1. Create("PREPARE", c, s) /\ Now.challenges[c].state = UNKNOWN
    BY <1>2 DEF Prepare
  <2>2. CreatesFrom(Now, s, c)
    BY <2>1, PrepareCreates
  <2>3. Touches(Now, s, c)
    BY <2>1, <2>2, RecoveryLedgerAssumption DEF CreatesFrom, Sound, Replays, Touches, Open, SameWork
  <2> QED BY <2>1, <2>2, <2>3, CreateExtends DEF AuthorityOps, Items
<1>3. CASE Consume(c)
  <2> DEFINE s == [Now EXCEPT !.challenges[c].state = CONSUMED]
  <2>1. Create("CONSUME", c, s) /\ Now.challenges[c].state = PREPARED /\ Now.challenges[c].epoch = Now.epoch
    BY <1>3 DEF Consume
  <2>2. CreatesFrom(Now, s, c)
    BY <2>1, ConsumeCreates
  <2>3. Touches(Now, s, c)
    BY <2>1, <2>2, RecoveryLedgerAssumption DEF CreatesFrom, Sound, Replays, Touches, Open, SameWork
  <2> QED BY <2>1, <2>2, <2>3, CreateExtends DEF AuthorityOps, Items
<1>4. CASE \E v \in Evidences : Issue(c, v)
  <2>0. PICK v \in Evidences : Issue(c, v)
    BY <1>4
  <2> DEFINE s == [Now EXCEPT !.challenges[c].evidence = v, !.uses[v] = [state |-> ISSUED, epoch |-> Now.epoch]]
  <2>1. Create("ISSUE", v, s) /\ Now.challenges[c].state = CONSUMED /\ Now.challenges[c].epoch = Now.epoch
        /\ Now.uses[v].state = UNKNOWN
    BY <2>0 DEF Issue
  <2>2. CreatesFrom(Now, s, v)
    BY <2>1, IssueCreates
  <2>3. \A d \in Challenges : SameWork(Now.challenges[d], s.challenges[d])
    BY DEF Sound, Replays, ChallengeRows, SameWork
  <2>4. \A w \in Evidences \ {v} : SameWork(Now.uses[w], s.uses[w])
    BY DEF Sound, Replays, SameWork
  <2>5. Touches(Now, s, v)
    BY <2>1, <2>2, <2>3, <2>4, RecoveryLedgerAssumption DEF CreatesFrom, Sound, Touches, Open
  <2> QED BY <2>1, <2>2, <2>5, CreateExtends DEF AuthorityOps, Items
<1>5. CASE \E ending \in Endings : End(c, ending)
  <2>0. PICK ending \in Endings : End(c, ending)
    BY <1>5
  <2> DEFINE s == [Now EXCEPT !.challenges[c].state = ending]
  <2>1. Destroy("END", c, s) /\ Now.challenges[c].state = PREPARED /\ ending \in EndingStates
    BY <2>0, RecoveryLedgerAssumption DEF End
  <2>2. DestroysFrom(Now, s)
    BY <2>1, EndDestroys
  <2>3. Touches(Now, s, c)
    BY <2>1, <2>2, RecoveryLedgerAssumption DEF DestroysFrom, Sound, Replays, Touches, Open, SameWork
  <2>4. EndsWork(Now, s, c)
    BY <2>1, RecoveryLedgerAssumption DEF Sound, Replays, ChallengeRows, EndsWork
  <2> QED BY <2>1, <2>3, <2>4, DestroyExtends DEF Items
<1> QED BY <1>1, <1>2, <1>3, <1>4, <1>5

LEMMA UseStepExtends ==
  ASSUME IInv, JInv, UseStep
  PROVE  Extends
<1> Sound(Now)
  BY DEF IInv
<1>1. PICK v \in Evidences : (\E e \in SignedEpochs : Reserve(v, e)) \/ Confirm(v) \/ Abandon(v)
  BY DEF UseStep
<1>2. CASE \E e \in SignedEpochs : Reserve(v, e)
  <2> DEFINE s == [Now EXCEPT !.uses[v].state = RESERVED]
  <2>1. Create("RESERVE", v, s) /\ Now.uses[v].state = ISSUED /\ Now.uses[v].epoch = Now.epoch
    BY <1>2 DEF Reserve
  <2>2. CreatesFrom(Now, s, v)
    BY <2>1, UseCreates
  <2>3. Touches(Now, s, v)
    BY <2>1, <2>2, RecoveryLedgerAssumption DEF CreatesFrom, Sound, Replays, Touches, Open, SameWork
  <2> QED BY <2>1, <2>2, <2>3, CreateExtends DEF AuthorityOps, Items
<1>3. CASE Confirm(v)
  <2> DEFINE s == [Now EXCEPT !.uses[v].state = CONSUMED]
  <2>1. Create("CONFIRM", v, s) /\ Now.uses[v].state = RESERVED /\ Now.uses[v].epoch = Now.epoch
    BY <1>3 DEF Confirm
  <2>2. CreatesFrom(Now, s, v)
    BY <2>1, UseCreates
  <2>3. Touches(Now, s, v)
    BY <2>1, <2>2, RecoveryLedgerAssumption DEF CreatesFrom, Sound, Replays, Touches, Open, SameWork
  <2> QED BY <2>1, <2>2, <2>3, CreateExtends DEF AuthorityOps, Items
<1>4. CASE Abandon(v)
  <2> DEFINE s == [Now EXCEPT !.uses[v].state = ABANDONED]
  <2>1. Destroy("ABANDON", v, s) /\ Now.uses[v].state = RESERVED
    BY <1>4 DEF Abandon
  <2>2. DestroysFrom(Now, s)
    BY <2>1, AbandonDestroys
  <2>3. Touches(Now, s, v)
    BY <2>1, <2>2, RecoveryLedgerAssumption DEF DestroysFrom, Sound, Replays, Touches, Open, SameWork
  <2>4. EndsWork(Now, s, v)
    BY <2>1, RecoveryLedgerAssumption DEF Sound, Replays, UseRows, EndsWork
  <2> QED BY <2>1, <2>3, <2>4, DestroyExtends DEF Items
<1> QED BY <1>1, <1>2, <1>3, <1>4

LEMMA RecordRegistryExtends ==
  ASSUME IInv, JInv, NEW key \in {Now.key, published[registry].key}, RecordRegistry(key)
  PROVE  Extends
<1>0. TypeOK /\ registry \in DOMAIN published
  BY DEF IInv, TypeOK
<1>1. Sound(Now) /\ registry \in Nat /\ published[registry].key \in Nat
  BY <1>0, RegistriesAreTyped DEF IInv
<1>2. key \in Nat
  BY <1>1 DEF Sound, Replays
<1> DEFINE s == [Now EXCEPT !.view = registry, !.key = key]
<1>3. Destroy("REGISTRY_VIEW", NoEntity, s)
  BY DEF RecordRegistry
<1>4. s \in Replays /\ s.epoch = Now.epoch /\ s.challenges = Now.challenges /\ s.uses = Now.uses
  BY <1>1, <1>2 DEF Sound, Replays
<1> HIDE DEF s
<1>5. Touches(Now, s, NoEntity) /\ EndsWork(Now, s, NoEntity)
  BY <1>4, RecoveryLedgerAssumption DEF Touches, Open, SameWork, EndsWork
<1> QED BY <1>3, <1>5, DestroyExtends

LEMMA BeginRecoveryExtends ==
  ASSUME IInv, JInv, NEW i \in DOMAIN published, BeginRecovery(i)
  PROVE  Extends
<1> DEFINE e == published[i].epoch
           s == [Now EXCEPT !.epoch = e, !.view = i, !.key = published[i].key]
           x == [op |-> "ADVANCE_EPOCH", id |-> NoEntity, from |-> Len(witness), after |-> s]
           b == <<x>>
<1>1. journal \in Journals /\ witness \in Journals /\ Sound(Now)
  BY DEF IInv, TypeOK
<1>2. i \in Nat /\ published[i].key \in Nat /\ e \in Epochs
  BY RegistriesAreTyped DEF IInv
<1>3. s \in Replays /\ s.epoch = e /\ s.challenges = Now.challenges /\ s.uses = Now.uses
  BY <1>1, <1>2 DEF Sound, Replays
<1>4. e.counter > Now.epoch.counter /\ e.counter = Witnessed.epoch.counter + 1
      /\ journal' = Append(journal, x)
  BY DEF BeginRecovery, Becomes
<1>5. Len(witness) \in Nat /\ x.op = "ADVANCE_EPOCH" /\ x.after = s
  BY <1>1 DEF Journals
<1>6. x \in Entries
  <2> HIDE DEF s
  <2> QED BY <1>3, <1>5 DEF Entries
<1> HIDE DEF x, s, e
<1>7. Replay(journal') = s /\ NewEntry = x
  BY <1>1, <1>4, <1>5, <1>6, AppendExtends DEF NewEntry
<1>8. Settled(Now) \subseteq Settled(s)
  BY <1>3 DEF Settled
<1>9. Clean(s)
  <2>1. ~InEpoch(s)
    BY <1>1, <1>2, <1>3, <1>4 DEF Sound, Replays, Epochs, ChallengeRows, UseRows, WorkIsReached, InEpoch
  <2> QED BY <2>1 DEF Clean
<1>10. b \in Seq(Entries) /\ Len(b) = 1 /\ b[1] = x /\ journal' = journal \o b
  BY <1>1, <1>4, <1>6 DEF Journals
<1> HIDE DEF b
<1>11. Orderly(journal')
  <2>1. Now.epoch.counter \in Nat /\ e.counter \in Nat
    BY <1>1, <1>2 DEF Sound, Replays, Epochs
  <2>2. \A m \in 1..Len(b) : Drains(Replay(journal), b[m].after, m)
    BY <1>3, <1>4, <1>5, <1>8, <1>10, <2>1 DEF Drains, Now
  <2>3. \A n, m \in 1..Len(b) : n <= m => Drains(b[n].after, b[m].after, m - n)
    BY <1>5, <1>10, StaleIsFinite DEF Drains
  <2> QED BY <1>1, <1>10, <2>2, <2>3, OrderlyConcat DEF JInv
<1> QED BY <1>3, <1>4, <1>5, <1>7, <1>8, <1>9, <1>11 DEF Extends, AuthorityOps

LEMMA StaleWithout ==
  ASSUME NEW r \in Replays, NEW items
  PROVE  /\ Stale(Without(r, items)) = Stale(r) \ items
         /\ Without(r, items).epoch = r.epoch
<1> DEFINE s == Without(r, items)
<1>1. s.epoch = r.epoch
  BY DEF Without, Replays
<1>2. \A c \in Challenges : /\ s.challenges[c].epoch = r.challenges[c].epoch
                            /\ s.challenges[c].state = IF c \in items THEN VOIDED_BY_RECOVERY
                                                       ELSE r.challenges[c].state
  BY DEF Replays, Without, ChallengeRows
<1>3. \A v \in Evidences : /\ s.uses[v].epoch = r.uses[v].epoch
                           /\ s.uses[v].state = IF v \in items THEN QUARANTINED_BY_RECOVERY
                                                ELSE r.uses[v].state
  BY DEF Replays, Without, UseRows
<1> HIDE DEF s
<1>4. StalePrepared(s) = StalePrepared(r) \ items
  BY <1>1, <1>2 DEF StalePrepared
<1>5. StaleReserved(s) = StaleReserved(r) \ items
  BY <1>1, <1>3 DEF StaleReserved
<1> QED BY <1>1, <1>4, <1>5 DEF s, Stale

LEMMA WithoutSettles ==
  ASSUME NEW r \in Replays, NEW items, NEW more, items \subseteq more
  PROVE  /\ Settled(r) \subseteq Settled(Without(r, items))
         /\ Settled(Without(r, items)) \subseteq Settled(Without(r, more))
<1> DEFINE s == Without(r, items)
           t == Without(r, more)
<1>1. /\ \A c \in Challenges : s.challenges[c].epoch = r.challenges[c].epoch
           /\ s.challenges[c].state = IF c \in items THEN VOIDED_BY_RECOVERY ELSE r.challenges[c].state
      /\ \A v \in Evidences : s.uses[v].epoch = r.uses[v].epoch
           /\ s.uses[v].state = IF v \in items THEN QUARANTINED_BY_RECOVERY ELSE r.uses[v].state
  BY DEF Replays, Without, ChallengeRows, UseRows
<1>2. /\ \A c \in Challenges : t.challenges[c].epoch = r.challenges[c].epoch
           /\ t.challenges[c].state = IF c \in more THEN VOIDED_BY_RECOVERY ELSE r.challenges[c].state
      /\ \A v \in Evidences : t.uses[v].epoch = r.uses[v].epoch
           /\ t.uses[v].state = IF v \in more THEN QUARANTINED_BY_RECOVERY ELSE r.uses[v].state
  BY DEF Replays, Without, ChallengeRows, UseRows
<1> HIDE DEF s, t
<1>3. Settled(r) \subseteq Settled(s)
  BY <1>1 DEF Settled
<1>4. Settled(s) \subseteq Settled(t)
  BY <1>1, <1>2 DEF Settled
<1> QED BY <1>3, <1>4 DEF s, t

(* The sequence of a finite set has each of its elements, and as many.     *)
LEMMA SetToSeqIsWhole ==
  ASSUME NEW S, IsFiniteSet(S)
  PROVE  /\ Len(SetToSeq(S)) = Cardinality(S)
         /\ \A x \in S : \E i \in 1..Cardinality(S) : SetToSeq(S)[i] = x
<1> DEFINE N == 1..Cardinality(S)
           f == SetToSeq(S)
<1>1. Cardinality(S) \in Nat /\ ExistsBijection(N, S)
  BY FS_CardinalityType
<1>2. \E g \in [N -> S] : IsInjective(g)
  BY <1>1 DEF ExistsBijection, Bijection, Injection
<1>3. f \in [N -> S] /\ IsInjective(f)
  BY <1>2 DEF SetToSeq
<1>4. f \in Seq(S) /\ Len(f) = Cardinality(S)
  BY <1>1, <1>3, SetToSeqElements, LenProperties
<1>5. Cardinality(N) = Cardinality(S)
  BY <1>1, FS_Interval
<1> HIDE DEF N, f
<1>6. f \in Injection(N, S)
  BY <1>3 DEF Injection, IsInjective
<1>7. f \in Surjection(N, S)
  BY <1>5, <1>6, FS_Injection
<1>8. \A x \in S : \E i \in N : f[i] = x
  BY <1>7 DEF Surjection
<1> QED BY <1>4, <1>8 DEF N, f

LEMMA RemovalOrderIsWhole ==
  /\ Len(RemovalOrder) = Cardinality(Stale(Now))
  /\ Stale(Now) \subseteq Removed(Len(RemovalOrder))
<1> DEFINE A == StalePrepared(Now)
           B == StaleReserved(Now)
           f == SetToSeq(A)
           g == SetToSeq(B)
<1>1. IsFiniteSet(A) /\ IsFiniteSet(B) /\ A \cap B = {} /\ RemovalOrder = f \o g /\ Stale(Now) = A \cup B
  BY RecoveryLedgerAssumption, FS_Subset DEF StalePrepared, StaleReserved, RemovalOrder, Stale
<1> HIDE DEF A, B
<1>2. /\ f \in Seq(A) /\ Len(f) = Cardinality(A) /\ \A x \in A : \E i \in 1..Len(f) : f[i] = x
      /\ g \in Seq(B) /\ Len(g) = Cardinality(B) /\ \A x \in B : \E i \in 1..Len(g) : g[i] = x
  BY <1>1, SetToSeqElements, SetToSeqIsWhole
<1> HIDE DEF f, g
<1>3. f \in Seq(A \cup B) /\ g \in Seq(A \cup B) /\ Len(f) \in Nat /\ Len(g) \in Nat
  BY <1>2, SeqMonotonic
<1>4. /\ Len(f \o g) = Len(f) + Len(g)
      /\ \A i \in 1..(Len(f) + Len(g)) : (f \o g)[i] = IF i <= Len(f) THEN f[i] ELSE g[i - Len(f)]
  BY <1>3, ConcatProperties
<1>5. Cardinality(A \cap B) = 0
  BY <1>1, FS_EmptySet
<1>6. Cardinality(A \cup B) = Cardinality(A) + Cardinality(B) - Cardinality(A \cap B)
  BY <1>1, FS_Union
<1>7. Len(RemovalOrder) = Cardinality(Stale(Now))
  BY <1>1, <1>2, <1>3, <1>4, <1>5, <1>6
<1>8. ASSUME NEW x \in A PROVE \E k \in 1..(Len(f) + Len(g)) : (f \o g)[k] = x
  <2>1. PICK i \in 1..Len(f) : f[i] = x
    BY <1>2
  <2>2. i \in 1..(Len(f) + Len(g)) /\ (f \o g)[i] = x
    BY <1>3, <1>4, <2>1
  <2> QED BY <2>2
<1>9. ASSUME NEW x \in B PROVE \E k \in 1..(Len(f) + Len(g)) : (f \o g)[k] = x
  <2>1. PICK i \in 1..Len(g) : g[i] = x
    BY <1>2
  <2>2. i + Len(f) \in 1..(Len(f) + Len(g)) /\ ~(i + Len(f) <= Len(f)) /\ (i + Len(f)) - Len(f) = i
    BY <1>3, <2>1
  <2>3. (f \o g)[i + Len(f)] = x
    BY <1>4, <2>1, <2>2
  <2> QED BY <2>2, <2>3
<1>10. Stale(Now) \subseteq Removed(Len(RemovalOrder))
  BY <1>1, <1>4, <1>8, <1>9 DEF Removed
<1> QED BY <1>7, <1>10

(* Each removal of the batch drains one item.                              *)
LEMMA RemovalsDrain ==
  ASSUME Now \in Replays,
         NEW n \in 0..Len(RemovalOrder), NEW m \in 1..Len(RemovalOrder), n <= m
  PROVE  Drains(Without(Now, Removed(n)), Without(Now, Removed(m)), m - n)
<1> DEFINE S == (n + 1)..m
           T == {RemovalOrder[k] : k \in S}
           h == [k \in S |-> RemovalOrder[k]]
<1>1. n \in Nat /\ m \in Nat
  BY RemovalOrderElements
<1>2. IsFiniteSet(S) /\ Cardinality(S) = m - n
  BY <1>1, FS_Interval
<1>3. h \in Surjection(S, T)
  BY DEF Surjection
<1> HIDE DEF S, h
<1>4. IsFiniteSet(T) /\ Cardinality(T) <= m - n
  BY <1>2, <1>3, FS_Surjection
<1>5. Removed(m) \subseteq Removed(n) \cup T
  <2> SUFFICES ASSUME NEW k \in 1..m PROVE k \in 1..n \/ k \in S
    BY DEF Removed
  <2> QED BY <1>1 DEF S
<1>6. Stale(Without(Now, Removed(n))) \subseteq Stale(Without(Now, Removed(m))) \cup T
  BY <1>5, StaleWithout
<1> DEFINE p == Stale(Without(Now, Removed(n)))
           q == Stale(Without(Now, Removed(m)))
<1> HIDE DEF T
<1>7. Cardinality(p) <= Cardinality(q) + Cardinality(T)
  BY <1>4, <1>6, StaleDrops
<1>8. Cardinality(p) \in Nat /\ Cardinality(q) \in Nat /\ Cardinality(T) \in Nat
  BY <1>4, StaleIsFinite, FS_CardinalityType
<1> HIDE DEF p, q
<1>9. Cardinality(p) <= (m - n) + Cardinality(q)
  BY <1>1, <1>4, <1>7, <1>8
<1>10. Removed(n) \subseteq Removed(m)
  <2> SUFFICES ASSUME NEW k \in 1..n PROVE k \in 1..m
    BY DEF Removed
  <2> QED BY <1>1
<1>11. Settled(Without(Now, Removed(n))) \subseteq Settled(Without(Now, Removed(m)))
  BY <1>10, WithoutSettles
<1> QED BY <1>9, <1>11, StaleWithout DEF Drains, p, q

LEMMA QuarantineExtends ==
  ASSUME IInv, JInv, Quarantine
  PROVE  Extends
<1>1. journal \in Journals /\ Now \in Replays
  BY DEF IInv, TypeOK, Sound
<1>2. PICK b \in Seq(Entries) :
        /\ b # <<>> /\ Len(b) = Len(RemovalOrder)
        /\ Becomes(journal \o b) /\ OthersUnchanged
        /\ \A n \in 1..Len(b) : /\ b[n].op \in {"VOID_CHALLENGE", "QUARANTINE_USE"}
                                /\ b[n].after = Without(Now, Removed(n))
  BY QuarantineBatch
<1> DEFINE L == Len(b)
           s == Without(Now, Removed(L))
<1>3. L \in Nat \ {0} /\ L \in 1..L /\ L = Cardinality(Stale(Now))
  BY <1>2, EmptySeq, RemovalOrderIsWhole
<1>4. journal' = journal \o b /\ Replay(journal') = s
  BY <1>1, <1>2, <1>3, ConcatExtends DEF Becomes
<1>5. Stale(s) = {} /\ s.epoch = Now.epoch
  BY <1>1, <1>2, StaleWithout, RemovalOrderIsWhole
<1>6. Settled(Now) \subseteq Settled(s)
  BY <1>1, WithoutSettles
<1>7. Orderly(journal')
  <2>1. \A n, m \in 1..Len(b) : n <= m => Drains(b[n].after, b[m].after, m - n)
    BY <1>1, <1>2, RemovalsDrain
  <2>2. ASSUME NEW m \in 1..Len(b) PROVE Drains(Replay(journal), b[m].after, m)
    <3> DEFINE w == Without(Now, Removed(0))
    <3>1. Drains(w, b[m].after, m - 0)
      BY <1>1, <1>2, <1>3, <2>2, RemovalsDrain
    <3>2. Stale(w) = Stale(Now) /\ w.epoch = Now.epoch
      <4>1. Removed(0) = {}
        BY DEF Removed
      <4>2. Stale(w) = Stale(Now) \ Removed(0) /\ w.epoch = Now.epoch
        BY <1>1, StaleWithout
      <4> QED BY <4>1, <4>2
    <3>3. m - 0 = m
      BY <1>3
    <3> HIDE DEF w
    <3>4. Settled(Now) \subseteq Settled(w)
      BY <1>1, WithoutSettles DEF w
    <3> QED BY <3>1, <3>2, <3>3, <3>4 DEF Drains, Now
  <2> QED BY <1>1, <1>2, <1>4, <2>1, <2>2, OrderlyConcat DEF JInv
<1>8. Reach(journal') <= Reach(journal)
  <2>1. Len(journal') = Len(journal) + L /\ Len(journal) \in Nat
    BY <1>1, <1>4, ConcatProperties DEF Journals
  <2>2. Cardinality(Stale(s)) = 0
    BY <1>5, FS_EmptySet
  <2> HIDE DEF L, s
  <2> QED BY <1>3, <1>4, <2>1, <2>2 DEF Reach, Now
<1>9. ~token
  <2>1. Cardinality({}) = 0
    BY FS_EmptySet
  <2> QED BY <1>3, <2>1 DEF JInv
<1> QED BY <1>4, <1>5, <1>6, <1>7, <1>8, <1>9 DEF Extends, Clean

(* The gate accepts no ledger with stale work.                             *)
LEMMA ReadyHasNoStaleWork == Ready => Stale(Now) = {}
<1>1. DOMAIN Checks = 1..14 /\ Checks[14].ok = (StalePrepared(Now) \cup StaleReserved(Now) = {})
  BY DEF Checks
<1>2. Ready => Checks[14].ok
  BY <1>1 DEF Ready, Failing
<1> QED BY <1>1, <1>2 DEF Stale

(* Every step that grows the journal, by its kind.                         *)
LEMMA AppendingSteps ==
  ASSUME IInv, JInv,
         \/ ChallengeStep \/ UseStep \/ Quarantine
         \/ \E i \in DOMAIN published : BeginRecovery(i)
         \/ \E key \in {Now.key, published[registry].key} : RecordRegistry(key)
  PROVE  Appends /\ Extends /\ UNCHANGED <<witness, backupVars, acked>>
<1>1. CASE ChallengeStep
  BY <1>1, ChallengeStepAppends, ChallengeStepExtends DEF Appends, OthersUnchanged
<1>2. CASE UseStep
  BY <1>2, UseStepAppends, UseStepExtends DEF Appends, OthersUnchanged
<1>3. CASE Quarantine
  BY <1>3, QuarantineAppends, QuarantineExtends DEF Appends, OthersUnchanged
<1>4. CASE \E i \in DOMAIN published : BeginRecovery(i)
  BY <1>4, BeginRecoveryAppends, BeginRecoveryExtends DEF Appends, BeginRecovery
<1>5. CASE \E key \in {Now.key, published[registry].key} : RecordRegistry(key)
  BY <1>5, RecordRegistryAppends, RecordRegistryExtends DEF Appends, OthersUnchanged
<1> QED BY <1>1, <1>2, <1>3, <1>4, <1>5

(* The steps that grow no journal and restore nothing, by what they change.*)
Idle ==
  /\ UNCHANGED <<journal, witness, acked, restores>>
  /\ \/ UNCHANGED <<backup, token>>
     \/ UNCHANGED backup /\ Ready /\ token' = TRUE
     \/ UNCHANGED token /\ backup' = [journal |-> journal, registry |-> registry, witness |-> witness]

LEMMA StepKinds ==
  ASSUME IInv, JInv, [Next]_vars
  PROVE  \/ Appends /\ Extends /\ UNCHANGED <<witness, backupVars, acked>>
         \/ Sign
         \/ Idle
         \/ \E part \in Parts : Restore(part)
<1>1. CASE ChallengeStep \/ UseStep \/ Quarantine
  BY <1>1, AppendingSteps
<1>2. CASE \E i \in DOMAIN published : BeginRecovery(i)
  BY <1>2, AppendingSteps
<1>3. CASE \E key \in {Now.key, published[registry].key} : RecordRegistry(key)
  BY <1>3, AppendingSteps
<1>4. CASE RebuildRows
  BY <1>4 DEF RebuildRows, OthersUnchanged, backupVars, Idle
<1>5. CASE PublishRotation \/ PublishRecovery
  BY <1>5 DEF PublishRotation, PublishRecovery, Publish, ledgerVars, backupVars, Idle
<1>6. CASE FetchRegistry
  BY <1>6 DEF FetchRegistry, ledgerVars, backupVars, Idle
<1>7. CASE EvaluateReadiness
  BY <1>7 DEF EvaluateReadiness, backupVars, Idle
<1>8. CASE Snapshot
  BY <1>8 DEF Snapshot, ledgerVars, Idle
<1>9. CASE UNCHANGED vars
  BY <1>9 DEF vars, ledgerVars, backupVars, Idle
<1> QED BY <1>1, <1>2, <1>3, <1>4, <1>5, <1>6, <1>7, <1>8, <1>9 DEF Next, RecoveryStep, RegistryStep

(* The journal's part of the invariant.                                    *)
LEMMA NextJInv ==
  ASSUME IInv, JInv, [Next]_vars
  PROVE  JInv'
<1>1. CASE Appends /\ Extends /\ UNCHANGED <<witness, backupVars, acked>>
  BY <1>1 DEF Appends, Extends, JInv, Now, Witnessed, backupVars
<1>2. CASE Sign
  BY <1>2 DEF Sign, ledgerVars, backupVars, JInv, Now, Witnessed
<1>3. CASE Idle
  BY <1>3, ReadyHasNoStaleWork DEF Idle, JInv, Now, Witnessed
<1>4. CASE \E part \in Parts : Restore(part)
  <2>1. journal \in Journals /\ backup.journal \in Journals /\ IsPrefix(backup.journal, journal)
    BY DEF IInv, TypeOK
  <2>2. Orderly(backup.journal)
    BY <2>1, OrderlyPrefix DEF JInv
  <2>3. journal' \in {journal, backup.journal} /\ witness' \in {witness, backup.witness}
        /\ backup' = backup /\ token' = FALSE
    BY <1>4 DEF Restore
  <2> QED BY <2>2, <2>3 DEF JInv, Now, Witnessed
<1> QED BY <1>1, <1>2, <1>3, <1>4, StepKinds

(* Signing: within the witness's epoch, only a ledger that has every ended *)
(* item of that epoch can follow.                                          *)
LEMMA SignedHasEnds ==
  ASSUME IInv, JInv, Sync(journal), Succeeds(witness, journal), Now.epoch = Witnessed.epoch,
         NEW s \in Settled(Witnessed), s[2] = Witnessed.epoch
  PROVE  s \in Settled(Now)
<1>1. journal \in Journals /\ witness \in Journals /\ Now \in Replays /\ Witnessed \in Replays
  BY ReplaysOfJournals DEF IInv, TypeOK, Now, Witnessed
<1>2. Len(journal) \in Nat /\ Len(witness) \in Nat /\ Now.epoch.counter \in Nat
  BY <1>1 DEF Journals, Replays, Epochs
<1>3. Len(journal) >= Len(witness) /\ (Len(journal) = Len(witness) => journal = witness)
  BY <1>2 DEF Succeeds, Older, Now, Witnessed
<1>4. CASE IsPrefix(witness, journal)
  BY <1>1, <1>4, OrderlyPrefix DEF Drains, JInv, Now, Witnessed
<1>5. CASE Reach(journal) <= Reach(witness)
  <2>1. InEpoch(Witnessed)
    BY DEF Settled, InEpoch
  <2>2. Cardinality(Stale(Witnessed)) = 0
    BY <2>1, FS_EmptySet DEF JInv, Clean
  <2>3. Cardinality(Stale(Now)) \in Nat
    BY StaleIsFinite
  <2>4. journal = witness
    BY <1>2, <1>3, <1>5, <2>2, <2>3 DEF Reach, Now, Witnessed
  <2> QED BY <2>4 DEF Now, Witnessed
<1> QED BY <1>4, <1>5 DEF Sync, Now

LEMMA SignKeepsCovers ==
  ASSUME IInv, JInv, LossIsSeen, Sign
  PROVE  Covers'
<1>1. Now \in Replays /\ Witnessed \in Replays /\ Sound(Now)
  BY ReplaysOfJournals DEF IInv, TypeOK, Now, Witnessed
<1>2. Witnessed' = Now /\ acked' = acked \cup Settled(Now)
  BY DEF Sign, Witnessed, Now
<1>3. ~Older(Now.epoch, Witnessed.epoch) /\ ~Forked(Now.epoch, Witnessed.epoch) /\ Succeeds(witness, journal)
  BY DEF Sign, Succeeds, Now, Witnessed
<1>4. Now.epoch.counter \in Nat /\ Witnessed.epoch.counter \in Nat
  BY <1>1 DEF Replays, Epochs
<1>5. Covers /\ acked \subseteq Items \X Epochs
  BY DEF LossIsSeen, IInv, TypeOK
<1>6. ASSUME NEW s \in Settled(Now)
      PROVE  s[2].counter <= Now.epoch.counter
  BY <1>1 DEF Settled, Sound, WorkIsReached
<1>7. ASSUME NEW s \in acked
      PROVE  /\ s[2].counter <= Now.epoch.counter
             /\ s[2] = Now.epoch => s \in Settled(Now)
  <2>1. s[2].counter \in Nat /\ s[2].counter <= Witnessed.epoch.counter
    BY <1>5 DEF Covers, Epochs
  <2>2. Witnessed.epoch.counter <= Now.epoch.counter
    BY <1>3, <1>4 DEF Older
  <2>3. ASSUME s[2] = Now.epoch PROVE s \in Settled(Now)
    <3>1. Now.epoch.counter = Witnessed.epoch.counter
      BY <1>4, <2>1, <2>2, <2>3
    <3>2. Now.epoch = Witnessed.epoch
      BY <1>3, <3>1 DEF Forked
    <3>3. s \in Settled(Witnessed)
      BY <1>5, <2>3, <3>2 DEF Covers
    <3> QED BY <1>3, <2>3, <3>2, <3>3, SignedHasEnds DEF LossIsSeen
  <2>4. s[2].counter <= Now.epoch.counter
    BY <1>4, <2>1, <2>2
  <2> QED BY <2>3, <2>4
<1> QED BY <1>2, <1>6, <1>7 DEF Covers

LEMMA LossStaysSeen ==
  ASSUME IInv, JInv, LossIsSeen, ~WritesBehind, [Next]_vars,
         witness' = witness \/ Sign
  PROVE  LossIsSeen'
<1>0. /\ journal \in Journals /\ witness \in Journals /\ backup.journal \in Journals
      /\ IsPrefix(backup.journal, journal) /\ IsPrefix(journal, journal)
  BY PrefixIsPartialOrder DEF IInv, TypeOK, Journals
<1>1. CASE Appends /\ Extends /\ UNCHANGED <<witness, backupVars, acked>>
  <2>1. Covers' /\ Sync(backup.journal)'
    BY <1>1 DEF LossIsSeen, Covers, Sync, Witnessed, Reach, backupVars
  <2>2. journal' \in Journals /\ IsPrefix(journal, journal')
    BY <1>1 DEF Appends
  <2>3. ASSUME Replay(journal').epoch = Witnessed.epoch
        PROVE  IsPrefix(witness, journal') \/ Reach(journal') <= Reach(witness)
    <3>1. CASE IsPrefix(witness, journal)
      BY <1>0, <2>2, <3>1, PrefixIsPartialOrder DEF Journals
    <3>2. CASE Replay(journal').epoch = Now.epoch /\ Reach(journal') <= Reach(journal)
                 /\ ~IsPrefix(witness, journal)
      <4>1. Reach(journal) <= Reach(witness)
        BY <2>3, <3>2 DEF LossIsSeen, Sync, Now
      <4>2. Reach(journal) \in Nat /\ Reach(journal') \in Nat /\ Reach(witness) \in Nat
        BY <1>0, <2>2, StaleIsFinite DEF Reach, Journals
      <4> QED BY <3>2, <4>1, <4>2
    <3>3. CASE Replay(journal').epoch.counter = Witnessed.epoch.counter + 1
      <4>1. Witnessed.epoch.counter \in Nat
        BY <1>0, ReplaysOfJournals DEF Witnessed, Replays, Epochs
      <4> QED BY <2>3, <3>3, <4>1
    <3> QED BY <1>1, <3>1, <3>2, <3>3 DEF Extends
  <2>4. Sync(journal)'
    BY <1>1, <2>3 DEF Sync, Witnessed, Reach
  <2> QED BY <2>1, <2>4 DEF LossIsSeen
<1>2. CASE Sign
  <2>1. witness' = journal /\ journal' = journal /\ backup' = backup
    BY <1>2 DEF Sign, ledgerVars, backupVars
  <2>2. Sync(journal)'
    BY <1>0, <2>1 DEF Sync
  <2>3. Sync(backup.journal)'
    BY <1>0, <2>1, OrderlyPrefix DEF Sync, JInv, Witnessed, Reach
  <2> QED BY <1>2, <2>2, <2>3, SignKeepsCovers DEF LossIsSeen
<1>3. CASE Idle
  BY <1>3 DEF Idle, LossIsSeen, Covers, Sync, Witnessed, Reach
<1>4. CASE witness' = witness /\ \E part \in Parts : Restore(part)
  <2>1. journal' \in {journal, backup.journal} /\ backup' = backup /\ acked' = acked /\ witness' = witness
    BY <1>4 DEF Restore
  <2> QED BY <2>1 DEF LossIsSeen, Covers, Sync, Witnessed, Reach
<1>5. CASE ~Sign /\ \E part \in Parts : Restore(part)
  BY <1>4, <1>5
<1> QED BY <1>1, <1>2, <1>3, <1>4, <1>5, StepKinds

LEMMA NothingStaysLost ==
  ASSUME IInv, JInv, LosesNothing, [Next]_vars,
         \A part \in Parts : Restore(part) => part # "ledger"
  PROVE  LosesNothing'
<1>1. CASE Appends /\ Extends /\ UNCHANGED <<witness, backupVars, acked>>
  BY <1>1 DEF Extends, LosesNothing, Now
<1>2. CASE Sign
  BY <1>2 DEF Sign, ledgerVars, LosesNothing, Now
<1>3. CASE Idle
  BY <1>3 DEF Idle, LosesNothing, Now
<1>4. CASE \E part \in Parts : Restore(part)
  <2>1. journal' = journal /\ acked' = acked
    BY <1>4 DEF Restore
  <2> QED BY <2>1 DEF LosesNothing, Now
<1> QED BY <1>1, <1>2, <1>3, <1>4, StepKinds

LEMMA NextMInv ==
  ASSUME IInv, JInv, MInv, [Next]_vars
  PROVE  MInv'
<1> SUFFICES ASSUME RestoresOneSide
             PROVE  /\ "ledger" \notin Restorable => LosesNothing'
                    /\ "ledger" \in Restorable =>
                         /\ LossIsSeen' \/ (LosesNothing' /\ restores' > 0)
                         /\ restores' = 0 => LosesNothing'
                         /\ "witness" \notin Restorable => LossIsSeen'
  BY DEF MInv, RestoresOneSide
<1>1. restores \in Nat /\ MaxRestores \in Nat
  BY RecoveryLedgerAssumption DEF IInv, TypeOK
<1>2. CASE "ledger" \notin Restorable
  <2>1. \A part \in Parts : Restore(part) => part # "ledger"
    BY <1>2 DEF Restore
  <2> QED BY <1>2, <2>1, NothingStaysLost DEF MInv
<1>3. CASE "ledger" \in Restorable /\ ~\E part \in Parts : Restore(part)
  <2>1. restores' = restores /\ (witness' = witness \/ Sign)
    BY <1>3, StepKinds DEF backupVars, Idle, Sign
  <2>2. LossIsSeen => LossIsSeen'
    BY <1>3, <2>1, LossStaysSeen DEF RestoresOneSide
  <2>3. LosesNothing => LosesNothing'
    BY <1>3, NothingStaysLost
  <2> QED BY <1>3, <2>1, <2>2, <2>3 DEF MInv
<1>4. CASE "ledger" \in Restorable /\ \E part \in Parts : Restore(part)
  <2>1. PICK part \in Parts : Restore(part)
    BY <1>4
  <2>2. restores' = restores + 1 /\ restores < MaxRestores /\ part \in Restorable
    BY <2>1 DEF Restore
  <2>3. CASE part # "witness"
    <3>1. witness' = witness
      BY <2>1, <2>3 DEF Restore
    <3>2. LossIsSeen
      BY <1>1, <1>4, <2>2 DEF MInv, RestoresOneSide
    <3>3. LossIsSeen'
      BY <1>4, <3>1, <3>2, LossStaysSeen DEF RestoresOneSide
    <3> QED BY <1>1, <1>4, <2>2, <3>3
  <2>4. CASE part = "witness"
    <3>1. restores = 0 /\ LosesNothing
      BY <1>1, <1>4, <2>2, <2>4 DEF MInv, RestoresOneSide
    <3>2. journal' = journal /\ acked' = acked
      BY <2>1, <2>4 DEF Restore
    <3>3. LosesNothing'
      BY <3>1, <3>2 DEF LosesNothing, Now
    <3> QED BY <1>1, <1>4, <2>2, <2>4, <3>3
  <2> QED BY <2>3, <2>4
<1> QED BY <1>2, <1>3, <1>4

LEMMA InitLosses == Init => JInv /\ MInv
<1> SUFFICES ASSUME Init PROVE JInv /\ MInv
  OBVIOUS
<1> DEFINE g == <<GenesisEntry>>
<1>1. journal = g /\ witness = g /\ backup.journal = g /\ backup.witness = g /\ acked = {} /\ token = FALSE
  BY DEF Init
<1>2. Replay(g) = GenesisEntry.after /\ Len(g) = 1 /\ g[1] = GenesisEntry
  BY DEF Replay
<1>3. ~InEpoch(GenesisEntry.after)
  BY DEF GenesisEntry, InEpoch
<1>4. g \in Seq({GenesisEntry})
  OBVIOUS
<1> HIDE DEF g
<1>5. Orderly(g)
  BY <1>2, StaleIsFinite DEF Orderly, Drains
<1>6. IsPrefix(g, g)
  BY <1>4, PrefixIsPartialOrder
<1>7. JInv
  BY <1>1, <1>2, <1>3, <1>5 DEF JInv, Clean, Now, Witnessed
<1>8. LossIsSeen /\ LosesNothing
  BY <1>1, <1>6 DEF LossIsSeen, LosesNothing, Sync, Covers
<1> QED BY <1>7, <1>8 DEF MInv

-----------------------------------------------------------------------------
(***************************************************************************)
(* Theorems.                                                               *)
(***************************************************************************)

LEMMA IInvInvariant == Spec => []IInv
<1>1. Init => IInv
  BY InitIInv
<1>2. IInv /\ [Next]_vars => IInv'
  BY NextIInv
<1> QED BY <1>1, <1>2, PTL DEF Spec

(* Journals, rows, registries, backups and acknowledgements keep their     *)
(* types, for every instance.                                              *)
THEOREM TypeCorrect == Spec => []TypeOK
<1>1. IInv => TypeOK
  BY DEF IInv
<1> QED BY <1>1, IInvInvariant, PTL

(* Every operation that creates authority runs on the witnessed ledger, in *)
(* the witnessed epoch, on work of that epoch, whatever was restored.      *)
THEOREM AuthorityIsWitnessed == Spec => AuthorityInWitnessedEpoch
<1> DEFINE A == Grows /\ NewEntry.op \in AuthorityOps
                  => /\ journal = witness
                     /\ NewEntry.after.epoch = Witnessed.epoch
                     /\ EpochOf(NewEntry) = Witnessed.epoch
                     /\ \A c \in Challenges : NewEntry.after.challenges[c].evidence = NewEntry.id =>
                          NewEntry.after.challenges[c].epoch = Witnessed.epoch
<1>1. IInv /\ [Next]_vars => A
  <2> SUFFICES ASSUME IInv, [Next]_vars, Grows, NewEntry.op \in AuthorityOps
               PROVE  /\ journal = witness
                      /\ NewEntry.after.epoch = Witnessed.epoch
                      /\ EpochOf(NewEntry) = Witnessed.epoch
                      /\ \A c \in Challenges : NewEntry.after.challenges[c].evidence = NewEntry.id =>
                           NewEntry.after.challenges[c].epoch = Witnessed.epoch
    OBVIOUS
  <2>1. AppendsAuthority
    BY OnlyAppendsGrow DEF Appends, AppendsRemoval
  <2>2. journal = witness
    BY <2>1 DEF AppendsAuthority, IInv
  <2>3. NewEntry.after.epoch = Witnessed.epoch /\ WorkOfEpoch(NewEntry.after, NewEntry.id)
    BY <2>1, <2>2 DEF AppendsAuthority, CreatesFrom, Now, Witnessed
  <2> QED BY <2>2, <2>3 DEF WorkOfEpoch, EpochOf
<1>2. [][IInv /\ [Next]_vars => A]_vars
  BY <1>1, PTL
<1> QED BY <1>1, IInvInvariant, PTL DEF Spec, AuthorityInWitnessedEpoch

(* Recovery removes pending authority and never creates or rebinds any.    *)
THEOREM RecoveryDestroys == Spec => RecoveryOnlyDestroys
<1>1. ASSUME IInv, [Next]_vars, Grows
      PROVE  /\ ~token => Pending(Replay(journal')) \subseteq Pending(Now)
             /\ Replay(journal').epoch # Now.epoch => Pending(Replay(journal')) = {}
  <2>1. Appends
    BY <1>1, OnlyAppendsGrow
  <2> QED BY <2>1 DEF Appends, AppendsAuthority, AppendsRemoval, CreatesFrom, DestroysFrom, Narrows
<1> QED BY <1>1, IInvInvariant, PTL DEF Spec, RecoveryOnlyDestroys

(* A terminal record is final within its journal.                          *)
THEOREM TerminalIsFinal == Spec => TerminalNeverReopens
<1>1. ASSUME IInv, [Next]_vars, Grows
      PROVE  LET next == Replay(journal')
             IN  /\ \A c \in Challenges : Now.challenges[c].state \in CHALLENGE_TERMINAL =>
                      next.challenges[c].state = Now.challenges[c].state
                 /\ \A v \in Evidences : Now.uses[v].state \in USE_TERMINAL => next.uses[v] = Now.uses[v]
  <2>1. Appends
    BY <1>1, OnlyAppendsGrow
  <2>2. TerminalKept(Now, Replay(journal'))
    BY <2>1 DEF Appends, AppendsAuthority, AppendsRemoval, CreatesFrom, DestroysFrom
  <2> QED BY <2>2 DEF TerminalKept
<1> QED BY <1>1, IInvInvariant, PTL DEF Spec, TerminalNeverReopens

LEMMA LossInvariant == Spec => [](IInv /\ JInv /\ MInv)
<1>1. Init => IInv /\ JInv /\ MInv
  BY InitIInv, InitLosses
<1>2. IInv /\ JInv /\ MInv /\ [Next]_vars => (IInv /\ JInv /\ MInv)'
  BY NextIInv, NextJInv, NextMInv
<1> QED BY <1>1, <1>2, PTL DEF Spec

(* A ledger the witness names has every acknowledged end of its epoch.     *)
LEMMA WitnessedHasEnds ==
  ASSUME MInv, RestoresOneSide, journal = witness, NEW s \in acked, s[2] = Now.epoch
  PROVE  s \in Settled(Now)
<1>1. LossIsSeen \/ LosesNothing
  BY DEF MInv
<1> QED BY <1>1 DEF LossIsSeen, Covers, LosesNothing, Now, Witnessed

(* A restore is detected, within one epoch too: a ledger the gate accepts  *)
(* has every acknowledged end of its epoch, for any number of restores of  *)
(* one side that are not written to before the ceremony, and for one       *)
(* restore of either side.                                                 *)
THEOREM RestoreIsDetected == RestoresOneSide => (Spec => []RestoreWithinEpochIsDetected)
<1> SUFFICES ASSUME RestoresOneSide PROVE Spec => []RestoreWithinEpochIsDetected
  OBVIOUS
<1>1. MInv => RestoreWithinEpochIsDetected
  BY ReadyIsWitnessed, WitnessedHasEnds DEF RestoreWithinEpochIsDetected
<1> QED BY <1>1, LossInvariant, PTL

(* What a witness has acknowledged as ended creates no authority again.    *)
THEOREM AcknowledgedOnce == RestoresOneSide => (Spec => NothingAcknowledgedTwice)
<1> SUFFICES ASSUME RestoresOneSide PROVE Spec => NothingAcknowledgedTwice
  OBVIOUS
<1>1. ASSUME IInv, JInv, MInv, [Next]_vars, Grows, NewEntry.op \in AuthorityOps
      PROVE  <<NewEntry.id, EpochOf(NewEntry)>> \notin acked
  <2>1. AppendsAuthority
    BY <1>1, OnlyAppendsGrow DEF Appends, AppendsRemoval
  <2>2. token /\ journal = witness
    BY <1>1, <2>1 DEF AppendsAuthority, IInv
  <2>3. EpochOf(NewEntry) = Now.epoch /\ NewEntry.id \in Items
    BY <2>1 DEF AppendsAuthority, CreatesFrom, WorkOfEpoch, EpochOf
  <2>4. Extends
    <3>1. journal' # journal
      BY <1>1 DEF Grows, IsStrictPrefix
    <3>2. ~Sign /\ ~Idle
      BY <3>1 DEF Sign, ledgerVars, Idle
    <3>3. ~\E part \in Parts : Restore(part)
      <4>1. SUFFICES ASSUME journal' = backup.journal PROVE FALSE
        BY <3>1 DEF Restore
      <4>2. journal \in Seq(Entries) /\ backup.journal \in Seq(Entries) /\ IsPrefix(backup.journal, journal)
        BY <1>1 DEF IInv, TypeOK, Journals
      <4> QED BY <1>1, <3>1, <4>1, <4>2, PrefixIsPartialOrder DEF Grows, IsStrictPrefix
    <3> QED BY <1>1, <3>2, <3>3, StepKinds
  <2>5. Open(Now, NewEntry.id)
    BY <1>1, <2>2, <2>4 DEF Extends
  <2>6. <<NewEntry.id, Now.epoch>> \notin Settled(Now)
    BY <2>5, RecoveryLedgerAssumption DEF Open, Settled
  <2> QED BY <1>1, <2>2, <2>3, <2>6, WitnessedHasEnds
<1>2. IInv /\ JInv /\ MInv /\ [Next]_vars =>
        (Grows /\ NewEntry.op \in AuthorityOps => <<NewEntry.id, EpochOf(NewEntry)>> \notin acked)
  BY <1>1
<1> QED BY <1>2, LossInvariant, PTL DEF Spec, NothingAcknowledgedTwice

=============================================================================
