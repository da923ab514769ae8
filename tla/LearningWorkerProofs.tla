------------------------ MODULE LearningWorkerProofs ------------------------
(***************************************************************************)
(* Theorems about LearningWorker, for every number of runs, limit, lease,  *)
(* capacity and set of invalid records.                                    *)
(*                                                                         *)
(* The inductive invariant says what a run that still holds the lease may  *)
(* rely on: its batch starts where its job starts (Batches), that is at    *)
(* the cursor (OpenJobIsUsable), and a batch on its way to the commit has  *)
(* no invalid record and none that is yet to be written (Valid).           *)
(***************************************************************************)
EXTENDS LearningWorker, FiniteSetTheorems, TLAPS

Batches ==
  \A w \in Workers :
    job.status = "LEASED" /\ job.token = w /\ at[w] \in {"reading", "committing", "failing"} =>
      batch[w].from = job.from

Valid ==
  \A w \in Workers :
    at[w] = "committing" =>
      /\ batch[w].through <= events \/ batch[w].through = batch[w].from
      /\ Invalid \cap ((batch[w].from + 1)..batch[w].through) = {}

Exact ==
  /\ candidates = 1..cursor
  /\ candidates \cap Invalid = {}
  /\ cursor <= events

IInv == TypeOK /\ OpenJobIsUsable /\ Batches /\ Valid /\ Exact

Jobs == [status : {"NONE", "QUEUED", "LEASED"}, from : Nat, attempts : 0..MAX_ATTEMPTS,
         token : Workers \cup {None}, left : Int]

----------------------------------------------------------------------------
(* The helpers.                                                            *)

LEMMA NoJobType == NoJob \in Jobs /\ NoJob.left <= Lease /\ NoJob.status = "NONE"
BY LearningWorkerAssumption DEF NoJob, Jobs, MAX_ATTEMPTS

LEMMA QueuedType ==
  ASSUME NEW j \in Jobs
  PROVE  /\ Queued(j) \in Jobs /\ Queued(j).left = 0 /\ Queued(j).status = "QUEUED"
         /\ Queued(j).from = j.from /\ Queued(j).attempts = j.attempts
<1> DEFINE one == [j EXCEPT !.status = "QUEUED"]
           two == [one EXCEPT !.token = None]
<1>1. /\ one \in Jobs /\ one.status = "QUEUED"
      /\ one.from = j.from /\ one.attempts = j.attempts
  BY DEF Jobs
<1> HIDE DEF one
<1>2. /\ two \in Jobs /\ two.status = "QUEUED"
      /\ two.from = j.from /\ two.attempts = j.attempts
  BY <1>1 DEF Jobs
<1> HIDE DEF two
<1>3. Queued(j) = [two EXCEPT !.left = 0] BY DEF Queued, one, two
<1> QED BY <1>2, <1>3 DEF Jobs

(* What lease_job finds: the job, or no job, or one that it puts back.     *)
LEMMA ReclaimedIs ==
  ASSUME NEW a, job \in Jobs
  PROVE  \/ Reclaimed(a) = job
         \/ Reclaimed(a) = NoJob
         \/ /\ Reclaimed(a) = Queued(job)
            /\ job.status = "LEASED" /\ MayRetry(job.attempts)
BY DEF Reclaimed

(* A run that goes to another step, or ends, changes nothing of another.   *)
LEMMA GotoType ==
  ASSUME TypeOK, NEW w \in Workers, NEW step \in Steps, Goto(w, step)
  PROVE  /\ at' \in [Workers -> Steps]
         /\ sampled' \in [Workers -> BOOLEAN] /\ age' \in [Workers -> 0..Busy]
         /\ at'[w] = step
         /\ \A v \in Workers : v # w => at'[v] = at[v]
BY LearningWorkerAssumption DEF TypeOK, Goto

LEMMA EndType ==
  ASSUME TypeOK, NEW w \in Workers, End(w)
  PROVE  /\ at' \in [Workers -> Steps]
         /\ sampled' \in [Workers -> BOOLEAN] /\ age' \in [Workers -> 0..Busy]
         /\ batch' \in [Workers -> [from : Nat, through : Nat, retry : BOOLEAN]]
         /\ at'[w] = "idle"
         /\ \A v \in Workers : v # w => at'[v] = at[v] /\ batch'[v] = batch[v]
<1>1. Goto(w, "idle") BY DEF End
<1>2. "idle" \in Steps BY DEF Steps
<1>3. batch' \in [Workers -> [from : Nat, through : Nat, retry : BOOLEAN]]
      /\ \A v \in Workers : v # w => batch'[v] = batch[v]
  BY DEF End, TypeOK
<1> QED BY <1>1, <1>2, <1>3, GotoType

LEMMA FailsType ==
  ASSUME TypeOK, NEW w \in Workers, NEW r \in BOOLEAN, Fails(w, r)
  PROVE  /\ at' \in [Workers -> Steps]
         /\ sampled' \in [Workers -> BOOLEAN] /\ age' \in [Workers -> 0..Busy]
         /\ batch' \in [Workers -> [from : Nat, through : Nat, retry : BOOLEAN]]
         /\ at'[w] = "failing" /\ batch'[w].from = batch[w].from
         /\ \A v \in Workers : v # w => at'[v] = at[v] /\ batch'[v] = batch[v]
<1>1. Goto(w, "failing") BY DEF Fails
<1>2. "failing" \in Steps BY DEF Steps
<1>3. batch' = [batch EXCEPT ![w].retry = r] BY DEF Fails
<1>4. batch \in [Workers -> [from : Nat, through : Nat, retry : BOOLEAN]] BY DEF TypeOK
<1>5. batch' \in [Workers -> [from : Nat, through : Nat, retry : BOOLEAN]]
      /\ batch'[w].from = batch[w].from
      /\ \A v \in Workers : v # w => batch'[v] = batch[v]
  BY <1>3, <1>4
<1> QED BY <1>1, <1>2, <1>5, GotoType

LEMMA ThroughType ==
  ASSUME NEW from \in Nat, events \in Nat
  PROVE  Through(from) \in Nat /\ Through(from) >= from
BY LearningWorkerAssumption DEF Through

LEMMA Adjacent ==
  ASSUME NEW m \in Nat, NEW n \in Nat, m <= n
  PROVE  (1..m) \cup ((m + 1)..n) = 1..n
<1>1. ASSUME NEW i PROVE i \in (1..m) \cup ((m + 1)..n) <=> i \in 1..n OBVIOUS
<1> QED BY <1>1

LEMMA FaultType == ASSUME TypeOK, Fault PROVE faults' \in 0..MaxFaults
BY LearningWorkerAssumption DEF TypeOK, Fault

----------------------------------------------------------------------------
(* A run that ends, or that turns to recording its failure, without        *)
(* touching the ledger.                                                    *)
LEMMA Leaves ==
  ASSUME IInv, NEW w \in Workers,
         End(w) \/ (at[w] \in {"reading", "committing"} /\ \E r \in BOOLEAN : Fails(w, r)),
         UNCHANGED <<events, ledger>>, faults' \in 0..MaxFaults
  PROVE  IInv'
<1> USE DEF IInv
<1>1. /\ at' \in [Workers -> Steps]
      /\ sampled' \in [Workers -> BOOLEAN] /\ age' \in [Workers -> 0..Busy]
      /\ batch' \in [Workers -> [from : Nat, through : Nat, retry : BOOLEAN]]
      /\ at'[w] \in {"idle", "failing"}
      /\ at'[w] = "failing" => at[w] \in {"reading", "committing"} /\ batch'[w].from = batch[w].from
      /\ \A v \in Workers : v # w => at'[v] = at[v] /\ batch'[v] = batch[v]
  <2>1. CASE End(w) BY <2>1, EndType
  <2>2. CASE at[w] \in {"reading", "committing"} /\ \E r \in BOOLEAN : Fails(w, r)
    <3>1. PICK r \in BOOLEAN : Fails(w, r) BY <2>2
    <3> QED BY <3>1, <2>2, FailsType
  <2> QED BY <2>1, <2>2
<1>2. TypeOK' BY <1>1 DEF TypeOK, ledger
<1>3. OpenJobIsUsable' BY DEF OpenJobIsUsable, ledger, MayRetry
<1>4. Valid' BY <1>1 DEF Valid
<1>5. Exact' BY DEF Exact, ledger
<1>6. Batches' BY <1>1 DEF Batches, ledger
<1> QED BY <1>2, <1>3, <1>4, <1>5, <1>6

----------------------------------------------------------------------------
(* The inductive invariant.                                                *)

LEMMA InitHolds == Init => IInv
<1> SUFFICES ASSUME Init PROVE IInv OBVIOUS
<1>1. TypeOK
  <2>1. at \in [Workers -> Steps] BY DEF Init, Steps
  <2>2. job \in Jobs /\ job.left <= Lease BY NoJobType DEF Init
  <2>3. events \in 0..MaxEvents /\ faults \in 0..MaxFaults /\ cursor \in Nat /\ candidates \subseteq Nat
    BY LearningWorkerAssumption DEF Init
  <2>4. /\ batch \in [Workers -> [from : Nat, through : Nat, retry : BOOLEAN]]
        /\ sampled \in [Workers -> BOOLEAN] /\ age \in [Workers -> 0..Busy]
    BY LearningWorkerAssumption DEF Init
  <2> QED BY <2>1, <2>2, <2>3, <2>4 DEF TypeOK, Jobs
<1>2. OpenJobIsUsable /\ Batches BY NoJobType DEF Init, OpenJobIsUsable, Batches
<1>3. Valid /\ Exact BY DEF Init, Valid, Exact
<1> QED BY <1>1, <1>2, <1>3 DEF IInv

LEMMA AppendKeeps == ASSUME IInv, Append PROVE IInv'
<1> USE DEF IInv
<1>1. TypeOK' BY LearningWorkerAssumption DEF TypeOK, Append, ledger, clocks
<1>2. OpenJobIsUsable' /\ Batches' BY DEF OpenJobIsUsable, Batches, Append, ledger, MayRetry
<1>3. Valid' /\ Exact' BY DEF TypeOK, Valid, Exact, Append, ledger
<1> QED BY <1>1, <1>2, <1>3

LEMMA TickKeeps == ASSUME IInv, Tick PROVE IInv'
<1> USE DEF IInv
<1>1. job \in Jobs BY DEF TypeOK, Jobs
<1>2. /\ job' \in Jobs /\ job'.left <= Lease
      /\ job'.status = job.status /\ job'.from = job.from
      /\ job'.attempts = job.attempts /\ job'.token = job.token
  BY <1>1, LearningWorkerAssumption DEF Tick, Jobs, TypeOK
<1>3. age' \in [Workers -> 0..Busy]
  BY LearningWorkerAssumption DEF Tick, TypeOK
<1>4. TypeOK' BY <1>2, <1>3 DEF TypeOK, Tick, Jobs
<1>5. OpenJobIsUsable' BY <1>2 DEF OpenJobIsUsable, Tick, MayRetry
<1>6. Batches' BY <1>2 DEF Batches, Tick
<1>7. Valid' /\ Exact' BY DEF Valid, Exact, Tick
<1> QED BY <1>4, <1>5, <1>6, <1>7

LEMMA RunKeeps == ASSUME IInv, NEW w \in Workers, Run(w) PROVE IInv'
<1> USE DEF IInv
<1>0. Goto(w, "leasing") /\ "leasing" \in Steps BY DEF Run, Steps
<1>1. /\ at' \in [Workers -> Steps]
      /\ sampled' \in [Workers -> BOOLEAN] /\ age' \in [Workers -> 0..Busy]
      /\ at'[w] = "leasing"
      /\ \A v \in Workers : v # w => at'[v] = at[v]
  BY <1>0, GotoType
<1>2. TypeOK' BY <1>1 DEF TypeOK, Run, ledger
<1>3. OpenJobIsUsable' BY DEF OpenJobIsUsable, Run, ledger, MayRetry
<1>4. Batches' BY <1>1 DEF Batches, Run, ledger
<1>5. Valid' /\ Exact' BY <1>1 DEF Valid, Exact, Run, ledger
<1> QED BY <1>2, <1>3, <1>4, <1>5

LEMMA SampleKeeps == ASSUME IInv, NEW w \in Workers, Sample(w) PROVE IInv'
<1> USE DEF IInv
<1>1. TypeOK' BY DEF TypeOK, Sample, ledger
<1>2. OpenJobIsUsable' /\ Batches' BY DEF OpenJobIsUsable, Batches, Sample, ledger, MayRetry
<1>3. Valid' /\ Exact' BY DEF Valid, Exact, Sample, ledger
<1> QED BY <1>1, <1>2, <1>3

LEMMA LeaseJobKeeps == ASSUME IInv, NEW w \in Workers, LeaseJob(w) PROVE IInv'
<1> USE DEF IInv
<1> DEFINE j == Reclaimed(age[w])
<1> DEFINE start == IF j.status = "NONE" THEN cursor ELSE j.from
<1>1. job \in Jobs /\ cursor \in Nat /\ age[w] \in 0..Busy /\ faults' \in 0..MaxFaults
  BY DEF TypeOK, Jobs, LeaseJob
<1>2. CASE j.status = "LEASED" \/ ~MayRetry(j.attempts)
  <2>1. End(w) /\ UNCHANGED <<events, ledger>> BY <1>2 DEF LeaseJob
  <2> QED BY <2>1, <1>1, Leaves
<1>3. CASE ~(j.status = "LEASED" \/ ~MayRetry(j.attempts))
  <2>1. j \in Jobs /\ start = cursor
    <3>1. CASE j = job BY <3>1, <1>1, <1>3 DEF OpenJobIsUsable, Jobs
    <3>2. CASE j = NoJob BY <3>2, NoJobType
    <3>3. CASE j = Queued(job) /\ job.status = "LEASED"
      BY <3>3, <1>1, QueuedType DEF OpenJobIsUsable
    <3> HIDE DEF j
    <3> QED BY <3>1, <3>2, <3>3, <1>1, ReclaimedIs DEF j
  <2>2. /\ job' = [status |-> "LEASED", from |-> start, attempts |-> j.attempts + 1,
                   token |-> w, left |-> Lease - age[w]]
        /\ Goto(w, "reading") /\ "reading" \in Steps
        /\ batch' = [batch EXCEPT ![w].from = start]
        /\ UNCHANGED <<cursor, candidates, events, faults>>
    BY <1>3 DEF LeaseJob, Steps
  <2> HIDE DEF j, start
  <2>3. /\ at' \in [Workers -> Steps]
        /\ sampled' \in [Workers -> BOOLEAN] /\ age' \in [Workers -> 0..Busy]
        /\ at'[w] = "reading"
        /\ \A v \in Workers : v # w => at'[v] = at[v]
    BY <2>2, GotoType
  <2>4. /\ batch' \in [Workers -> [from : Nat, through : Nat, retry : BOOLEAN]]
        /\ batch'[w].from = cursor
        /\ \A v \in Workers : v # w => batch'[v] = batch[v]
    BY <2>1, <2>2, <1>1 DEF TypeOK
  <2>5. job' \in Jobs /\ job'.left <= Lease
    <3>1. j.attempts + 1 \in 0..MAX_ATTEMPTS
      BY <1>3, <2>1 DEF Jobs, MayRetry, MAX_ATTEMPTS
    <3>2. Lease - age[w] \in Int /\ Lease - age[w] <= Lease
      BY <1>1, LearningWorkerAssumption
    <3> QED BY <3>1, <3>2, <2>1, <2>2, <1>1 DEF Jobs
  <2>6. job'.status = "LEASED" /\ job'.from = cursor /\ job'.token = w BY <2>1, <2>2
  <2>7. TypeOK' BY <2>2, <2>3, <2>4, <2>5 DEF TypeOK, Jobs
  <2>8. OpenJobIsUsable' BY <2>2, <2>6 DEF OpenJobIsUsable
  <2>9. Batches' BY <2>2, <2>3, <2>4, <2>6 DEF Batches
  <2>10. Valid' BY <2>2, <2>3, <2>4 DEF Valid
  <2>11. Exact' BY <2>2 DEF Exact
  <2> QED BY <2>7, <2>8, <2>9, <2>10, <2>11
<1> QED BY <1>2, <1>3

LEMMA ReadKeeps == ASSUME IInv, NEW w \in Workers, Read(w) PROVE IInv'
<1> USE DEF IInv
<1> DEFINE from == batch[w].from
           fits == Invalid \cap ((from + 1)..Through(from)) = {}
<1>1. from \in Nat /\ events \in Nat /\ faults' \in 0..MaxFaults
  BY LearningWorkerAssumption DEF TypeOK, Read
<1>2. CASE ~fits
  <2>1. Fails(w, FALSE) /\ at[w] = "reading" /\ UNCHANGED <<events, ledger>>
    BY <1>2 DEF Read
  <2> QED BY <2>1, <1>1, Leaves
<1>3. CASE fits
  <2>1. /\ Goto(w, "committing") /\ "committing" \in Steps /\ at[w] = "reading"
        /\ batch' = [batch EXCEPT ![w].through = Through(from)]
        /\ UNCHANGED <<events, job, cursor, candidates, faults>>
    BY <1>3 DEF Read, Steps, ledger
  <2>2. /\ at' \in [Workers -> Steps]
        /\ sampled' \in [Workers -> BOOLEAN] /\ age' \in [Workers -> 0..Busy]
        /\ at'[w] = "committing"
        /\ \A v \in Workers : v # w => at'[v] = at[v]
    BY <2>1, GotoType
  <2>3. /\ batch' \in [Workers -> [from : Nat, through : Nat, retry : BOOLEAN]]
        /\ batch'[w].from = from /\ batch'[w].through = Through(from)
        /\ \A v \in Workers : v # w => batch'[v] = batch[v]
    BY <2>1, <1>1, ThroughType DEF TypeOK
  <2>4. Through(from) <= events \/ Through(from) = from
    BY <1>1, LearningWorkerAssumption DEF Through
  <2>5. TypeOK' BY <2>1, <2>2, <2>3 DEF TypeOK
  <2>6. OpenJobIsUsable' BY <2>1 DEF OpenJobIsUsable, MayRetry
  <2>7. Batches' BY <2>1, <2>2, <2>3 DEF Batches
  <2>8. Valid' BY <1>3, <2>1, <2>2, <2>3, <2>4 DEF Valid
  <2>9. Exact' BY <2>1 DEF Exact
  <2> QED BY <2>5, <2>6, <2>7, <2>8, <2>9
<1> QED BY <1>2, <1>3

LEMMA ReadFailsKeeps == ASSUME IInv, NEW w \in Workers, ReadFails(w) PROVE IInv'
<1>1. TypeOK /\ Fault BY DEF IInv, ReadFails
<1>2. faults' \in 0..MaxFaults BY <1>1, FaultType
<1>3. at[w] = "reading" /\ Fails(w, TRUE) /\ UNCHANGED <<events, ledger>> BY DEF ReadFails
<1> QED BY <1>2, <1>3, Leaves

LEMMA DBBusyKeeps == ASSUME IInv, NEW w \in Workers, DBBusy(w) PROVE IInv'
<1>1. TypeOK /\ Fault BY DEF IInv, DBBusy
<1>2. faults' \in 0..MaxFaults BY <1>1, FaultType
<1>3. End(w) \/ (at[w] = "committing" /\ Fails(w, TRUE)) BY DEF DBBusy
<1>4. UNCHANGED <<events, ledger>> BY DEF DBBusy
<1> QED BY <1>2, <1>3, <1>4, Leaves

LEMMA CrashKeeps == ASSUME IInv, NEW w \in Workers, Crash(w) PROVE IInv'
<1>1. TypeOK /\ Fault BY DEF IInv, Crash
<1>2. faults' \in 0..MaxFaults BY <1>1, FaultType
<1>3. End(w) /\ UNCHANGED <<events, ledger>> BY DEF Crash
<1> QED BY <1>2, <1>3, Leaves

(* A commit that goes through: the batch starts at the cursor, and its     *)
(* records are the next ones, written and valid.                           *)
Commits(w) ==
  /\ at[w] = "committing"
  /\ batch[w].from = cursor
  /\ batch[w].through \in Nat /\ batch[w].through >= cursor /\ batch[w].through <= events
  /\ Invalid \cap ((cursor + 1)..batch[w].through) = {}
  /\ candidates' = candidates \cup ((cursor + 1)..batch[w].through)
  /\ Cardinality(candidates') <= Capacity
  /\ cursor' = batch[w].through /\ job' = NoJob
  /\ End(w) /\ UNCHANGED <<events, faults>>

LEMMA CommitIs ==
  ASSUME IInv, NEW w \in Workers, CommitBatch(w)
  PROVE  \/ HoldsLease(w) /\ Commits(w)
         \/ /\ at[w] = "committing" /\ UNCHANGED <<events, ledger, faults>>
            /\ End(w) \/ Fails(w, FALSE)
<1> DEFINE from == batch[w].from
           through == batch[w].through
           rows == (from + 1)..through
<1>1. at[w] = "committing" /\ UNCHANGED <<events, faults>> BY DEF CommitBatch
<1>2. \/ UNCHANGED ledger /\ (End(w) \/ Fails(w, FALSE))
      \/ /\ HoldsLease(w) /\ ~(cursor # job.from \/ through < cursor)
         /\ ~(Cardinality(candidates \cup rows) > Capacity)
         /\ candidates' = candidates \cup rows /\ cursor' = through
         /\ job' = NoJob /\ End(w)
  BY DEF CommitBatch
<1>3. CASE UNCHANGED ledger /\ (End(w) \/ Fails(w, FALSE)) BY <1>1, <1>3
<1>4. CASE /\ HoldsLease(w) /\ ~(cursor # job.from \/ through < cursor)
           /\ ~(Cardinality(candidates \cup rows) > Capacity)
           /\ candidates' = candidates \cup rows /\ cursor' = through
           /\ job' = NoJob /\ End(w)
  <2>1. cursor \in Nat /\ events \in Nat /\ through \in Nat /\ from \in Nat
    BY LearningWorkerAssumption DEF IInv, TypeOK
  <2>2. from = cursor BY <1>1, <1>4 DEF IInv, Batches, HoldsLease
  <2>3. through >= cursor BY <1>4, <2>1
  <2>4. /\ through <= events \/ through = from
        /\ Invalid \cap rows = {}
    BY <1>1 DEF IInv, Valid
  <2>5. through <= events BY <2>1, <2>2, <2>4 DEF IInv, Exact
  <2>6. Cardinality(candidates \cup rows) \in Nat
    <3>1. IsFiniteSet(1..cursor) /\ IsFiniteSet(rows)
      <4>1. cursor \in Int /\ from + 1 \in Int /\ through \in Int BY <2>1
      <4> QED BY <4>1, FS_Interval
    <3>2. candidates = 1..cursor BY DEF IInv, Exact
    <3> HIDE DEF rows
    <3>3. IsFiniteSet(candidates \cup rows) BY <3>1, <3>2, FS_Union
    <3> QED BY <3>3, FS_CardinalityType
  <2>7. Cardinality(candidates \cup rows) <= Capacity
    BY <1>4, <2>6, LearningWorkerAssumption
  <2> QED BY <1>1, <1>4, <2>1, <2>2, <2>3, <2>4, <2>5, <2>7 DEF Commits
<1> QED BY <1>2, <1>3, <1>4

LEMMA CommitKeeps == ASSUME IInv, NEW w \in Workers, CommitBatch(w) PROVE IInv'
<1>1. TypeOK /\ Exact BY DEF IInv
<1>2. CASE Commits(w)
  <2>1. /\ at' \in [Workers -> Steps]
        /\ sampled' \in [Workers -> BOOLEAN] /\ age' \in [Workers -> 0..Busy]
        /\ batch' \in [Workers -> [from : Nat, through : Nat, retry : BOOLEAN]]
        /\ at'[w] = "idle"
        /\ \A v \in Workers : v # w => at'[v] = at[v] /\ batch'[v] = batch[v]
    BY <1>1, <1>2, EndType DEF Commits
  <2>2. job' \in Jobs /\ job'.left <= Lease /\ job'.status = "NONE"
    BY <1>2, NoJobType DEF Commits
  <2>3. cursor \in Nat /\ cursor' \in Nat /\ cursor' >= cursor /\ cursor' <= events
    BY <1>1, <1>2 DEF TypeOK, Commits
  <2>4. candidates' = 1..cursor'
    <3>1. candidates' = (1..cursor) \cup ((cursor + 1)..cursor') BY <1>1, <1>2 DEF Commits, Exact
    <3>2. (1..cursor) \cup ((cursor + 1)..cursor') = 1..cursor' BY <2>3, Adjacent
    <3> QED BY <3>1, <3>2
  <2>5. candidates' \cap Invalid = {} BY <1>1, <1>2 DEF Commits, Exact
  <2>6. TypeOK'
    <3>1. candidates' \subseteq Nat BY <2>3, <2>4
    <3>2. events' \in 0..MaxEvents /\ faults' \in 0..MaxFaults BY <1>1, <1>2 DEF TypeOK, Commits
    <3> QED BY <2>1, <2>2, <2>3, <3>1, <3>2 DEF TypeOK, Jobs
  <2>7. OpenJobIsUsable' /\ Batches' BY <2>2 DEF OpenJobIsUsable, Batches
  <2>8. Valid' BY <1>2, <2>1 DEF IInv, Valid, Commits
  <2>9. Exact' BY <1>2, <2>3, <2>4, <2>5 DEF Exact, Commits
  <2> QED BY <2>6, <2>7, <2>8, <2>9 DEF IInv
<1>3. CASE /\ at[w] = "committing" /\ UNCHANGED <<events, ledger, faults>>
           /\ End(w) \/ Fails(w, FALSE)
  <2>1. faults' \in 0..MaxFaults BY <1>1, <1>3 DEF TypeOK
  <2> QED BY <1>3, <2>1, Leaves
<1> QED BY <1>2, <1>3, CommitIs

LEMMA FailJobKeeps == ASSUME IInv, NEW w \in Workers, FailJob(w) PROVE IInv'
<1>1. TypeOK /\ job \in Jobs /\ End(w) /\ UNCHANGED <<events, cursor, candidates, faults>>
  BY DEF IInv, TypeOK, Jobs, FailJob
<1>2. CASE job' = job
  <2>1. UNCHANGED <<events, ledger>> /\ faults' \in 0..MaxFaults
    BY <1>1, <1>2 DEF ledger, TypeOK
  <2> QED BY <1>1, <2>1, Leaves
<1>3. CASE job' # job
  <2>1. \/ job' = NoJob
        \/ job' = Queued(job) /\ MayRetry(job.attempts) /\ HoldsLease(w)
    BY <1>3 DEF FailJob
  <2>2. /\ at' \in [Workers -> Steps]
        /\ sampled' \in [Workers -> BOOLEAN] /\ age' \in [Workers -> 0..Busy]
        /\ batch' \in [Workers -> [from : Nat, through : Nat, retry : BOOLEAN]]
        /\ at'[w] = "idle"
        /\ \A v \in Workers : v # w => at'[v] = at[v] /\ batch'[v] = batch[v]
    BY <1>1, EndType
  <2>3. /\ job' \in Jobs /\ job'.left <= Lease /\ job'.status # "LEASED"
        /\ job'.status # "NONE" => job'.from = cursor /\ MayRetry(job'.attempts)
    <3>1. CASE job' = NoJob BY <3>1, NoJobType
    <3>2. CASE job' = Queued(job) /\ MayRetry(job.attempts) /\ HoldsLease(w)
      <4>1. job.from = cursor BY <3>2 DEF IInv, OpenJobIsUsable, HoldsLease
      <4> QED BY <1>1, <3>2, <4>1, QueuedType, LearningWorkerAssumption
    <3> QED BY <2>1, <3>1, <3>2
  <2>4. TypeOK' BY <1>1, <2>2, <2>3 DEF TypeOK, Jobs
  <2>5. OpenJobIsUsable' /\ Batches' BY <1>1, <2>3 DEF OpenJobIsUsable, Batches
  <2>6. Valid' BY <1>1, <2>2 DEF IInv, Valid
  <2>7. Exact' BY <1>1 DEF IInv, Exact
  <2> QED BY <2>4, <2>5, <2>6, <2>7 DEF IInv
<1> QED BY <1>2, <1>3

LEMMA NextKeeps == IInv /\ [Next]_vars => IInv'
<1> SUFFICES ASSUME IInv, [Next]_vars PROVE IInv' OBVIOUS
<1>1. CASE Append BY <1>1, AppendKeeps
<1>2. CASE Tick BY <1>2, TickKeeps
<1>3. CASE \E w \in Workers : WorkerStep(w)
  <2>1. PICK w \in Workers : WorkerStep(w) BY <1>3
  <2> QED BY <2>1, RunKeeps, SampleKeeps, LeaseJobKeeps, ReadKeeps, CommitKeeps, FailJobKeeps
          DEF WorkerStep
<1>4. CASE \E w \in Workers : WorkerFault(w)
  <2>1. PICK w \in Workers : WorkerFault(w) BY <1>4
  <2> QED BY <2>1, ReadFailsKeeps, DBBusyKeeps, CrashKeeps DEF WorkerFault
<1>5. CASE UNCHANGED vars
  BY <1>5 DEF IInv, TypeOK, OpenJobIsUsable, Batches, Valid, Exact, MayRetry,
              vars, ledger, clocks
<1> QED BY <1>1, <1>2, <1>3, <1>4, <1>5 DEF Next

(* The inductive invariant holds of every behaviour of run_once.           *)
THEOREM Invariance == Spec => []IInv
BY InitHolds, NextKeeps, PTL DEF Spec

(* The types, and lease_job's bound: no job is attempted a fourth time.    *)
THEOREM TypeCorrect == Spec => []TypeOK
<1>1. IInv => TypeOK BY DEF IInv
<1> QED BY Invariance, <1>1, PTL

(* The open job always starts at the cursor and can be leased again, so    *)
(* commit_batch never meets a conflict and no queued job blocks the stream.*)
THEOREM JobsAreUsable == Spec => []OpenJobIsUsable
<1>1. IInv => OpenJobIsUsable BY DEF IInv
<1> QED BY Invariance, <1>1, PTL

----------------------------------------------------------------------------
(* Leases.                                                                 *)

(* A step, seen by the run that holds an unexpired lease.                  *)
Respects(w) ==
  \/ UNCHANGED <<cursor, candidates>> /\ job' = [job EXCEPT !.left = job'.left]
  \/ at[w] \in {"committing", "failing"} /\ at'[w] = "idle"

LEMMA LedgerUnchanged ==
  ASSUME IInv, UNCHANGED ledger, NEW w \in Workers PROVE Respects(w)
<1>1. job \in Jobs BY DEF IInv, TypeOK, Jobs
<1>2. job = [job EXCEPT !.left = job.left] BY <1>1 DEF Jobs
<1> QED BY <1>2 DEF Respects, ledger

LEMMA WorkerRespects ==
  ASSUME IInv, NEW v \in Workers, WorkerStep(v) \/ WorkerFault(v),
         NEW w \in Workers, job.status = "LEASED", job.token = w, job.left > 0
  PROVE  Respects(w)
<1>0. TypeOK /\ job.left \in Int /\ age[v] \in 0..Busy BY DEF IInv, TypeOK
<1>1. CASE UNCHANGED ledger BY <1>1, LedgerUnchanged
<1>2. CASE LeaseJob(v)
  <2>1. ~(job.left <= -age[v]) BY <1>0, LearningWorkerAssumption
  <2>2. Reclaimed(age[v]) = job BY <2>1 DEF Reclaimed
  <2>3. UNCHANGED ledger BY <1>2, <2>2 DEF LeaseJob
  <2> QED BY <2>3, LedgerUnchanged
<1>3. CASE CommitBatch(v)
  <2>1. CASE HoldsLease(v) /\ Commits(v)
    <3>1. v = w /\ at[w] = "committing" /\ End(w) BY <2>1 DEF HoldsLease, Commits
    <3> QED BY <1>0, <3>1, EndType DEF Respects
  <2>2. CASE UNCHANGED ledger BY <2>2, LedgerUnchanged
  <2> QED BY <1>3, <2>1, <2>2, CommitIs
<1>4. CASE FailJob(v)
  <2>1. CASE HoldsLease(v)
    <3>1. v = w /\ at[w] = "failing" /\ End(w) BY <1>4, <2>1 DEF HoldsLease, FailJob
    <3> QED BY <1>0, <3>1, EndType DEF Respects
  <2>2. CASE ~HoldsLease(v)
    <3>1. UNCHANGED ledger BY <1>4, <2>2 DEF FailJob, ledger
    <3> QED BY <3>1, LedgerUnchanged
  <2> QED BY <2>1, <2>2
<1>5. CASE Run(v) \/ Sample(v) \/ Read(v) \/ WorkerFault(v)
  <2>1. UNCHANGED ledger BY <1>5 DEF Run, Sample, Read, WorkerFault, ReadFails, DBBusy, Crash
  <2> QED BY <2>1, LedgerUnchanged
<1> QED BY <1>2, <1>3, <1>4, <1>5 DEF WorkerStep

(* _require_lease and lease_job together: until a lease expires, only the  *)
(* run that holds it changes its job, the cursor or the candidates.        *)
THEOREM LeasesAreRespected == Spec => LeaseIsRespected
<1> DEFINE Step == \A w \in Workers :
             job.status = "LEASED" /\ job.token = w /\ job.left > 0 => Respects(w)
<1>1. IInv /\ [Next]_vars => [Step]_vars
  <2> SUFFICES ASSUME IInv, [Next]_vars, NEW w \in Workers,
                      job.status = "LEASED", job.token = w, job.left > 0
               PROVE  Respects(w)
    OBVIOUS
  <2>1. CASE Append \/ UNCHANGED vars
    <3>1. UNCHANGED ledger BY <2>1 DEF Append, vars, ledger
    <3> QED BY <3>1, LedgerUnchanged
  <2>2. CASE Tick
    <3>1. job \in Jobs BY DEF IInv, TypeOK, Jobs
    <3>2. job' = [job EXCEPT !.left = job'.left] BY <2>2, <3>1 DEF Tick, Jobs
    <3> QED BY <2>2, <3>2 DEF Respects, Tick
  <2>3. CASE \E v \in Workers : WorkerStep(v) \/ WorkerFault(v) BY <2>3, WorkerRespects
  <2> QED BY <2>1, <2>2, <2>3 DEF Next
<1>2. [Step]_vars => [\A w \in Workers :
        job.status = "LEASED" /\ job.token = w /\ job.left > 0 =>
          \/ UNCHANGED <<cursor, candidates>> /\ job' = [job EXCEPT !.left = job'.left]
          \/ at[w] \in {"committing", "failing"} /\ at'[w] = "idle"]_vars
  BY DEF Respects
<1> QED BY Invariance, <1>1, <1>2, PTL DEF Spec, LeaseIsRespected

----------------------------------------------------------------------------
(* Refinement.                                                             *)

LEMMA WorkerStepIsLogStep ==
  ASSUME IInv, NEW w \in Workers, WorkerStep(w) \/ WorkerFault(w)
  PROVE  Log!Consolidate \/ UNCHANGED <<events, cursor, candidates>>
<1>1. CASE CommitBatch(w)
  <2>1. CASE Commits(w)
    <3>1. CASE cursor' = cursor
      <4>1. cursor \in Nat BY DEF IInv, TypeOK
      <4>2. (cursor + 1)..cursor = {} BY <4>1
      <4> QED BY <2>1, <3>1, <4>2 DEF Commits
    <3>2. CASE cursor' # cursor
      <4>1. cursor \in Nat /\ cursor' \in Nat /\ cursor' > cursor /\ cursor' <= events
        BY <2>1, <3>2 DEF IInv, TypeOK, Commits
      <4>2. candidates' = candidates \cup ((cursor + 1)..cursor')
            /\ candidates' \cap Invalid = {}
        BY <2>1 DEF IInv, Exact, Commits
      <4>3. Log!Cardinality(candidates') <= Capacity
        <5>1. Log!Cardinality(candidates') = Cardinality(candidates')
          BY Zenon DEF Log!Cardinality, Cardinality
        <5> QED BY <2>1, <5>1 DEF Commits
      <4> QED BY <2>1, <4>1, <4>2, <4>3 DEF Log!Consolidate, Commits
    <3> QED BY <3>1, <3>2
  <2>2. CASE UNCHANGED <<events, ledger, faults>> BY <2>2 DEF ledger
  <2> QED BY <1>1, <2>1, <2>2, CommitIs
<1>2. CASE ~CommitBatch(w)
  BY <1>2 DEF WorkerStep, WorkerFault, Run, Sample, LeaseJob, Read, FailJob,
              ReadFails, DBBusy, Crash, ledger
<1> QED BY <1>1, <1>2

(* run_once implements the log: the candidates are the source records up   *)
(* to the cursor, each of them once, whatever overlaps, expires or fails.  *)
THEOREM LedgerIsTheLog == Spec => ImplementsLog
<1>1. Init => Log!Init BY DEF Init, Log!Init
<1>2. IInv /\ [Next]_vars => [Log!Append \/ Log!Consolidate]_(Log!vars)
  <2> SUFFICES ASSUME IInv, [Next]_vars
               PROVE  Log!Append \/ Log!Consolidate \/ UNCHANGED <<events, cursor, candidates>>
    BY DEF Log!vars
  <2>1. CASE Append
    BY <2>1, LearningWorkerAssumption DEF Append, Log!Append, IInv, TypeOK, ledger
  <2>2. CASE Tick \/ UNCHANGED vars BY <2>2 DEF Tick, vars, ledger
  <2>3. CASE \E w \in Workers : WorkerStep(w) \/ WorkerFault(w) BY <2>3, WorkerStepIsLogStep
  <2> QED BY <2>1, <2>2, <2>3 DEF Next
<1> QED BY Invariance, <1>1, <1>2, PTL DEF Spec, ImplementsLog, Log!Spec

=============================================================================
