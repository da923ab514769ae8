--------------------------- MODULE LearningWorker ---------------------------
(***************************************************************************)
(* The one-shot learning worker of the core API.                           *)
(*                                                                         *)
(* A run takes the lease of the stream's one open job, reads a batch of    *)
(* the source behind the cursor, derives candidates outside any            *)
(* transaction, and commits candidates, cursor and job in one; or it       *)
(* records its failure.  Each of the three transactions looks at the clock *)
(* before it waits for the write lock, so it compares the lease with a     *)
(* moment already past.  Runs of several operators overlap, die anywhere   *)
(* and outlive their leases.                                               *)
(*                                                                         *)
(* Time is relative: job.left is what the lease has left, and age[w] how   *)
(* old the moment is that w has sampled.                                   *)
(***************************************************************************)
EXTENDS Integers, FiniteSets

CONSTANTS
  Workers,      \* runs of the worker that may overlap
  Invalid,      \* source records that fail validation
  Limit,        \* records of a batch
  Capacity,     \* candidates the ledger may hold
  Lease,        \* how long a lease lasts
  Busy,         \* longest wait between a sample and its transaction
  MaxEvents,    \* bound: source records
  MaxFaults,    \* bound: crashes, busy databases and unavailable sources
  None

MAX_ATTEMPTS == 3

ASSUME LearningWorkerAssumption ==
  /\ Limit \in Nat \ {0} /\ Capacity \in Nat
  /\ Lease \in Nat \ {0} /\ Busy \in Nat
  /\ MaxEvents \in Nat /\ MaxFaults \in Nat
  /\ None \notin Workers

VARIABLES
  events,       \* career_events so far: 1..events
  job,          \* the open job of the stream
  cursor,       \* the committed cursor
  candidates,   \* the source records that have a candidate
  at,           \* where each run is
  batch,        \* what it goes on with
  sampled, age, \* whether it has looked at the clock, and how long ago
  faults        \* faults so far

ledger == <<job, cursor, candidates>>
clocks == <<sampled, age>>
vars == <<events, ledger, at, batch, clocks, faults>>

(* No open job: the last one has succeeded or failed for good.             *)
NoJob == [status |-> "NONE", from |-> 0, attempts |-> 0, token |-> None, left |-> 0]

Init ==
  /\ events = 0
  /\ job = NoJob /\ cursor = 0 /\ candidates = {}
  /\ at = [w \in Workers |-> "idle"]
  /\ batch = [w \in Workers |-> [from |-> 0, through |-> 0, retry |-> FALSE]]
  /\ sampled = [w \in Workers |-> FALSE] /\ age = [w \in Workers |-> 0]
  /\ faults = 0

Goto(w, step) ==
  /\ at' = [at EXCEPT ![w] = step]
  /\ sampled' = [sampled EXCEPT ![w] = FALSE] /\ age' = [age EXCEPT ![w] = 0]

(* A run that ends forgets its batch.                                      *)
End(w) ==
  /\ Goto(w, "idle")
  /\ batch' = [batch EXCEPT ![w] = [from |-> 0, through |-> 0, retry |-> FALSE]]

Fault == faults < MaxFaults /\ faults' = faults + 1

(* The career watcher appends a record.                                    *)
Append ==
  /\ events < MaxEvents
  /\ events' = events + 1
  /\ UNCHANGED <<ledger, at, batch, clocks, faults>>

(* A run starts.                                                           *)
Run(w) ==
  /\ at[w] = "idle"
  /\ Goto(w, "leasing")
  /\ UNCHANGED <<events, ledger, batch, faults>>

(* now_fn(), before the transaction.                                       *)
Sample(w) ==
  /\ at[w] \in {"leasing", "committing", "failing"} /\ ~sampled[w]
  /\ sampled' = [sampled EXCEPT ![w] = TRUE]
  /\ UNCHANGED <<events, ledger, at, batch, age, faults>>

(* Time passes; SQLite's busy timeout ends a wait that takes too long.     *)
Tick ==
  /\ \A w \in Workers : sampled[w] => age[w] < Busy
  /\ job' = IF job.status = "LEASED" /\ job.left > -Busy
            THEN [job EXCEPT !.left = @ - 1] ELSE job
  /\ age' = [w \in Workers |-> IF sampled[w] THEN age[w] + 1 ELSE age[w]]
  /\ UNCHANGED <<events, cursor, candidates, at, batch, sampled, faults>>

----------------------------------------------------------------------------
(* Mutant of MayRetry: an attempt too many.                                *)
MayRetryOnce(attempts) == attempts <= MAX_ATTEMPTS

MayRetry(attempts) == attempts < MAX_ATTEMPTS

Queued(j) == [j EXCEPT !.status = "QUEUED", !.token = None, !.left = 0]

(* Mutant of Reclaimed: a lease never runs out for the others.             *)
ReclaimedNever(a) == job

(* The job as lease_job sees it: a lease that had expired at the sample    *)
(* goes back to the queue or, after its last attempt, ends.                *)
Reclaimed(a) ==
  IF job.status = "LEASED" /\ job.left <= -a
  THEN IF MayRetry(job.attempts) THEN Queued(job) ELSE NoJob
  ELSE job

(* lease_job.  Without an open job a new one is made at the cursor; a job  *)
(* that another run holds stops the insertion at the unique index, and     *)
(* everything is rolled back.                                              *)
LeaseJob(w) == LET j == Reclaimed(age[w]) IN
  /\ at[w] = "leasing" /\ sampled[w]
  /\ IF j.status = "LEASED" \/ ~MayRetry(j.attempts)
       THEN End(w) /\ UNCHANGED ledger
       ELSE LET from == IF j.status = "NONE" THEN cursor ELSE j.from IN
            /\ job' = [status |-> "LEASED", from |-> from, attempts |-> j.attempts + 1,
                       token |-> w, left |-> Lease - age[w]]
            /\ Goto(w, "reading")
            /\ batch' = [batch EXCEPT ![w].from = from]
            /\ UNCHANGED <<cursor, candidates>>
  /\ UNCHANGED <<events, faults>>

(* Mutant of Through: the cursor moves by the limit.                       *)
ThroughLimit(from) == from + Limit

(* The id of the last record read, or the cursor when there is none.       *)
Through(from) == IF events <= from THEN from
                 ELSE IF from + Limit < events THEN from + Limit ELSE events

Fails(w, retry) == Goto(w, "failing") /\ batch' = [batch EXCEPT ![w].retry = retry]

(* read_batch and the derivation: one invalid record fails the batch.      *)
Read(w) == LET from == batch[w].from IN
  /\ at[w] = "reading"
  /\ IF Invalid \cap ((from + 1)..Through(from)) = {}
       THEN Goto(w, "committing") /\ batch' = [batch EXCEPT ![w].through = Through(from)]
       ELSE Fails(w, FALSE)
  /\ UNCHANGED <<events, ledger, faults>>

(* SourceUnavailable.                                                      *)
ReadFails(w) ==
  /\ at[w] = "reading" /\ Fault
  /\ Fails(w, TRUE)
  /\ UNCHANGED <<events, ledger>>

(* Mutant of HoldsLease: whoever holds the job, its lease has not expired. *)
HoldsLeaseAny(w) == job.status = "LEASED" /\ job.left > -age[w]

(* _require_lease.                                                         *)
HoldsLease(w) == job.status = "LEASED" /\ job.token = w /\ job.left > -age[w]

(* commit_batch: a lost lease ends the run; a conflict of the cursor and a *)
(* full ledger fail the job; else all is committed at once.                *)
CommitBatch(w) ==
  LET rows == (batch[w].from + 1)..batch[w].through
      conflict == cursor # job.from \/ batch[w].through < cursor
      paused == Cardinality(candidates \cup rows) > Capacity
  IN /\ at[w] = "committing" /\ sampled[w]
     /\ \/ ~HoldsLease(w) /\ End(w) /\ UNCHANGED ledger
        \/ HoldsLease(w) /\ (conflict \/ paused) /\ Fails(w, FALSE) /\ UNCHANGED ledger
        \/ /\ HoldsLease(w) /\ ~conflict /\ ~paused
           /\ candidates' = candidates \cup rows /\ cursor' = batch[w].through
           /\ job' = NoJob
           /\ End(w)
     /\ UNCHANGED <<events, faults>>

(* Mutant of FailJob: whatever may be retried is.                          *)
FailJobForever(w) ==
  /\ at[w] = "failing" /\ sampled[w]
  /\ job' = IF ~HoldsLease(w) THEN job ELSE IF batch[w].retry THEN Queued(job) ELSE NoJob
  /\ End(w)
  /\ UNCHANGED <<events, cursor, candidates, faults>>

(* fail_job, or the loss of the lease, which leaves the job to others.     *)
FailJob(w) ==
  /\ at[w] = "failing" /\ sampled[w]
  /\ job' = IF ~HoldsLease(w) THEN job
            ELSE IF batch[w].retry /\ MayRetry(job.attempts) THEN Queued(job) ELSE NoJob
  /\ End(w)
  /\ UNCHANGED <<events, cursor, candidates, faults>>

(* The ledger stays busy: a commit is failed as DB_BUSY, which may be      *)
(* retried, and the other two transactions end the run.                    *)
DBBusy(w) ==
  /\ sampled[w] /\ Fault
  /\ IF at[w] = "committing" THEN Fails(w, TRUE) ELSE End(w)
  /\ UNCHANGED <<events, ledger>>

Crash(w) ==
  /\ at[w] # "idle" /\ Fault
  /\ End(w)
  /\ UNCHANGED <<events, ledger>>

----------------------------------------------------------------------------
WorkerStep(w) == Run(w) \/ Sample(w) \/ LeaseJob(w) \/ Read(w) \/ CommitBatch(w) \/ FailJob(w)
WorkerFault(w) == ReadFails(w) \/ DBBusy(w) \/ Crash(w)

Next == \/ Append \/ Tick
        \/ \E w \in Workers : WorkerStep(w) \/ WorkerFault(w)

Spec == Init /\ [][Next]_vars

(* Operators run the worker again and again, a run that has not died goes  *)
(* on, and time passes.                                                    *)
Fairness == WF_vars(Tick) /\ \A w \in Workers : WF_vars(WorkerStep(w))

FairSpec == Spec /\ Fairness

----------------------------------------------------------------------------
(* Properties.                                                             *)

Steps == {"idle", "leasing", "reading", "committing", "failing"}

(* Every variable has its type, and no job is attempted a fourth time.     *)
TypeOK ==
  /\ events \in 0..MaxEvents
  /\ job \in [status : {"NONE", "QUEUED", "LEASED"}, from : Nat, attempts : 0..MAX_ATTEMPTS,
              token : Workers \cup {None}, left : Int]
  /\ job.left <= Lease
  /\ cursor \in Nat /\ candidates \subseteq Nat
  /\ at \in [Workers -> Steps]
  /\ batch \in [Workers -> [from : Nat, through : Nat, retry : BOOLEAN]]
  /\ sampled \in [Workers -> BOOLEAN] /\ age \in [Workers -> 0..Busy]
  /\ faults \in 0..MaxFaults

(* The open job always starts at the cursor, so that commit_batch never    *)
(* meets a conflict; and a queued job can always be leased, so that it     *)
(* never blocks the stream (lease_job cannot give up on one: the failure   *)
(* it records is rolled back with the exception it raises).                *)
OpenJobIsUsable ==
  job.status # "NONE" => job.from = cursor /\ (job.status = "QUEUED" => MayRetry(job.attempts))

(* While a lease lasts, nobody but the run that holds it changes its job,  *)
(* the cursor or the candidates: neither a batch read under an older lease *)
(* nor a failure that is recorded late.                                    *)
LeaseIsRespected ==
  [][\A w \in Workers :
       job.status = "LEASED" /\ job.token = w /\ job.left > 0 =>
         \/ UNCHANGED <<cursor, candidates>> /\ job' = [job EXCEPT !.left = job'.left]
         \/ at[w] \in {"committing", "failing"} /\ at'[w] = "idle"]_vars

Log == INSTANCE ConsolidationLog

(* Whatever overlaps, expires, fails or crashes, the candidates are the    *)
(* source records up to the cursor, each once, and no record is passed     *)
(* over, not even one that is written while a batch is being read.         *)
ImplementsLog == Log!Spec

(* A run outlives its lease.                                               *)
Overrun == \E w \in Workers :
  at[w] \in {"committing", "failing"} /\ sampled[w] /\ ~HoldsLease(w) /\ at'[w] = "idle"

(* The batches that record n can be part of are valid, and fit.            *)
InReach(n) == n + Limit - 1 <= Capacity /\ Invalid \cap (1..(n + Limit - 1)) = {}

(* A record is consolidated at last, whatever failed before, unless runs   *)
(* go on outliving their leases: no crash, expiry or exhausted job keeps   *)
(* the stream closed.                                                      *)
Consolidated ==
  []<><<Overrun>>_vars \/
  \A n \in 1..MaxEvents : InReach(n) => (events >= n ~> n \in candidates)

=============================================================================
