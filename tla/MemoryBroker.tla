---------------------------- MODULE MemoryBroker ----------------------------
(***************************************************************************)
(* The memory broker: from an owner's proof to one piece of evidence.      *)
(*                                                                         *)
(* A confirmation crosses two databases, and no transaction spans them:    *)
(* the proof is consumed, a claim is inserted, the evidence is committed   *)
(* to a store of its own, and the claim is linked to it.  Each of these is *)
(* a commit; the calls of several connections interleave between them, the *)
(* process may die or be stopped there, any statement may fail, and an     *)
(* operator's recovery, a process of its own, reads the same rows one at a *)
(* time and settles what it finds.                                         *)
(*                                                                         *)
(* One credential, whose pinned record is valid, is assumed: a digest or   *)
(* binding mismatch between rows of one challenge cannot occur here.  The  *)
(* databases are durable at commit (WAL, synchronous=FULL).                *)
(***************************************************************************)
EXTENDS Integers, FiniteSets

CONSTANTS
  Challenges,   \* challenge IDs
  Workers,      \* threads of the service (MAX_CLIENTS of them)
  Operators,    \* recovery processes
  Armed,        \* challenges for which a fault arm may be in place
  MaxCount,     \* bound: sign counter an authenticator reports
  MaxFaults,    \* bound: failed statements, kills and deletions
  None          \* no process, no challenge

Procs == Workers \cup Operators

ASSUME MemoryBrokerAssumption ==
  /\ Workers \cap Operators = {}
  /\ None \notin Procs \cup Challenges
  /\ Armed \subseteq Challenges
  /\ MaxCount \in Nat /\ MaxFaults \in Nat

VARIABLES
  challenge,    \* owner_proof_challenge_v1: the state of each challenge
  request,      \* owner_request_v1: challenges whose request is saved
  claim,        \* synthetic_claim_v1: the status of each claim, or none
  evidence,     \* synthetic_evidence_v1: challenges with evidence
  signCount,    \* the credential's last observed sign counter
  late,         \* challenges whose expiry has passed
  known,        \* challenge IDs a client has been told
  at,           \* where each process is in its call
  on,           \* the challenge of its call
  saw,          \* the claim status a recovery read
  lock,         \* the process that holds the owner database's write lock
  stopped,      \* the service has stopped itself at the A2 barrier
  faults,       \* faults so far
  issued,       \* history: evidence ever committed for a challenge
  confirmed     \* history: challenges whose owner was told of the commit

stores == <<challenge, request, claim, evidence, signCount>>
calls  == <<at, on, saw, lock>>
past   == <<issued, confirmed>>
vars   == <<stores, calls, past, late, known, stopped, faults>>

ChallengeStates == {"UNKNOWN", "PREPARED", "CANCELLED", "EXPIRED", "CONSUMED"}
ClaimStates     == {"NONE", "CLAIMED", "ABANDONED", "SYNTHETIC_EVIDENCE_COMMITTED"}

(* The steps of a call, by the commit or read it is about to do.           *)
BeforeClaim  == {"barrier", "claim"}
AfterClaim   == {"issue", "link", "reply"}
WorkerSteps  == {"idle", "save", "verify", "consume"} \cup BeforeClaim \cup AfterClaim
RecoverSteps == {"idle", "state", "find", "abandon", "link"}

Init ==
  /\ challenge = [c \in Challenges |-> "UNKNOWN"]
  /\ request = {}
  /\ claim = [c \in Challenges |-> "NONE"]
  /\ evidence = {}
  /\ signCount = 0
  /\ late = {} /\ known = {}
  /\ at = [p \in Procs |-> "idle"]
  /\ on = [p \in Procs |-> None]
  /\ saw = [o \in Operators |-> "NONE"]
  /\ lock = None
  /\ stopped = FALSE
  /\ faults = 0
  /\ issued = [c \in Challenges |-> 0]
  /\ confirmed = {}

Goto(p, step) == at' = [at EXCEPT ![p] = step] /\ UNCHANGED on
Start(p, step, c) == at' = [at EXCEPT ![p] = step] /\ on' = [on EXCEPT ![p] = c]
End(p) == Start(p, "idle", None)

(* The write lock of the owner database is free for a transaction.         *)
Writable == lock = None

Runs(p, step) == /\ at[p] = step
                 /\ p \in Workers => ~stopped

----------------------------------------------------------------------------
(* The owner's calls.                                                      *)

(* A fresh challenge is inserted as PREPARED, in a transaction of its own. *)
Prepare(w) == \E c \in Challenges :
  /\ Runs(w, "idle") /\ Writable
  /\ challenge[c] = "UNKNOWN"
  /\ challenge' = [challenge EXCEPT ![c] = "PREPARED"]
  /\ Start(w, "save", c)
  /\ UNCHANGED <<request, claim, evidence, signCount, saw, lock, past, late, known, stopped, faults>>

(* Then its request; the reply that names the challenge may be lost.       *)
SaveRequest(w) ==
  /\ Runs(w, "save") /\ Writable
  /\ End(w)
  /\ IF challenge[on[w]] = "PREPARED"
       THEN /\ request' = request \cup {on[w]}
            /\ known' \in {known, known \cup {on[w]}}
       ELSE UNCHANGED <<request, known>>
  /\ UNCHANGED <<challenge, claim, evidence, signCount, saw, lock, past, late, stopped, faults>>

(* Mutant of Cancel: WHERE state='PREPARED' is forgotten.                  *)
CancelAnyState(w) == \E c \in known :
  /\ Runs(w, "idle") /\ Writable
  /\ challenge' = [challenge EXCEPT ![c] = "CANCELLED"]
  /\ UNCHANGED <<request, claim, evidence, signCount, calls, past, late, known, stopped, faults>>

Cancel(w) == \E c \in known :
  /\ Runs(w, "idle") /\ Writable
  /\ challenge[c] = "PREPARED"
  /\ challenge' = [challenge EXCEPT ![c] = "CANCELLED"]
  /\ UNCHANGED <<request, claim, evidence, signCount, calls, past, late, known, stopped, faults>>

(* A client confirms, once or several times; the request must be saved.    *)
Confirm(w) == \E c \in known \cap request :
  /\ Runs(w, "idle")
  /\ Start(w, "verify", c)
  /\ UNCHANGED <<stores, saw, lock, past, late, known, stopped, faults>>

Expire(c) == challenge' = [challenge EXCEPT ![c] = "EXPIRED"]

(* The verifier takes the write lock and reads the challenge.              *)
Verify(w) == LET c == on[w] IN
  /\ Runs(w, "verify") /\ Writable
  /\ \/ /\ challenge[c] # "PREPARED"
        /\ End(w) /\ UNCHANGED <<challenge, lock>>
     \/ /\ challenge[c] = "PREPARED" /\ c \in late
        /\ Expire(c) /\ End(w) /\ UNCHANGED lock
     \/ /\ challenge[c] = "PREPARED" /\ c \notin late
        /\ lock' = w /\ Goto(w, "consume") /\ UNCHANGED challenge
  /\ UNCHANGED <<request, claim, evidence, signCount, saw, past, late, known, stopped, faults>>

(* Mutant of Consume: the clock is not sampled again.                      *)
ConsumeUnsampled(w) ==
  /\ Runs(w, "consume")
  /\ lock' = None
  /\ challenge' = [challenge EXCEPT ![on[w]] = "CONSUMED"]
  /\ Goto(w, "barrier")
  /\ UNCHANGED <<request, claim, evidence, signCount, saw, past, late, known, stopped, faults>>

(* Mutant of Consume: the observed counter is added to the stored one.     *)
ConsumeAdding(w) ==
  /\ Runs(w, "consume")
  /\ lock' = None
  /\ challenge' = [challenge EXCEPT ![on[w]] = "CONSUMED"]
  /\ \E observed \in 0..MaxCount : signCount' = signCount + observed + 1
  /\ Goto(w, "barrier")
  /\ UNCHANGED <<request, claim, evidence, saw, past, late, known, stopped, faults>>

(* After the cryptography it samples the clock again, and that decides.    *)
Consume(w) == LET c == on[w] IN
  /\ Runs(w, "consume")
  /\ lock' = None
  /\ \/ c \in late /\ Expire(c) /\ End(w) /\ UNCHANGED signCount
     \/ /\ c \notin late
        /\ challenge' = [challenge EXCEPT ![c] = "CONSUMED"]
        /\ \E observed \in 0..MaxCount :
             signCount' = IF observed > signCount THEN observed ELSE signCount
        /\ Goto(w, "barrier")
  /\ UNCHANGED <<request, claim, evidence, saw, past, late, known, stopped, faults>>

(* Mutant of Barrier: the evidence is committed before the claim.          *)
BarrierIssuing(w) ==
  /\ Runs(w, "barrier")
  /\ stopped' \in (IF on[w] \in Armed THEN BOOLEAN ELSE {FALSE})
  /\ Goto(w, "issue")
  /\ UNCHANGED <<stores, saw, lock, past, late, known, faults>>

(* If a matching arm is in place now, the whole process stops.             *)
Barrier(w) ==
  /\ Runs(w, "barrier")
  /\ stopped' \in (IF on[w] \in Armed THEN BOOLEAN ELSE {FALSE})
  /\ Goto(w, "claim")
  /\ UNCHANGED <<stores, saw, lock, past, late, known, faults>>

Claim(w) == LET c == on[w] IN
  /\ Runs(w, "claim") /\ Writable
  /\ IF challenge[c] = "CONSUMED" /\ claim[c] = "NONE"
       THEN claim' = [claim EXCEPT ![c] = "CLAIMED"] /\ Goto(w, "issue")
       ELSE End(w) /\ UNCHANGED claim
  /\ UNCHANGED <<challenge, request, evidence, signCount, saw, lock, past, late, known, stopped, faults>>

(* commit_once, in the evidence database: the challenge is its key.        *)
Issue(w) == LET c == on[w] IN
  /\ Runs(w, "issue")
  /\ IF c \notin evidence
       THEN /\ evidence' = evidence \cup {c}
            /\ issued' = [issued EXCEPT ![c] = @ + 1]
            /\ Goto(w, "link")
       ELSE End(w) /\ UNCHANGED <<evidence, issued>>
  /\ UNCHANGED <<challenge, request, claim, signCount, saw, lock, confirmed,
                 late, known, stopped, faults>>

(* Mutant of Linked: an abandoned claim is not linked.                     *)
LinkedOpenOnly(c) == IF claim[c] = "CLAIMED"
                       THEN [claim EXCEPT ![c] = "SYNTHETIC_EVIDENCE_COMMITTED"]
                       ELSE claim

(* link_evidence: also from ABANDONED; linking again changes nothing.      *)
Linked(c) == IF claim[c] \in {"CLAIMED", "ABANDONED"}
               THEN [claim EXCEPT ![c] = "SYNTHETIC_EVIDENCE_COMMITTED"]
               ELSE claim

Link(w) ==
  /\ Runs(w, "link") /\ Writable
  /\ claim' = Linked(on[w])
  /\ Goto(w, "reply")
  /\ UNCHANGED <<challenge, request, evidence, signCount, saw, lock, past, late, known, stopped, faults>>

Reply(w) ==
  /\ Runs(w, "reply")
  /\ End(w)
  /\ confirmed' \in {confirmed, confirmed \cup {on[w]}}
  /\ UNCHANGED <<stores, saw, lock, issued, late, known, stopped, faults>>

----------------------------------------------------------------------------
(* The operator's recovery of one challenge.                               *)

ReadClaim(o, c) ==
  /\ Runs(o, "idle")
  /\ c \in request
  /\ saw' = [saw EXCEPT ![o] = claim[c]]
  /\ Start(o, IF claim[c] = "NONE" THEN "state" ELSE "find", c)
  /\ UNCHANGED <<stores, lock, past, late, known, stopped, faults>>

ReadState(o) ==
  /\ Runs(o, "state")
  /\ End(o)
  /\ UNCHANGED <<stores, saw, lock, past, late, known, stopped, faults>>

(* Mutant of Find: absent evidence is reported and the claim left open.    *)
FindReporting(o) ==
  /\ Runs(o, "find")
  /\ \/ on[o] \in evidence /\ Goto(o, "link")
     \/ on[o] \notin evidence /\ End(o)
  /\ UNCHANGED <<stores, saw, lock, past, late, known, stopped, faults>>

Find(o) ==
  /\ Runs(o, "find")
  /\ \/ on[o] \in evidence /\ Goto(o, "link")
     \/ on[o] \notin evidence /\ saw[o] = "CLAIMED" /\ Goto(o, "abandon")
     \/ on[o] \notin evidence /\ saw[o] # "CLAIMED" /\ End(o)
  /\ UNCHANGED <<stores, saw, lock, past, late, known, stopped, faults>>

(* UPDATE ... WHERE status='CLAIMED': what it read may have moved on.      *)
Abandon(o) == LET c == on[o] IN
  /\ Runs(o, "abandon") /\ Writable
  /\ claim' = IF claim[c] = "CLAIMED" THEN [claim EXCEPT ![c] = "ABANDONED"] ELSE claim
  /\ End(o)
  /\ UNCHANGED <<challenge, request, evidence, signCount, saw, lock, past, late, known, stopped, faults>>

Reconcile(o) ==
  /\ Runs(o, "link") /\ Writable
  /\ claim' = Linked(on[o])
  /\ End(o)
  /\ UNCHANGED <<challenge, request, evidence, signCount, saw, lock, past, late, known, stopped, faults>>

----------------------------------------------------------------------------
(* Time and faults.                                                        *)

Tick(c) ==
  /\ c \notin late /\ challenge[c] # "UNKNOWN"
  /\ late' = late \cup {c}
  /\ UNCHANGED <<stores, calls, past, known, stopped, faults>>

Fault == faults < MaxFaults /\ faults' = faults + 1

(* A statement fails (a busy or broken database): its transaction is rolled *)
(* back and the call ends with what it has committed so far.               *)
Fail(p) ==
  /\ Fault
  /\ at[p] # "idle" /\ (p \in Workers => ~stopped)
  /\ End(p)
  /\ lock' = IF lock = p THEN None ELSE lock
  /\ UNCHANGED <<stores, saw, past, late, known, stopped>>

(* The service dies, a stopped one by the controller's SIGKILL, and is     *)
(* restarted with nothing in memory.                                       *)
Kill ==
  /\ IF stopped THEN UNCHANGED faults ELSE Fault
  /\ at' = [p \in Procs |-> IF p \in Workers THEN "idle" ELSE at[p]]
  /\ on' = [p \in Procs |-> IF p \in Workers THEN None ELSE on[p]]
  /\ lock' = IF lock \in Workers THEN None ELSE lock
  /\ stopped' = FALSE
  /\ UNCHANGED <<stores, saw, past, late, known>>

(* The evidence is deleted from outside the broker.                        *)
Delete(c) ==
  /\ Fault
  /\ c \in evidence
  /\ evidence' = evidence \ {c}
  /\ UNCHANGED <<challenge, request, claim, signCount, calls, past, late, known, stopped>>

----------------------------------------------------------------------------
WorkerStep(w) == \/ SaveRequest(w) \/ Verify(w) \/ Consume(w) \/ Barrier(w)
                 \/ Claim(w) \/ Issue(w) \/ Link(w) \/ Reply(w)

RecoverStep(o) == ReadState(o) \/ Find(o) \/ Abandon(o) \/ Reconcile(o)

Next ==
  \/ \E w \in Workers : Prepare(w) \/ Cancel(w) \/ Confirm(w) \/ WorkerStep(w)
  \/ \E o \in Operators : RecoverStep(o) \/ \E c \in Challenges : ReadClaim(o, c)
  \/ \E c \in Challenges : Tick(c) \/ Delete(c)
  \/ \E p \in Procs : Fail(p)
  \/ Kill

Spec == Init /\ [][Next]_vars

(* A thread runs until its call ends, the controller kills what it stopped, *)
(* and an operator runs the recovery of every challenge again and again.   *)
Fairness ==
  /\ \A w \in Workers : WF_vars(WorkerStep(w))
  /\ \A o \in Operators : WF_vars(RecoverStep(o))
  /\ WF_vars(stopped /\ Kill)
  /\ \A c \in Challenges : SF_vars(\E o \in Operators : ReadClaim(o, c))

FairSpec == Spec /\ Fairness

----------------------------------------------------------------------------
TypeOK ==
  /\ challenge \in [Challenges -> ChallengeStates]
  /\ request \subseteq Challenges /\ known \subseteq Challenges
  /\ claim \in [Challenges -> ClaimStates]
  /\ evidence \subseteq Challenges /\ late \subseteq Challenges
  /\ signCount \in 0..MaxCount
  /\ at \in [Procs -> WorkerSteps \cup RecoverSteps]
  /\ \A w \in Workers : at[w] \in WorkerSteps
  /\ \A o \in Operators : at[o] \in RecoverSteps
  /\ on \in [Procs -> Challenges \cup {None}]
  /\ saw \in [Operators -> ClaimStates]
  /\ lock \in Workers \cup {None}
  /\ stopped \in BOOLEAN
  /\ faults \in 0..MaxFaults
  /\ issued \in [Challenges -> Nat]
  /\ confirmed \subseteq Challenges

(* A worker whose call has spent the proof of c and has not ended.         *)
InFlight(c) == \E w \in Workers : on[w] = c /\ at[w] \in BeforeClaim \cup AfterClaim

(* At any crash point the rows of the two databases agree, whatever is     *)
(* retried, recovered or deleted: one proof yields evidence at most once,  *)
(* and only under a claim; a claim is taken only on a consumed proof whose *)
(* request is known, and says "committed" only if evidence was, as does    *)
(* the owner's reply.                                                      *)
RowsAgree == \A c \in Challenges :
  /\ issued[c] <= 1
  /\ issued[c] > 0 => claim[c] # "NONE"
  /\ claim[c] # "NONE" => challenge[c] = "CONSUMED" /\ c \in request
  /\ claim[c] = "SYNTHETIC_EVIDENCE_COMMITTED" => issued[c] > 0
  /\ c \in confirmed => claim[c] = "SYNTHETIC_EVIDENCE_COMMITTED"

(* verify_and_consume: a proof is spent only before its challenge expires, *)
(* however long the lock and the cryptography took.                        *)
NoLateProof == [][\A c \in Challenges :
  challenge[c] # "CONSUMED" /\ challenge'[c] = "CONSUMED" => c \notin late]_vars

(* What recovery settles stays settled: a proof that was spent, and whose  *)
(* call has ended without evidence, never yields any; its claim is never   *)
(* reported committed, by no later recovery either.                        *)
BurnedStaysBurned == [][\A c \in Challenges :
  challenge[c] = "CONSUMED" /\ issued[c] = 0 /\ ~InFlight(c)
    => issued'[c] = 0 /\ claim'[c] \in {claim[c], "ABANDONED"}]_vars

(* Evidence that is there is linked in the end, also when the call died    *)
(* before the link or a recovery abandoned the claim under it.             *)
EvidenceIsLinked == \A c \in Challenges :
  c \in evidence ~> (c \notin evidence \/ claim[c] = "SYNTHETIC_EVIDENCE_COMMITTED")

(* No claim stays open: it is linked or abandoned.                         *)
ClaimSettles == \A c \in Challenges : claim[c] = "CLAIMED" ~> claim[c] # "CLAIMED"

(* The broker implements the one-shot proof: two databases and their       *)
(* crash points look, from outside, like one atomic record.                *)
Phase(c) == CASE challenge[c] = "UNKNOWN" -> "none"
              [] challenge[c] = "PREPARED" -> "open"
              [] challenge[c] \in {"CANCELLED", "EXPIRED"} -> "closed"
              [] challenge[c] = "CONSUMED" /\ issued[c] = 0 -> "spent"
              [] OTHER -> "evidenced"

Promise == INSTANCE SingleUseProof WITH phase <- [c \in Challenges |-> Phase(c)]

ImplementsPromise == Promise!Spec

=============================================================================
