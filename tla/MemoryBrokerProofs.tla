------------------------ MODULE MemoryBrokerProofs ------------------------
(***************************************************************************)
(* Proofs about MemoryBroker, for every number of challenges, connections  *)
(* and recoveries, and for any number of faults.                           *)
(***************************************************************************)
EXTENDS MemoryBroker, TLAPS

(* The write lock is the verifier's, from its first look at the challenge  *)
(* to its decision.                                                        *)
Locking == \A w \in Workers : lock = w <=> at[w] = "consume"

(* A call past its proof is the only one of its challenge.                 *)
Alone ==
  \A v, w \in Workers :
    /\ at[v] \in BeforeClaim \cup AfterClaim /\ at[w] \in BeforeClaim \cup AfterClaim
    /\ on[v] = on[w]
    => v = w

(* What a connection knows of its challenge at each step of its call.      *)
WorkerKnows(w) ==
  /\ at[w] # "idle" => on[w] \in Challenges
  /\ at[w] \notin {"idle", "save"} => on[w] \in request
  /\ at[w] = "save" => challenge[on[w]] # "UNKNOWN"
  /\ at[w] = "consume" => challenge[on[w]] = "PREPARED"
  /\ at[w] \in BeforeClaim =>
       challenge[on[w]] = "CONSUMED" /\ claim[on[w]] = "NONE" /\ issued[on[w]] = 0
  /\ at[w] \in AfterClaim => claim[on[w]] # "NONE"
  /\ at[w] = "issue" => issued[on[w]] = 0
  /\ at[w] \in {"link", "reply"} => issued[on[w]] = 1
  /\ at[w] = "reply" => claim[on[w]] = "SYNTHETIC_EVIDENCE_COMMITTED"

OperatorKnows(o) ==
  /\ at[o] # "idle" => on[o] \in Challenges
  /\ at[o] \in {"find", "abandon", "link"} => claim[on[o]] # "NONE"
  /\ at[o] = "link" => issued[on[o]] = 1

Rows == \A c \in Challenges :
  /\ issued[c] \in {0, 1}
  /\ c \in evidence => issued[c] = 1
  /\ c \in request => challenge[c] # "UNKNOWN"

IInv ==
  /\ TypeOK
  /\ Locking
  /\ Alone
  /\ \A w \in Workers : WorkerKnows(w)
  /\ \A o \in Operators : OperatorKnows(o)
  /\ Rows
  /\ RowsAgree

-----------------------------------------------------------------------------
LEMMA Initially == Init => IInv
<1> SUFFICES ASSUME Init PROVE IInv
  OBVIOUS
<1>1. TypeOK
  <2>1. challenge \in [Challenges -> ChallengeStates] /\ claim \in [Challenges -> ClaimStates]
    BY DEF Init, ChallengeStates, ClaimStates
  <2>2. /\ at \in [Procs -> WorkerSteps \cup RecoverSteps]
        /\ \A w \in Workers : at[w] \in WorkerSteps
        /\ \A o \in Operators : at[o] \in RecoverSteps
    BY DEF Init, WorkerSteps, RecoverSteps, Procs
  <2>3. signCount \in 0..MaxCount /\ faults \in 0..MaxFaults
    BY MemoryBrokerAssumption DEF Init
  <2>4. issued \in [Challenges -> Nat]
    BY DEF Init
  <2>5. /\ on \in [Procs -> Challenges \cup {None}]
        /\ saw \in [Operators -> ClaimStates]
    BY DEF Init, ClaimStates
  <2> QED
    BY <2>1, <2>2, <2>3, <2>4, <2>5 DEF Init, TypeOK
<1>2. Locking /\ Alone /\ Rows /\ RowsAgree
  BY MemoryBrokerAssumption
     DEF Init, Locking, Alone, Rows, RowsAgree, Procs, BeforeClaim, AfterClaim
<1>3. \A w \in Workers : WorkerKnows(w)
  BY DEF Init, WorkerKnows, Procs, BeforeClaim, AfterClaim
<1>4. \A o \in Operators : OperatorKnows(o)
  BY DEF Init, OperatorKnows, Procs
<1> QED
  BY <1>1, <1>2, <1>3, <1>4 DEF IInv

LEMMA PrepareKeeps == ASSUME IInv, NEW w \in Workers, Prepare(w) PROVE IInv'
BY MemoryBrokerAssumption
   DEF IInv, TypeOK, Locking, Alone, WorkerKnows, OperatorKnows, Rows, RowsAgree, Procs,
       ChallengeStates, ClaimStates, BeforeClaim, AfterClaim, WorkerSteps, RecoverSteps,
       Prepare, Runs, Writable, Start, past

LEMMA SaveRequestKeeps == ASSUME IInv, NEW w \in Workers, SaveRequest(w) PROVE IInv'
BY MemoryBrokerAssumption
   DEF IInv, TypeOK, Locking, Alone, WorkerKnows, OperatorKnows, Rows, RowsAgree, Procs,
       ChallengeStates, ClaimStates, BeforeClaim, AfterClaim, WorkerSteps, RecoverSteps,
       SaveRequest, Runs, Writable, Start, End, past

LEMMA CancelKeeps == ASSUME IInv, NEW w \in Workers, Cancel(w) PROVE IInv'
BY MemoryBrokerAssumption
   DEF IInv, TypeOK, Locking, Alone, WorkerKnows, OperatorKnows, Rows, RowsAgree, Procs,
       ChallengeStates, ClaimStates, BeforeClaim, AfterClaim, WorkerSteps, RecoverSteps,
       Cancel, Runs, Writable, past, calls

LEMMA ConfirmKeeps == ASSUME IInv, NEW w \in Workers, Confirm(w) PROVE IInv'
BY MemoryBrokerAssumption
   DEF IInv, TypeOK, Locking, Alone, WorkerKnows, OperatorKnows, Rows, RowsAgree, Procs,
       ChallengeStates, ClaimStates, BeforeClaim, AfterClaim, WorkerSteps, RecoverSteps,
       Confirm, Runs, Start, past, stores

LEMMA VerifyKeeps == ASSUME IInv, NEW w \in Workers, Verify(w) PROVE IInv'
BY MemoryBrokerAssumption
   DEF IInv, TypeOK, Locking, Alone, WorkerKnows, OperatorKnows, Rows, RowsAgree, Procs,
       ChallengeStates, ClaimStates, BeforeClaim, AfterClaim, WorkerSteps, RecoverSteps,
       Verify, Runs, Writable, Start, End, Goto, Expire, past

LEMMA ConsumeKeeps == ASSUME IInv, NEW w \in Workers, Consume(w) PROVE IInv'
BY MemoryBrokerAssumption
   DEF IInv, TypeOK, Locking, Alone, WorkerKnows, OperatorKnows, Rows, RowsAgree, Procs,
       ChallengeStates, ClaimStates, BeforeClaim, AfterClaim, WorkerSteps, RecoverSteps,
       Consume, Runs, Start, End, Goto, Expire, past

LEMMA BarrierKeeps == ASSUME IInv, NEW w \in Workers, Barrier(w) PROVE IInv'
<1>1. stopped' \in BOOLEAN
  BY DEF Barrier
<1>2. UNCHANGED <<challenge, request, claim, evidence, signCount, saw, lock,
                  issued, confirmed, late, known, faults, on>>
      /\ at[w] = "barrier" /\ at' = [at EXCEPT ![w] = "claim"]
  BY DEF Barrier, Runs, Goto, past, stores
<1> QED
  BY <1>1, <1>2, MemoryBrokerAssumption
     DEF IInv, TypeOK, Locking, Alone, WorkerKnows, OperatorKnows, Rows, RowsAgree, Procs,
         ChallengeStates, ClaimStates, BeforeClaim, AfterClaim, WorkerSteps, RecoverSteps

LEMMA ClaimKeeps == ASSUME IInv, NEW w \in Workers, Claim(w) PROVE IInv'
BY MemoryBrokerAssumption
   DEF IInv, TypeOK, Locking, Alone, WorkerKnows, OperatorKnows, Rows, RowsAgree, Procs,
       ChallengeStates, ClaimStates, BeforeClaim, AfterClaim, WorkerSteps, RecoverSteps,
       Claim, Runs, Writable, Start, End, Goto, past

LEMMA IssueKeeps == ASSUME IInv, NEW w \in Workers, Issue(w) PROVE IInv'
BY MemoryBrokerAssumption
   DEF IInv, TypeOK, Locking, Alone, WorkerKnows, OperatorKnows, Rows, RowsAgree, Procs,
       ChallengeStates, ClaimStates, BeforeClaim, AfterClaim, WorkerSteps, RecoverSteps,
       Issue, Runs, Start, End, Goto

LEMMA LinkKeeps == ASSUME IInv, NEW w \in Workers, Link(w) PROVE IInv'
BY MemoryBrokerAssumption
   DEF IInv, TypeOK, Locking, Alone, WorkerKnows, OperatorKnows, Rows, RowsAgree, Procs,
       ChallengeStates, ClaimStates, BeforeClaim, AfterClaim, WorkerSteps, RecoverSteps,
       Link, Runs, Writable, Goto, Linked, past

LEMMA ReplyKeeps == ASSUME IInv, NEW w \in Workers, Reply(w) PROVE IInv'
BY MemoryBrokerAssumption
   DEF IInv, TypeOK, Locking, Alone, WorkerKnows, OperatorKnows, Rows, RowsAgree, Procs,
       ChallengeStates, ClaimStates, BeforeClaim, AfterClaim, WorkerSteps, RecoverSteps,
       Reply, Runs, Start, End, stores

LEMMA ReadStateKeeps == ASSUME IInv, NEW o \in Operators, ReadState(o) PROVE IInv'
BY MemoryBrokerAssumption
   DEF IInv, TypeOK, Locking, Alone, WorkerKnows, OperatorKnows, Rows, RowsAgree, Procs,
       ChallengeStates, ClaimStates, BeforeClaim, AfterClaim, WorkerSteps, RecoverSteps,
       ReadState, Runs, Start, End, stores, past

LEMMA FindKeeps == ASSUME IInv, NEW o \in Operators, Find(o) PROVE IInv'
BY MemoryBrokerAssumption
   DEF IInv, TypeOK, Locking, Alone, WorkerKnows, OperatorKnows, Rows, RowsAgree, Procs,
       ChallengeStates, ClaimStates, BeforeClaim, AfterClaim, WorkerSteps, RecoverSteps,
       Find, Runs, Start, End, Goto, stores, past

LEMMA AbandonKeeps == ASSUME IInv, NEW o \in Operators, Abandon(o) PROVE IInv'
BY MemoryBrokerAssumption
   DEF IInv, TypeOK, Locking, Alone, WorkerKnows, OperatorKnows, Rows, RowsAgree, Procs,
       ChallengeStates, ClaimStates, BeforeClaim, AfterClaim, WorkerSteps, RecoverSteps,
       Abandon, Runs, Writable, Start, End, past

LEMMA ReconcileKeeps == ASSUME IInv, NEW o \in Operators, Reconcile(o) PROVE IInv'
BY MemoryBrokerAssumption
   DEF IInv, TypeOK, Locking, Alone, WorkerKnows, OperatorKnows, Rows, RowsAgree, Procs,
       ChallengeStates, ClaimStates, BeforeClaim, AfterClaim, WorkerSteps, RecoverSteps,
       Reconcile, Runs, Writable, Start, End, Linked, past

LEMMA ReadClaimKeeps == ASSUME IInv, NEW o \in Operators, NEW c \in Challenges, ReadClaim(o, c) PROVE IInv'
BY MemoryBrokerAssumption
   DEF IInv, TypeOK, Locking, Alone, WorkerKnows, OperatorKnows, Rows, RowsAgree, Procs,
       ChallengeStates, ClaimStates, BeforeClaim, AfterClaim, WorkerSteps, RecoverSteps,
       ReadClaim, Runs, Start, stores, past

LEMMA TickKeeps == ASSUME IInv, NEW c \in Challenges, Tick(c) PROVE IInv'
BY MemoryBrokerAssumption
   DEF IInv, TypeOK, Locking, Alone, WorkerKnows, OperatorKnows, Rows, RowsAgree, Procs,
       ChallengeStates, ClaimStates, BeforeClaim, AfterClaim, WorkerSteps, RecoverSteps,
       Tick, stores, calls, past

LEMMA DeleteKeeps == ASSUME IInv, NEW c \in Challenges, Delete(c) PROVE IInv'
BY MemoryBrokerAssumption
   DEF IInv, TypeOK, Locking, Alone, WorkerKnows, OperatorKnows, Rows, RowsAgree, Procs,
       ChallengeStates, ClaimStates, BeforeClaim, AfterClaim, WorkerSteps, RecoverSteps,
       Delete, Fault, calls, past

LEMMA FailKeeps == ASSUME IInv, NEW p \in Procs, Fail(p) PROVE IInv'
BY MemoryBrokerAssumption
   DEF IInv, TypeOK, Locking, Alone, WorkerKnows, OperatorKnows, Rows, RowsAgree, Procs,
       ChallengeStates, ClaimStates, BeforeClaim, AfterClaim, WorkerSteps, RecoverSteps,
       Fail, Fault, Start, End, stores, past

(* Nothing of a killed service is left in its calls; recoveries go on.     *)
LEMMA KillKeeps == ASSUME IInv, Kill PROVE IInv'
<1>1. /\ \A w \in Workers : at'[w] = "idle" /\ on'[w] = None
      /\ \A o \in Operators : at'[o] = at[o] /\ on'[o] = on[o]
      /\ lock' = None
      /\ UNCHANGED <<challenge, request, claim, evidence, signCount, saw, issued, confirmed,
                     late, known>>
  BY MemoryBrokerAssumption DEF Kill, Procs, stores, past, IInv, TypeOK
<1>2. TypeOK'
  <2>1. at' \in [Procs -> WorkerSteps \cup RecoverSteps] /\ on' \in [Procs -> Challenges \cup {None}]
    BY DEF Kill, IInv, TypeOK, WorkerSteps, Procs
  <2>2. stopped' \in BOOLEAN
    BY DEF Kill
  <2>3. faults' \in 0..MaxFaults
    <3>1. faults' = faults \/ (faults < MaxFaults /\ faults' = faults + 1)
      BY DEF Kill, Fault
    <3> QED
      BY <3>1, MemoryBrokerAssumption DEF IInv, TypeOK
  <2> QED
    BY <1>1, <2>1, <2>2, <2>3 DEF IInv, TypeOK, WorkerSteps
<1>3. Locking' /\ Alone'
  BY <1>1, MemoryBrokerAssumption DEF Locking, Alone, BeforeClaim, AfterClaim, Procs
<1>4. \A w \in Workers : WorkerKnows(w)'
  BY <1>1 DEF WorkerKnows, BeforeClaim, AfterClaim
<1>5. (\A o \in Operators : OperatorKnows(o)') /\ Rows' /\ RowsAgree'
  BY <1>1 DEF IInv, OperatorKnows, Rows, RowsAgree
<1> QED
  BY <1>2, <1>3, <1>4, <1>5 DEF IInv

LEMMA StutterKeeps == ASSUME IInv, UNCHANGED vars PROVE IInv'
BY DEF IInv, TypeOK, Locking, Alone, WorkerKnows, OperatorKnows, Rows, RowsAgree,
       vars, stores, calls, past

LEMMA StepKeeps == ASSUME IInv, [Next]_vars PROVE IInv'
BY PrepareKeeps, SaveRequestKeeps, CancelKeeps, ConfirmKeeps, VerifyKeeps, ConsumeKeeps,
   BarrierKeeps, ClaimKeeps, IssueKeeps, LinkKeeps, ReplyKeeps, ReadStateKeeps, FindKeeps,
   AbandonKeeps, ReconcileKeeps, ReadClaimKeeps, TickKeeps, DeleteKeeps, FailKeeps, KillKeeps,
   StutterKeeps
   DEF Next, WorkerStep, RecoverStep

LEMMA Inductive == Spec => []IInv
BY Initially, StepKeeps, PTL DEF Spec

-----------------------------------------------------------------------------
(* Every variable has its type in every reachable state.                   *)
THEOREM TypeCorrect == Spec => []TypeOK
<1>1. IInv => TypeOK
  BY DEF IInv
<1> QED
  BY <1>1, Inductive, PTL

(* The rows of the two databases agree at every crash point, and one proof *)
(* yields evidence at most once.                                           *)
THEOREM RowsAlwaysAgree == Spec => []RowsAgree
<1>1. IInv => RowsAgree
  BY DEF IInv
<1> QED
  BY <1>1, Inductive, PTL

(* A proof is spent only before its challenge expires: the decisive sample *)
(* is taken under the write lock.                                          *)
THEOREM ProofsAreInTime == Spec => NoLateProof
<1>1. ASSUME IInv, [Next]_vars
      PROVE  [\A c \in Challenges :
                challenge[c] # "CONSUMED" /\ challenge'[c] = "CONSUMED" => c \notin late]_vars
  <2> SUFFICES ASSUME NEW c \in Challenges, challenge[c] # "CONSUMED", challenge'[c] = "CONSUMED"
               PROVE  c \notin late
    OBVIOUS
  <2>1. challenge' # challenge
    OBVIOUS
  <2>2. ASSUME NEW w \in Workers, Prepare(w) PROVE FALSE
    BY <1>1, <2>2 DEF IInv, TypeOK, Prepare
  <2>3. ASSUME NEW w \in Workers, Cancel(w) PROVE FALSE
    BY <1>1, <2>3 DEF IInv, TypeOK, Cancel
  <2>4. ASSUME NEW w \in Workers, Verify(w) PROVE FALSE
    BY <1>1, <2>4 DEF IInv, TypeOK, Verify, Expire
  <2>5. ASSUME NEW w \in Workers, Consume(w) PROVE c \notin late
    BY <1>1, <2>5 DEF IInv, TypeOK, Consume, Expire
  <2>6. \E w \in Workers : Prepare(w) \/ Cancel(w) \/ Verify(w) \/ Consume(w)
    BY <1>1, <2>1
       DEF Next, WorkerStep, RecoverStep, SaveRequest, Confirm, Barrier, Claim, Issue, Link, Reply,
           ReadState, Find, Abandon, Reconcile, ReadClaim, Tick, Delete, Fail, Kill, stores, vars
  <2> QED
    BY <2>2, <2>3, <2>4, <2>5, <2>6
<1> QED
  BY <1>1, Inductive, PTL DEF Spec, NoLateProof

(* A proof whose call ended without evidence never yields any, and no later *)
(* recovery reports its claim committed.                                    *)
THEOREM BurnedForGood == Spec => BurnedStaysBurned
<1>1. ASSUME IInv, [Next]_vars
      PROVE  [\A c \in Challenges :
                challenge[c] = "CONSUMED" /\ issued[c] = 0 /\ ~InFlight(c)
                  => issued'[c] = 0 /\ claim'[c] \in {claim[c], "ABANDONED"}]_vars
  <2> SUFFICES ASSUME NEW c \in Challenges, challenge[c] = "CONSUMED", issued[c] = 0, ~InFlight(c)
               PROVE  issued'[c] = 0 /\ claim'[c] \in {claim[c], "ABANDONED"}
    OBVIOUS
  <2>1. ASSUME NEW w \in Workers, Claim(w) PROVE claim'[c] = claim[c] /\ issued' = issued
    BY <1>1, <2>1 DEF IInv, TypeOK, Claim, Runs, InFlight, BeforeClaim, past
  <2>2. ASSUME NEW w \in Workers, Issue(w) PROVE claim' = claim /\ issued'[c] = issued[c]
    BY <1>1, <2>2 DEF IInv, TypeOK, Issue, Runs, InFlight, AfterClaim
  <2>3. ASSUME NEW w \in Workers, Link(w) PROVE claim'[c] = claim[c] /\ issued' = issued
    BY <1>1, <2>3 DEF IInv, TypeOK, Link, Linked, Runs, InFlight, AfterClaim, past
  <2>4. ASSUME NEW o \in Operators, Abandon(o)
        PROVE  claim'[c] \in {claim[c], "ABANDONED"} /\ issued' = issued
    BY <1>1, <2>4 DEF IInv, TypeOK, Abandon, past
  <2>5. ASSUME NEW o \in Operators, Reconcile(o) PROVE claim'[c] = claim[c] /\ issued' = issued
    BY <1>1, <2>5 DEF IInv, TypeOK, OperatorKnows, Reconcile, Linked, Runs, past
  <2>6. CASE UNCHANGED <<claim, issued>>
    BY <2>6
  <2>7. \/ \E w \in Workers : Claim(w) \/ Issue(w) \/ Link(w)
        \/ \E o \in Operators : Abandon(o) \/ Reconcile(o)
        \/ UNCHANGED <<claim, issued>>
    BY <1>1
       DEF Next, WorkerStep, RecoverStep, Prepare, Cancel, Verify, Consume, SaveRequest, Confirm,
           Barrier, Reply, ReadState, Find, ReadClaim, Tick, Delete, Fail, Kill, stores, past, vars
  <2> QED
    BY <2>1, <2>2, <2>3, <2>4, <2>5, <2>6, <2>7
<1> QED
  BY <1>1, Inductive, PTL DEF Spec, BurnedStaysBurned

-----------------------------------------------------------------------------
(* The refinement: what each step is to the one-shot proof.                *)

LEMMA PhaseOf ==
  ASSUME IInv, NEW c \in Challenges
  PROVE  /\ Phase(c) = "none" <=> challenge[c] = "UNKNOWN"
         /\ Phase(c) = "open" <=> challenge[c] = "PREPARED"
         /\ Phase(c) = "spent" <=> challenge[c] = "CONSUMED" /\ issued[c] = 0
         /\ Phase(c) = "evidenced" <=> challenge[c] = "CONSUMED" /\ issued[c] = 1
BY DEF IInv, TypeOK, Rows, Phase, ChallengeStates

(* A step that changes one challenge from one phase to another is a Move.  *)
LEMMA MoveOf ==
  ASSUME NEW c \in Challenges, NEW from, NEW to,
         Phase(c) = from, Phase(c)' = to,
         \A d \in Challenges \ {c} : challenge'[d] = challenge[d] /\ issued'[d] = issued[d],
         confirmed' = confirmed
  PROVE  Promise!Move(c, from, to)
<1>1. \A d \in Challenges \ {c} : Phase(d)' = Phase(d)
  BY DEF Phase
<1> QED
  BY <1>1 DEF Promise!Move

LEMMA StepRefines ==
  ASSUME IInv, [Next]_vars
  PROVE  [Promise!Next]_(Promise!vars)
<1> USE DEF IInv, TypeOK
<1>0. IInv'
  BY StepKeeps
<1>1. ASSUME NEW w \in Workers, Prepare(w) PROVE Promise!Next
  <2>1. PICK c \in Challenges : challenge[c] = "UNKNOWN" /\ challenge' = [challenge EXCEPT ![c] = "PREPARED"]
    BY <1>1 DEF Prepare
  <2>2. UNCHANGED <<issued, confirmed>>
    BY <1>1 DEF Prepare, past
  <2>3. Phase(c) = "none" /\ Phase(c)' = "open"
    BY <1>0, <2>1, PhaseOf DEF Phase
  <2> QED
    BY <2>1, <2>2, <2>3, MoveOf DEF Promise!Next
<1>2. ASSUME NEW w \in Workers, Cancel(w) PROVE Promise!Next
  <2>1. PICK c \in Challenges : challenge[c] = "PREPARED" /\ challenge' = [challenge EXCEPT ![c] = "CANCELLED"]
    BY <1>2 DEF Cancel
  <2>2. UNCHANGED <<issued, confirmed>>
    BY <1>2 DEF Cancel, past
  <2>3. Phase(c) = "open" /\ Phase(c)' = "closed"
    BY <2>1 DEF Phase
  <2> QED
    BY <2>1, <2>2, <2>3, MoveOf DEF Promise!Next
<1>3. ASSUME NEW w \in Workers, Verify(w) \/ Consume(w), challenge' # challenge PROVE Promise!Next
  <2>1. UNCHANGED <<issued, confirmed>>
    BY <1>3 DEF Verify, Consume, past
  <2>2. PICK c \in Challenges : c = on[w] /\ challenge[c] = "PREPARED"
    BY <1>3 DEF WorkerKnows, Verify, Consume, Runs
  <2>3. challenge' = [challenge EXCEPT ![c] = "EXPIRED"] \/ challenge' = [challenge EXCEPT ![c] = "CONSUMED"]
    BY <1>3, <2>2 DEF Verify, Consume, Expire
  <2>4. issued[c] = 0
    BY <2>2 DEF Rows, RowsAgree
  <2>5. Phase(c) = "open" /\ Phase(c)' \in {"closed", "spent"}
    BY <2>1, <2>2, <2>3, <2>4 DEF Phase
  <2> QED
    BY <2>1, <2>2, <2>3, <2>5, MoveOf DEF Promise!Next
<1>4. ASSUME NEW w \in Workers, Issue(w), issued' # issued PROVE Promise!Next
  <2>1. PICK c \in Challenges : c = on[w] /\ challenge[c] = "CONSUMED" /\ issued[c] = 0
    BY <1>4 DEF WorkerKnows, RowsAgree, Issue, Runs, AfterClaim
  <2>2. issued' = [issued EXCEPT ![c] = 1] /\ UNCHANGED <<challenge, confirmed>>
    BY <1>4, <2>1 DEF Issue
  <2>3. Phase(c) = "spent" /\ Phase(c)' = "evidenced"
    BY <2>1, <2>2 DEF Phase
  <2> QED
    BY <2>1, <2>2, <2>3, MoveOf DEF Promise!Next
<1>5. ASSUME NEW w \in Workers, Reply(w), confirmed' # confirmed PROVE Promise!Next
  <2>1. on[w] \in Challenges /\ issued[on[w]] = 1 /\ challenge[on[w]] = "CONSUMED"
    BY <1>5 DEF WorkerKnows, RowsAgree, Reply, Runs, AfterClaim
  <2>2. Phase(on[w]) = "evidenced"
    BY <2>1, PhaseOf
  <2>3. /\ confirmed' = confirmed \cup {on[w]}
        /\ \A c \in Challenges : Phase(c)' = Phase(c)
    BY <1>5 DEF Reply, stores, Phase
  <2> QED
    BY <2>1, <2>2, <2>3 DEF Promise!Next, Promise!Confirm
<1>6. ASSUME UNCHANGED <<challenge, issued, confirmed>> PROVE UNCHANGED Promise!vars
  BY <1>6 DEF Promise!vars, Phase
<1>7. \/ UNCHANGED <<challenge, issued, confirmed>>
      \/ \E w \in Workers :
           \/ Prepare(w) \/ Cancel(w)
           \/ (Verify(w) \/ Consume(w)) /\ challenge' # challenge
           \/ Issue(w) /\ issued' # issued
           \/ Reply(w) /\ confirmed' # confirmed
  BY DEF Next, WorkerStep, RecoverStep, Verify, Consume, SaveRequest, Confirm, Barrier, Claim, Issue,
         Link, Reply, ReadState, Find, Abandon, Reconcile, ReadClaim, Tick, Delete, Fail, Kill,
         stores, past, vars
<1> QED
  BY <1>1, <1>2, <1>3, <1>4, <1>5, <1>6, <1>7

(* The broker's two databases, its crashes and its recovery implement the  *)
(* atomic one-shot proof.                                                  *)
THEOREM BrokerImplementsPromise == Spec => ImplementsPromise
<1>1. Init => Promise!Init
  BY DEF Init, Promise!Init, Phase
<1>2. IInv /\ [Next]_vars => [Promise!Next]_(Promise!vars)
  BY StepRefines
<1> QED
  BY <1>1, <1>2, Inductive, PTL DEF Spec, ImplementsPromise, Promise!Spec

=============================================================================
