------------------------------ MODULE WitnessV2 ------------------------------
(***************************************************************************)
(* RecoveryWitnessV2 documents and the rules that relate two of them.      *)
(*                                                                         *)
(* A witness names its predecessor by digest, so a document stands for its *)
(* whole lineage: here a document IS that lineage, the sequence of entries *)
(* from the genesis to itself.  Its version is the length, its predecessor *)
(* is the sequence without its last entry, and two documents are equal     *)
(* exactly when their digests would be.  Signatures, timestamps and the    *)
(* registry bytes are abstracted: a signature always verifies for what the *)
(* witness wrote, and a check on data that is not modelled may refuse any  *)
(* operation (see WitnessStore).                                           *)
(***************************************************************************)
EXTENDS Naturals, Sequences

CONSTANTS
  AuthIds,          \* authorization identifiers the owner (K-ROOT) may issue
  Digests,          \* which of the competing registries of one version a digest names
  GenesisDigest,    \* the one the genesis witness binds
  NoAuth            \* "consumedAuthorizationId": null; also "not issued"

ASSUME WitnessV2Assumption ==
  /\ NoAuth \notin AuthIds
  /\ GenesisDigest \in Digests

(* A registry head.  The registry digest covers the version, so the pair   *)
(* (ver, dig) stands for it: heads of different versions never share one.  *)
Heads == [ver: Nat, dig: Digests]

(* What one witness adds to its predecessor: the authorization it consumed *)
(* (none for the genesis and for a ledger advance), the recovery epoch, the*)
(* registry head and the ledger position it binds.                         *)
Entries == [auth: AuthIds \cup {NoAuth}, epoch: Nat, head: Heads, pos: Nat]

Docs == Seq(Entries) \ {<<>>}

Newest(d) == d[Len(d)]

GenesisEntry ==
  [auth |-> NoAuth, epoch |-> 1, head |-> [ver |-> 1, dig |-> GenesisDigest], pos |-> 1]

(* The document whose digest the owner pinned before the bootstrap.        *)
Genesis == <<GenesisEntry>>

-----------------------------------------------------------------------------
(***************************************************************************)
(* Succession.                                                             *)
(***************************************************************************)

(* The entry `f` may follow the entry `e`.                                 *)
EntrySucceeds(e, f) ==
  LET advanced    == f.epoch # e.epoch
      headChanged == f.head.ver = e.head.ver + 1
  IN  /\ f.epoch \in {e.epoch, e.epoch + 1}
      /\ f.head = e.head \/ headChanged
      /\ advanced => headChanged
      /\ (f.auth # NoAuth) <=> headChanged
      /\ IF advanced THEN f.pos # e.pos ELSE f.pos >= e.pos

(* The document `d` is a monotonic successor of the document `p`.          *)
Succeeds(p, d) ==
  /\ d = Append(p, Newest(d))
  /\ EntrySucceeds(Newest(p), Newest(d))

(* The authorizations the lineage of `d` has consumed.                     *)
Consumed(d) == {d[i].auth : i \in DOMAIN d} \ {NoAuth}

(* No authorization is consumed twice along the lineage of `d`.            *)
SingleUse(d) ==
  \A i, j \in DOMAIN d : d[i].auth = d[j].auth /\ d[i].auth # NoAuth => i = j

-----------------------------------------------------------------------------
(***************************************************************************)
(* Authorizations.  A head advance binds the registry head and the epoch   *)
(* it starts from; an epoch advance binds the exact prior witness.  The    *)
(* witness field of a head advance is not read.                            *)
(***************************************************************************)

HEAD  == "REGISTRY_HEAD_ADVANCE"
EPOCH == "EPOCH_ADVANCE"

Authorizations ==
  [kind: {HEAD, EPOCH}, prior: Heads, target: Heads, epoch: Nat, witness: Docs]

(* The authorization the owner signs after reading the witness `d`.        *)
AuthorizationFor(kind, d, digest) ==
  [kind |-> kind, prior |-> Newest(d).head, epoch |-> Newest(d).epoch, witness |-> d,
   target |-> [ver |-> Newest(d).head.ver + 1, dig |-> digest]]

(* The authorization `a` binds both sides of the step from `p` to an entry *)
(* `f`: what the history check re-verifies for every transition.           *)
Binds(a, p, f) ==
  /\ f.head = a.target
  /\ IF a.kind = EPOCH
       THEN a.witness = p /\ f.epoch = Newest(p).epoch + 1
       ELSE a.prior = Newest(p).head /\ a.epoch = f.epoch /\ f.epoch = Newest(p).epoch

-----------------------------------------------------------------------------
(***************************************************************************)
(* The planners: the entry a successor of `d` would add, as a set that is  *)
(* empty when the planner refuses.                                         *)
(***************************************************************************)

PlanLedgerAdvance(d, position) ==
  IF position > Newest(d).pos
    THEN {[Newest(d) EXCEPT !.auth = NoAuth, !.pos = position]}
    ELSE {}

PlanRegistryHeadAdvance(d, id, a) ==
  IF /\ a.prior = Newest(d).head
     /\ a.epoch = Newest(d).epoch
     /\ a.target.ver = Newest(d).head.ver + 1
     /\ id \notin Consumed(d)
    THEN {[Newest(d) EXCEPT !.auth = id, !.head = a.target]}
    ELSE {}

(* Mutant of PlanEpochAdvance: any witness of the epoch will do.           *)
PlanEpochAdvanceUnbound(d, id, a, position) ==
  IF /\ a.epoch = Newest(d).epoch
     /\ a.target.ver = Newest(d).head.ver + 1
     /\ position # Newest(d).pos
     /\ id \notin Consumed(d)
    THEN {[auth |-> id, epoch |-> a.epoch + 1, head |-> a.target, pos |-> position]}
    ELSE {}

PlanEpochAdvance(d, id, a, position) ==
  IF /\ a.witness = d
     /\ a.epoch = Newest(d).epoch
     /\ a.target.ver = Newest(d).head.ver + 1
     /\ position # Newest(d).pos
     /\ id \notin Consumed(d)
    THEN {[auth |-> id, epoch |-> a.epoch + 1, head |-> a.target, pos |-> position]}
    ELSE {}

=============================================================================
