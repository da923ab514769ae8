----------------------------- MODULE WitnessLog -----------------------------
(***************************************************************************)
(* What the recovery witness promises its readers: one append-only log of  *)
(* witnesses from the pinned genesis, in which every transition of the     *)
(* registry head or of the recovery epoch is backed by an authorization    *)
(* the owner issued, that binds exactly this transition and that no other  *)
(* entry consumes.  What is returned or read is always a prefix of it.     *)
(* Files, fsyncs, crashes and recovery are all below this specification.   *)
(***************************************************************************)
EXTENDS WitnessV2

VARIABLES
  log,          \* the committed lineage
  register,     \* the authorizations the owner issued
  accepted,     \* the last witness a reader accepted
  acked         \* the last witness an operation returned

vars == <<log, register, accepted, acked>>

Init ==
  /\ log = <<>>
  /\ register = [id \in AuthIds |-> NoAuth]
  /\ accepted = <<>> /\ acked = <<>>

(* The entry `e` may be appended.                                          *)
Lawful(e) ==
  IF log = <<>> THEN e = GenesisEntry
  ELSE /\ EntrySucceeds(Newest(log), e)
       /\ e.auth # NoAuth => /\ e.auth \notin Consumed(log)
                             /\ register[e.auth] # NoAuth
                             /\ Binds(register[e.auth], log, e)

Commit ==
  /\ log' # <<>>
  /\ log' = Append(log, Newest(log'))
  /\ Lawful(Newest(log'))
  /\ UNCHANGED <<register, accepted, acked>>

Prefixes == {SubSeq(log, 1, n) : n \in 1..Len(log)}

Issue ==
  /\ accepted # <<>>
  /\ \E id \in AuthIds, kind \in {HEAD, EPOCH}, digest \in Digests :
       /\ register[id] = NoAuth
       /\ register' = [register EXCEPT ![id] = AuthorizationFor(kind, accepted, digest)]
  /\ UNCHANGED <<log, accepted, acked>>

Read  == accepted' \in Prefixes /\ UNCHANGED <<log, register, acked>>
Reply == acked' \in Prefixes /\ UNCHANGED <<log, register, accepted>>

Next == Commit \/ Issue \/ Read \/ Reply

Spec == Init /\ [][Next]_vars

(* The same log, watched from the bootstrap on.                            *)
SpecFromGenesis ==
  /\ log = Genesis /\ accepted = Genesis
  /\ register = [id \in AuthIds |-> NoAuth]
  /\ [][Next]_vars

=============================================================================
