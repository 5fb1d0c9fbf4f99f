------------------------------ MODULE Failover ------------------------------
(***************************************************************************)
(* Failover of a replica set with fixed membership: the controller's       *)
(* evaluator (accepted topology, failure observation, transition intent)   *)
(* composed with the replicas it commands.                                 *)
(*                                                                         *)
(* A replica is its durable log, commit point, admitted authority,         *)
(* verified progress per authority fence and deactivation record, and its  *)
(* volatile write grant.  An operation is identified by its LSN and the    *)
(* epoch whose primary wrote it.  A configuration command runs to its end  *)
(* in one step; Coordinator's stages are not interleaved here.  What the   *)
(* primary credits a peer with is what the peer has verified under the     *)
(* primary's fence: acknowledgements and discovery reports carry nothing   *)
(* else, and a late one only delays the step that uses it.                 *)
(*                                                                         *)
(* environment says what may go wrong around the protocol:                 *)
(*   "late"    a primary the controller cannot reach keeps running;        *)
(*   "return"  a replica may come back into the controller's reach;        *)
(*   "fork"    it may come back with operations the new primary lacks;     *)
(*   "direct"  clients reach a primary while its transition is open.       *)
(***************************************************************************)
EXTENDS Configurations, Sequences, SequencesExt

CONSTANTS MaxEpoch, MaxLsn, Environments

ASSUME ReplicaIdAssumption == Identity \subseteq Nat \ {0} /\ Identity # {}

ASSUME EnvironmentAssumption == Environments \subseteq SUBSET {"late", "return", "fork", "direct"}

VARIABLES
    environment, \* one of Environments, fixed for the behaviour
    accepted,    \* epoch of the accepted topology
    transition,  \* None, or the epoch and election LSN of the open failover
    failure,     \* the primary whose failure is recorded, or None
    leader,      \* the primary of every epoch allocated so far
    granting,    \* epochs whose grant-write command has been issued
    reachable,   \* replicas with a healthy report
    log, committed, auth, verified, deact, granted,
    live,        \* LSNs a primary has sent as client writes, per fence
    acked        \* <<lsn, epoch>> of every acknowledged write

controllerVars == <<accepted, transition, failure, leader, granting>>
replicaVars == <<log, committed, auth, verified, deact, granted, live>>
vars == <<environment, controllerVars, replicaVars, reachable, acked>>

Epochs == 1..MaxEpoch
Lsns == 1..MaxLsn
Pairs == {f \in [prev : 0..MaxEpoch, cur : Epochs] : f.prev < f.cur}

Least(S) == CHOOSE r \in S : \A s \in S : r <= s
Greatest(S) == CHOOSE r \in S : \A s \in S : s <= r
Lower(m, n) == IF m < n THEN m ELSE n
Higher(m, n) == IF m < n THEN n ELSE m

Applied(r) == Len(log[r])
Config(e) == Configuration(e, leader[e], Identity)
Authority(f) ==
    [previous |-> IF f.prev = 0 THEN None ELSE Config(f.prev), current |-> Config(f.cur),
     handoff |-> None, scale_up |-> None]

ReadQuorate(S) == Cardinality(S) >= ReadQuorum(Cardinality(Identity))
WriteQuorate(S) == Cardinality(S) >= WriteQuorum(Cardinality(Identity))

Init ==
    /\ environment \in Environments
    /\ accepted = 1 /\ transition = None /\ failure = None /\ granting = {}
    /\ leader = [e \in Epochs |-> IF e = 1 THEN Least(Identity) ELSE None]
    /\ reachable = Identity
    /\ log = [r \in Identity |-> <<>>]
    /\ committed = [r \in Identity |-> 0]
    /\ auth = [r \in Identity |-> [prev |-> 0, cur |-> 1]]
    /\ verified = [f \in Pairs |-> [r \in Identity |-> 0]]
    /\ deact = [r \in Identity |-> [epoch |-> 1, lsn |-> 0]]
    /\ granted = [r \in Identity |-> r = Least(Identity)]
    /\ live = [f \in Pairs |-> {}]
    /\ acked = {}

-----------------------------------------------------------------------------
(* The primary and its secondaries.                                         *)

IsPrimary(r) == leader[auth[r].cur] = r
Running(r) == r \in reachable \/ "late" \in environment

(* Writes r journalled as primary and has not committed.                    *)
Unresolved(r) == {k \in (committed[r] + 1)..Applied(r) : leader[log[r][k]] = r}

Progress(p) == [verified[auth[p]] EXCEPT ![p] = Applied(p)]

CommitReady(p, lsn) == ClientCommitReady(Authority(auth[p]), Progress(p), lsn)

(* A client write is journalled, applied, verified and sent.  One local     *)
(* write is outstanding at a time.                                          *)
ClientWrite(p) ==
    LET f == auth[p] lsn == Applied(p) + 1 IN
    /\ granted[p] /\ IsPrimary(p) /\ Running(p) /\ Unresolved(p) = {}
    /\ f.prev # 0 => "direct" \in environment
    /\ lsn \in Lsns
    /\ log' = [log EXCEPT ![p] = Append(@, f.cur)]
    /\ verified' = [verified EXCEPT ![f][p] = IF lsn = @ + 1 THEN lsn ELSE @]
    /\ live' = [live EXCEPT ![f] = @ \cup {lsn}]
    /\ UNCHANGED <<environment, controllerVars, committed, auth, deact, granted, reachable, acked>>

(* Mutant: peers are not repaired from the history.                         *)
SentAsClientWrite(r, lsn) == lsn \in live[auth[r]]

(* An item the primary of r's authority can have sent to r: a client write  *)
(* of that authority, or the next one from its history.  Discovery repairs  *)
(* a peer from the LSN the peer has applied.                                *)
Sent(r, lsn) ==
    LET f == auth[r] p == leader[f.cur] IN
    \/ lsn \in live[f]
    \/ auth[p] = f /\ lsn = Applied(r) + 1 /\ lsn <= Applied(p)

(* Mutant: an operation that was already applied is not compared.           *)
ReceiveReplicationUnverified(r, lsn) ==
    LET f == auth[r] p == leader[f.cur] IN
    /\ p # r /\ Running(p) /\ Sent(r, lsn)
    /\ lsn <= verified[f][r] + 1 /\ lsn <= Applied(r) + 1
    /\ log' = [log EXCEPT ![r] = IF lsn <= Applied(r) THEN @ ELSE Append(@, log[p][lsn])]
    /\ verified' = [verified EXCEPT ![f][r] = IF lsn = @ + 1 THEN lsn ELSE @]
    /\ committed' = [committed EXCEPT ![r] = Higher(@, Lower(committed[p], lsn - 1))]
    /\ UNCHANGED <<environment, controllerVars, auth, deact, granted, live, reachable, acked>>

(* A secondary applies the next operation, or finds that it has applied it  *)
(* already and compares.  Either verifies it under the current fence.       *)
ReceiveReplication(r, lsn) ==
    LET f == auth[r] p == leader[f.cur] IN
    /\ p # r /\ Running(p) /\ Sent(r, lsn)
    /\ lsn <= verified[f][r] + 1 /\ lsn <= Applied(r) + 1
    /\ lsn <= Applied(r) => log[r][lsn] = log[p][lsn]
    /\ log' = [log EXCEPT ![r] = IF lsn <= Applied(r) THEN @ ELSE Append(@, log[p][lsn])]
    /\ verified' = [verified EXCEPT ![f][r] = IF lsn = @ + 1 THEN lsn ELSE @]
    /\ committed' = [committed EXCEPT ![r] = Higher(@, Lower(committed[p], lsn - 1))]
    /\ UNCHANGED <<environment, controllerVars, auth, deact, granted, live, reachable, acked>>

(* The outstanding write reaches its quorum, is committed and acknowledged. *)
FinalizeReadyCommit(p) ==
    /\ granted[p] /\ IsPrimary(p) /\ Running(p)
    /\ \E lsn \in Unresolved(p) :
        /\ CommitReady(p, lsn)
        /\ committed' = [committed EXCEPT ![p] = lsn]
        /\ acked' = acked \cup {<<lsn, log[p][lsn]>>}
    /\ UNCHANGED <<environment, controllerVars, log, auth, verified, deact, granted, live, reachable>>

-----------------------------------------------------------------------------
(* What a configuration command does at a replica.                          *)

JointFence == [prev |-> accepted, cur |-> transition.epoch]
CurrentOnly(e) == [prev |-> 0, cur |-> e]

(* The verified prefix of r under a newly admitted fence: what it verified  *)
(* under the same configuration when the PC is dropped, what it verified    *)
(* under the PC when the primary stays, and otherwise no more than both its *)
(* own log and the LSN the controller calls safe.                           *)
AuthorizedPrefix(r, f, safe) ==
    LET same == {g \in Pairs : g = f \/ (f.prev = 0 /\ g.cur = f.cur)}
        kept == {g \in Pairs : /\ f.prev # 0 /\ leader[f.prev] = leader[f.cur]
                               /\ g = CurrentOnly(f.prev)}
        carried == {verified[g][r] : g \in same \cup kept}
    IN  Greatest(carried \cup {Lower(Applied(r), safe)})

(* settle_primary_prefix commits the verified prefix of a new primary up to *)
(* its first unresolved local write.                                        *)
SettledPrefix(r, prefix) ==
    IF Unresolved(r) = {} THEN prefix ELSE Lower(prefix, Least(Unresolved(r)) - 1)

(* EnsureConfiguration at r for fence f, from admission to deactivation.    *)
EnsureConfiguration(r, f, safe) ==
    LET prefix == AuthorizedPrefix(r, f, safe) IN
    /\ \/ f.cur > auth[r].cur /\ f.prev # 0
       \/ f.cur = auth[r].cur /\ f.prev = 0 /\ auth[r].prev # 0
    /\ auth' = [auth EXCEPT ![r] = f]
    /\ verified' = [verified EXCEPT ![f][r] = prefix]
    /\ committed' = IF leader[f.cur] = r
                    THEN [committed EXCEPT ![r] = Higher(@, SettledPrefix(r, prefix))]
                    ELSE committed
    /\ deact' = [deact EXCEPT ![r] = [epoch |-> f.cur, lsn |-> Applied(r)]]
    /\ granted' = [granted EXCEPT ![r] = FALSE]
    /\ UNCHANGED <<environment, log, live, reachable, acked>>

(* A write quorum of the CC has reached the boundary: the log of the new    *)
(* primary when the joint authority was admitted.                           *)
CatchUpComplete(p) ==
    auth[p].prev # 0 => QuorumProgress(Config(auth[p].cur), Progress(p)) >= Applied(p)

(* The end of a command that grants writes.  Interrupted local writes are   *)
(* driven to their quorum first.                                            *)
GrantWrite(p) ==
    /\ IsPrimary(p) /\ Running(p) /\ ~granted[p] /\ auth[p].cur \in granting
    /\ CatchUpComplete(p)
    /\ \A lsn \in Unresolved(p) : CommitReady(p, lsn)
    /\ granted' = [granted EXCEPT ![p] = TRUE]
    /\ committed' = [committed EXCEPT ![p] = Greatest({@} \cup Unresolved(p))]
    /\ acked' = acked \cup {<<lsn, log[p][lsn]>> : lsn \in Unresolved(p)}
    /\ UNCHANGED <<environment, controllerVars, log, auth, verified, deact, live, reachable>>

-----------------------------------------------------------------------------
(* The controller.                                                          *)

LoseContact(r) ==
    /\ r \in reachable
    /\ reachable' = reachable \ {r}
    /\ UNCHANGED <<environment, controllerVars, replicaVars, acked>>

RegainContact(r) ==
    /\ r \notin reachable /\ "return" \in environment
    /\ reachable' = reachable \cup {r}
    /\ UNCHANGED <<environment, controllerVars, replicaVars, acked>>

(* Mutant: candidates are ordered by replica id alone.                      *)
BetterById(left, right) == left < right

(* The order of select_failover_candidate.                                  *)
Better(left, right) ==
    LET key(r) == <<deact[r].epoch, deact[r].lsn, Applied(r), committed[r], 0 - r>> IN
    \E i \in 1..5 : /\ key(left)[i] > key(right)[i]
                    /\ \A j \in 1..(i - 1) : key(left)[j] = key(right)[j]

(* A replica that still acts as primary of an older epoch is not eligible.  *)
Eligible(e) ==
    {r \in Identity :
        /\ granted[r] => leader[e] = r /\ deact[r].epoch = e
        /\ IsPrimary(r) => leader[e] = r}

Best(S) == CHOOSE r \in S : \A s \in S \ {r} : Better(r, s)

PrimaryFailed == leader[accepted] \notin reachable

ObserveFailure ==
    /\ transition = None /\ PrimaryFailed /\ failure # leader[accepted]
    /\ failure' = leader[accepted]
    /\ UNCHANGED <<environment, accepted, transition, leader, granting, replicaVars, reachable, acked>>

PrimaryRecovered ==
    /\ transition = None /\ ~PrimaryFailed /\ failure # None
    /\ failure' = None
    /\ UNCHANGED <<environment, accepted, transition, leader, granting, replicaVars, reachable, acked>>

Allocate(e, candidate) ==
    /\ e \in Epochs
    /\ transition' = [epoch |-> e, lsn |-> Applied(candidate)]
    /\ leader' = [leader EXCEPT ![e] = candidate]
    /\ UNCHANGED <<environment, accepted, failure, granting, replicaVars, reachable, acked>>

(* The failed primary is replaced by a provisional one in a newer epoch.    *)
BeginFailover ==
    /\ transition = None /\ PrimaryFailed /\ failure = leader[accepted]
    /\ ReadQuorate(reachable)
    /\ reachable \cap Eligible(accepted) # {}
    /\ Allocate(accepted + 1, Best(reachable \cap Eligible(accepted)))

Open == transition # None
CurrentOnlyStarted == \E r \in reachable : auth[r] = CurrentOnly(transition.epoch)

(* What the project assumes of a replica that comes back unless environment *)
(* allows a fork: it has nothing the primary of epoch e lacks.              *)
MayRejoin(r, e) == "fork" \in environment \/ IsPrefix(log[r], log[leader[e]])

(* Every healthy member admits PC and CC, the new primary last.             *)
InstallElection(r) ==
    /\ Open /\ ~CurrentOnlyStarted
    /\ r \in reachable /\ auth[r] # JointFence
    /\ r = leader[transition.epoch] =>
           \A s \in reachable \ {r} : auth[s] = JointFence
    /\ r = failure => MayRejoin(r, transition.epoch)
    /\ auth[r].cur < accepted => MayRejoin(r, accepted)
    /\ EnsureConfiguration(r, JointFence, transition.lsn)
    /\ UNCHANGED controllerVars

(* All healthy members have admitted the election epoch, and the reports    *)
(* that show it, those of members that are not ready included, are a read   *)
(* quorum of PC and CC.                                                     *)
ElectionHeld(reports) ==
    /\ Open /\ ~CurrentOnlyStarted /\ ReadQuorate(reports)
    /\ \A r \in reachable : auth[r] = JointFence

(* The reports of one evaluation: a member out of reach may still answer.   *)
Reports ==
    {S \in SUBSET Identity : reachable \subseteq S /\ \A r \in S : auth[r] = JointFence}

Candidates(reports) ==
    {r \in reports \cap Eligible(transition.epoch) :
        deact[r].epoch = transition.epoch /\ r # failure}

(* Another replica has more progress than the provisional primary.          *)
CorrectCandidate ==
    /\ Open
    /\ \E reports \in Reports :
        LET p == leader[transition.epoch] best == Best(Candidates(reports)) IN
        /\ ElectionHeld(reports) /\ Candidates(reports) # {}
        /\ best # p /\ best \in reachable
        /\ ~(p \in reachable /\ granted[p])
        /\ Allocate(transition.epoch + 1, best)

CandidateStands(reports) ==
    LET p == leader[transition.epoch] best == Best(Candidates(reports)) IN
    /\ ElectionHeld(reports) /\ p \in reachable /\ Candidates(reports) # {}
    /\ best \in reachable /\ (best = p \/ granted[p])

IssueGrant ==
    /\ Open /\ transition.epoch \notin granting
    /\ \E reports \in Reports : CandidateStands(reports)
    /\ granting' = granting \cup {transition.epoch}
    /\ UNCHANGED <<environment, accepted, transition, failure, leader, replicaVars, reachable, acked>>

(* The PC may be dropped: the primary writes and a read quorum of both      *)
(* configurations has recorded its deactivation.                            *)
DeactivationQuorum ==
    /\ granted[leader[transition.epoch]] /\ CatchUpComplete(leader[transition.epoch])
    /\ \E reports \in Reports :
        /\ CandidateStands(reports)
        /\ ReadQuorate({r \in reports : deact[r].epoch = transition.epoch})

Completed(r) ==
    /\ auth[r] = CurrentOnly(transition.epoch)
    /\ r = leader[transition.epoch] => granted[r]

(* Current-only commands go to the healthy members in order; the first one  *)
(* that has not completed is the only one commanded.                        *)
InstallCurrentOnly(r) ==
    /\ Open /\ (CurrentOnlyStarted \/ DeactivationQuorum)
    /\ r \in reachable /\ ~Completed(r)
    /\ \A s \in reachable : s < r => Completed(s)
    /\ EnsureConfiguration(r, CurrentOnly(transition.epoch), transition.lsn)
    /\ UNCHANGED controllerVars

AcceptTopology ==
    /\ Open /\ leader[transition.epoch] \in reachable /\ WriteQuorate(reachable)
    /\ \A r \in reachable : Completed(r)
    /\ accepted' = transition.epoch /\ transition' = None /\ failure' = None
    /\ UNCHANGED <<environment, leader, granting, replicaVars, reachable, acked>>

Stable == ~Open /\ ~PrimaryFailed /\ failure = None

(* A member left behind by the accepted topology is brought to it, with its *)
(* own progress as the safe LSN.                                            *)
CorrectStale(r) ==
    /\ Stable /\ r \in reachable /\ r # leader[accepted] /\ auth[r].cur < accepted
    /\ MayRejoin(r, accepted)
    /\ EnsureConfiguration(r, [prev |-> auth[r].cur, cur |-> accepted], Applied(r))
    /\ UNCHANGED controllerVars

CompleteStale(r) ==
    /\ Stable /\ r \in reachable /\ r # leader[accepted]
    /\ auth[r].cur = accepted /\ auth[r].prev # 0
    /\ MayRejoin(r, accepted)
    /\ EnsureConfiguration(r, CurrentOnly(accepted), Applied(r))
    /\ UNCHANGED controllerVars

-----------------------------------------------------------------------------

Controller ==
    \/ ObserveFailure \/ PrimaryRecovered \/ BeginFailover \/ CorrectCandidate
    \/ IssueGrant \/ AcceptTopology
    \/ \E r \in Identity :
        \/ InstallElection(r) \/ InstallCurrentOnly(r)
        \/ CorrectStale(r) \/ CompleteStale(r)

Replica(r) ==
    \/ FinalizeReadyCommit(r) \/ GrantWrite(r)
    \/ \E lsn \in Lsns : ReceiveReplication(r, lsn)

Next ==
    \/ Controller
    \/ \E r \in Identity : Replica(r) \/ ClientWrite(r) \/ LoseContact(r) \/ RegainContact(r)

Spec == Init /\ [][Next]_vars

(* The controller reconciles again after every step and on a timer, and a   *)
(* running primary polls its peers, so neither stops while it has work.     *)
(* Only behaviours without disturbances are asked to make progress.         *)
FairSpec ==
    /\ Spec
    /\ WF_vars(environment = {} /\ Controller)
    /\ \A r \in Identity : WF_vars(environment = {} /\ Replica(r))

-----------------------------------------------------------------------------
(* Properties.                                                              *)

Has(r, lsn, e) == lsn <= Applied(r) /\ log[r][lsn] = e

(* No acknowledged write is lost: a primary that may write in the epoch of  *)
(* the write or a later one has it, wherever failovers and corrections      *)
(* moved the primary, even if the write was acknowledged after the failover *)
(* had begun.                                                               *)
AcknowledgedSurvives ==
    \A w \in acked, p \in Identity :
        granted[p] /\ auth[p].cur >= w[2] => Has(p, w[1], w[2])

(* Commit points never contradict each other: two replicas agree on every   *)
(* operation both have committed, although a new primary commits the prefix *)
(* the election certified without asking anyone.                            *)
CommittedAgree ==
    \A r, s \in Identity :
        \A k \in 1..Lower(committed[r], committed[s]) : log[r][k] = log[s][k]

(* Once replicas stop coming and going, an open failover ends, unless too   *)
(* few of them are left for a write quorum.                                 *)
FailoverConverges ==
    environment = {} /\ <>[][UNCHANGED reachable]_vars
        => (Open ~> (~Open \/ ~WriteQuorate(reachable)))

=============================================================================
