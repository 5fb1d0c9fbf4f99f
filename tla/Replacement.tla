---------------------------- MODULE Replacement ----------------------------
(***************************************************************************)
(* The life of a set without a change of its primary: scaffolding, genesis *)
(* and its supersession, the stable set, the loss of a secondary and its   *)
(* replacement by a new incarnation, and the cleanup of the old one.       *)
(*                                                                         *)
(* Sources: kuberic-controller/src/evaluator.rs and                        *)
(* evaluator/replacement_cleanup.rs, cluster_api.rs, normalize.rs,         *)
(* exact_resources.rs, executor.rs, reconciler.rs; the agents' side in     *)
(* kuberic-runtime/src: host/{provisioning,command,coordinator}.rs,        *)
(* protocol/{validation,observation}.rs, replicator/quorum.rs.             *)
(*                                                                         *)
(* An incarnation is the UID of its Pod; UIDs are allocated in order.  A   *)
(* name is the replica id with 0 for the original resources and with the   *)
(* replaced incarnation for those of a replacement.  There is one primary, *)
(* so a log is its length.  A reconciliation lists the resources, asks the *)
(* agents, decides, and applies its changes one at a time.  The primary    *)
(* may be out of sight, but returns before the failover delay ends: its    *)
(* loss is module Failover's.  The stages of a command are Coordinator's,  *)
(* the copying of a build ReplicaBuild's.                                  *)
(***************************************************************************)
EXTENDS Naturals, FiniteSets, Sequences, TLC

CONSTANTS
    None,
    Worlds       \* [size, fresh, writes, lose, wait, faulty, hide, crash, late, fair]:
                 \* the number of members, whether nothing exists yet, how many
                 \* client writes there are, the ids that lose a Pod and how often
                 \* (a function), whether a Pod is lost only before genesis is accepted
                 \* or once every member has its endpoint, the ids
                 \* whose agent reports a permanent fault, the ids out of sight for
                 \* a while, whether the controller restarts or the write Service
                 \* is deleted once, whether commands are delayed and
                 \* duplicated, whether scheduling is fair

VARIABLES
    world,
    left,        \* the disturbances that are still to come
    status,      \* the persisted status of the set
    kube,        \* Pods, claims, endpoints and the write Service
    ctl,         \* the running reconciliation
    agent,       \* the durable state of every incarnation
    waiting,     \* the write whose client waits, 0 if there is none
    acked,       \* the writes clients were told are done
    net,         \* commands on their way to an agent
    unseen,      \* incarnations that do not answer
    uids         \* the last UID allocated

vars == <<world, left, status, kube, ctl, agent, waiting, acked, net, unseen, uids>>

Ids == 1..world.size
WriteQuorum(S) == Cardinality(S) \div 2 + 1
Least(S) == CHOOSE u \in S : \A v \in S : u <= v
Max(m, n) == IF m < n THEN n ELSE m

Config(epoch, primary, members) ==
    [epoch |-> epoch, primary |-> primary, members |-> members]

(***************************************************************************)
(* Resources.                                                              *)
(***************************************************************************)
Pod(name, uid, pvc) == [name |-> name, uid |-> uid, id |-> name[1], pvc |-> pvc]
Pvc(name, uid) == [name |-> name, uid |-> uid, id |-> name[1]]
Nobody == 0            \* what a write Service without a route selects
Named(S, name) == \E x \in S : x.name = name
Uids(S) == {x.uid : x \in S}
The(S, name) == CHOOSE x \in S : x.name = name
Running(u) == u \in Uids(kube.pods)
Kept(u) == agent[u].pvc \in Uids(kube.pvcs)

Fresh(id, pvc) ==
    [id |-> id, pvc |-> pvc, up |-> FALSE, prev |-> None, cur |-> None, write |-> "Closed",
     pending |-> None, retained |-> None, builds |-> <<>>, built |-> FALSE, fault |-> FALSE,
     log |-> 0, bound |-> 0, credit |-> <<>>]

\* validate_established_identity: the store on the claim is another incarnation's.
Foreign(u) == \E v \in DOMAIN agent : v # u /\ agent[v].up /\ agent[v].pvc = agent[u].pvc

EpochOf(u) == IF agent[u].cur = None THEN 0 ELSE agent[u].cur.epoch
IsPrimary(u) == agent[u].cur # None /\ agent[u].cur.primary = u

(***************************************************************************)
(* Status.                                                                 *)
(***************************************************************************)
Cleanup(u) == [target |-> u, pvc |-> agent[u].pvc]
Transition(kind, cur, build) == [kind |-> kind, cur |-> cur, build |-> build]
Provision(of, u) == [of |-> of, pod |-> u, pvc |-> agent[u].pvc]

Unborn == [initialized |-> FALSE, topology |-> None, transition |-> None,
           provisioning |-> None, pending |-> None, last |-> None,
           failure |-> FALSE, quorumLoss |-> FALSE]

Idle == [step |-> "idle", kube |-> None, changes |-> <<>>]

\* A set whose members have served writes for a while.
Steady ==
    LET all == Config(1, 1, Ids)
    IN  /\ status = [Unborn EXCEPT !.initialized = TRUE, !.topology = all]
        /\ kube = [pods |-> {Pod(<<i, 0>>, i, i) : i \in Ids},
                   pvcs |-> {Pvc(<<i, 0>>, i) : i \in Ids},
                   endpoints |-> Ids, service |-> 1]
        /\ agent = [i \in Ids |->
                      [Fresh(i, i) EXCEPT !.up = TRUE, !.cur = all,
                          !.retained = <<"genesis", 1>>,
                          !.write = IF i = 1 THEN "Granted" ELSE "Closed",
                          !.credit = IF i = 1 THEN [j \in Ids |-> 0] ELSE <<>>]]
        /\ uids = world.size

Init ==
    /\ world \in Worlds
    /\ left = [lose |-> world.lose, faulty |-> world.faulty, hide |-> world.hide,
               crash |-> world.crash]
    /\ IF world.fresh
       THEN /\ status = Unborn /\ uids = 0 /\ agent = <<>>
            /\ kube = [pods |-> {}, pvcs |-> {}, endpoints |-> {}, service |-> None]
       ELSE Steady
    /\ ctl = Idle /\ net = {} /\ unseen = {} /\ waiting = 0 /\ acked = 0

(***************************************************************************)
(* Commands.  An operation id is its name and the epoch it is for.         *)
(***************************************************************************)
Command(to, op, kind, prev, cur, write, only) ==
    [to |-> to, op |-> <<op, cur.epoch>>, kind |-> kind, prev |-> prev, cur |-> cur,
     write |-> write, only |-> only]

Initialize(u) == [to |-> u, op |-> <<"initialize", 0>>]
Build(source, target) == [to |-> source, op |-> <<"build", 0>>, target |-> target]

Ensures(c) == c.op[1] \notin {"initialize", "build"}

SameIds(c, d) == {agent[u].id : u \in c.members} = {agent[u].id : u \in d.members}

\* valid_single_non_primary_incarnation_change
OneSecondaryChanged(c, d) ==
    /\ c.primary = d.primary
    /\ Cardinality(c.members \ d.members) = 1 /\ SameIds(c, d)

ValidRelationship(c) ==
    IF c.kind = "Bootstrap" THEN c.prev = None
    ELSE /\ c.prev # None /\ c.prev.epoch < c.cur.epoch /\ SameIds(c.prev, c.cur)
         /\ c.kind = "Replacement" => OneSecondaryChanged(c.prev, c.cur)
         /\ c.kind = "Failover" =>
               c.prev.members = c.cur.members \/ OneSecondaryChanged(c.prev, c.cur)

\* A grant follows the installed primary's configuration, or opens its successor.
MayGrant(c, a) ==
    /\ c.to = c.cur.primary
    /\ a.cur = c.cur \/ (c.kind = "Replacement" /\ ~c.only /\ a.cur = c.prev)

Admits(c, a) ==
    /\ c.to \in c.cur.members \/ (c.prev # None /\ c.to \in c.prev.members)
    /\ c.cur.epoch >= EpochOf(c.to)
    /\ IF c.only
       THEN a.cur = c.cur /\ c.kind # "Bootstrap"
       ELSE /\ ValidRelationship(c)
            /\ c.cur.epoch = EpochOf(c.to) => a.cur = c.cur /\ a.prev = c.prev
    /\ c.write = "Granted" => MayGrant(c, a)

SameFence(c, a) == a.cur = c.cur /\ a.prev = (IF c.only THEN None ELSE c.prev)

\* A new fence closes writes, fails the waiting client, forgets the peers' progress
\* and, under PC/CC, fixes the boundary the members have to reach.
Install(c, a) ==
    IF SameFence(c, a) THEN [a EXCEPT !.pending = c]
    ELSE [a EXCEPT !.pending = c, !.cur = c.cur,
             !.prev = IF c.only THEN None ELSE c.prev,
             !.write = "Closed", !.bound = IF c.only THEN 0 ELSE a.log,
             !.credit = IF c.to # c.cur.primary THEN <<>>
                        ELSE [u \in c.cur.members \cup (IF c.prev = None THEN {}
                                                        ELSE c.prev.members) |-> 0]]

\* Only the Pod the set was told of establishes its store.
DeliverInitialize(c) ==
    /\ c.op[1] = "initialize"
    /\ agent' = IF Running(c.to) /\ ~Foreign(c.to)
                THEN [agent EXCEPT ![c.to].up = TRUE] ELSE agent
    /\ UNCHANGED waiting

\* A build copies what the source holds; one that was completed is taken up again
\* (reissue_outbound_build).  Without its target the attempt is cancelled.
DeliverBuild(c) ==
    /\ c.op[1] = "build"
    /\ agent' = IF Running(c.target) /\ agent[c.target].up
                THEN [agent EXCEPT ![c.to].builds = (c.target :> agent[c.to].log) @@ @,
                                   ![c.target].built = TRUE,
                                   ![c.target].log = Max(@, agent[c.to].log)]
                ELSE agent
    /\ UNCHANGED waiting

\* A completed command is answered from its record; a pending one runs on.
DeliverConfiguration(c) ==
    LET a == agent[c.to]
        free == a.pending = None \/ c.cur.epoch > a.pending.cur.epoch
        new == a.up /\ a.retained # c.op /\ free /\ Admits(c, a)
    IN  /\ Ensures(c)
        /\ agent' = IF new THEN [agent EXCEPT ![c.to] = Install(c, a)] ELSE agent
        /\ waiting' = IF new /\ IsPrimary(c.to) /\ ~SameFence(c, a) THEN 0 ELSE waiting

Deliver(c) ==
    /\ c \in net
    /\ net' = IF world.late THEN net ELSE net \ {c}
    /\ IF ~Running(c.to) \/ c.to \in unseen THEN UNCHANGED <<agent, waiting>>
       ELSE DeliverInitialize(c) \/ DeliverBuild(c) \/ DeliverConfiguration(c)
    /\ <<agent, net>>' # <<agent, net>>
    /\ UNCHANGED <<world, left, status, kube, ctl, acked, unseen, uids>>

(***************************************************************************)
(* Replication.  The primary credits a peer that has its fence.            *)
(***************************************************************************)
Credited(p, S, lsn) ==
    Cardinality({u \in S : IF u = p THEN agent[p].log >= lsn ELSE agent[p].credit[u] >= lsn})

HasQuorum(p, S, lsn) == Credited(p, S, lsn) >= WriteQuorum(S)

\* Mutant: the old configuration's quorum has caught up with itself.
CatchUpCompletePrevious(p) ==
    HasQuorum(p, IF agent[p].prev = None THEN agent[p].cur.members ELSE agent[p].prev.members,
              agent[p].bound)

CatchUpComplete(p) == HasQuorum(p, agent[p].cur.members, agent[p].bound)

CommitReady(p, lsn) ==
    /\ HasQuorum(p, agent[p].cur.members, lsn)
    /\ agent[p].prev # None => HasQuorum(p, agent[p].prev.members, lsn)

\* Access is published once a primary that may serve has caught up.  The end of a
\* replacement retires its build.
Finish(u) ==
    LET a == agent[u]
        c == a.pending
    IN  /\ Running(u) /\ c # None
        /\ u = c.cur.primary => CatchUpComplete(u)
        /\ agent' = [agent EXCEPT ![u] =
               [a EXCEPT !.pending = None, !.retained = c.op,
                         !.write = IF u = c.cur.primary THEN c.write ELSE "Closed",
                         !.builds = IF c.only THEN <<>> ELSE @,
                         !.built = IF c.only THEN FALSE ELSE @]]
        /\ UNCHANGED <<world, left, status, kube, ctl, waiting, acked, net, unseen, uids>>

Write(p) ==
    /\ Running(p) /\ agent[p].write = "Granted" /\ waiting = 0
    /\ agent[p].log < world.writes
    /\ agent' = [agent EXCEPT ![p].log = @ + 1]
    /\ waiting' = agent[p].log + 1
    /\ UNCHANGED <<world, left, status, kube, ctl, acked, net, unseen, uids>>

Replicate(p, u) ==
    /\ Running(p) /\ Running(u) /\ u # p /\ IsPrimary(p)
    /\ u \in DOMAIN agent[p].credit /\ agent[p].credit[u] < agent[p].log
    /\ agent[u].cur = agent[p].cur /\ agent[u].prev = agent[p].prev
    /\ agent' = [agent EXCEPT ![u].log = agent[p].log, ![p].credit[u] = agent[p].log]
    /\ UNCHANGED <<world, left, status, kube, ctl, waiting, acked, net, unseen, uids>>

Acknowledge(p) ==
    /\ Running(p) /\ agent[p].write = "Granted" /\ waiting # 0 /\ CommitReady(p, waiting)
    /\ acked' = waiting /\ waiting' = 0
    /\ UNCHANGED <<world, left, status, kube, ctl, agent, net, unseen, uids>>

(***************************************************************************)
(* A reconciliation.  It lists the resources, then asks the agents.        *)
(***************************************************************************)
Observe ==
    /\ ctl.step = "idle" /\ (world.late \/ net = {})
    /\ ctl' = [Idle EXCEPT !.step = "ask", !.kube = kube]
    /\ UNCHANGED <<world, left, status, kube, agent, waiting, acked, net, unseen, uids>>

Listed(u) == u \in Uids(ctl.kube.pods)
Endpoint(u) == u \in ctl.kube.endpoints

\* A claim no listed Pod uses.
Orphans(id) ==
    {c \in ctl.kube.pvcs : c.id = id /\ \A p \in ctl.kube.pods : p.pvc # c.uid}

Answer(u) ==
    IF ~Listed(u) THEN "none"
    ELSE IF ~Running(u) \/ u \in unseen \/ Foreign(u) THEN "unreachable"
    ELSE IF agent[u].up THEN "report" ELSE "uninitialized"

Reports(u) == Answer(u) = "report"
Healthy(u) == Reports(u) /\ ~agent[u].fault
Settled(u, op, cur) == agent[u].pending = None /\ agent[u].retained = <<op, cur.epoch>>

Joint(u, prev, cur) == Reports(u) /\ agent[u].cur = cur /\ agent[u].prev = prev
Only(u, cur) == Reports(u) /\ agent[u].cur = cur /\ agent[u].prev = None

ReportQuorum(config, S) == Cardinality(config.members \cap S) >= WriteQuorum(config.members)

Wait == [do |-> "wait", changes |-> <<>>]
Stable == [do |-> "stable", changes |-> <<>>]
Unsafe == [do |-> "unsafe", changes |-> <<>>]
Apply(changes) == [do |-> "apply", changes |-> changes]
Execute(c) == [do |-> "execute", command |-> c]
Persist(s) == [do |-> "persist", status |-> s]
Unroute == [do |-> "unroute"]

Routed == ctl.kube.service \notin {None, Nobody}

(***************************************************************************)
(* Validation of what was observed.                                        *)
(***************************************************************************)
Accepted == status.topology
Outstanding == IF status.transition = None THEN None ELSE status.transition.cur
Among(config, u) == config # None /\ u \in config.members
Authorized == IF Outstanding # None THEN Outstanding ELSE Accepted

ValidUninitialized(u) ==
    /\ ~Among(Accepted, u)
    /\ Among(Outstanding, u) => status.transition.kind = "Bootstrap"

ValidBootstrapReport(u) ==
    status.transition # None /\ status.transition.kind = "Bootstrap" =>
        /\ Among(Outstanding, u)
        /\ agent[u].prev = None /\ agent[u].write # "Granted"
        /\ IsPrimary(u) => Outstanding.primary = u

ValidEpoch(u) ==
    /\ EpochOf(u) <= Authorized.epoch
    /\ Among(Accepted, u) /\ EpochOf(u) < Accepted.epoch =>
          status.transition = None /\ u # Accepted.primary
    /\ \A config \in {Accepted, Outstanding} \ {None} :
          EpochOf(u) = config.epoch /\ agent[u].cur # None => agent[u].cur = config

\* An outstanding configuration follows the accepted one.
ValidPrevious(u) ==
    status.transition # None /\ status.transition.kind # "Bootstrap" /\ agent[u].cur = Outstanding =>
        agent[u].prev \in {None, Accepted}

\* validate_report_authority
ValidReport(u) ==
    IF status.transition = None /\ status.provisioning # None /\ status.provisioning.pod = u
    THEN agent[u].cur = None
    ELSE /\ ValidBootstrapReport(u) /\ ValidPrevious(u)
         /\ IF Among(Accepted, u) \/ Among(Outstanding, u)
            THEN /\ ValidEpoch(u)
                 /\ agent[u].write = "Granted" => agent[u].cur \in {Accepted, Outstanding}
            ELSE ~IsPrimary(u) /\ agent[u].write # "Granted"

\* validate_configuration: one primary among the members, one incarnation of each id,
\* and as many as the policy says.
ValidConfiguration(config) ==
    /\ config.primary \in config.members /\ Cardinality(config.members) = world.size
    /\ \A u, v \in config.members : agent[u].id = agent[v].id => u = v

\* validate_replacement_cleanup: the target is the incarnation of this Pod and claim.
ValidCleanupTarget(c) == c.target \in DOMAIN agent /\ agent[c.target].pvc = c.pvc

\* A cleanup must not name the claim of another member.
ValidCleanup ==
    \A c \in {status.pending, status.last} \ {None} :
        /\ ValidCleanupTarget(c)
        /\ \A p \in ctl.kube.pods :
            p.uid # c.target /\ (Among(Accepted, p.uid) \/ Among(Outstanding, p.uid)) =>
                p.pvc # c.pvc

ValidProvisioning ==
    status.provisioning # None =>
        /\ ~Among(Accepted, status.provisioning.pod)
        /\ status.provisioning.of \in Accepted.members \ {Accepted.primary}

ValidSnapshot ==
    /\ \A config \in {Accepted, Outstanding} \ {None} : ValidConfiguration(config)
    /\ ValidCleanup /\ ValidProvisioning
    /\ \A u \in Uids(ctl.kube.pods) :
          /\ Answer(u) = "uninitialized" => ValidUninitialized(u)
          /\ Reports(u) => ValidReport(u)

(***************************************************************************)
(* Before genesis.                                                         *)
(***************************************************************************)
\* Exactly one Pod with its claim, and nothing else of that id.
ScaffoldingFor(id) ==
    Cardinality({p \in ctl.kube.pods : p.id = id}) + Cardinality(Orphans(id)) = 1

IncarnationOf(id) == (CHOOSE p \in ctl.kube.pods : p.id = id).uid

EvaluateNeverInitialized ==
    IF \E u \in Uids(ctl.kube.pods) : Reports(u) THEN Unsafe
    ELSE IF \E i \in Ids : ~ScaffoldingFor(i) \/ Orphans(i) # {}
         THEN Apply(<<[do |-> "scaffold"]>>)
    ELSE IF ctl.kube.service = None THEN Apply(<<[do |-> "service"]>>)
    ELSE IF \E i \in Ids : Answer(IncarnationOf(i)) # "uninitialized" THEN Wait
    ELSE Apply(<<Persist([status EXCEPT !.transition =
            Transition("Bootstrap",
                       Config(1, IncarnationOf(1), {IncarnationOf(i) : i \in Ids}), None)])>>)

(***************************************************************************)
(* Genesis.                                                                *)
(***************************************************************************)
\* A Pod for another incarnation of u, with its claim and endpoint and no store.
Candidates(u) ==
    {p.uid : p \in {q \in ctl.kube.pods :
                q.id = agent[u].id /\ q.uid # u /\ Endpoint(q.uid)
                /\ Answer(q.uid) = "uninitialized"}}

\* The exact Pod is gone and a claim of its id is unused.
Abandoned(u) == ~Listed(u) /\ Orphans(agent[u].id) # {}

\* The first of a set of members, in the order of their ids.
First(S) == CHOOSE u \in S : \A v \in S : agent[u].id <= agent[v].id

Replaced(config, old, new) ==
    Config(config.epoch + 1, IF config.primary = old THEN new ELSE config.primary,
           (config.members \ {old}) \cup {new})

EnsureReplacement(u) == Apply(<<[do |-> "replace", of |-> u]>>)

BootstrapSupersession(cur) ==
    LET old == First({u \in cur.members : Abandoned(u)})
    IN  IF \E u \in Uids(ctl.kube.pods) : Reports(u) /\ agent[u].cur = cur THEN Wait
        ELSE IF Candidates(old) = {} THEN EnsureReplacement(old)
        ELSE Apply(<<Persist([status EXCEPT !.transition =
                Transition("Bootstrap", Replaced(cur, old, Least(Candidates(old))), None)])>>)

BootstrapMatches(u, cur) ==
    /\ Only(u, cur) /\ ~agent[u].fault /\ agent[u].write # "Granted"
    /\ agent[u].log = 0 /\ Settled(u, "genesis", cur)

\* The members in order, each initialized and then installed.
BootstrapMember(u, cur) ==
    CASE Answer(u) = "uninitialized" -> Execute(Initialize(u))
      [] Answer(u) = "report" ->
            Execute(Command(u, "genesis", "Bootstrap", None, cur, "Closed", FALSE))
      [] OTHER -> Wait

EvaluateBootstrap(cur) ==
    LET Lacks(u) == ~BootstrapMatches(u, cur)
    IN  IF \E u \in cur.members : Abandoned(u) THEN BootstrapSupersession(cur)
        ELSE IF \E u \in cur.members : Lacks(u)
        THEN BootstrapMember(First({u \in cur.members : Lacks(u)}), cur)
        ELSE Apply(<<Persist([status EXCEPT !.initialized = TRUE, !.topology = cur,
                                            !.transition = None])>>)

(***************************************************************************)
(* The primary out of sight.                                               *)
(***************************************************************************)
ReplicaFailed(u) == ~Healthy(u)
PrimaryFailed == ReplicaFailed(Accepted.primary)

FailureConcerns == PrimaryFailed \/ status.failure

\* maybe_begin_failover, up to the end of the delay.
BeginFailover ==
    IF ~PrimaryFailed THEN Apply(<<Persist([status EXCEPT !.failure = FALSE])>>)
    ELSE IF ~status.failure
         THEN Apply((IF Routed THEN <<Unroute>> ELSE <<>>)
                    \o <<Persist([status EXCEPT !.failure = TRUE, !.quorumLoss = FALSE])>>)
    ELSE IF Routed THEN Apply(<<Unroute>>)
    ELSE Wait

(***************************************************************************)
(* The stable set.                                                         *)
(***************************************************************************)
\* Mutant: only what an agent reports makes its incarnation replaceable.
ReplacementNeededFaulty(u) ==
    u # Accepted.primary /\ Reports(u) /\ (agent[u].fault \/ EpochOf(u) < Accepted.epoch)

ReplacementNeeded(u) ==
    /\ u # Accepted.primary
    /\ \/ Reports(u) /\ (agent[u].fault \/ EpochOf(u) < Accepted.epoch)
       \/ Abandoned(u)

Secondaries == Accepted.members \ {Accepted.primary}
IsTarget(u) == status.pending # None /\ status.pending.target = u
LacksEndpoint(u) == Listed(u) /\ ~Endpoint(u) /\ ~IsTarget(u) /\ ~ReplacementNeeded(u)
Behind(u) == u \in Secondaries /\ Reports(u) /\ EpochOf(u) < Accepted.epoch /\ agent[u].cur # None
HalfWay(u) == u \in Secondaries /\ Reports(u) /\ agent[u].cur = Accepted /\ agent[u].prev # None

AcceptedCorrection(u) ==
    Execute(Command(u, "accepted-correction", "Failover", agent[u].cur, Accepted, "Closed", FALSE))

AcceptedCurrentOnly(u) ==
    Execute(Command(u, "accepted-current-only", "Failover", None, Accepted, "Closed", TRUE))

\* replacement_cleanup::freeze: the claim of the old incarnation still exists.
Freezes(u) == agent[u].pvc \in Uids(ctl.kube.pvcs)

Failed(u) ==
    IF status.pending # None THEN IsTarget(u) /\ u # Accepted.primary ELSE ReplacementNeeded(u)

BeginReplacement(u) ==
    IF status.pending = None
    THEN IF Freezes(u) THEN Apply(<<Persist([status EXCEPT !.pending = Cleanup(u)])>>) ELSE Wait
    ELSE IF Candidates(u) = {} THEN EnsureReplacement(u)
    ELSE Apply(<<Persist([status EXCEPT !.provisioning = Provision(u, Least(Candidates(u)))])>>)

\* Resources of no accepted member: a Pod, or an unused claim.
ExtraPods == {p \in ctl.kube.pods : p.uid \notin Accepted.members}
ExtraPvcs == UNION {Orphans(i) : i \in Ids}

Delete(what, uid) == [do |-> what, uid |-> uid]
DeleteScaffolding(pod, pvc) ==
    (IF pod = None THEN <<>> ELSE <<Delete("endpoint", pod), Delete("pod", pod)>>)
    \o <<Delete("pvc", pvc)>>

DeleteExtra ==
    IF ExtraPods # {}
    THEN LET p == CHOOSE p \in ExtraPods : \A q \in ExtraPods : p.uid <= q.uid
         IN  Apply(DeleteScaffolding(p.uid, p.pvc))
    ELSE Apply(DeleteScaffolding(None, Least(Uids(ExtraPvcs))))

Attested == {u \in Accepted.members : Healthy(u) /\ Only(u, Accepted)}

EvaluateQuorumLoss ==
    IF ~status.quorumLoss THEN Apply(<<Persist([status EXCEPT !.quorumLoss = TRUE])>>)
    ELSE IF agent[Accepted.primary].write # "NoWriteQuorum"
         THEN Execute(Command(Accepted.primary, "no-write-quorum", "Bootstrap", None, Accepted,
                              "NoWriteQuorum", FALSE))
    ELSE Wait

EvaluateService ==
    LET p == Accepted.primary
    IN  IF agent[p].write # "Granted"
        THEN Execute(Command(p, "grant-write", "Bootstrap", None, Accepted, "Granted", FALSE))
        ELSE IF status.quorumLoss THEN Apply(<<Persist([status EXCEPT !.quorumLoss = FALSE])>>)
        ELSE IF ctl.kube.service = None THEN Apply(<<[do |-> "service"]>>)
        ELSE IF ctl.kube.service = p THEN Stable
        ELSE IF Routed THEN Apply(<<Unroute>>)
        ELSE Apply(<<[do |-> "route", to |-> p]>>)

EvaluateStable ==
    LET behind  == {u \in Accepted.members : Behind(u)}
        halfWay == {u \in Accepted.members : HalfWay(u)}
        failed  == {u \in Accepted.members : Failed(u)}
    IN
    IF FailureConcerns THEN BeginFailover
    ELSE IF \E u \in Accepted.members : LacksEndpoint(u) THEN Apply(<<[do |-> "scaffold"]>>)
    ELSE IF behind # {} THEN AcceptedCorrection(First(behind))
    ELSE IF halfWay # {} THEN AcceptedCurrentOnly(First(halfWay))
    ELSE IF failed # {} THEN BeginReplacement(First(failed))
    ELSE IF status.pending # None THEN Wait
    ELSE IF ExtraPods # {} \/ ExtraPvcs # {} THEN DeleteExtra
    ELSE IF Accepted.primary \notin Attested THEN Wait
    ELSE IF ~ReportQuorum(Accepted, Attested) THEN EvaluateQuorumLoss
    ELSE EvaluateService

(***************************************************************************)
(* Provisioning: an incarnation outside authority is initialized and built.*)
(***************************************************************************)
Abandon(t) == DeleteScaffolding(t.pod, t.pvc)

SourceComplete(t) ==
    /\ t.pod \in DOMAIN agent[Accepted.primary].builds
    /\ agent[Accepted.primary].builds[t.pod] >= agent[Accepted.primary].log

\* Mutant: the attempt is forgotten, its resources are not deleted.
EvaluateProvisioningForgets(t) ==
    IF PrimaryFailed \/ ~Listed(t.pod)
    THEN Apply(<<Persist([status EXCEPT !.provisioning = None, !.failure = PrimaryFailed])>>)
    ELSE CASE Answer(t.pod) = "uninitialized" -> Execute(Initialize(t.pod))
           [] Answer(t.pod) = "report" ->
                IF SourceComplete(t) /\ agent[t.pod].built
                THEN Apply(<<Persist([status EXCEPT !.provisioning = None, !.transition =
                        Transition("Replacement", Replaced(Accepted, t.of, t.pod), t.pod)])>>)
                ELSE Execute(Build(Accepted.primary, t.pod))
           [] OTHER -> Wait

EvaluateProvisioning(t) ==
    IF PrimaryFailed
    THEN Apply(Abandon(t) \o (IF Routed THEN <<Unroute>> ELSE <<>>)
               \o <<Persist([status EXCEPT !.provisioning = None, !.failure = TRUE])>>)
    ELSE IF ~Listed(t.pod)
    THEN Apply(Abandon(t) \o <<Persist([status EXCEPT !.provisioning = None])>>)
    ELSE CASE Answer(t.pod) = "uninitialized" -> Execute(Initialize(t.pod))
           [] Answer(t.pod) = "report" ->
                IF SourceComplete(t) /\ agent[t.pod].built
                THEN Apply(<<Persist([status EXCEPT !.provisioning = None, !.transition =
                        Transition("Replacement", Replaced(Accepted, t.of, t.pod), t.pod)])>>)
                ELSE Execute(Build(Accepted.primary, t.pod))
           [] OTHER -> Wait

(***************************************************************************)
(* The transition: PC/CC at every member that reports, the primary last,   *)
(* then current-only in the same order.                                    *)
(***************************************************************************)
PrimaryLast(S, p) == IF S \ {p} # {} THEN Least(S \ {p}) ELSE p

Grants(u, cur) == IF u = cur.primary THEN "Granted" ELSE "Closed"

InstallJoint(u, cur) ==
    Execute(Command(u, "install", "Replacement", Accepted, cur, Grants(u, cur), FALSE))

InstallOnly(u, cur) ==
    Execute(Command(u, "current-only", "Replacement", None, cur, Grants(u, cur), TRUE))

JointMembers(cur) == {u \in Accepted.members \cup cur.members : Joint(u, Accepted, cur)}
OnlyMembers(cur) == {u \in cur.members : Only(u, cur)}

CurrentOnlyPhase(cur) ==
    \/ OnlyMembers(cur) # {}
    \/ /\ cur.primary \in JointMembers(cur) /\ CatchUpComplete(cur.primary)
       /\ ReportQuorum(Accepted, JointMembers(cur)) /\ ReportQuorum(cur, JointMembers(cur))

EvaluateJoint(cur) ==
    LET all == {u \in Accepted.members \cup cur.members : Reports(u)}
        Lacks(u) == ~(Joint(u, Accepted, cur) /\ Settled(u, "install", cur))
    IN  IF \E u \in all : Lacks(u)
        THEN InstallJoint(PrimaryLast({v \in all : Lacks(v)}, cur.primary), cur)
        ELSE Wait

Accept(cur) ==
    Apply(<<Persist([status EXCEPT !.topology = cur, !.transition = None,
                                   !.last = status.pending, !.pending = None])>>)

Accepts(cur) ==
    /\ cur.primary \in OnlyMembers(cur) /\ agent[cur.primary].write = "Granted"
    /\ ReportQuorum(cur, OnlyMembers(cur))

EvaluateCurrentOnly(cur) ==
    LET all == {u \in cur.members : Reports(u)}
        Lacks(u) == ~(Only(u, cur) /\ Settled(u, "current-only", cur))
        u == PrimaryLast({v \in all : Lacks(v)}, cur.primary)
    IN  IF \E v \in all : Lacks(v)
        THEN IF Joint(u, Accepted, cur) \/ Only(u, cur) THEN InstallOnly(u, cur)
             ELSE InstallJoint(u, cur)
        ELSE IF Accepts(cur) THEN Accept(cur) ELSE Wait

EvaluateReplacement(cur) ==
    IF FailureConcerns THEN BeginFailover
    ELSE IF CurrentOnlyPhase(cur) THEN EvaluateCurrentOnly(cur) ELSE EvaluateJoint(cur)

(***************************************************************************)
(* Cleanup: the frozen incarnation's endpoint, Pod and claim, in order.    *)
(***************************************************************************)
EvaluateCleanup(c) ==
    IF Endpoint(c.target) THEN Apply(<<Delete("endpoint", c.target)>>)
    ELSE IF Listed(c.target) THEN Apply(<<Delete("pod", c.target)>>)
    ELSE IF c.pvc \in Uids(ctl.kube.pvcs) THEN Apply(<<Delete("pvc", c.pvc)>>)
    ELSE Apply(<<Persist([status EXCEPT !.last = None])>>)

Evaluate ==
    IF ~ValidSnapshot THEN Unsafe
    ELSE IF status.last # None THEN EvaluateCleanup(status.last)
    ELSE IF status.transition # None
         THEN IF status.transition.kind = "Bootstrap" THEN EvaluateBootstrap(Outstanding)
              ELSE EvaluateReplacement(Outstanding)
    ELSE IF status.provisioning # None THEN EvaluateProvisioning(status.provisioning)
    ELSE IF status.initialized THEN EvaluateStable
    ELSE EvaluateNeverInitialized

\* execute_plan.  An unsafe plan leaves no write route.
Decide ==
    LET plan == Evaluate
    IN  /\ ctl.step = "ask"
        /\ net' = IF plan.do = "execute" THEN net \cup {plan.command} ELSE net
        /\ ctl' = IF plan.do = "apply" THEN [ctl EXCEPT !.step = "apply", !.changes = plan.changes]
                  ELSE IF plan.do = "unsafe" /\ Routed
                  THEN [ctl EXCEPT !.step = "apply", !.changes = <<Unroute>>]
                  ELSE Idle
        /\ UNCHANGED <<world, left, status, kube, agent, waiting, acked, unseen, uids>>

(***************************************************************************)
(* The changes (KubernetesApi).  Each is decided by what was listed.       *)
(***************************************************************************)
Members == (IF Accepted = None THEN {} ELSE Accepted.members)
           \cup (IF Outstanding = None THEN {} ELSE Outstanding.members)

\* The configured Pod of an id, when it was listed.
Configured(i) == {u \in Members : agent[u].id = i /\ Listed(u)}

\* ensure_replica_scaffolding: a claim, then a Pod, then its endpoint, for every id.
EnsureReplicaScaffolding ==
    LET lacks(i, S) == Configured(i) = {} /\ ~Named(S, <<i, 0>>)
        claims == {i \in Ids : lacks(i, ctl.kube.pvcs)}
        pods == {i \in Ids : lacks(i, ctl.kube.pods)} \ claims
        rest == Ids \ (claims \cup pods)
        listed(i) == IF Configured(i) # {} THEN Least(Configured(i))
                     ELSE The(ctl.kube.pods, <<i, 0>>).uid
    IN  /\ kube' = [kube EXCEPT
               !.pvcs = @ \cup {Pvc(<<i, 0>>, uids + i) : i \in claims},
               !.pods = @ \cup {Pod(<<i, 0>>, uids + i, The(ctl.kube.pvcs, <<i, 0>>).uid) : i \in pods},
               !.endpoints = @ \cup {listed(i) : i \in rest},
               !.service = IF @ = None THEN Nobody ELSE @]
        /\ agent' = [u \in {uids + i : i \in pods} |->
                        Fresh(u - uids, The(ctl.kube.pvcs, <<u - uids, 0>>).uid)] @@ agent
        /\ uids' = IF claims \cup pods = {} THEN uids ELSE uids + world.size
        /\ UNCHANGED status

\* ensure_replacement_scaffolding: one of the three at a time.
EnsureReplacementScaffolding(c) ==
    LET name == <<agent[c.of].id, c.of>>
    IN  /\ IF ~Named(ctl.kube.pvcs, name)
           THEN /\ kube' = [kube EXCEPT !.pvcs = @ \cup {Pvc(name, uids + 1)}]
                /\ uids' = uids + 1 /\ UNCHANGED agent
           ELSE IF ~Named(ctl.kube.pods, name)
           THEN LET pvc == The(ctl.kube.pvcs, name).uid
                IN  /\ kube' = [kube EXCEPT !.pods = @ \cup {Pod(name, uids + 1, pvc)}]
                    /\ agent' = (uids + 1 :> Fresh(name[1], pvc)) @@ agent
                    /\ uids' = uids + 1
           ELSE /\ kube' = [kube EXCEPT !.endpoints = @ \cup {The(ctl.kube.pods, name).uid}]
                /\ UNCHANGED <<agent, uids>>
        /\ UNCHANGED status

\* Deletes name the UID they were decided for.
DeleteEndpoint(c) ==
    kube' = [kube EXCEPT !.endpoints = @ \ {c.uid}] /\ UNCHANGED <<agent, uids, status>>
DeletePod(c) ==
    kube' = [kube EXCEPT !.pods = {p \in @ : p.uid # c.uid}] /\ UNCHANGED <<agent, uids, status>>
DeletePvc(c) ==
    kube' = [kube EXCEPT !.pvcs = {v \in @ : v.uid # c.uid}] /\ UNCHANGED <<agent, uids, status>>

EnsureWriteRoutingService ==
    kube' = [kube EXCEPT !.service = IF @ = None THEN Nobody ELSE @] /\ UNCHANGED <<agent, uids, status>>
RemoveWriteRouting ==
    kube' = [kube EXCEPT !.service = IF @ = None THEN None ELSE Nobody] /\ UNCHANGED <<agent, uids, status>>
PublishWriteRouting(c) ==
    kube' = [kube EXCEPT !.service = IF @ = None THEN None ELSE c.to] /\ UNCHANGED <<agent, uids, status>>
ReplaceStatus(c) == status' = c.status /\ UNCHANGED <<kube, agent, uids>>

\* A patch of a Service that is gone fails, and with it the rest of the plan.
PatchFails(c) == c.do \in {"unroute", "route"} /\ kube.service = None

ApplyChange ==
    LET c == Head(ctl.changes)
    IN  /\ ctl.step = "apply"
        /\ CASE c.do = "scaffold" -> EnsureReplicaScaffolding
             [] c.do = "replace" -> EnsureReplacementScaffolding(c)
             [] c.do = "endpoint" -> DeleteEndpoint(c)
             [] c.do = "pod" -> DeletePod(c)
             [] c.do = "pvc" -> DeletePvc(c)
             [] c.do = "service" -> EnsureWriteRoutingService
             [] c.do = "unroute" -> RemoveWriteRouting
             [] c.do = "route" -> PublishWriteRouting(c)
             [] c.do = "persist" -> ReplaceStatus(c)
        /\ ctl' = IF Len(ctl.changes) = 1 \/ PatchFails(c) THEN Idle ELSE [ctl EXCEPT !.changes = Tail(@)]
        /\ UNCHANGED <<world, left, waiting, acked, net, unseen>>

(***************************************************************************)
(* What the cluster does.                                                  *)
(***************************************************************************)
\* Genesis is still being installed, or every accepted member has its endpoint.
Exposed ==
    IF Accepted # None THEN Accepted.members \subseteq kube.endpoints
    ELSE Outstanding # None => \E u \in Outstanding.members : agent[u].retained = None

\* A Pod disappears; its claim stays.  The primary's does not, once there is one.
LosePod(p) ==
    /\ p \in kube.pods /\ p.id \in DOMAIN left.lose /\ left.lose[p.id] > 0
    /\ Accepted # None => p.uid # Accepted.primary
    /\ world.wait => Exposed
    /\ kube' = [kube EXCEPT !.pods = @ \ {p}]
    /\ left' = [left EXCEPT !.lose[p.id] = @ - 1]
    /\ UNCHANGED <<world, status, ctl, agent, waiting, acked, net, unseen, uids>>

BecomeFaulty(u) ==
    /\ Running(u) /\ agent[u].up /\ agent[u].id \in left.faulty
    /\ status.initialized
    /\ agent' = [agent EXCEPT ![u].fault = TRUE]
    /\ left' = [left EXCEPT !.faulty = @ \ {agent[u].id}]
    /\ UNCHANGED <<world, status, kube, ctl, waiting, acked, net, unseen, uids>>

Hide(u) ==
    /\ Running(u) /\ agent[u].up /\ agent[u].id \in left.hide
    /\ unseen' = unseen \cup {u}
    /\ left' = [left EXCEPT !.hide = @ \ {agent[u].id}]
    /\ UNCHANGED <<world, status, kube, ctl, agent, waiting, acked, net, uids>>

Return(u) ==
    /\ u \in unseen
    /\ unseen' = unseen \ {u}
    /\ UNCHANGED <<world, left, status, kube, ctl, agent, waiting, acked, net, uids>>

Crash ==
    /\ left.crash /\ ctl # Idle
    /\ left' = [left EXCEPT !.crash = FALSE]
    /\ ctl' = Idle
    /\ UNCHANGED <<world, status, kube, agent, waiting, acked, net, unseen, uids>>

LoseService ==
    /\ left.crash /\ kube.service # None
    /\ left' = [left EXCEPT !.crash = FALSE]
    /\ kube' = [kube EXCEPT !.service = None]
    /\ UNCHANGED <<world, status, ctl, agent, waiting, acked, net, unseen, uids>>

Next ==
    \/ Observe \/ Decide \/ ApplyChange \/ Crash \/ LoseService
    \/ \E c \in net : Deliver(c)
    \/ \E p \in kube.pods : LosePod(p)
    \/ \E u \in DOMAIN agent :
          \/ Finish(u) \/ Write(u) \/ Acknowledge(u)
          \/ \E v \in DOMAIN agent : Replicate(u, v)
          \/ BecomeFaulty(u) \/ Hide(u) \/ Return(u)

Spec == Init /\ [][Next]_vars

Fairness ==
    /\ WF_vars(world.fair /\ Observe)
    /\ WF_vars(world.fair /\ Decide)
    /\ WF_vars(world.fair /\ ApplyChange)
    /\ WF_vars(world.fair /\ \E c \in net : Deliver(c))
    /\ WF_vars(world.fair /\ \E u \in DOMAIN agent : Finish(u))
    /\ WF_vars(world.fair /\ \E u, v \in DOMAIN agent : Replicate(u, v))
    /\ WF_vars(world.fair /\ \E u \in unseen : Return(u))

FairSpec == Spec /\ Fairness

(***************************************************************************)
(* Properties.                                                             *)
(***************************************************************************)
\* Incarnations whose volume, wherever its Pod is, holds an operation.
HoldersOf(config, lsn) == {u \in config.members : Kept(u) /\ agent[u].log >= lsn}

\* Whatever is replaced, and whichever volumes are deleted for it, every write a client
\* was told is done is on the volumes of a write quorum of the accepted or of the
\* outstanding configuration, so that the read quorums of both, which a failover has to
\* ask, contain it.
AcknowledgedIsHeld ==
    acked > 0 => \E config \in {Accepted, Outstanding} \ {None} :
        Cardinality(HoldersOf(config, acked)) >= WriteQuorum(config.members)

\* The controller deletes no Pod, claim or endpoint of a member of the accepted or of
\* the outstanding configuration, however stale the lists are that it decides from.
MembersAreNotDeleted ==
    [][ctl.step = "apply" /\ ctl' # ctl =>
         \A u \in Members :
            /\ Running(u) => u \in Uids(kube'.pods)
            /\ Kept(u) => agent[u].pvc \in Uids(kube'.pvcs)
            /\ u \in kube.endpoints => u \in kube'.endpoints]_vars

Blocked ==
    /\ status.transition # None /\ status.transition.kind = "Bootstrap"
    /\ \E u \in Outstanding.members : ~Running(u)
    /\ \E u \in Outstanding.members : agent[u].cur = Outstanding

Serving ==
    /\ status.initialized /\ status = [Unborn EXCEPT !.initialized = TRUE, !.topology = Accepted]
    /\ kube.service = Accepted.primary /\ agent[Accepted.primary].write = "Granted"
    /\ Uids(kube.pods) = Accepted.members
    /\ \A u \in Accepted.members : agent[u].cur = Accepted /\ agent[u].prev = None /\ ~agent[u].fault
    /\ Uids(kube.pvcs) = {agent[u].pvc : u \in Accepted.members}

\* Once Pods stop disappearing, the set ends with its full membership serving, every
\* member live in the accepted configuration and nothing of an older incarnation left,
\* unless genesis was installed somewhere before one of its incarnations was lost.
ReplacementEnds == world.fair => <>[](Serving \/ Blocked)
=============================================================================
