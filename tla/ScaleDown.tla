----------------------------- MODULE ScaleDown -----------------------------
(***************************************************************************)
(* Secondary scale-down: the controller removes the secondary with the     *)
(* highest id, one at a time, until the desired count is reached.  It      *)
(* freezes the intent, has the primary close writes and certify its prefix *)
(* (the boundary), collects a read quorum of the previous configuration, a *)
(* write quorum of the reduced one under PC/CC and again current-only, and *)
(* commits topology and policy.  Then it grants writes again, retires the  *)
(* removed replica and deletes exactly its endpoint, Pod and volume.       *)
(*                                                                         *)
(* Sources: kuberic-controller/src/evaluator/secondary_scale_down.rs and   *)
(* the parts of evaluator.rs, exact_resources.rs and cluster_api.rs it     *)
(* uses; the agents' side in kuberic-runtime/src: host/removal.rs,         *)
(* host/{coordinator,sqlite_store,service,transport}.rs, runtime.rs and    *)
(* replicator/quorum.rs; protocol/validation/scale_down.rs.                *)
(*                                                                         *)
(* The primary never changes and every removal takes the highest id, so a  *)
(* configuration is its epoch.  One primary writes one history, so a log   *)
(* is the length of its verified prefix.  Reports are read again in every  *)
(* reconciliation, so their sequence numbers, which refuse a report older  *)
(* than a recorded one, always increase and are left out; their process    *)
(* sessions are kept.  A command is admitted and finishes in two steps;    *)
(* the stages between are those of Coordinator.                            *)
(***************************************************************************)
EXTENDS Naturals, FiniteSets

CONSTANTS
    None,
    Primary,
    Worlds       \* [members, desired, writes, restarts, faults, fair]: how many writes
                 \* there are, which replicas may restart once, whether scheduling is
                 \* fair, and what else may happen:
                 \*   "silent": every pod once does not answer an observation
                 \*   "mute": one retained secondary is not reachable at first
                 \*   "cut": calls are cut off by their deadline
                 \*   "lost": the target's pod is lost before or during the removal
                 \*   "occupant": names of deleted objects are taken again
                 \*   "late": commands are delayed and duplicated

VARIABLES
    world,
    status,      \* the accepted status of the resource
    routing,     \* whether the write Service selects the primary
    view,        \* the observations of the running reconciliation
    net,         \* commands on their way to an agent
    agent,       \* the durable state and the access of each agent
    peers,       \* per agent, the peer sessions it knows and has credited
    log,         \* the verified prefix of each replica
    waiting,     \* writes whose clients wait for an answer
    acked,       \* the longest prefix acknowledged to clients
    objects,     \* the Pod, volume and endpoint of each replica
    quiet        \* pods that have been unreachable for the last time

vars == <<world, status, routing, view, net, agent, peers, log, waiting, acked, objects, quiet>>

Members(e) ==
    {r \in world.members :
        r = Primary \/ Cardinality({s \in world.members \ {Primary} : s > r}) >= e - 1}
Target(e) == CHOOSE r \in Members(e) : r \notin Members(e + 1)
Replicas == world.members
Size(e) == Cardinality(Members(e))
WriteQuorum(e) == Size(e) \div 2 + 1
ReadQuorum(e) == Size(e) + 1 - WriteQuorum(e)

Lowest(S) == CHOOSE r \in S : \A s \in S : r <= s

(***************************************************************************)
(* Commands.  An operation id is the kind of the command and its epoch.    *)
(* "only" is the current-only write quorum an acceptance is certified by.  *)
(***************************************************************************)
Command(kind, to, cur, boundary, only, session) ==
    [kind |-> kind, to |-> to, cur |-> cur, boundary |-> boundary, only |-> only,
     session |-> session]

Id(c) == <<c.kind, c.cur>>

IdleAgent == [prev |-> None, cur |-> 1, granted |-> FALSE, pending |-> None, cut |-> FALSE,
              done |-> None, prepared |-> None, boundary |-> 0, accepted |-> 0,
              only |-> {}, retired |-> FALSE, session |-> 0]

Up(r) == objects[r].pod \in {"own", "terminating"}

(***************************************************************************)
(* Admission (host/removal.rs).                                            *)
(***************************************************************************)
\* The store's own checks when a preparation, a commit or a retirement is recorded
\* (sqlite_store.rs): a preparation does not fall behind the recorded one, a commit
\* is of the admitted reduction, a retirement of the installed authority.
PreparationFits(a) == a.prepared # None => a.cur >= a.prepared.cur

CommitFits(c, a) == a.prev = None /\ a.cur = c.cur

RetirementFits(c, a) == ~a.retired /\ a.prev = None /\ a.cur = c.cur - 1

AdmitPreparation(c, a) ==
    /\ ~a.retired /\ a.prev = None /\ a.cur = c.cur - 1
    /\ a.cur > 1 => a.accepted = a.cur
    /\ PreparationFits(a)

\* The commands of a reduction: PC/CC from the installed previous configuration,
\* then current-only; a replay changes nothing.
AdmitConfiguration(c, a) ==
    /\ ~a.retired /\ a.cur <= c.cur
    /\ IF a.cur = c.cur
       THEN a.prev # None \/ (c.kind = "current-only" /\ Id(c) \in {a.pending, a.done})
       ELSE c.kind = "pc-cc" /\ a.prev = None /\ a.cur = c.cur - 1
    /\ c.to = Primary => a.prepared # None /\ a.prepared.cur = c.cur

AdmitCommit(c, a) ==
    ~a.retired /\ CommitFits(c, a) /\ a.accepted = 0

AdmitRetirement(c, a) == RetirementFits(c, a)

\* The availability command of the accepted configuration.
AdmitAccess(c, a) == ~a.retired /\ a.cur = c.cur /\ a.prev = None

Admits(c, a) ==
    CASE c.kind = "prepare" -> AdmitPreparation(c, a)
      [] c.kind \in {"pc-cc", "current-only"} -> AdmitConfiguration(c, a)
      [] c.kind = "accept" -> AdmitCommit(c, a)
      [] c.kind = "retire" -> AdmitRetirement(c, a)
      [] OTHER -> AdmitAccess(c, a)

\* Mutant: a pending command is never taken up again.
RunsOnce(c, a) == a.pending = None

\* One command at a time; only the pending one is taken up again.
Runs(c, a) == a.pending # None => a.pending = Id(c) /\ a.cut

(***************************************************************************)
(* What a command changes when it is admitted: a preparation closes access *)
(* and fails the writes in flight, an installation closes writes.          *)
(***************************************************************************)
Installed(c, a) ==
    LET b == [a EXCEPT !.pending = Id(c), !.cut = FALSE]
    IN  CASE c.kind = "pc-cc" ->
                [b EXCEPT !.prev = c.cur - 1, !.cur = c.cur, !.granted = FALSE,
                          !.accepted = 0, !.boundary = c.boundary]
          [] c.kind = "current-only" ->
                [b EXCEPT !.prev = None, !.granted = FALSE, !.accepted = 0]
          [] c.kind = "prepare" -> [b EXCEPT !.granted = FALSE]
          [] c.kind = "accept" -> [b EXCEPT !.only = c.only]
          [] OTHER -> b

\* A new authority starts without credit; the sessions stay known.
WithoutCredit(p) == [m \in DOMAIN p |-> IF p[m] = None THEN None
                                        ELSE [p[m] EXCEPT !.credit = FALSE]]

\* A commit certificate credits the sessions it names, if they are still the ones
\* the agent knows.
Certified(p, only) ==
    [m \in DOMAIN p |-> IF p[m] # None /\ <<m, p[m].session>> \in only
                        THEN [p[m] EXCEPT !.credit = TRUE] ELSE p[m]]

PeersAfter(c, p) ==
    CASE c.kind \in {"pc-cc", "current-only"} -> WithoutCredit(p)
      [] c.kind = "accept" -> Certified(p, c.only)
      [] OTHER -> p

\* A call is consumed when it is answered, unless copies of it are delayed.
Deliver(c) ==
    LET r == c.to
        a == agent[r]
        new == c.session = a.session /\ a.done # Id(c) /\ Admits(c, a)
    IN  /\ Up(r) /\ Runs(c, a)
        /\ "late" \in world.faults => new
        /\ net' = IF "late" \in world.faults THEN net ELSE net \ {c}
        /\ agent' = IF new THEN [agent EXCEPT ![r] = Installed(c, a)] ELSE agent
        /\ peers' = IF new THEN [peers EXCEPT ![r] = PeersAfter(c, @)] ELSE peers
        /\ waiting' = IF new /\ r = Primary /\ c.kind \in {"prepare", "pc-cc"} THEN {} ELSE waiting
        /\ UNCHANGED <<world, status, routing, view, log, acked, objects, quiet>>

(***************************************************************************)
(* The quorum a member waits for before it accepts a reduction, and the    *)
(* primary before it opens again: itself and the peers it has credited.    *)
(***************************************************************************)
CaughtUp(r) ==
    LET a == agent[r]
        credited == {m \in Members(a.cur) :
                        IF m = r THEN log[m] >= a.boundary
                        ELSE peers[r][m] # None /\ peers[r][m].credit}
    IN  a.cur > 1 => Primary \in credited /\ Cardinality(credited) >= WriteQuorum(a.cur)

\* Mutant: the boundary leaves out the last write of the primary.
PreparedShort(r, a) ==
    [a EXCEPT !.prepared = [cur |-> a.cur + 1,
                            boundary |-> IF log[r] = 0 THEN 0 ELSE log[r] - 1]]

\* The writes in flight were failed when the preparation was admitted; what the
\* primary holds now is the boundary.
Prepared(r, a) == [a EXCEPT !.prepared = [cur |-> a.cur + 1, boundary |-> log[r]]]

Accepted(a) == [a EXCEPT !.accepted = a.cur, !.prepared = None]

\* A retirement closes the replica's access and then forgets its authority.
FencedForRetirement(a) == [a EXCEPT !.granted = FALSE]

Retired(a) == [FencedForRetirement(a) EXCEPT !.retired = TRUE, !.cur = None]

Finished(r, a) ==
    LET b == [a EXCEPT !.pending = None, !.done = a.pending]
        kind == a.pending[1]
    IN  CASE kind = "prepare" -> Prepared(r, b)
          [] kind = "accept" -> Accepted(b)
          [] kind = "retire" -> Retired(b)
          [] kind = "grant" -> [b EXCEPT !.granted = TRUE]
          [] kind = "close" -> [b EXCEPT !.granted = FALSE]
          [] OTHER -> b

\* An acceptance without its quorum fails and stays pending until it is sent
\* again; a write grant waits for its quorum.
Finish(r) ==
    LET a == agent[r]
    IN  /\ Up(r) /\ a.pending # None /\ ~a.cut
        /\ a.pending[1] = "grant" => CaughtUp(r) /\ a.accepted = (IF a.cur = 1 THEN 0 ELSE a.cur)
        /\ agent' = [agent EXCEPT ![r] = IF a.pending[1] = "accept" /\ ~CaughtUp(r)
                                         THEN [a EXCEPT !.cut = TRUE] ELSE Finished(r, a)]
        /\ UNCHANGED <<world, status, routing, view, net, peers, log, waiting, acked, objects, quiet>>

\* execute_inner runs these commands inside the call: the deadline of the call
\* leaves the effect pending with nobody driving it.
Cut(r) ==
    LET a == agent[r]
    IN  /\ "cut" \in world.faults /\ a.pending # None /\ ~a.cut
        /\ a.pending[1] \in {"prepare", "accept", "retire"}
        /\ agent' = [agent EXCEPT ![r].cut = TRUE]
        /\ UNCHANGED <<world, status, routing, view, net, peers, log, waiting, acked, objects, quiet>>

\* A restarted process has a new session, knows no peer and tries once what is
\* pending.  An accepted reduction restores the credit it was certified by.
Restart(r) ==
    /\ r \in world.restarts /\ Up(r) /\ agent[r].session = 0
    /\ agent' = [agent EXCEPT ![r].session = 1, ![r].cut = FALSE]
    /\ peers' = [peers EXCEPT ![r] = [m \in Replicas |->
                    IF agent[r].accepted = agent[r].cur
                       /\ \E s \in {0, 1} : <<m, s>> \in agent[r].only
                    THEN [session |-> CHOOSE s \in {0, 1} : <<m, s>> \in agent[r].only,
                          credit |-> TRUE]
                    ELSE None]]
    /\ waiting' = IF r = Primary THEN {} ELSE waiting
    /\ UNCHANGED <<world, status, routing, view, net, log, acked, objects, quiet>>

(***************************************************************************)
(* Peer discovery: a replica asks a peer for its report, registers its     *)
(* session and, when the report proves the boundary under the same         *)
(* authority with nothing pending, credits it.                             *)
(***************************************************************************)
Witnesses(r, m) ==
    LET a == agent[r]
        b == agent[m]
    IN  /\ b.cur = a.cur /\ b.prev = a.prev /\ a.cur > 1
        /\ b.pending = None /\ log[m] >= a.boundary
        /\ IF a.prev # None THEN b.done = <<"pc-cc", a.cur>> /\ ~b.granted
           ELSE \/ b.accepted = a.cur
                \/ b.done = <<"current-only", a.cur>> /\ ~b.granted

Discovered(r, m) ==
    LET known == IF peers[r][m] # None /\ peers[r][m].session = agent[m].session
                 THEN peers[r][m] ELSE [session |-> agent[m].session, credit |-> FALSE]
    IN  [known EXCEPT !.credit = @ \/ Witnesses(r, m)]

Discover(r, m) ==
    /\ r # m /\ Up(r) /\ Up(m) /\ ~agent[r].retired /\ ~agent[m].retired
    /\ m \in Members(agent[r].cur)
    /\ peers[r][m] # Discovered(r, m)
    /\ peers' = [peers EXCEPT ![r][m] = Discovered(r, m)]
    /\ UNCHANGED <<world, status, routing, view, net, agent, log, waiting, acked, objects, quiet>>

(***************************************************************************)
(* Writes and replication.                                                 *)
(***************************************************************************)
Write ==
    /\ Up(Primary) /\ agent[Primary].granted /\ log[Primary] < world.writes
    /\ log' = [log EXCEPT ![Primary] = @ + 1]
    /\ waiting' = waiting \cup {log[Primary] + 1}
    /\ UNCHANGED <<world, status, routing, view, net, agent, peers, acked, objects, quiet>>

Replicate(r) ==
    LET a == agent[Primary]
        b == agent[r]
    IN  /\ r # Primary /\ Up(Primary) /\ Up(r) /\ ~b.retired
        /\ b.cur = a.cur /\ b.prev = a.prev
        /\ log[r] < log[Primary]
        /\ log' = [log EXCEPT ![r] = @ + 1]
        /\ UNCHANGED <<world, status, routing, view, net, agent, peers, waiting, acked, objects, quiet>>

Acknowledge ==
    LET e == agent[Primary].cur
    IN  /\ Up(Primary) /\ agent[Primary].prev = None
        /\ \E n \in waiting :
              /\ Cardinality({m \in Members(e) : log[m] >= n}) >= WriteQuorum(e)
              /\ acked' = IF n > acked THEN n ELSE acked
              /\ waiting' = waiting \ {n}
        /\ UNCHANGED <<world, status, routing, view, net, agent, peers, log, objects, quiet>>

(***************************************************************************)
(* The controller's observations.                                          *)
(***************************************************************************)
NotRead == [seen |-> "no"]
Absent == [seen |-> "absent"]
Silent == [seen |-> "silent"]
Report(r) == [seen |-> "report", agent |-> agent[r], log |-> log[r]]

\* A muted pod is unreachable until the first removal is committed.
Muted(r) ==
    "mute" \in world.faults /\ r = Lowest(Replicas \ {Primary}) /\ r \notin quiet

Observe(r) ==
    /\ view[r] = NotRead
    /\ "late" \in world.faults \/ net = {}
    /\ \/ /\ view' = [view EXCEPT ![r] = IF ~Up(r) THEN Absent
                                         ELSE IF Muted(r) THEN Silent ELSE Report(r)]
          /\ UNCHANGED quiet
       \/ /\ "silent" \in world.faults /\ r \notin quiet /\ Up(r)
          /\ view' = [view EXCEPT ![r] = Silent]
          /\ quiet' = quiet \cup {r}
    /\ UNCHANGED <<world, status, routing, net, agent, peers, log, waiting, acked, objects>>

\* The muted pod answers again.
Unmute(r) ==
    /\ Muted(r) /\ status.topology > 1
    /\ quiet' = quiet \cup {r}
    /\ UNCHANGED <<world, status, routing, view, net, agent, peers, log, waiting, acked, objects>>

Reported(r) == view[r].seen = "report"

\* The exact objects of a frozen target are looked up by name; an object with
\* another UID is a replacement, over which the removal has no authority.
AbsentObject(o) == o \in {"none", "other"}

Wait == [do |-> "wait"]
Persist(s) == [do |-> "persist", status |-> s, routing |-> routing]
Route(on) == [do |-> "persist", status |-> status, routing |-> on]
Execute(kind, to, cur, boundary, only) ==
    [do |-> "execute",
     command |-> Command(kind, to, cur, boundary, only, view[to].agent.session)]
DeleteExact(r, kind) == [do |-> "delete", of |-> r, kind |-> kind]
Nothing == [do |-> "nothing"]

StableMember(r, e) ==
    LET a == view[r].agent IN a.cur = e /\ a.prev = None /\ a.pending = None

(***************************************************************************)
(* begin: freeze the removal of the highest secondary.                     *)
(***************************************************************************)
\* The members the last commit was not certified by have settled as well.
Settled ==
    LET last == status.last
    IN  last # None /\ last.cur = status.topology =>
            \A m \in Members(last.cur) :
                \/ \E s \in {0, 1} : <<m, s>> \in last.only
                \/ /\ Reported(m) /\ StableMember(m, last.cur)
                   /\ view[m].agent.prepared = None /\ view[m].agent.accepted = last.cur

Begin ==
    LET e == status.topology
        t == Target(e)
        steady(r) == StableMember(r, e) /\ view[r].agent.prepared = None
    IN  IF /\ Settled
           /\ Cardinality({r \in Members(e) \ {t} : Reported(r) /\ steady(r)}) >= ReadQuorum(e)
           /\ objects[t].pvc = "own" /\ objects[t].pod # "other"
           /\ Reported(Primary)
           /\ \A r \in Members(e) : Reported(r) => steady(r)
        THEN Persist([status EXCEPT !.transition =
                 [cur |-> e + 1, endpoint |-> objects[t].endpoint, boundary |-> None,
                  read |-> {}, reduced |-> {}]])
        ELSE Wait

(***************************************************************************)
(* Witnesses: retained members whose reports attest a stage.               *)
(***************************************************************************)
PrepareWitnesses(e, prepared) ==
    {r \in Members(e) :
        /\ Reported(r)
        /\ LET a == view[r].agent
           IN  /\ a.cur = e - 1 /\ a.prev = None /\ ~a.granted /\ a.pending = None
               /\ r = Primary => a.prepared = prepared /\ a.done = <<"prepare", e>>}

StageWitnesses(e, boundary, kind) ==
    {r \in Members(e) :
        /\ Reported(r)
        /\ LET a == view[r].agent
           IN  /\ a.cur = e /\ a.prev = (IF kind = "pc-cc" THEN e - 1 ELSE None)
               /\ ~a.granted /\ a.pending = None /\ a.done = <<kind, e>>
               /\ view[r].log >= boundary}

QuorumOf(e, witnesses) ==
    Primary \in witnesses /\ Cardinality(witnesses) >= WriteQuorum(e)

(***************************************************************************)
(* dispatch: bring every reachable member to PC/CC and, once the reduced   *)
(* quorum is recorded, to current-only; new work before work to be resumed.*)
(***************************************************************************)
Dispatch(e, boundary, only) ==
    LET takes(r) ==
            LET a == view[r].agent IN a.cur = e \/ (a.cur = e - 1 /\ a.prev = None)
        kind(r) ==
            LET a == view[r].agent
            IN  IF a.cur # e \/ (a.prev # None /\ a.pending = <<"pc-cc", e>>) THEN "pc-cc"
                ELSE IF only /\ (a.prev # None \/ a.pending = <<"current-only", e>>)
                THEN "current-only" ELSE None
        wanting == {r \in Members(e) :
                       /\ Reported(r) /\ ~view[r].agent.retired /\ takes(r) /\ kind(r) # None
                       /\ view[r].agent.pending \in {None, <<kind(r), e>>}}
        fresh == {r \in wanting : view[r].agent.cur # e \/ view[r].agent.pending = None}
        next == IF fresh \ {Primary} # {} THEN Lowest(fresh \ {Primary})
                ELSE IF fresh # {} \/ Primary \in wanting THEN Primary
                ELSE Lowest(wanting)
    IN  IF wanting = {} THEN Nothing
        ELSE Execute(kind(next), next, e, boundary, {})

(***************************************************************************)
(* transition: from the frozen intent to the commit.                       *)
(***************************************************************************)
Preparing(t) ==
    LET e == t.cur
        p == view[Primary].agent
        read == PrepareWitnesses(e, p.prepared)
    IN  IF p.prepared = None
        THEN IF p.pending \notin {None, <<"prepare", e>>} THEN Wait
             ELSE Execute("prepare", Primary, e, 0, {})
        ELSE IF /\ p.pending = None /\ p.done = <<"prepare", e>> /\ p.prepared.cur = e
                /\ view[Primary].log >= p.prepared.boundary
                /\ Cardinality(read) >= ReadQuorum(e - 1)
        THEN Persist([status EXCEPT !.transition.boundary = p.prepared.boundary,
                                    !.transition.read = read])
        ELSE Wait

\* The commit changes topology and policy in one write.
Commit(t) ==
    LET e == t.cur
        quorum == StageWitnesses(e, t.boundary, "current-only")
    IN  IF QuorumOf(e, quorum)
        THEN Persist([status EXCEPT
                 !.topology = e, !.transition = None, !.last = None,
                 !.cleanup = [cur |-> e, endpoint |-> t.endpoint, boundary |-> t.boundary,
                              only |-> {<<m, view[m].agent.session>> : m \in quorum},
                              retirement |-> FALSE]])
        ELSE Wait

Transition(t) ==
    LET e == t.cur
        p == view[Primary].agent
        reduced == StageWitnesses(e, t.boundary, "pc-cc")
        plan == Dispatch(e, t.boundary, t.reduced # {})
    IN  IF routing THEN Route(FALSE)
        ELSE IF ~Reported(Primary) THEN Wait
        ELSE IF t.boundary = None THEN Preparing(t)
        ELSE IF /\ p.cur = e - 1
                /\ \/ p.prepared # [cur |-> e, boundary |-> t.boundary]
                   \/ view[Primary].log < t.boundary
        THEN Wait
        ELSE IF plan # Nothing THEN plan
        ELSE IF t.reduced # {} THEN Commit(t)
        ELSE IF QuorumOf(e, reduced) THEN Persist([status EXCEPT !.transition.reduced = reduced])
        ELSE Wait

(***************************************************************************)
(* After the commit: every retained member accepts it.                     *)
(***************************************************************************)
ConvergeCommitted(c) ==
    LET e == c.cur
        plan == Dispatch(e, c.boundary, TRUE)
        open == {r \in Members(e) :
                    /\ Reported(r)
                    /\ LET a == view[r].agent
                       IN  /\ a.cur = e /\ a.prev = None
                           /\ \/ a.pending = <<"accept", e>>
                              \/ a.pending = None /\ a.accepted # e}
    IN  IF plan # Nothing THEN plan
        ELSE IF open # {} THEN Execute("accept", Lowest(open), e, c.boundary, c.only)
        ELSE Nothing

\* The Pod first; its volume only once the Pod is gone.
Deletable(t, c) ==
    LET o == objects[t]
    IN  IF ~AbsentObject(o.pod) THEN "pod" ELSE IF ~AbsentObject(o.pvc) THEN "pvc" ELSE None

\* Writes are granted and routed again before anything is cleaned up.
Service(c, other) ==
    LET e == c.cur
        p == view[Primary].agent
        stable == {r \in Members(e) : Reported(r) /\ StableMember(r, e)
                                                  /\ view[r].log >= c.boundary}
    IN  IF Cardinality(stable) < WriteQuorum(e) \/ ~StableMember(Primary, e)
        THEN IF routing THEN Route(FALSE)
             ELSE IF p.granted THEN Execute("close", Primary, e, 0, {}) ELSE Wait
        ELSE IF ~p.granted THEN Execute("grant", Primary, e, 0, {})
        ELSE IF ~routing THEN Route(TRUE)
        ELSE other

RetireTarget(t, c) ==
    LET a == view[t].agent
    IN  IF a.retired THEN Persist([status EXCEPT !.cleanup.retirement = TRUE])
        ELSE IF a.pending \in {None, <<"retire", c.cur>>}
        THEN Execute("retire", t, c.cur, c.boundary, {})
        ELSE Wait

Clean(c) ==
    LET t == Target(c.cur - 1)
        o == objects[t]
    IN  IF c.endpoint = "own" /\ o.endpoint = "own" THEN DeleteExact(t, "endpoint")
        ELSE IF /\ ~c.retirement /\ ~AbsentObject(o.pod) /\ Reported(t)
                /\ (view[t].agent.retired \/ view[t].agent.cur >= c.cur - 1)
        THEN RetireTarget(t, c)
        ELSE IF Deletable(t, c) # None THEN DeleteExact(t, Deletable(t, c))
        ELSE Persist([status EXCEPT !.cleanup = None,
                         !.last = [cur |-> c.cur, boundary |-> c.boundary, only |-> c.only]])

Cleanup(c) ==
    IF ~Reported(Primary) THEN IF routing THEN Route(FALSE) ELSE Wait
    ELSE IF ConvergeCommitted(c) # Nothing THEN ConvergeCommitted(c)
    ELSE Service(c, Clean(c))

\* completed: members that come back later are brought to the accepted
\* configuration before anything else happens.
Completed(last) ==
    IF ConvergeCommitted(last) # Nothing THEN ConvergeCommitted(last)
    ELSE IF \E r \in Members(last.cur) : Reported(r) /\ ~StableMember(r, last.cur) THEN Wait
    ELSE Nothing

EvaluateStable ==
    LET e == status.topology
        p == view[Primary].agent
        attested == {r \in Members(e) : Reported(r) /\ view[r].agent.cur = e
                                                    /\ view[r].agent.prev = None}
    IN  IF world.desired < Size(e) THEN Begin
        ELSE IF Primary \notin attested THEN Wait
        ELSE IF Cardinality(attested) < WriteQuorum(e)
        THEN IF p.granted THEN Execute("close", Primary, e, 0, {}) ELSE Wait
        ELSE IF ~p.granted THEN Execute("grant", Primary, e, 0, {})
        ELSE IF ~routing THEN Route(TRUE)
        ELSE Wait

(***************************************************************************)
(* What validate_status and validate_report ask before anything is decided.*)
(***************************************************************************)
ValidIntent(t) == t.cur = status.topology + 1 /\ Size(t.cur) >= 1

ValidWitnesses(e, witnesses) == witnesses \subseteq Members(e)

ValidEvidence(t) ==
    /\ t.boundary # None =>
          /\ ValidWitnesses(t.cur, t.read)
          /\ Cardinality(t.read) >= ReadQuorum(t.cur - 1)
    /\ t.reduced # {} => t.boundary # None /\ QuorumOf(t.cur, t.reduced)

ValidCleanup(c) ==
    LET certified == {w[1] : w \in c.only}
    IN  ValidWitnesses(c.cur, certified) /\ QuorumOf(c.cur, certified)

ValidStatus ==
    LET t == status.transition
        c == status.cleanup
    IN  /\ t # None => ValidIntent(t) /\ ValidEvidence(t) /\ c = None
        /\ c # None => ValidCleanup(c) /\ c.cur = status.topology /\ status.last = None
        /\ status.last # None => status.last.cur <= status.topology

\* The removal a report may speak of: the frozen one, or the last committed one.
Removal ==
    IF status.transition # None THEN status.transition.cur
    ELSE IF status.cleanup # None THEN status.cleanup.cur
    ELSE IF status.last # None /\ status.last.cur = status.topology THEN status.last.cur
    ELSE None

\* The report alone: an acceptance is of a current-only configuration, a prepared
\* or retired agent does not write.
ValidRemovalReport(a) ==
    IF a.retired THEN a.pending = None /\ a.prepared = None /\ ~a.granted
    ELSE /\ a.accepted = a.cur => a.prev = None
         /\ a.prepared # None => ~a.granted /\ (a.cur < a.prepared.cur => a.prev = None)

\* The report against the status: no epoch beyond the frozen intent, no member
\* behind the accepted one while a transition is active, no acceptance, grant or
\* current-only configuration ahead of what the controller has recorded.
ValidReportAuthority(r, a) ==
    LET t == status.transition
    IN  /\ a.cur <= (IF t = None THEN status.topology ELSE t.cur)
        /\ r \in Members(status.topology) /\ a.cur < status.topology => t = None /\ r # Primary
        /\ a.accepted # 0 /\ a.accepted = Removal => t = None
        /\ a.prepared # None => a.prepared.cur = Removal
        /\ a.cur > 1 /\ a.cur # Removal => a.prev = None /\ a.cur + 1 = Removal
        /\ a.cur = Removal /\ t # None =>
              ~a.granted /\ t.boundary = a.boundary /\ (a.prev = None => t.reduced # {})

ValidReport(r, a) ==
    ValidRemovalReport(a) /\ IF a.retired THEN Removal # None ELSE ValidReportAuthority(r, a)

SnapshotValid ==
    ValidStatus /\ \A r \in Replicas : Reported(r) => ValidReport(r, view[r].agent)

\* A status or a report that fails validation is unsafe: writes are routed nowhere
\* and nothing else is decided.
Evaluate ==
    IF ~SnapshotValid THEN Route(FALSE)
    ELSE IF status.transition # None THEN Transition(status.transition)
    ELSE IF status.cleanup # None THEN Cleanup(status.cleanup)
    ELSE IF status.last # None /\ Completed(status.last) # Nothing THEN Completed(status.last)
    ELSE EvaluateStable

\* A deletion names the UID and version that were observed; a Pod keeps running
\* until its node has stopped it.
Deleted(o, kind) ==
    CASE kind = "pod" -> [o EXCEPT !.pod = "terminating"]
      [] kind = "pvc" -> [o EXCEPT !.pvc = "none"]
      [] OTHER -> [o EXCEPT !.endpoint = "none"]

Decide ==
    LET plan == Evaluate
    IN  /\ \A r \in Replicas : view[r] # NotRead
        /\ view' = [r \in Replicas |-> NotRead]
        /\ CASE plan.do = "wait" -> UNCHANGED <<status, routing, net, objects>>
             [] plan.do = "persist" -> /\ status' = plan.status /\ routing' = plan.routing
                                       /\ UNCHANGED <<net, objects>>
             [] plan.do = "execute" -> /\ net' = net \cup {plan.command}
                                       /\ UNCHANGED <<status, routing, objects>>
             [] plan.do = "delete" ->
                    /\ objects' = [objects EXCEPT ![plan.of] = Deleted(@, plan.kind)]
                    /\ UNCHANGED <<status, routing, net>>
        /\ UNCHANGED <<world, agent, peers, log, waiting, acked, quiet>>

(***************************************************************************)
(* The cluster.                                                            *)
(***************************************************************************)
PodStops(r) ==
    /\ objects[r].pod = "terminating"
    /\ objects' = [objects EXCEPT ![r].pod = "none"]
    /\ UNCHANGED <<world, status, routing, view, net, agent, peers, log, waiting, acked, quiet>>

LosePod(r) ==
    /\ "lost" \in world.faults /\ r = Target(1) /\ objects[r].pod = "own"
    /\ objects' = [objects EXCEPT ![r].pod = "none"]
    /\ UNCHANGED <<world, status, routing, view, net, agent, peers, log, waiting, acked, quiet>>

\* Somebody else creates an object under the name of a deleted one.
Occupy(r, kind) ==
    /\ "occupant" \in world.faults /\ r \notin Members(status.topology)
    /\ objects[r][kind] = "none"
    /\ objects' = [objects EXCEPT ![r][kind] = "other"]
    /\ UNCHANGED <<world, status, routing, view, net, agent, peers, log, waiting, acked, quiet>>

LoseCall(c) ==
    /\ ~Up(c.to) /\ "late" \notin world.faults
    /\ net' = net \ {c}
    /\ UNCHANGED <<world, status, routing, view, agent, peers, log, waiting, acked, objects, quiet>>

Init ==
    /\ world \in Worlds
    /\ status = [topology |-> 1, transition |-> None, cleanup |-> None, last |-> None]
    /\ routing = TRUE
    /\ view = [r \in world.members |-> NotRead]
    /\ net = {}
    /\ agent = [r \in world.members |->
                   [IdleAgent EXCEPT !.granted = r = Primary,
                                     !.done = IF r = Primary THEN <<"grant", 1>> ELSE None]]
    /\ peers = [r \in world.members |-> [m \in world.members |->
                   IF m = r THEN None ELSE [session |-> 0, credit |-> FALSE]]]
    /\ log = [r \in world.members |-> 0]
    /\ waiting = {} /\ acked = 0 /\ quiet = {}
    /\ objects = [r \in world.members |->
                     [pod |-> "own", pvc |-> "own",
                      endpoint |-> IF r = Primary THEN "none" ELSE "own"]]

Next ==
    \/ \E r \in Replicas : Observe(r) \/ Unmute(r)
    \/ Decide
    \/ \E c \in net : Deliver(c) \/ LoseCall(c)
    \/ \E r \in Replicas : Finish(r) \/ Cut(r) \/ Restart(r)
    \/ \E r, m \in Replicas : Discover(r, m)
    \/ Write \/ Acknowledge
    \/ \E r \in Replicas : Replicate(r)
    \/ \E r \in Replicas : PodStops(r) \/ LosePod(r)
    \/ \E r \in Replicas, k \in {"pod", "pvc", "endpoint"} : Occupy(r, k)

Spec == Init /\ [][Next]_vars

(***************************************************************************)
(* Fairness: the controller is requeued, pods answer, agents run their     *)
(* commands, discover their peers and replicate, nodes stop their Pods.  A *)
(* call that is cut off and sent again fits its deadline at last.          *)
(***************************************************************************)
Quiet == world.fair

Fairness ==
    /\ WF_vars(Quiet /\ Decide)
    /\ WF_vars(Quiet /\ \E r \in Replicas : Observe(r) /\ UNCHANGED quiet)
    /\ WF_vars(Quiet /\ \E r \in Replicas : Unmute(r))
    /\ SF_vars(Quiet /\ \E r \in Replicas : Finish(r))
    /\ WF_vars(Quiet /\ \E c \in net : Deliver(c) \/ LoseCall(c))
    /\ WF_vars(Quiet /\ \E r, m \in Replicas : Discover(r, m))
    /\ WF_vars(Quiet /\ \E r \in Replicas : Replicate(r))
    /\ WF_vars(Quiet /\ \E r \in Replicas : PodStops(r))

FairSpec == Spec /\ Fairness

(***************************************************************************)
(* Properties.                                                             *)
(***************************************************************************)

\* Every write a client was told is done is held by a write quorum of the accepted
\* configuration, at every moment: also in the step that shrinks it, when the
\* removed member may have been one of those that had the write.
AcknowledgedOnAccepted ==
    LET e == status.topology
    IN  Cardinality({m \in Members(e) : log[m] >= acked}) >= WriteQuorum(e)

\* A scale-down ends: the desired count is reached, nothing of the removed replicas
\* is left, every retained member runs the accepted configuration, and the primary
\* serves writes; with lost calls, restarts, unreachable and lost pods.
Ended ==
    /\ Size(status.topology) = world.desired
    /\ status.transition = None /\ status.cleanup = None
    /\ routing /\ agent[Primary].granted
    /\ \A r \in Replicas :
          IF r \in Members(status.topology)
          THEN agent[r].cur = status.topology /\ agent[r].prev = None
          ELSE \A k \in {"pod", "pvc", "endpoint"} : AbsentObject(objects[r][k])

ScaleDownEnds == Quiet ~> Ended
=============================================================================
