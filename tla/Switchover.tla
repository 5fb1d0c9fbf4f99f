----------------------------- MODULE Switchover -----------------------------
(***************************************************************************)
(* A planned switchover: the controller moves the primary of a replica set *)
(* from Source to Target.  It freezes the request, removes write routing,  *)
(* has the source close writes and certify its prefix (the handoff),       *)
(* installs the requested configuration source first, and accepts it.      *)
(* When the target is lost it restores the source under the starting       *)
(* epoch, or, once anybody may have admitted the requested one, under a    *)
(* newer compensation epoch; when no safe outcome is left it proves every  *)
(* writer closed.                                                          *)
(*                                                                         *)
(* Sources: kuberic-controller/src/evaluator.rs (evaluate_switchover,      *)
(* recover_switchover, switchover_unsafe, begin_switchover and the stable  *)
(* convergence that grants writes), and the agents' side in                *)
(* kuberic-runtime/src: host/{command,coordinator,sqlite_store,service}.rs *)
(* and runtime.rs.                                                         *)
(*                                                                         *)
(* The membership never changes here, so a configuration is its epoch and  *)
(* its primary.  A log is the sequence of the epochs its entries were      *)
(* written in: one primary writes in an epoch, so the epoch names the      *)
(* entry.  The request has one generation, so a handoff certificate is its *)
(* LSN.  A command runs in two steps (admitted, finished); its stages are  *)
(* those of Coordinator.                                                   *)
(***************************************************************************)
EXTENDS Naturals, Sequences, FiniteSets

CONSTANTS
    None,
    Replicas, Source, Target,
    MaxLsn,          \* bound on the length of a log
    Environments     \* the sets of disturbances a behaviour may meet:
                     \*   "lose-target", "lose-source", "lose-other": the pod disappears
                     \*   "fault-target": the target reports a permanent fault
                     \*   "late": commands are delayed and duplicated
                     \*   "silent": a pod may not answer an observation
                     \*   "restart": the source's process restarts once
                     \*   "cut": the preparation call is cut off by the RPC deadline

VARIABLES
    environment,
    status,      \* the accepted status of the resource
    routing,     \* the pod the write Service selects
    view,        \* the observations of the running reconciliation
    net,         \* commands on their way to an agent
    agent,       \* the durable state and the access of each agent
    log,         \* the log each replica has applied
    verified,    \* per replica and epoch, the prefix verified under its authority
    pod,         \* "up", "faulted" or "gone"
    acked        \* the writes clients got an answer for, as <<lsn, epoch>>

vars == <<environment, status, routing, view, net, agent, log, verified, pod, acked>>

Configuration(e, p) == [epoch |-> e, primary |-> p]
Starting == Configuration(1, Source)
Requested == Configuration(2, Target)
Compensation == Configuration(3, Source)
Epochs == 1 .. 3

WriteQuorum == Cardinality(Replicas) \div 2 + 1
ReadQuorum == Cardinality(Replicas) + 1 - WriteQuorum

Max2(a, b) == IF a >= b THEN a ELSE b
Min2(a, b) == IF a <= b THEN a ELSE b

(***************************************************************************)
(* Commands.  An operation id is the kind of the command and its           *)
(* configuration.                                                          *)
(***************************************************************************)
Command(kind, to, prev, cur, handoff, session) ==
    [kind |-> kind, to |-> to, prev |-> prev, cur |-> cur, handoff |-> handoff,
     session |-> session]

Id(c) == <<c.kind, c.cur>>

IdleAgent == [prev |-> None, cur |-> Starting, granted |-> FALSE, pending |-> None,
              cut |-> FALSE, done |-> None, prepared |-> None, retired |-> None,
              retirement |-> FALSE, session |-> 0]

(***************************************************************************)
(* The agents.                                                             *)
(***************************************************************************)
IsPrimary(r) == agent[r].cur.primary = r

\* admit_switchover_preparation; an exact preparation already recorded is answered
\* from the record.
AdmitPreparation(c, a) ==
    /\ ~a.retirement
    /\ a.prepared = None
    /\ a.granted \/ a.pending = Id(c)
    /\ a.cur = c.cur /\ a.prev = None

AdmitGrant(c, a) == a.cur = c.cur /\ a.prev = None /\ a.prepared = None

Exact(c, a) == Id(c) \in {a.done, a.pending}

AdmitRestoration(c, a) ==
    /\ a.cur = c.cur /\ a.prev = None
    /\ ~a.retirement \/ Exact(c, a)
    /\ c.handoff # None =>
          c.handoff = IF a.prepared = None /\ Exact(c, a) THEN a.retired ELSE a.prepared

Completing(c, a) == a.cur = c.cur /\ a.prev # None /\ c.prev = None
CompletedReplay(c, a) ==
    Exact(c, a) /\ c.kind = "current-only" /\ a.cur = c.cur /\ a.prev = None

SourceCertificate(c, a) ==
    \/ c.to # Source
    \/ a.prepared = c.handoff
    \/ a.retired = c.handoff /\ c.cur.primary = Source /\ c.cur.epoch > Starting.epoch
    \/ CompletedReplay(c, a) /\ a.prepared = None

\* The prefix of the starting authority a member brings along.
StartingProgress(r) == IF r = Source THEN Len(log[r]) ELSE verified[r][Starting.epoch]

AdmitAuthority(c, a) ==
    c.cur.primary = c.to => StartingProgress(c.to) >= c.handoff

\* admit_configuration for the commands of a switchover.
AdmitSwitchover(c, a) ==
    /\ c.cur.epoch >= a.cur.epoch
    /\ c.cur.epoch = a.cur.epoch /\ ~Completing(c, a) /\ ~CompletedReplay(c, a) =>
          c.cur = a.cur /\ c.prev = a.prev
    /\ c.kind = "current-only" => Completing(c, a) \/ CompletedReplay(c, a)
    /\ SourceCertificate(c, a)
    /\ c.kind = "pc-cc" /\ c.cur # a.cur => AdmitAuthority(c, a)

Admits(c, a) ==
    CASE c.kind = "prepare" -> AdmitPreparation(c, a)
      [] c.kind = "restore" -> AdmitRestoration(c, a)
      [] c.kind = "grant" -> AdmitGrant(c, a)
      [] c.kind = "close" -> a.cur = c.cur /\ a.prev = None
      [] OTHER -> AdmitSwitchover(c, a)

\* Installing an authority closes writes; the verified prefix is what the member
\* can prove of the handoff.
Installed(c, a) ==
    IF c.kind \in {"pc-cc", "current-only"}
    THEN [a EXCEPT !.prev = c.prev, !.cur = c.cur, !.granted = FALSE, !.pending = Id(c)]
    ELSE [a EXCEPT !.pending = Id(c), !.granted = @ /\ c.kind # "prepare", !.cut = FALSE]

VerifiedAfter(c, v) ==
    IF c.kind = "pc-cc"
    THEN [v EXCEPT ![c.cur.epoch] = Max2(@, Min2(StartingProgress(c.to), c.handoff))]
    ELSE v

\* The command lock admits one command at a time; a newer epoch supersedes.
Runs(c, a) ==
    a.pending # None =>
        \/ a.pending = Id(c) /\ a.cut
        \/ c.kind = "pc-cc" /\ c.cur.epoch > a.pending[2].epoch /\ a.pending[1] # "prepare"

\* A command is consumed when it is answered, unless the network delays copies.
Deliver(c) ==
    LET r == c.to
        a == agent[r]
    IN  /\ pod[r] # "gone" /\ Runs(c, a)
        /\ net' = IF "late" \in environment THEN net ELSE net \ {c}
        /\ IF c.session = a.session /\ a.done # Id(c) /\ Admits(c, a)
           THEN /\ agent' = [agent EXCEPT ![r] = Installed(c, a)]
                /\ verified' = [verified EXCEPT ![r] = VerifiedAfter(c, @)]
           ELSE "late" \notin environment /\ UNCHANGED <<agent, verified>>
        /\ UNCHANGED <<environment, status, routing, view, log, pod, acked>>

\* The quorum the new primary waits for in its Catchup stage.
CaughtUp(r) ==
    agent[r].prev # None =>
        Cardinality({m \in Replicas :
            verified[m][agent[r].cur.epoch] >= status.handoff}) >= WriteQuorum

\* The certificate a finished command retires.
\* Mutant: the certificate stays prepared.
RetireKeeps(a) == [a EXCEPT !.retired = IF a.prepared # None THEN a.prepared ELSE @,
                            !.retirement = TRUE]

Retire(a) == [a EXCEPT !.retired = IF a.prepared # None THEN a.prepared ELSE @,
                       !.prepared = None, !.retirement = TRUE]

\* Mutant: the handoff is certified before the writes in flight are in the log.
FinishedEarly(r, a) ==
    LET b == [a EXCEPT !.pending = None]
        kind == a.pending[1]
    IN  CASE kind = "prepare" -> [b EXCEPT !.prepared = IF log[r] = <<>> THEN 0 ELSE Len(log[r]) - 1]
          [] kind = "grant" -> [b EXCEPT !.granted = TRUE, !.done = a.pending]
          [] kind = "close" -> [b EXCEPT !.granted = FALSE, !.done = a.pending]
          [] kind = "restore" -> [Retire(b) EXCEPT !.granted = FALSE, !.done = a.pending]
          [] kind = "current-only" ->
                [(IF r = Source THEN Retire(b) ELSE b) EXCEPT !.done = a.pending]
          [] OTHER -> [b EXCEPT !.done = a.pending]

\* prepare_switchover: the source certifies what it verified under its authority.
HandoffLsn(r) == verified[r][agent[r].cur.epoch]

Finished(r, a) ==
    LET b == [a EXCEPT !.pending = None]
        kind == a.pending[1]
    IN  CASE kind = "prepare" -> [b EXCEPT !.prepared = HandoffLsn(r)]
          [] kind = "grant" -> [b EXCEPT !.granted = TRUE, !.done = a.pending]
          [] kind = "close" -> [b EXCEPT !.granted = FALSE, !.done = a.pending]
          [] kind = "restore" -> [Retire(b) EXCEPT !.granted = FALSE, !.done = a.pending]
          [] kind = "current-only" ->
                [(IF r = Source THEN Retire(b) ELSE b) EXCEPT !.done = a.pending]
          [] OTHER -> [b EXCEPT !.done = a.pending]

Finish(r) ==
    /\ pod[r] # "gone" /\ agent[r].pending # None /\ ~agent[r].cut
    /\ agent[r].pending[1] = "pc-cc" /\ IsPrimary(r) => CaughtUp(r)
    /\ agent' = [agent EXCEPT ![r] = Finished(r, @)]
    /\ UNCHANGED <<environment, status, routing, view, net, log, verified, pod, acked>>

\* execute_inner runs a preparation inside the call: when the controller's RPC
\* deadline drops the call, the effect stays pending and nobody drives it.
Cut(r) ==
    /\ "cut" \in environment /\ agent[r].pending # None
    /\ agent[r].pending[1] = "prepare" /\ ~agent[r].cut
    /\ agent' = [agent EXCEPT ![r].cut = TRUE]
    /\ UNCHANGED <<environment, status, routing, view, net, log, verified, pod, acked>>

\* A restarted process resumes what is pending; calls of its old session are refused.
Restart(r) ==
    /\ "restart" \in environment /\ r = Source /\ pod[r] # "gone"
    /\ agent[r].session = 0
    /\ agent' = [agent EXCEPT ![r].session = 1, ![r].cut = FALSE]
    /\ UNCHANGED <<environment, status, routing, view, net, log, verified, pod, acked>>
(***************************************************************************)
(* Writes and replication.                                                 *)
(***************************************************************************)
Write(p) ==
    /\ pod[p] # "gone" /\ agent[p].granted /\ Len(log[p]) < MaxLsn
    /\ log' = [log EXCEPT ![p] = Append(@, agent[p].cur.epoch)]
    /\ verified' = [verified EXCEPT ![p][agent[p].cur.epoch] = Len(log[p]) + 1]
    /\ UNCHANGED <<environment, status, routing, view, net, agent, pod, acked>>

\* The primary sends its log to a member of the same authority.
Replicate(p, r) ==
    LET e == agent[p].cur.epoch
        n == verified[r][e] + 1
    IN  /\ pod[p] # "gone" /\ pod[r] # "gone" /\ p # r /\ IsPrimary(p)
        /\ agent[r].cur = agent[p].cur /\ agent[r].prev = agent[p].prev
        /\ n <= Len(log[p])
        /\ n <= Len(log[r]) => log[r][n] = log[p][n]
        /\ log' = [log EXCEPT ![r] = IF n > Len(@) THEN Append(@, log[p][n]) ELSE @]
        /\ verified' = [verified EXCEPT ![r][e] = n]
        /\ UNCHANGED <<environment, status, routing, view, net, agent, pod, acked>>

\* A client gets its answer once a write quorum has verified the write.
Acknowledge(p) ==
    LET e == agent[p].cur.epoch
    IN  /\ pod[p] # "gone" /\ IsPrimary(p) /\ agent[p].prev = None
        /\ \E n \in 1 .. Len(log[p]) :
              /\ log[p][n] = e /\ <<n, e>> \notin acked
              /\ Cardinality({m \in Replicas : verified[m][e] >= n}) >= WriteQuorum
              /\ acked' = acked \cup {<<n, e>>}
        /\ UNCHANGED <<environment, status, routing, view, net, agent, log, verified, pod>>

(***************************************************************************)
(* The controller: observe every pod, evaluate, carry out one plan.        *)
(***************************************************************************)
NotRead == [seen |-> "no"]
Absent == [seen |-> "absent"]
Silent == [seen |-> "silent"]

Report(r) ==
    [seen |-> IF pod[r] = "faulted" THEN "faulted" ELSE "healthy", agent |-> agent[r],
     progress |-> Len(log[r]), verified |-> verified[r][agent[r].cur.epoch],
     caught |-> IsPrimary(r) => CaughtUp(r)]

\* The pods are read one after the other, and the agents go on meanwhile.
Observe(r) ==
    /\ view[r] = NotRead
    /\ "late" \in environment \/ net = {}
    /\ \/ view' = [view EXCEPT ![r] = IF pod[r] = "gone" THEN Absent ELSE Report(r)]
       \/ /\ "silent" \in environment /\ pod[r] # "gone"
          /\ view' = [view EXCEPT ![r] = Silent]
    /\ UNCHANGED <<environment, status, routing, net, agent, log, verified, pod, acked>>

Wait == [do |-> "wait"]
Persist(s) == [do |-> "persist", status |-> s, routing |-> routing]
Route(to) == [do |-> "persist", status |-> status, routing |-> to]
Execute(kind, to, prev, cur, handoff) ==
    [do |-> "execute",
     command |-> Command(kind, to, prev, cur, handoff, view[to].agent.session)]
DeleteExactPod(r) == [do |-> "delete", pod |-> r]

Reported(r) == view[r].seen \in {"healthy", "faulted"}
Healthy(r) == view[r].seen = "healthy"
DefinitivelyLost(r) == view[r].seen \in {"absent", "faulted"}
Surviving == {r \in Replicas : ~DefinitivelyLost(r)}

StableMember(r, configuration) ==
    LET a == view[r].agent
    IN  a.cur = configuration /\ a.prev = None /\ a.pending = None

MemberComplete(r, prev, cur, only) ==
    LET a == view[r].agent
    IN  /\ a.cur = cur /\ a.prev = (IF only THEN None ELSE prev)
        /\ ~a.granted /\ a.pending = None
        /\ a.done = <<IF only THEN "current-only" ELSE "pc-cc", cur>>
        /\ only => a.prepared = None

\* project_switchover_request: the target is an idle secondary of the accepted
\* configuration.  A rejected request leaves the stable convergence running.
RequestAccepted ==
    /\ status.receipt = None /\ status.topology.primary # Target
    /\ Healthy(Target) /\ StableMember(Target, status.topology)
    /\ ~view[Target].agent.granted /\ view[Target].agent.prepared = None

\* begin_switchover.
Begin ==
    IF \A r \in Replicas : Healthy(r) /\ StableMember(r, status.topology)
                           /\ view[r].agent.prepared = None
    THEN Persist([status EXCEPT !.resolution = "requested", !.current = Requested])
    ELSE Wait

\* What evaluate_stable does for an accepted configuration with no request to
\* start: grant writes to the attested primary and publish its routing.
EvaluateStable ==
    LET p == status.topology.primary
        attested == {r \in Replicas : Healthy(r) /\ view[r].agent.cur = status.topology
                                                 /\ view[r].agent.prev = None}
    IN  IF RequestAccepted /\ ~\E r \in Replicas : DefinitivelyLost(r) THEN Begin
        ELSE IF p \notin attested \/ Cardinality(attested) < WriteQuorum THEN Wait
        ELSE IF ~view[p].agent.granted THEN Execute("grant", p, None, status.topology, None)
        ELSE IF routing \notin {None, p} THEN Route(None)
        ELSE IF routing = None THEN Route(p)
        ELSE Wait

\* switchover_unsafe.  The decision is recorded before anything is closed.
NeedsClosing(r) ==
    /\ view[r].seen # "absent"
    /\ ~(Reported(r) /\ ~view[r].agent.granted /\ view[r].agent.pending = None)

CloseWriter(r) ==
    IF /\ Reported(r) /\ r = status.topology.primary
       /\ StableMember(r, status.topology)
    THEN Execute("close", r, None, status.topology, None)
    ELSE DeleteExactPod(r)

SwitchoverUnsafe ==
    IF status.resolution = "none" THEN Route(None)
    ELSE IF status.resolution # "unsafe"
    THEN [do |-> "persist", status |-> [status EXCEPT !.resolution = "unsafe"], routing |-> None]
    ELSE IF routing # None THEN Route(None)
    ELSE IF \E r \in Replicas : NeedsClosing(r)
    THEN CloseWriter(CHOOSE r \in Replicas :
             NeedsClosing(r) /\ \A s \in Replicas : NeedsClosing(s) => r <= s)
    ELSE Persist([status EXCEPT !.receipt = "unsafe"])
\* The receipt ends the transition.
Receipted(s, outcome) == [s EXCEPT !.receipt = outcome, !.resolution = "none"]

\* recover_switchover: Continue when the switchover goes on as planned.
Continue == [do |-> "continue"]

\* Nobody can have admitted the requested epoch: retire the preparation, even one
\* that never arrived, under the starting authority.
Restore ==
    LET src == view[Source].agent
    IN  IF ~\A r \in Replicas : \/ view[r].seen = "absent"
                                \/ /\ Reported(r) /\ StableMember(r, Starting)
                                   /\ r = Source \/ ~view[r].agent.granted
        THEN Wait
        ELSE IF status.resolution # "restoring"
        THEN Persist([status EXCEPT !.resolution = "restoring"])
        ELSE IF src.prepared # None
        THEN IF status.handoff \notin {None, src.prepared} \/ src.granted
             THEN SwitchoverUnsafe
             ELSE Execute("restore", Source, None, Starting, src.prepared)
        ELSE IF src.done # <<"restore", Starting>>
        THEN IF status.handoff # None THEN Wait
             ELSE Execute("restore", Source, None, Starting, None)
        ELSE Persist(Receipted(status, "restored"))

Compensate ==
    LET src == view[Source].agent
        reports == {r \in Replicas : Healthy(r) /\ ~view[r].agent.granted
                                    /\ view[r].agent.cur \in {Starting, Requested}}
    IN  IF \/ status.handoff = None
           \/ /\ src.prepared # status.handoff
              /\ ~MemberComplete(Source, Starting, Requested, TRUE)
           \/ src.granted \/ view[Source].progress < status.handoff
           \/ Cardinality(Surviving) < WriteQuorum
        THEN SwitchoverUnsafe
        ELSE IF Cardinality(reports) < ReadQuorum
        THEN IF Cardinality(Surviving) < ReadQuorum THEN SwitchoverUnsafe ELSE Wait
        ELSE Persist([status EXCEPT !.resolution = "compensating", !.current = Compensation])

Admitted ==
    \E r \in Replicas : Reported(r) /\ view[r].agent.cur.epoch >= Requested.epoch

RecoverSwitchover ==
    IF DefinitivelyLost(Source) THEN SwitchoverUnsafe
    ELSE IF status.resolution = "compensating"
    THEN IF \/ Cardinality(Surviving) < Max2(WriteQuorum, ReadQuorum)
            \/ Healthy(Source) /\ view[Source].progress < status.handoff
         THEN SwitchoverUnsafe ELSE Continue
    ELSE IF status.resolution # "restoring" /\ ~DefinitivelyLost(Target) THEN Continue
    ELSE IF ~Healthy(Source) THEN Wait
    ELSE IF Admitted THEN Compensate ELSE Restore

(***************************************************************************)
(* evaluate_switchover.                                                    *)
(***************************************************************************)
\* Without a recorded handoff: prepare the source, or record what it certified.
Prepare ==
    LET src == view[Source].agent
    IN  IF ~StableMember(Source, Starting) THEN Wait
        ELSE IF src.prepared # None
        THEN IF src.prepared > view[Source].progress \/ src.granted THEN SwitchoverUnsafe
             ELSE Persist([status EXCEPT !.handoff = src.prepared])
        ELSE IF ~src.granted THEN Wait
        ELSE Execute("prepare", Source, None, Starting, None)

\* The source before the other members, the new primary last.
Rank(r) == IF r = status.current.primary THEN 1000 ELSE IF r = Source THEN 0 ELSE r
First(S) == CHOOSE r \in S : \A s \in S : Rank(r) <= Rank(s)

Previous == IF status.resolution = "compensating" THEN Requested ELSE Starting

CurrentOnly(r) == view[r].agent.cur = status.current /\ view[r].agent.prev = None

TargetProven ==
    view[Target].agent.cur.epoch = Starting.epoch =>
        StableMember(Target, Starting) /\ view[Target].verified >= status.handoff

\* PC/CC on every participant, joint quorums, certified catch-up, then current-only.
Install(participants) ==
    LET cur == status.current
        p == cur.primary
        joint == {r \in participants : ~CurrentOnly(r)}
        pcCc == {r \in joint : ~MemberComplete(r, Previous, cur, FALSE)}
        only == {r \in participants : ~MemberComplete(r, Previous, cur, TRUE)}
        started == joint # participants
    IN  IF pcCc # {}
        THEN Execute("pc-cc", First(pcCc), Previous, cur, status.handoff)
        ELSE IF \/ ~started /\ Cardinality(joint) < WriteQuorum
                \/ ~view[p].caught \/ view[p].verified < status.handoff
        THEN Wait
        ELSE IF only # {}
        THEN Execute("current-only", First(only), None, cur, status.handoff)
        ELSE Persist(Receipted([status EXCEPT !.topology = cur],
                               IF cur = Requested THEN "completed" ELSE "compensated"))

SourceRetained ==
    LET src == view[Source].agent
    IN  /\ ~src.granted
        /\ \/ MemberComplete(Source, Previous, status.current, TRUE)
           \/ status.resolution = "compensating"
              /\ (\/ MemberComplete(Source, Starting, Requested, TRUE)
                  \/ src.cur = Compensation)
           \/ src.prepared = status.handoff

Requesting ==
    LET lost == {r \in Replicas : DefinitivelyLost(r)}
        silent == {r \in Replicas : ~Healthy(r)}
        firstBad == CHOOSE r \in silent : \A s \in silent : r <= s
    IN  IF ~Healthy(Source) \/ ~Healthy(Target) THEN Wait
        ELSE IF silent # {}
        THEN IF firstBad \in lost THEN SwitchoverUnsafe ELSE Wait
        ELSE IF status.handoff = None THEN Prepare
        ELSE IF ~SourceRetained THEN SwitchoverUnsafe
        ELSE IF ~TargetProven THEN Wait
        ELSE Install(Replicas)

Compensating ==
    LET extant == {r \in Replicas : view[r].seen # "absent"}
        faulted == {r \in extant : view[r].seen = "faulted" /\ r # Source}
    IN  IF ~Healthy(Source) THEN Wait
        ELSE IF ~SourceRetained THEN SwitchoverUnsafe
        ELSE IF faulted # {} THEN DeleteExactPod(First(faulted))
        ELSE IF \E r \in extant : ~Reported(r) THEN Wait
        ELSE Install(extant)

EvaluateSwitchover ==
    IF routing # None THEN Route(None)
    ELSE IF RecoverSwitchover # Continue THEN RecoverSwitchover
    ELSE IF status.resolution = "compensating" THEN Compensating
    ELSE Requesting

(***************************************************************************)
(* What validate_accepted_status and validate_report_authority ask of a    *)
(* switchover before the evaluator looks at it.                            *)
(***************************************************************************)
ValidStatus ==
    status.resolution # "none" =>
        /\ status.topology = Starting
        /\ status.receipt # None => status.receipt = "unsafe" /\ status.resolution = "unsafe"
        /\ CASE status.resolution \in {"requested", "restoring"} -> status.current = Requested
             [] status.resolution = "compensating" ->
                    status.current = Compensation /\ status.handoff # None
             [] OTHER -> status.current \in {Requested, Compensation}

ValidReport(a) ==
    status.resolution # "none" =>
        /\ a.cur.epoch > status.topology.epoch => ~a.granted /\ status.handoff # None
        /\ a.cur \in {status.topology, Requested, status.current}
        /\ a.cur = Requested /\ a.prev # None => a.prev = status.topology

\* The receipt of a finished switchover names the primary it ended with.
ValidReceipt ==
    /\ status.receipt = "completed" => status.topology.primary = Target
    /\ status.receipt \in {"restored", "compensated"} => status.topology.primary # Target

\* validate_report_internal: the report by itself.
ValidReportInternal(r) ==
    LET a == view[r].agent
    IN  /\ a.granted => a.cur.primary = r
        /\ view[r].verified <= view[r].progress
        /\ a.prepared # None => r = Source
        /\ a.prev # None => a.prev.epoch < a.cur.epoch

SnapshotValid ==
    /\ ValidStatus /\ ValidReceipt
    /\ \A r \in Replicas : Reported(r) => ValidReportInternal(r) /\ ValidReport(view[r].agent)

\* Contradictory evidence during a switchover makes its outcome unsafe.
Evaluate ==
    CASE status.resolution = "unsafe" \/ ~SnapshotValid -> SwitchoverUnsafe
      [] status.resolution = "none" -> EvaluateStable
      [] OTHER -> EvaluateSwitchover

\* The plan is carried out and the next reconciliation starts from nothing.
Decide ==
    LET plan == Evaluate
    IN  /\ \A r \in Replicas : view[r] # NotRead
        /\ view' = [r \in Replicas |-> NotRead]
        /\ CASE plan.do = "wait" -> UNCHANGED <<status, routing, net, pod>>
             [] plan.do = "persist" -> /\ status' = plan.status /\ routing' = plan.routing
                                       /\ UNCHANGED <<net, pod>>
             [] plan.do = "execute" -> /\ net' = net \cup {plan.command}
                                       /\ UNCHANGED <<status, routing, pod>>
             [] plan.do = "delete" -> /\ pod' = [pod EXCEPT ![plan.pod] = "gone"]
                                      /\ UNCHANGED <<status, routing, net>>
        /\ UNCHANGED <<environment, agent, log, verified, acked>>

(***************************************************************************)
(* Disturbances.                                                           *)
(***************************************************************************)
Named(r) == IF r = Source THEN "source" ELSE IF r = Target THEN "target" ELSE "other"

LosePod(r) ==
    /\ "lose-" \o Named(r) \in environment /\ pod[r] = "up"
    /\ pod' = [pod EXCEPT ![r] = "gone"]
    /\ UNCHANGED <<environment, status, routing, view, net, agent, log, verified, acked>>

FaultPod(r) ==
    /\ "fault-" \o Named(r) \in environment /\ pod[r] = "up"
    /\ pod' = [pod EXCEPT ![r] = "faulted"]
    /\ UNCHANGED <<environment, status, routing, view, net, agent, log, verified, acked>>

\* The call to a pod that is gone fails.
LoseCall(c) ==
    /\ pod[c.to] = "gone" /\ "late" \notin environment
    /\ net' = net \ {c}
    /\ UNCHANGED <<environment, status, routing, view, agent, log, verified, pod, acked>>

Init ==
    /\ environment \in Environments
    /\ status = [topology |-> Starting, resolution |-> "none", handoff |-> None,
                 current |-> None, receipt |-> None]
    /\ routing = Source
    /\ view = [r \in Replicas |-> NotRead]
    /\ net = IF "late" \in environment    \* a copy of the call that opened the source
             THEN {Command("grant", Source, None, Starting, None, 0)} ELSE {}
    /\ agent = [r \in Replicas |->
                   [IdleAgent EXCEPT !.granted = r = Source,
                                     !.done = IF r = Source THEN <<"grant", Starting>> ELSE None]]
    /\ log = [r \in Replicas |-> <<>>]
    /\ verified = [r \in Replicas |-> [e \in Epochs |-> 0]]
    /\ pod = [r \in Replicas |-> "up"]
    /\ acked = {}

Next ==
    \/ \E r \in Replicas : Observe(r)
    \/ Decide
    \/ \E c \in net : Deliver(c) \/ LoseCall(c)
    \/ \E r \in Replicas : Finish(r) \/ Cut(r) \/ Restart(r)
    \/ \E p \in Replicas : Write(p) \/ Acknowledge(p)
    \/ \E p, r \in Replicas : Replicate(p, r)
    \/ \E r \in Replicas : LosePod(r) \/ FaultPod(r)

Spec == Init /\ [][Next]_vars
(***************************************************************************)
(* Fairness.  The controller is requeued and the agents run their commands *)
(* and their replication; pods answer again and again.                     *)
(***************************************************************************)
Quiet == environment \cap {"late", "silent"} = {}

Fairness ==
    /\ WF_vars(Quiet /\ Decide)
    /\ \A r \in Replicas : WF_vars(Quiet /\ Observe(r)) /\ WF_vars(Quiet /\ Finish(r))
    /\ WF_vars(Quiet /\ \E c \in net : Deliver(c) \/ LoseCall(c))
    /\ \A p, r \in Replicas : WF_vars(Quiet /\ Replicate(p, r))

FairSpec == Spec /\ Fairness

(***************************************************************************)
(* Properties.                                                             *)
(***************************************************************************)
MayWrite(r) == pod[r] # "gone" /\ agent[r].granted

\* Whoever may write is the only one who may, and has every write a client was
\* ever told is done, at the place it was acknowledged at: through preparation,
\* promotion, restoration and compensation, with late and repeated commands.
WriterHasEverything ==
    \A r \in Replicas : MayWrite(r) =>
        /\ \A s \in Replicas : MayWrite(s) => r = s
        /\ \A w \in acked : w[1] <= Len(log[r]) /\ log[r][w[1]] = w[2]

\* A switchover the controller has accepted ends, and unless its outcome is
\* unsafe, the primary it ends with serves writes again, pods being lost or not.
Ended ==
    \/ status.receipt = "unsafe"
    \/ routing = status.topology.primary /\ agent[routing].granted
    \/ pod[status.topology.primary] # "up"

SwitchoverEnds ==
    Quiet /\ "cut" \notin environment /\ status.resolution # "none" ~> Ended

=============================================================================
