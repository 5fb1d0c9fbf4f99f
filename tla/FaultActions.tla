---------------------------- MODULE FaultActions ----------------------------
(***************************************************************************)
(* What surrounds a process that runs public operations: the loop that     *)
(* publishes the location of its primary in the write Service, the         *)
(* controller that answers a reported fault by restarting the process or   *)
(* replacing the replica, and the supervisors that launch a successor.     *)
(*                                                                         *)
(* Sources: kuberic-controller/src/evaluator/public_lifecycle.rs and       *)
(* faults.rs, executor.rs, cluster_api.rs and cluster_api/public_lifecycle *)
(* .rs (all of the preview); kuberic-runtime/src/host/process.rs and the   *)
(* restart actions of host/sqlite_store.rs.                                *)
(*                                                                         *)
(* A location is named by the operation that granted it.  The Service and  *)
(* the accepted status are written only if they did not change since they  *)
(* were read, so an evaluation is one step and its conditional write is    *)
(* another.  Every use of the launch-owner file happens under its lock and *)
(* is one step, and so is every transaction of the store.                  *)
(***************************************************************************)
EXTENDS PublicOperations

CONSTANTS
    Supervisors,    \* 1 runs first, 2 takes its place or runs beside it
    Children        \* successor processes, in the order they are spawned

VARIABLES
    projection, \* the accepted service-location projection
    plan,       \* a service-location plan that is still to be executed
    service,    \* the write Service: the location it names, and its version
    seen,       \* the report the controller observed last
    action,     \* the controller's status: fault action, service clear, last action
    resources,  \* Pod, PVC and endpoint of the replica
    restart,    \* the durable restart record
    supervisor,
    child,
    owner,      \* the launch-owner file
    evidence,   \* the successor's evidence file
    process     \* the process that serves: 0 is the predecessor

hosting == <<projection, plan, service, seen, action, resources, restart, supervisor, child,
             owner, evidence, process>>
allvars == <<vars, hosting>>

(***************************************************************************)
(* The service location.                                                   *)
(***************************************************************************)
LocationAuthorities == {i \in Intents : /\ store.ops[i.id] # None
                                        /\ i.program \in Recipes \/ IsTerminal(i.class)}

LifecycleReport == [op |-> store.current, session |-> session, access |-> WriteAccess]

NormalizeLocation(a, report) ==
    IF /\ report # None /\ a.program \in Recipes /\ ~a.loss
       /\ report.session = a.session /\ report.op = a.id /\ report.access
    THEN a.id ELSE None

ServiceMatches(p) == service.loc = p.loc

ProjectionIsPublished(p) ==
    projection.stage = "Published" /\ ServiceMatches(p) /\ service.version = p.version

ProjectionRevoked(existing, a, report, loc) ==
    \/ IsTerminal(a.class)
    \/ /\ existing # None /\ existing.authority = a.id
       /\ existing.revoked \/ (existing.loc # None /\ loc = None)
    \/ /\ report # None
       /\ report.session # a.session \/ report.op # a.id \/ (report.access /\ loc = None)

Located(loc, deferred, revoked, clear) ==
    [ok |-> TRUE, loc |-> loc, deferred |-> deferred, revoked |-> revoked, clear |-> clear]
Unlocated == [Located(None, None, FALSE, FALSE) EXCEPT !.ok = FALSE]

\* An old location is cleared, and the clear published, before another is written.
ProjectionLocations(existing, a, loc, revoked) ==
    IF existing = None THEN Located(loc, None, revoked, FALSE)
    ELSE IF existing.authority = a.id /\ existing.loc = None
    THEN LET published == ProjectionIsPublished(existing)
         IN CASE loc = None -> Located(None, None, revoked, existing.clear)
              [] loc # None /\ existing.deferred = None /\ existing.revoked -> Unlocated
              [] loc # None /\ existing.deferred = None /\ ~existing.revoked ->
                    IF existing.clear /\ ~published THEN Located(None, loc, FALSE, TRUE)
                    ELSE Located(loc, None, FALSE, FALSE)
              [] OTHER ->
                    IF existing.deferred # loc THEN Unlocated
                    ELSE IF published THEN Located(loc, None, FALSE, FALSE)
                    ELSE Located(None, loc, FALSE, TRUE)
    ELSE IF /\ existing.authority # a.id
            /\ existing.loc # None \/ existing.clear \/ ~ProjectionIsPublished(existing)
    THEN Located(None, loc, revoked, TRUE)
    ELSE IF existing.authority = a.id /\ loc = None THEN Located(None, None, revoked, TRUE)
    ELSE Located(loc, None, revoked, FALSE)

Persist(stage, p) ==
    [kind |-> "status", expected |-> projection, next |-> [stage |-> stage, p |-> p]]

SameProjection(p, q) == p # None /\ [p EXCEPT !.version = q.version] = q

\* One evaluation for an authority and a report, or none when nothing was observed.
EvaluateServiceLocation(a, report) ==
    LET existing == projection.p
        loc == NormalizeLocation(a, report)
        at == ProjectionLocations(existing, a, loc, ProjectionRevoked(existing, a, report, loc))
        desired == [authority |-> a.id, revoked |-> at.revoked, clear |-> at.clear,
                    loc |-> at.loc, deferred |-> at.deferred, version |-> service.version]
        moved == existing.version # service.version
    IN /\ plan = None
       /\ existing # None =>
             \/ Intent(existing.authority).rev < a.rev
             \/ existing.authority = a.id
       /\ at.ok
       /\ plan' = IF ~SameProjection(existing, desired) THEN Persist("Pending", desired)
                  ELSE IF projection.stage = "Published"
                  THEN IF ~ServiceMatches(desired) \/ moved THEN Persist("Pending", desired)
                       ELSE None
                  ELSE IF ServiceMatches(desired) THEN Persist("Published", desired)
                  ELSE IF moved THEN Persist("Pending", desired)
                  ELSE [kind |-> "service", expected |-> projection, next |-> existing]
       /\ plan' # None
       /\ UNCHANGED <<vars, projection, service, seen, action, resources, restart, supervisor,
                      child, owner, evidence, process>>

ExecuteServiceLocation ==
    LET p == IF plan.kind = "status" THEN plan.next.p ELSE plan.next
        current == /\ projection = plan.expected
                   /\ plan.kind = "service" \/ plan.next.stage = "Published" =>
                         service.version = p.version
                   /\ plan.kind = "status" /\ plan.next.stage = "Published" => ServiceMatches(p)
    IN /\ plan # None
       /\ projection' = IF current /\ plan.kind = "status" THEN plan.next ELSE projection
       /\ service' = IF current /\ plan.kind = "service"
                     THEN [loc |-> p.loc, version |-> service.version + 1] ELSE service
       /\ plan' = None
       /\ UNCHANGED <<vars, seen, action, resources, restart, supervisor, child, owner, evidence,
                      process>>

LocationSteps ==
    /\ world.located
    /\ \/ \E a \in LocationAuthorities :
             \E report \in (IF process = None \/ world.unseen THEN {None} ELSE {})
                           \cup (IF process = None THEN {} ELSE {LifecycleReport}) :
                EvaluateServiceLocation(a, report)
       \/ ExecuteServiceLocation

(***************************************************************************)
(* The controller's answer to a fault.                                     *)
(***************************************************************************)
\* A fault is reported by the process that took it.
ReportedFault ==
    IF \E id \in Recorded : FaultClass(Intent(id)) /\ Intent(id).session = session
    THEN store.fault ELSE None

Observe ==
    /\ seen' = IF process = None THEN None
               ELSE [session |-> session, process |-> process, fault |-> ReportedFault,
                     op |-> store.current, access |-> WriteAccess, record |-> restart]
    /\ seen' # seen
    /\ UNCHANGED <<vars, projection, plan, service, action, resources, restart, supervisor,
                   child, owner, evidence, process>>

\* A restart keeps what is persisted; everything else is dropped and replaced.
ExpectedKind(fault) ==
    IF fault = "Transient" /\ world.persisted THEN "Restart" ELSE "DropReplacement"

ReportedAction ==
    [op |-> seen.op, fault |-> seen.fault, kind |-> ExpectedKind(seen.fault),
     session |-> seen.session, process |-> seen.process]

RemoveWriteRouting ==
    /\ service.loc # None
    /\ service' = [loc |-> None, version |-> service.version + 1]
    /\ UNCHANGED <<action, resources, supervisor>>

\* Anything unexpected is unsafe: the status keeps its action, writes are not routed.
Reject == RemoveWriteRouting

PersistAction(next) ==
    /\ action' = next
    /\ UNCHANGED <<service, resources, supervisor>>

IsCleared(a) ==
    /\ action.clear # None /\ action.clear.of = a /\ action.clear.stage = "PublishedAbsent"
    /\ service.loc = None /\ action.clear.version = service.version

\* The write Service names nobody, and the status says at which version.
ServiceClear(a) ==
    LET clear(stage, version) == [of |-> a, stage |-> stage, version |-> version]
    IN IF action.clear = None \/ action.clear.of # a
       THEN PersistAction([action EXCEPT !.clear = clear("Pending", None)])
       ELSE IF service.loc # None THEN RemoveWriteRouting
       ELSE IF action.clear.stage = "Pending"
       THEN PersistAction([action EXCEPT !.clear = clear("PublishedAbsent", service.version)])
       ELSE /\ action.clear.version # service.version
            /\ PersistAction([action EXCEPT !.clear = clear("Pending", None)])

CompleteFault(a) ==
    PersistAction([action EXCEPT !.last = a, !.of = None, !.clear = None])

\* Endpoint, Pod and PVC are deleted in order, each by its uid; a failure stops the
\* plan.  Then the replacement is created.
EvaluateDrop(a) ==
    LET gone(kinds) == [k \in DOMAIN resources |->
                            IF k \notin kinds \/ resources[k] # "old" THEN resources[k]
                            ELSE IF k = "endpoint" THEN "none" ELSE "stopping"]
        made(kinds) == [k \in DOMAIN resources |->
                            IF k \in kinds THEN "new" ELSE resources[k]]
    IN IF \E k \in DOMAIN resources : resources[k] \in {"old", "stopping"}
       THEN /\ seen # None => /\ seen.session = a.session /\ seen.process = a.process
                              /\ seen.fault = a.fault /\ seen.op = a.op
            /\ resources' \in {gone({"endpoint"}), gone({"endpoint", "pod"}),
                               gone({"endpoint", "pod", "pvc"})}
            /\ resources' # resources
            /\ UNCHANGED <<service, action, supervisor>>
       ELSE IF \A k \in DOMAIN resources : resources[k] = "new" THEN CompleteFault(a)
       ELSE /\ resources' \in {made({"pvc"}), made({"pvc", "pod"}),
                               made({"pvc", "pod", "endpoint"})}
            /\ resources' # resources
            /\ UNCHANGED <<service, action, supervisor>>

Supervised == {s \in Supervisors : supervisor[s].alive /\ supervisor[s].handle # None
                                   /\ supervisor[s].at = "idle"}

\* The command reaches the supervisor that holds the predecessor.
DispatchRestart(a) ==
    /\ seen.record # None =>
          \/ seen.record.of = a /\ seen.record.stage # "SuccessorStarted"
          \/ /\ action.last = seen.record.of /\ seen.record.stage = "SuccessorStarted"
             /\ seen.record.session = a.session /\ seen.record.child = a.process
    /\ \E s \in Supervised :
          supervisor' = [supervisor EXCEPT ![s].at = "begin", ![s].action = a]
    /\ UNCHANGED <<service, action, resources>>

Answer(a) ==
    IF ~IsCleared(a) THEN ServiceClear(a)
    ELSE IF a.kind = "Restart" THEN DispatchRestart(a) ELSE EvaluateDrop(a)

EvaluateFault ==
    LET a == action.of
    IN IF ~action.bound THEN PersistAction([action EXCEPT !.bound = TRUE])
       ELSE IF a # None /\ a.kind = "DropReplacement"
       THEN IF seen # None /\ (seen.session # a.session \/ seen.process # a.process)
            THEN Reject ELSE Answer(a)
       ELSE IF seen = None
       THEN ~(a = None /\ action.last # None) /\ Reject
       ELSE IF seen.fault = None /\ (a = None \/ seen.record = None)
       THEN a # None /\ Reject
       ELSE IF seen.access THEN Reject
       ELSE IF seen.fault = None
       THEN IF /\ seen.record.of = a /\ seen.record.stage = "SuccessorStarted"
               /\ seen.record.session = seen.session /\ seen.record.child = seen.process
               /\ seen.session # a.session
            THEN CompleteFault(a) ELSE Reject
       ELSE IF seen.op = None THEN Reject
       ELSE IF a = None THEN PersistAction([action EXCEPT !.of = ReportedAction])
       ELSE IF a # ReportedAction
       THEN IF a.session = seen.session /\ a.fault = "Transient" /\ seen.fault = "Permanent"
            THEN PersistAction([action EXCEPT !.of = ReportedAction]) ELSE Reject
       ELSE Answer(a)

EvaluateFaults ==
    /\ EvaluateFault
    /\ UNCHANGED <<vars, projection, plan, seen, restart, child, owner, evidence, process>>

\* A Pod that is deleted takes its processes with it; then its PVC can go.
PodStops ==
    /\ resources.pod = "stopping"
    /\ resources' = [resources EXCEPT !.pod = "none"]
    /\ process' = None
    /\ child' = [c \in Children |-> IF child[c].at = "none" THEN child[c]
                                    ELSE [child[c] EXCEPT !.at = "dead"]]
    /\ supervisor' = [s \in Supervisors |-> [supervisor[s] EXCEPT !.alive = FALSE, !.at = "dead"]]
    /\ UNCHANGED <<vars, projection, plan, service, seen, action, restart, owner, evidence>>

VolumeGoes ==
    /\ resources.pvc = "stopping" /\ resources.pod # "stopping"
    /\ resources' = [resources EXCEPT !.pvc = "none"]
    /\ UNCHANGED <<vars, projection, plan, service, seen, action, restart, supervisor, child,
                   owner, evidence, process>>

ControllerSteps == world.controlled /\ (Observe \/ EvaluateFaults \/ PodStops \/ VolumeGoes)

(***************************************************************************)
(* The supervisors and the successors they launch.                         *)
(***************************************************************************)
IsAlive(c) == child[c].at \in {"spawned", "recorded", "ready"}
Moves(s, at) == supervisor' = [supervisor EXCEPT ![s].at = at]
Fails(s) == Moves(s, "idle")

\* The durable fault must be the one the action answers.
FaultIsDurable(a) ==
    /\ a.kind = "Restart"
    /\ a.op \in Recorded /\ FaultClass(Intent(a.op))
    /\ a.fault = (IF Intent(a.op).class = "TransientFault" THEN "Transient" ELSE "Permanent")
    /\ Intent(a.op).session = a.session
    /\ store.fault = a.fault

BeginRestartAction(s) ==
    LET a == supervisor[s].action
        replaces == \/ restart = None
                    \/ /\ restart.stage = "SuccessorStarted"
                       /\ restart.session = a.session /\ restart.child = a.process
    IN /\ supervisor[s].at = "begin"
       /\ IF FaultIsDurable(a) /\ restart # None /\ restart.of = a
          THEN /\ Moves(s, IF restart.stage = "Accepted" THEN "signal" ELSE "resume")
               /\ UNCHANGED <<restart, store>>
          ELSE IF FaultIsDurable(a) /\ replaces
          THEN /\ restart' = [of |-> a, stage |-> "Accepted", session |-> None, child |-> None]
               /\ store' = [store EXCEPT !.revoked = TRUE, !.terminal = TRUE]
               /\ Moves(s, "signal")
          ELSE Fails(s) /\ UNCHANGED <<restart, store>>
       /\ UNCHANGED <<child, owner, evidence, process>>

\* The transaction that moves the record on: a record that is there already is kept.
AdvanceRestart(s, expected, next, done) ==
    IF restart.of = supervisor[s].action /\ restart.stage = next
    THEN done /\ UNCHANGED <<restart, store>>
    ELSE IF restart.of = supervisor[s].action /\ restart.stage = expected
    THEN /\ restart' = [restart EXCEPT !.stage = next]
         /\ store' = IF next = "PredecessorContained"
                     THEN [store EXCEPT !.current = None, !.builds = {}] ELSE store
         /\ done
    ELSE Fails(s) /\ UNCHANGED <<restart, store>>

\* The supervisor asks the predecessor to exit and waits for it.
SignalPredecessor(s) ==
    /\ supervisor[s].at = "signal"
    /\ IF supervisor[s].handle = supervisor[s].action.process
       THEN supervisor' = [supervisor EXCEPT ![s].at = "wait", ![s].signalled = TRUE]
       ELSE Fails(s)
    /\ UNCHANGED <<store, restart, child, owner, evidence, process>>

PredecessorExits(s) ==
    /\ supervisor[s].signalled
    /\ process # None /\ process = supervisor[s].action.process
    /\ process' = None
    /\ child' = IF process = 0 THEN child ELSE [child EXCEPT ![process].at = "dead"]
    /\ UNCHANGED <<store, restart, supervisor, owner, evidence>>

PredecessorExited(s) ==
    /\ supervisor[s].at = "wait" /\ process # supervisor[s].action.process
    /\ supervisor' = [supervisor EXCEPT ![s].at = "resume", ![s].handle = None]
    /\ UNCHANGED <<store, restart, child, owner, evidence, process>>

\* A restarted parent takes an accepted action up again, and a record that is
\* only accepted only if the marker proves that the predecessor's parent is gone.
ResumeAfterContainerRestart(s) ==
    /\ supervisor[s].alive /\ supervisor[s].at = "idle"
    /\ restart # None /\ action.of = restart.of
    /\ restart.stage = "Accepted" => supervisor[s].proven /\ process # restart.of.process
    /\ supervisor' = [supervisor EXCEPT ![s].at = "resume", ![s].action = restart.of]
    /\ UNCHANGED <<store, restart, child, owner, evidence, process>>

ResumeExisting(s) ==
    /\ supervisor[s].at = "resume"
    /\ IF restart = None \/ restart.of # supervisor[s].action THEN Fails(s)
       ELSE supervisor' = [supervisor EXCEPT
                ![s].at = IF restart.stage = "Accepted" THEN "contain" ELSE "claim",
                ![s].stage = restart.stage]
    /\ UNCHANGED <<store, restart, child, owner, evidence, process>>

ContainPredecessor(s) ==
    /\ supervisor[s].at = "contain"
    /\ AdvanceRestart(s, "Accepted", "PredecessorContained",
                      supervisor' = [supervisor EXCEPT ![s].at = "claim",
                                                       ![s].stage = "PredecessorContained"])
    /\ UNCHANGED <<child, owner, evidence, process>>

Claim(s, spawn, next) ==
    /\ supervisor' = [supervisor EXCEPT ![s].at = next, ![s].spawn = spawn]
    /\ owner' = IF spawn /\ (owner = None \/ owner.of # supervisor[s].action \/ owner.by # s)
                THEN [of |-> supervisor[s].action, by |-> s, child |-> None] ELSE owner

\* Who may launch: nobody while a recorded child runs, else the owner while it is
\* alive; a dead owner's claim lasts five seconds if no child is recorded.
ClaimSuccessorLaunch(s) ==
    LET next == CASE supervisor[s].stage = "PredecessorContained" -> "launching"
                  [] supervisor[s].stage = "SuccessorStarted" -> "started"
                  [] OTHER -> "launch"
    IN /\ supervisor[s].at = "claim"
       /\ IF owner = None \/ owner.of # supervisor[s].action THEN Claim(s, TRUE, next)
          ELSE IF owner.child # None /\ IsAlive(owner.child) THEN Claim(s, FALSE, next)
          ELSE IF supervisor[owner.by].alive THEN Claim(s, owner.by = s, next)
          ELSE \E aged \in BOOLEAN : Claim(s, owner.child # None \/ aged, next)
       /\ UNCHANGED <<store, restart, child, evidence, process>>

LaunchingSuccessor(s) ==
    /\ supervisor[s].at = "launching"
    /\ AdvanceRestart(s, "PredecessorContained", "SuccessorLaunching", Moves(s, "launch"))
    /\ UNCHANGED <<child, owner, evidence, process>>

EvidenceOf(a) == IF evidence # None /\ evidence.of = a THEN evidence.child ELSE None

\* A record that says the successor started is only checked against its evidence.
ReadSuccessorEvidence(s) ==
    /\ supervisor[s].at = "started"
    /\ Fails(s)
    /\ UNCHANGED <<store, restart, child, owner, evidence, process>>

\* Evidence of a running child is adopted, of a dead one removed.
LaunchSuccessor(s) ==
    LET c == EvidenceOf(supervisor[s].action)
    IN /\ supervisor[s].at = "launch"
       /\ IF c # None /\ IsAlive(c)
          THEN /\ supervisor' = [supervisor EXCEPT ![s].at = "finish", ![s].child = c]
               /\ UNCHANGED evidence
          ELSE /\ evidence' = IF c # None THEN None ELSE evidence
               /\ Moves(s, IF supervisor[s].active # None \/ ~supervisor[s].spawn
                           THEN "await" ELSE "spawn")
       /\ UNCHANGED <<store, restart, child, owner, process>>

SpawnSuccessor(s) ==
    /\ supervisor[s].at = "spawn"
    /\ \E c \in Children :
         /\ child[c].at = "none" /\ \A d \in Children : d < c => child[d].at # "none"
         /\ child' = [child EXCEPT ![c] = [at |-> "spawned", by |-> s,
                                           of |-> supervisor[s].action, session |-> None]]
         /\ supervisor' = [supervisor EXCEPT ![s].at = "record", ![s].child = c]
    /\ UNCHANGED <<store, restart, owner, evidence, process>>

Owns(s, a) == owner # None /\ owner.of = a /\ owner.by = s

RecordLaunchedChild(s) ==
    /\ supervisor[s].at = "record"
    /\ IF Owns(s, supervisor[s].action)
       THEN /\ owner' = [owner EXCEPT !.child = supervisor[s].child]
            /\ supervisor' = [supervisor EXCEPT ![s].at = "await",
                                                ![s].active = supervisor[s].child]
       ELSE Fails(s) /\ UNCHANGED owner
    /\ UNCHANGED <<store, restart, child, evidence, process>>

AwaitSuccessorEvidence(s) ==
    LET c == EvidenceOf(supervisor[s].action)
        active == supervisor[s].active
    IN /\ supervisor[s].at = "await"
       /\ \/ /\ c # None
             /\ supervisor' = [supervisor EXCEPT ![s].at = IF IsAlive(c) THEN "finish" ELSE "idle",
                                                 ![s].child = c]
          \/ /\ c = None /\ active # None /\ ~IsAlive(active)
             /\ supervisor' = [supervisor EXCEPT ![s].at = "idle", ![s].active = None]
          \/ /\ c = None
             /\ Fails(s)
       /\ UNCHANGED <<store, restart, child, owner, evidence, process>>

\* The successor is recorded, and the supervisor holds it from then on.
FinishRestart(s) ==
    LET c == supervisor[s].child
        done == supervisor' = [supervisor EXCEPT ![s].at = "idle", ![s].handle = c,
                                                 ![s].signalled = FALSE]
    IN /\ supervisor[s].at = "finish"
       /\ IF restart.of = supervisor[s].action /\ restart.stage = "SuccessorStarted"
          THEN done /\ UNCHANGED restart
          ELSE IF restart.of = supervisor[s].action /\ restart.stage = "SuccessorLaunching"
          THEN done /\ restart' = [restart EXCEPT !.stage = "SuccessorStarted",
                                                  !.session = child[c].session, !.child = c]
          ELSE Fails(s) /\ UNCHANGED restart
       /\ UNCHANGED <<store, child, owner, evidence, process>>

SupervisorSteps(s) ==
    \/ BeginRestartAction(s) \/ SignalPredecessor(s) \/ PredecessorExited(s)
    \/ ResumeExisting(s) \/ ContainPredecessor(s) \/ ClaimSuccessorLaunch(s)
    \/ LaunchingSuccessor(s) \/ ReadSuccessorEvidence(s) \/ LaunchSuccessor(s)
    \/ SpawnSuccessor(s) \/ RecordLaunchedChild(s) \/ AwaitSuccessorEvidence(s)
    \/ FinishRestart(s)

\* The successor writes itself into the owner file, if its supervisor still owns it.
RecordCurrentChildLaunch(c) ==
    /\ child[c].at = "spawned"
    /\ IF Owns(child[c].by, child[c].of)
       THEN /\ owner' = [owner EXCEPT !.child = c]
            /\ child' = [child EXCEPT ![c].at = "recorded"]
       ELSE child' = [child EXCEPT ![c].at = "dead"] /\ UNCHANGED owner
    /\ UNCHANGED <<vars, restart, supervisor, evidence, process>>

\* Mutant: readiness is published without looking at the owner file again.
PublishChildEvidenceUnowned(c) ==
    /\ child[c].at \in {"spawned", "recorded"}
    /\ child' = [child EXCEPT ![c].at = "ready", ![c].session = session + 1]
    /\ evidence' = [of |-> child[c].of, child |-> c]
    /\ process' = c
    /\ LoadRecords /\ UNCHANGED left
    /\ UNCHANGED <<restart, supervisor, owner>>
\* A successor whose host is open publishes its evidence if it is still the
\* recorded child; from then on it serves, in a session of its own.
PublishChildEvidence(c) ==
    /\ child[c].at = "recorded"
    /\ IF Owns(child[c].by, child[c].of) /\ owner.child = c
       THEN /\ child' = [child EXCEPT ![c].at = "ready", ![c].session = session + 1]
            /\ evidence' = [of |-> child[c].of, child |-> c]
            /\ process' = c
            /\ LoadRecords /\ UNCHANGED left
       ELSE /\ child' = [child EXCEPT ![c].at = "dead"]
            /\ UNCHANGED <<vars, evidence, process>>
    /\ UNCHANGED <<restart, supervisor, owner>>

ChildSteps(c) == RecordCurrentChildLaunch(c) \/ PublishChildEvidence(c)

ChildDies(c) ==
    /\ left.die > 0 /\ IsAlive(c)
    /\ left' = [left EXCEPT !.die = @ - 1]
    /\ child' = [child EXCEPT ![c].at = "dead"]
    /\ process' = IF process = c THEN None ELSE process
    /\ UNCHANGED <<store, restart, supervisor, owner, evidence>>

\* A parent dies, alone or with every process of its container.
SupervisorDies(s) ==
    /\ left.parent > 0 /\ supervisor[s].alive
    /\ left' = [left EXCEPT !.parent = @ - 1]
    /\ supervisor' = [supervisor EXCEPT ![s].alive = FALSE, ![s].at = "dead"]
    /\ \/ UNCHANGED <<child, process>>
       \/ /\ child' = [c \in Children |-> IF IsAlive(c) THEN [child[c] EXCEPT !.at = "dead"]
                                          ELSE child[c]]
          /\ process' = None
    /\ UNCHANGED <<store, restart, owner, evidence>>

\* A parent starts; the marker of the one before proves whether that one is gone.
StartSupervisor(s) ==
    /\ supervisor[s].at = "none" /\ resources.pod = "old"
    /\ world.beside \/ \A t \in Supervisors : ~supervisor[t].alive
    /\ supervisor' = [supervisor EXCEPT ![s].alive = TRUE, ![s].at = "idle",
                          ![s].proven = \E t \in Supervisors : supervisor[t].at = "dead"]
    /\ UNCHANGED <<store, left, restart, child, owner, evidence, process>>

ParentSteps ==
    \/ \E s \in Supervisors :
          \/ SupervisorSteps(s) /\ UNCHANGED left
          \/ PredecessorExits(s) /\ UNCHANGED left
          \/ ResumeAfterContainerRestart(s) /\ UNCHANGED left
          \/ SupervisorDies(s) \/ StartSupervisor(s)
    \/ \E c \in Children : ChildDies(c)

Beside == <<world, session, mem, lock, admission, jobs, dispatch, fence, shutting, root, orphan,
            witness, app, invoked>>

PreviewInit ==
    /\ Init
    /\ projection = [stage |-> "None", p |-> None]
    /\ plan = None
    /\ service = [loc |-> IF world.controlled THEN "routed" ELSE None, version |-> 0]
    /\ seen = None
    /\ action = [bound |-> FALSE, of |-> None, clear |-> None, last |-> None]
    /\ resources = [pod |-> "old", pvc |-> "old", endpoint |-> "old"]
    /\ restart = None
    /\ supervisor = [s \in Supervisors |->
            [alive |-> s = 1, at |-> IF s = 1 THEN "idle" ELSE "none", proven |-> FALSE,
             handle |-> IF s = 1 THEN 0 ELSE None, signalled |-> FALSE, action |-> None,
             stage |-> None, spawn |-> FALSE, child |-> None, active |-> None]]
    /\ child = [c \in Children |-> [at |-> "none", by |-> None, of |-> None, session |-> None]]
    /\ owner = None /\ evidence = None
    /\ process = 0

PreviewNext ==
    \/ process # None /\ Next /\ UNCHANGED hosting
    \/ LocationSteps
    \/ ControllerSteps
    \/ world.controlled /\ ParentSteps
       /\ UNCHANGED <<Beside, projection, plan, service, seen, action, resources>>
    \/ \E c \in Children : ChildSteps(c)
       /\ UNCHANGED <<projection, plan, service, seen, action, resources>>

PreviewSpec == PreviewInit /\ [][PreviewNext]_allvars

Serving(step) == process # None /\ step /\ UNCHANGED hosting
Parent(step) == /\ world.controlled /\ step
                /\ UNCHANGED <<Beside, projection, plan, service, seen, action, resources>>

\* Tasks, loops and processes run; callers launch again what is ready and contain
\* what they are told to; a parent that is gone is started again and resumes.
FairPreviewSpec ==
    /\ PreviewSpec
    /\ WF_allvars(Serving(MarkRead \/ MarkWrite \/ Admitted))
    /\ WF_allvars(Serving(\E j \in jobs : j.kind = "supersede" /\ JobSteps(j)))
    /\ WF_allvars(Serving(\E j \in jobs : j.kind # "supersede" /\ JobSteps(j)))
    /\ WF_allvars(Serving(\E id \in Ids : RootSteps(id)))
    /\ WF_allvars(Serving(\E id \in Ids : SpawnRoot(id)))
    /\ WF_allvars(Serving(\E id \in Ids : OwnerSteps(id)))
    /\ WF_allvars(Serving(\E id \in Ids : Contain(id)))
    /\ WF_allvars(Serving(\E i \in Intents : LaunchAgain(i)))
    /\ WF_allvars(LocationSteps)
    /\ WF_allvars(world.controlled /\ Observe)
    /\ WF_allvars(world.controlled /\ (EvaluateFaults \/ PodStops \/ VolumeGoes))
    /\ \A s \in Supervisors : WF_allvars(Parent(UNCHANGED left /\
            (\/ SupervisorSteps(s) \/ PredecessorExits(s) \/ ResumeAfterContainerRestart(s)
             \/ StartSupervisor(s) /\ \A t \in Supervisors : ~supervisor[t].alive)))
    /\ WF_allvars(\E c \in Children : ChildSteps(c)
                    /\ UNCHANGED <<projection, plan, service, seen, action, resources>>)

(***************************************************************************)
(* Properties.                                                             *)
(***************************************************************************)
\* No parent or successor dies, and the process takes one fault at most.
Undisturbed ==
    /\ world.die = 0 /\ world.parent = 0
    /\ Cardinality({i \in Intents : FaultClass(i)}) <= 1

\* A process takes over in order: the write Service names nobody before it names
\* another location and before the process behind it is stopped, and a successor
\* serves only when the process before it is gone, whichever parent launched it, died
\* or took over meanwhile (evaluator/public_lifecycle.rs:315-321, faults.rs:379-381,
\* process.rs:219-233 and 427-461).
HandoverIsOrdered ==
    [][ /\ service.loc # None /\ service.loc' # service.loc => service.loc' = None
        /\ process # None /\ process' = None /\ left' = left => service.loc = None
        /\ process' # process => process = None \/ process' = None ]_allvars

\* Everything ends: every admitted operation, whatever superseded it, whichever
\* transaction failed, and in whichever process; the fault of an undisturbed process
\* is answered; and the Service names nobody but the primary that has write access
\* (operation_recovery.rs:62-83, faults.rs:223-236, evaluator/public_lifecycle.rs:
\* 328-346).
PreviewSettles ==
    <>[](/\ process # None => \A id \in Recorded : store.ops[id].stage = "Completed"
         /\ Undisturbed => action.of = None
         /\ world.located /\ ~world.unseen /\ service.loc # None =>
                WriteAccess /\ service.loc = store.current)
=============================================================================
