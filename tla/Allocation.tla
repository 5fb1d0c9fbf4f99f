----------------------------- MODULE Allocation -----------------------------
(***************************************************************************)
(* How scale-up gets its candidate: the controller records an allocation   *)
(* before it creates anything, creates a volume and a Pod under fixed      *)
(* names, freezes their UIDs, initializes the agent, builds the replica,   *)
(* and starts the admission, after which there is no way back.  Until then *)
(* every attempt may be abandoned: the user takes the request back, names  *)
(* turn out to be taken, the candidate fails or disappears.  An abandoned  *)
(* attempt deletes exactly what it created and is then retried or closed.  *)
(*                                                                         *)
(* Sources: kuberic-controller/src/evaluator/scale_up.rs (begin,           *)
(* allocation, provisioning, freeze_cleanup, cleanup and the start of      *)
(* transition), exact_resources.rs, cluster_api.rs and normalize.rs.       *)
(*                                                                         *)
(* The accepted primary is the source of the build; it may be silent for a *)
(* while or lose its write grant in a restart, but is not replaced (that   *)
(* is the subject of Failover and ScaleUp).  The copy itself is that of    *)
(* ReplicaBuild, and here only what both ends report of it.  An attempt is *)
(* <<generation, retry>>, which is what makes its operation id unique.     *)
(***************************************************************************)
EXTENDS Naturals, Sequences

CONSTANTS
    None,
    Worlds      \* [changes, faults]: how often the user changes the replica count, and
                \* the disturbances that may happen once each:
                \*   "pvc taken", "pod taken": a stranger takes the name
                \*   "pvc lost", "pod lost": the object is deleted by a stranger
                \*   "failed": the candidate reports a permanent fault
                \*   "aborted": an attempt to build fails and leaves its evidence
                \*   "busy": the source has other durable work
                \*   "silent": the source does not answer for a while
                \*   "restart": the source restarts and no longer accepts writes
                \*   "crash": the controller restarts

VARIABLES
    world,
    wanted,      \* whether the user wants more replicas than are accepted
    generation,  \* of the specification
    status,      \* the accepted status
    uids,        \* UIDs given out
    pvc, pod, endpoint,   \* the objects under the candidate's names
    agent,       \* the candidate's agent
    source,      \* the source's agent: pending and last operation, answering, serving
    build,       \* what source and candidate report of the attempt's build
    view,        \* what the running reconciliation has read
    creating     \* the Pod about to be created

vars == <<world, wanted, generation, status, uids, pvc, pod, endpoint, agent, source, build,
          view, creating>>

objects == <<uids, pvc, pod, endpoint>>

Stranger == <<0, 0>>

Attempt(op) == [op |-> op, requested |-> FALSE, pvc |-> None, pod |-> None, cancelled |-> FALSE]

Stable == [phase |-> "stable"]
Allocating(a) == [phase |-> "allocation", attempt |-> a]
Provisioning(op, d, v) == [phase |-> "provisioning", op |-> op, pod |-> d, pvc |-> v]
Cleaning(p) == [phase |-> "cleanup", op |-> p.op, pod |-> p.pod, pvc |-> p.pvc,
                endpoint |-> view.endpoint]

\* What each side reports of the build: nothing, the snapshot boundary, the frozen
\* catch-up boundary, completion.
NoBuild == [source |-> "none", target |-> "none"]
BuiltBoth == [source |-> "done", target |-> "done"]

(***************************************************************************)
(* Observation: the exact Pod first, then the volume, the endpoint and the *)
(* agents.                                                                 *)
(***************************************************************************)
Unread == [read |-> "nothing"]

ObservePod ==
    /\ view = Unread /\ creating = None
    /\ view' = [read |-> "pod", wanted |-> wanted, generation |-> generation, pod |-> pod]
    /\ UNCHANGED <<world, wanted, generation, status, objects, agent, source, build, creating>>

\* An agent answers for the Pod it runs in.
Answer(d) == IF d = None \/ d.terminating THEN "absent"
             ELSE IF pvc = None \/ pvc.uid # d.claim THEN "invalid" ELSE agent

ObserveRest ==
    /\ view.read = "pod"
    /\ view' = [read |-> "all", wanted |-> view.wanted, generation |-> view.generation,
                pod |-> view.pod, pvc |-> pvc, endpoint |-> endpoint,
                agent |-> IF view.pod = None \/ pod = None \/ pod.uid # view.pod.uid
                          THEN "absent" ELSE Answer(pod),
                source |-> source, build |-> build]
    /\ UNCHANGED <<world, wanted, generation, status, objects, agent, source, build, creating>>

\* An object stands in for the frozen UID only while it has it; another one under
\* the same name is a replacement and counts as absence.
Frozen(uid, o) == o # None /\ o.uid = uid

Wait == [do |-> "wait"]
Persist(s) == [do |-> "persist", status |-> s]
EnsureReplicaScaffolding(op) == [do |-> "scaffold", op |-> op]
Delete(kind, uid) == [do |-> "delete", kind |-> kind, uid |-> uid]
Execute(kind, op) == [do |-> "execute", kind |-> kind, op |-> op]
Unsafe == [do |-> "unsafe"]

(***************************************************************************)
(* The attempt to get a volume and a Pod.                                  *)
(***************************************************************************)
\* The service of the accepted replicas comes before the attempt.
Restoring == view.source.silent \/ view.source.pending # None \/ ~view.source.serving

RestoreAcceptedService ==
    IF view.source.silent \/ view.source.pending # None THEN Wait ELSE Execute("serve", None)

Begin ==
    IF Restoring THEN RestoreAcceptedService
    ELSE IF ~view.wanted THEN Wait
    ELSE Persist(Allocating(Attempt(<<view.generation, 0>>)))

RetryOrComplete(a) ==
    Persist(IF view.wanted THEN Allocating(Attempt(<<a.op[1], a.op[2] + 1>>)) ELSE Stable)

Cancel(a) == Persist(Allocating([a EXCEPT !.cancelled = TRUE]))

\* No volume is recorded yet.
FindPvc(a) ==
    IF view.pvc # None
    THEN IF ~a.requested THEN Wait
         ELSE IF view.pvc.op # a.op THEN IF a.cancelled THEN Wait ELSE Cancel(a)
         ELSE Persist(Allocating([a EXCEPT !.pvc = view.pvc.uid]))
    ELSE IF a.cancelled THEN IF view.pod # None THEN Unsafe ELSE RetryOrComplete(a)
    ELSE IF ~a.requested THEN Persist(Allocating([a EXCEPT !.requested = TRUE]))
    ELSE EnsureReplicaScaffolding(a.op)

\* The Pod was created by this attempt, for this volume.
OwnPod(a, d) == d.op = a.op /\ d.claim = a.pvc

\* A Pod has appeared: it is adopted only if this attempt created it for the
\* frozen volume and the volume is still there.
FindPod(a) ==
    IF ~OwnPod(a, view.pod) THEN IF a.cancelled THEN Wait ELSE Cancel(a)
    ELSE IF ~Frozen(a.pvc, view.pvc)
    THEN Persist(Allocating([a EXCEPT !.pod = view.pod.uid, !.cancelled = TRUE]))
    ELSE IF a.cancelled THEN Persist(Allocating([a EXCEPT !.pod = view.pod.uid]))
    ELSE Persist(Provisioning(a.op, view.pod.uid, a.pvc))

DeleteAllocated(a) ==
    IF a.pod # None /\ Frozen(a.pod, view.pod) THEN Delete("pod", a.pod)
    ELSE IF a.pod = None /\ view.pod # None THEN Wait
    ELSE IF Frozen(a.pvc, view.pvc) THEN Delete("pvc", a.pvc)
    ELSE RetryOrComplete(a)

Allocation(a) ==
    IF ~a.cancelled /\ ~view.wanted THEN Cancel(a)
    ELSE IF Restoring THEN RestoreAcceptedService
    ELSE IF /\ ~a.cancelled /\ a.pvc # None /\ a.pod = None
            /\ ~Frozen(a.pvc, view.pvc) \/ view.pvc.op # a.op
    THEN Cancel(a)
    ELSE IF a.pvc = None THEN FindPvc(a)
    ELSE IF a.pod = None /\ view.pod # None THEN FindPod(a)
    ELSE IF a.cancelled THEN DeleteAllocated(a)
    ELSE IF a.pod = None THEN EnsureReplicaScaffolding(a.op)
    ELSE Unsafe

(***************************************************************************)
(* The candidate is initialized and built.                                 *)
(***************************************************************************)
BuildOf(op) == <<"build", op>>
RetireOf(op) == <<"retire", op>>

Active(op) == view.source.pending = BuildOf(op)
Busy(op) == view.source.pending # None /\ ~Active(op)
Claimed(op) == view.source.retained = BuildOf(op)

BuildAgain(p) == Execute("build", p.op)

\* Neither side knows of the build.
BuildMissing(p) ==
    IF Active(p.op) \/ Busy(p.op) THEN Wait
    ELSE IF Claimed(p.op) THEN Persist(Cleaning(p))
    ELSE BuildAgain(p)

\* One side lacks the build, or the boundary the other has frozen.
BuildPropagating(p) ==
    LET known == view.build.source # "none"
    IN  IF Active(p.op) THEN Wait
        ELSE IF known /\ ~Busy(p.op) /\ ~Claimed(p.op) THEN BuildAgain(p)
        ELSE IF Busy(p.op) \/ ~known \/ (Claimed(p.op) /\ view.build.source # "done")
        THEN Persist(Cleaning(p))
        ELSE Wait

\* Both know the build and it is not completed.
BuildIncomplete(p) ==
    IF Active(p.op) THEN Wait
    ELSE IF ~Busy(p.op) /\ ~Claimed(p.op) THEN BuildAgain(p)
    ELSE Persist(Cleaning(p))

BuildSettled(p) == IF Active(p.op) THEN Wait ELSE Persist([p EXCEPT !.phase = "transition"])

HasBoundary(b) == b \in {"bounded", "done"}

BuildPair(b) ==
    IF b = NoBuild THEN "missing"
    ELSE IF \/ b.source = "none" \/ b.target = "none"
            \/ HasBoundary(b.source) # HasBoundary(b.target)
    THEN "propagating" ELSE "exact"

Building(p) ==
    IF view.source.silent THEN Wait
    ELSE CASE BuildPair(view.build) = "missing" -> BuildMissing(p)
           [] BuildPair(view.build) = "propagating" -> BuildPropagating(p)
           [] OTHER -> IF view.build = BuiltBoth THEN BuildSettled(p) ELSE BuildIncomplete(p)

Provision(p) ==
    IF ~view.wanted THEN Persist(Cleaning(p))
    ELSE IF ~Frozen(p.pod, view.pod) \/ view.agent \in {"invalid", "failed"} THEN Persist(Cleaning(p))
    ELSE IF view.agent = "absent" THEN Wait
    ELSE IF view.agent = "uninitialized" THEN Execute("initialize", p.op)
    ELSE IF view.endpoint = None THEN EnsureReplicaScaffolding(None)
    ELSE Building(p)

(***************************************************************************)
(* The last moment to give up; then the admission is recorded before the   *)
(* first command of the transition.                                        *)
(***************************************************************************)
Transition(p) ==
    IF ~view.wanted THEN Persist(Cleaning(p))
    ELSE IF ~Frozen(p.pod, view.pod) \/ view.agent \in {"absent", "invalid", "failed"}
    THEN Persist(Cleaning(p))
    ELSE Persist([p EXCEPT !.phase = "admitted"])

(***************************************************************************)
(* An abandoned attempt: retire its build at the source, then delete       *)
(* endpoint, Pod and volume with the frozen UIDs.                          *)
(***************************************************************************)
RetirementDue(c) ==
    LET s == view.source
    IN  \/ s.pending \in {BuildOf(c.op), RetireOf(c.op)}
        \/ /\ s.pending = None /\ s.retained # RetireOf(c.op)
           /\ s.retained = BuildOf(c.op) \/ view.build.source # "none"

Cleanup(c) ==
    IF ~view.source.silent /\ RetirementDue(c) THEN Execute("retire", c.op)
    ELSE IF Restoring THEN RestoreAcceptedService
    ELSE IF c.endpoint # None /\ Frozen(c.endpoint.uid, view.endpoint)
    THEN Delete("endpoint", c.endpoint.uid)
    ELSE IF Frozen(c.pod, view.pod) THEN Delete("pod", c.pod)
    ELSE IF Frozen(c.pvc, view.pvc) THEN Delete("pvc", c.pvc)
    ELSE Persist(IF view.wanted THEN Allocating(Attempt(<<view.generation, c.op[2] + 1>>))
                 ELSE Stable)

Evaluate ==
    CASE status.phase = "stable" -> Begin
      [] status.phase = "allocation" -> Allocation(status.attempt)
      [] status.phase = "provisioning" -> Provision(status)
      [] status.phase = "transition" -> Transition(status)
      [] status.phase = "cleanup" -> Cleanup(status)
      [] OTHER -> Wait

(***************************************************************************)
(* Effects.  A creation fails when the name is taken; the volume is read   *)
(* again right before the Pod that claims it is created; a deletion is     *)
(* conditional on the UID.                                                 *)
(***************************************************************************)
CreatePvc(op) ==
    /\ IF pvc = None
       THEN pvc' = [uid |-> uids + 1, op |-> op] /\ uids' = uids + 1
       ELSE UNCHANGED <<pvc, uids>>
    /\ UNCHANGED <<pod, endpoint, creating>>

RevalidatePvc(op) ==
    /\ creating' = IF pvc = view.pvc THEN [op |-> op, claim |-> pvc.uid] ELSE None
    /\ UNCHANGED objects

EnsurePeerEndpoint ==
    /\ endpoint' = [uid |-> uids + 1] /\ uids' = uids + 1
    /\ UNCHANGED <<pvc, pod, creating>>

Scaffold(op) ==
    IF view.pvc = None THEN CreatePvc(op)
    ELSE IF view.pod = None THEN RevalidatePvc(op)
    ELSE EnsurePeerEndpoint

CreatePod ==
    /\ creating # None
    /\ IF pod = None
       THEN /\ pod' = [uid |-> uids + 1, op |-> creating.op, claim |-> creating.claim,
                       terminating |-> FALSE]
            /\ uids' = uids + 1 /\ agent' = "uninitialized"
       ELSE UNCHANGED <<pod, uids, agent>>
    /\ creating' = None
    /\ UNCHANGED <<world, wanted, generation, status, pvc, endpoint, source, build, view>>

DeleteExact(kind, uid) ==
    /\ pvc' = IF kind = "pvc" /\ Frozen(uid, pvc) THEN None ELSE pvc
    /\ pod' = IF kind = "pod" /\ Frozen(uid, pod) THEN [pod EXCEPT !.terminating = TRUE] ELSE pod
    /\ endpoint' = IF kind = "endpoint" /\ Frozen(uid, endpoint) THEN None ELSE endpoint
    /\ UNCHANGED uids

\* The candidate's store is initialized once; a build is started again only by the
\* source that is free; a retirement ends the build whatever its state.
Call(kind, op) ==
    LET free == source.pending \in {None, BuildOf(op)}
    IN  /\ agent' = IF kind = "initialize" /\ Answer(pod) = "uninitialized" THEN "ready" ELSE agent
        /\ source' =
              CASE source.silent -> source
                [] kind = "build" /\ source.pending = None -> [source EXCEPT !.pending = BuildOf(op)]
                [] kind = "retire" /\ free -> [source EXCEPT !.pending = None, !.retained = RetireOf(op)]
                [] kind = "serve" /\ source.pending = None -> [source EXCEPT !.serving = TRUE, !.retained = <<"grant">>]
                [] OTHER -> source
        /\ build' = IF kind = "retire" /\ free /\ ~source.silent
                    THEN [build EXCEPT !.source = "none"] ELSE build

\* The status is replaced only at the version that was read.
Stale == generation # view.generation

Decide ==
    LET plan == Evaluate
    IN  /\ view.read = "all"
        /\ view' = Unread
        /\ CASE plan.do = "persist" ->
                  /\ status' = IF Stale THEN status ELSE plan.status
                  /\ UNCHANGED <<objects, agent, source, build, creating>>
             [] plan.do = "scaffold" ->
                  Scaffold(plan.op) /\ UNCHANGED <<status, agent, source, build>>
             [] plan.do = "delete" ->
                  /\ DeleteExact(plan.kind, plan.uid)
                  /\ UNCHANGED <<status, agent, source, build, creating>>
             [] plan.do = "execute" ->
                  Call(plan.kind, plan.op) /\ UNCHANGED <<status, objects, creating>>
             [] OTHER -> UNCHANGED <<status, objects, agent, source, build, creating>>
        /\ UNCHANGED <<world, wanted, generation>>

(***************************************************************************)
(* The build at source and candidate.                                      *)
(***************************************************************************)
Attempting == source.pending # None /\ source.pending[1] = "build"

Copy ==
    /\ Attempting /\ agent = "ready" /\ pod # None /\ build # BuiltBoth
    /\ build' = CASE build.source = "none" -> [build EXCEPT !.source = "begun"]
                  [] build.target = "none" -> [build EXCEPT !.target = "begun"]
                  [] build.source = "begun" -> [build EXCEPT !.source = "bounded"]
                  [] build.target = "begun" -> [build EXCEPT !.target = "bounded"]
                  [] build.target = "bounded" -> [build EXCEPT !.target = "done"]
                  [] OTHER -> [build EXCEPT !.source = "done"]
    /\ UNCHANGED <<world, wanted, generation, status, objects, agent, source, view, creating>>

Settle ==
    /\ Attempting /\ build = BuiltBoth
    /\ source' = [source EXCEPT !.pending = None, !.retained = source.pending]
    /\ UNCHANGED <<world, wanted, generation, status, objects, agent, build, view, creating>>

(***************************************************************************)
(* The environment.                                                        *)
(***************************************************************************)
May(fault) == fault \in world.faults /\ world' = [world EXCEPT !.faults = @ \ {fault}]

ChangeDesired ==
    /\ world.changes > 0 /\ status.phase # "admitted"
    /\ world' = [world EXCEPT !.changes = @ - 1]
    /\ wanted' = ~wanted /\ generation' = generation + 1
    /\ UNCHANGED <<status, objects, agent, source, build, view, creating>>

PodStops ==
    /\ pod # None /\ pod.terminating
    /\ pod' = None /\ agent' = "none" /\ build' = [build EXCEPT !.target = "none"]
    /\ UNCHANGED <<world, wanted, generation, status, uids, pvc, endpoint, source, view, creating>>

TakeName ==
    /\ \/ May("pvc taken") /\ pvc = None /\ UNCHANGED pod
          /\ pvc' = [uid |-> uids + 1, op |-> Stranger]
       \/ May("pod taken") /\ pod = None /\ UNCHANGED pvc
          /\ pod' = [uid |-> uids + 1, op |-> Stranger, claim |-> 0, terminating |-> FALSE]
    /\ uids' = uids + 1
    /\ UNCHANGED <<wanted, generation, status, endpoint, agent, source, build, view, creating>>

\* A stranger's objects go away again.
Vacate ==
    /\ \/ pvc # None /\ pvc.op = Stranger /\ pvc' = None /\ UNCHANGED pod
       \/ pod # None /\ pod.op = Stranger /\ pod' = None /\ UNCHANGED pvc
    /\ UNCHANGED <<world, wanted, generation, status, uids, endpoint, agent, source, build, view,
                   creating>>

\* A volume in use is protected from deletion; a Pod may be evicted at any time.
LoseObject ==
    /\ \/ May("pvc lost") /\ pvc # None /\ pvc.op # Stranger /\ pod = None
          /\ pvc' = None /\ UNCHANGED <<pod, agent, build>>
       \/ May("pod lost") /\ pod # None /\ pod.op # Stranger
          /\ pod' = None /\ agent' = "none" /\ build' = [build EXCEPT !.target = "none"]
          /\ UNCHANGED pvc
    /\ UNCHANGED <<wanted, generation, status, uids, endpoint, source, view, creating>>

FailCandidate ==
    /\ May("failed") /\ agent = "ready" /\ agent' = "failed"
    /\ UNCHANGED <<wanted, generation, status, objects, source, build, view, creating>>

\* An attempt that fails leaves what it has recorded; other work of the source
\* comes and goes.
DisturbSource ==
    /\ \/ May("aborted") /\ Attempting /\ source' = [source EXCEPT !.pending = None]
       \/ May("busy") /\ source.pending = None /\ source' = [source EXCEPT !.pending = <<"other">>]
       \/ May("silent") /\ source' = [source EXCEPT !.silent = TRUE]
       \/ May("restart") /\ source' = [source EXCEPT !.serving = FALSE]
    /\ UNCHANGED <<wanted, generation, status, objects, agent, build, view, creating>>

SourceRecovers ==
    /\ \/ source.pending = <<"other">> /\ source' = [source EXCEPT !.pending = None, !.retained = <<"other">>]
       \/ source.silent /\ source' = [source EXCEPT !.silent = FALSE]
    /\ UNCHANGED <<world, wanted, generation, status, objects, agent, build, view, creating>>

CrashController ==
    /\ May("crash") /\ (view # Unread \/ creating # None)
    /\ view' = Unread /\ creating' = None
    /\ UNCHANGED <<wanted, generation, status, objects, agent, source, build>>

Init ==
    /\ world \in Worlds
    /\ wanted = TRUE /\ generation = 1 /\ status = Stable /\ uids = 0
    /\ pvc = None /\ pod = None /\ endpoint = None /\ agent = "none"
    /\ source = [pending |-> None, retained |-> <<"grant">>, silent |-> FALSE, serving |-> TRUE]
    /\ build = NoBuild
    /\ view = Unread /\ creating = None

Next ==
    \/ ObservePod \/ ObserveRest \/ Decide \/ CreatePod \/ Copy \/ Settle
    \/ ChangeDesired \/ PodStops \/ TakeName \/ Vacate \/ LoseObject \/ FailCandidate
    \/ DisturbSource \/ SourceRecovers \/ CrashController

Spec == Init /\ [][Next]_vars

\* The user no longer wants a candidate, and nothing that was created, and no build,
\* remains.
NothingRemains ==
    /\ ~wanted /\ status = Stable
    /\ pvc = None /\ pod = None /\ endpoint = None /\ build.source = "none"
=============================================================================
