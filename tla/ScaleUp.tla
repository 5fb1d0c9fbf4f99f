------------------------------ MODULE ScaleUp ------------------------------
(***************************************************************************)
(* Scale-up, from the admission of the built candidate to the convergence  *)
(* of every member: the controller brings the previous members and the     *)
(* candidate to PC/CC, the primary last, then to current-only, and commits *)
(* the expanded topology.  Writes stay open.  When the primary fails on    *)
(* the way, the failover carries the scale-up: a provisional epoch closes  *)
(* writes everywhere, the members that were fenced by it elect the final   *)
(* primary and its safe prefix, and the final epoch is installed.  Members *)
(* that come back later are corrected from the receipt.                    *)
(*                                                                         *)
(* Sources: kuberic-controller/src/evaluator/scale_up.rs; the agents' side *)
(* in kuberic-runtime/src: host/{command,coordinator}.rs, runtime.rs and   *)
(* replicator/quorum.rs; protocol/validation/scale_up.rs.                  *)
(*                                                                         *)
(* Epoch 1 is the previous configuration, 2 the expanded one, 3 the        *)
(* provisional and 4 the final failover.  The intent, and with it the      *)
(* evidence a configuration is installed with, is given by the epoch.  An  *)
(* entry of a log is the fence it was written under.  A report is healthy  *)
(* or there is none; the candidate's build was completed before (module    *)
(* ReplicaBuild), the command's stages are those of Coordinator, and what  *)
(* validate_snapshot refuses beforehand is left out.                       *)
(***************************************************************************)
EXTENDS Naturals, FiniteSets, Sequences

CONSTANTS
    None,
    Worlds       \* [size, behind, writes, lose, regain, restarts, failure, late, fair]:
                 \* the number of previous members, those that have not received
                 \* the last write, how many writes there are, which replicas the
                 \* controller may lose sight of once, which of them it may see
                 \* again, which may restart once, whether a failure of the primary
                 \* was recorded before, whether commands are delayed and
                 \* duplicated, whether scheduling is fair

VARIABLES
    world,
    status,      \* the persisted transition or the receipt
    routing,     \* the replica the write Service selects
    view,        \* the reports of the running reconciliation
    net,         \* commands on their way to an agent
    agent,       \* the durable state and the access of each replica
    verified,    \* per replica and fence, the verified prefix
    log,         \* the operations each replica holds
    waiting,     \* <<primary, lsn>> of the writes whose clients wait
    acked,       \* <<lsn, fence>> of the writes clients were told are done
    unseen       \* replicas the controller does not see, or has not seen once

vars == <<world, status, routing, view, net, agent, verified, log, waiting, acked, unseen>>

Old == 1
Previous == 1..world.size
Target == world.size + 1
Current == 1..Target
Boundary == 1

WriteQuorum(S) == Cardinality(S) \div 2 + 1
ReadQuorum(S) == Cardinality(S) + 1 - WriteQuorum(S)

Least(S) == CHOOSE r \in S : \A s \in S : r <= s
Min(m, n) == IF m < n THEN m ELSE n
Max(m, n) == IF m < n THEN n ELSE m

Joint(e) == <<e, TRUE>>
Only(e) == <<e, FALSE>>
Fences == {Only(1), Joint(2), Only(2), Joint(3), Joint(4), Only(4)}

\* The primary of an epoch the controller has allocated.
Leader(e) ==
    CASE e <= 2 -> Old [] e = 3 -> status.provisional [] OTHER -> status.elected

Fence(r) == agent[r].fence
Epoch(r) == agent[r].fence[1]
IsJoint(r) == agent[r].fence[2]

(***************************************************************************)
(* Commands (configuration_command).  An operation id is the stage and the *)
(* epoch, which is the fence the command installs.                         *)
(***************************************************************************)
Command(to, fence, safe, session) ==
    [to |-> to, fence |-> fence, safe |-> safe, session |-> session]

Failover(c) == c.fence[1] > 2
CurrentOnly(c) == ~c.fence[2]

(***************************************************************************)
(* Admission (admit_scale_up_configuration).                               *)
(***************************************************************************)
Persisted(c, a) == c.fence \in {a.pending, a.retained}

\* Admission evidence: PC/CC from the previous configuration, or by the idle
\* candidate; current-only after PC/CC.
AdmitAdmission(c, a) ==
    IF CurrentOnly(c)
    THEN a.fence = Joint(2) \/ (a.fence = Only(2) /\ Persisted(c, a))
    ELSE \/ a.fence = Joint(2)
         \/ c.to \in Previous /\ a.fence = Only(1)
         \/ c.to = Target /\ a.fence = None

OriginalAttemptInstalled(a) == a.fence \in {Joint(2), Only(2)}
OriginalAuthority(c, a) == c.to \in Previous /\ a.fence = Only(1)

\* Mutant: a carried failover may start from nothing but the final epoch.
AdmitFailoverFromProvisional(c, a) ==
    IF CurrentOnly(c)
    THEN a.fence = Joint(4) \/ (a.fence = Only(4) /\ Persisted(c, a))
    ELSE \/ a.fence = Joint(2)
         \/ c.fence = Joint(4) /\ a.fence = Joint(3)
         \/ a.fence = c.fence /\ Persisted(c, a)

\* A carried failover starts from the original attempt, at either stage, or from
\* the previous configuration; the final epoch also from the provisional one.
AdmitFailover(c, a) ==
    IF CurrentOnly(c)
    THEN \/ a.fence = Joint(4) \/ (a.fence = Only(4) /\ Persisted(c, a))
         \/ OriginalAttemptInstalled(a)
    ELSE \/ OriginalAttemptInstalled(a) \/ OriginalAuthority(c, a)
         \/ c.fence = Joint(4) /\ a.fence = Joint(3)
         \/ a.fence = c.fence /\ Persisted(c, a)

\* validate_scale_up_configuration: the safe prefix belongs to the final epoch.
ValidCommand(c) == c.safe = None <=> c.fence[1] < 4

Admits(c, a) ==
    /\ ValidCommand(c)
    /\ a.fence # None => c.fence[1] >= a.fence[1]
    /\ IF Failover(c) THEN AdmitFailover(c, a) ELSE AdmitAdmission(c, a)

\* A pending command is taken up again, or superseded by a newer epoch.
Runs(c, a) == a.pending \notin {None, c.fence} => c.fence[1] > a.pending[1]

(***************************************************************************)
(* Installation.  The verified prefix under a new fence                    *)
(* (load_replication_progress_with_handoff): at the candidate the boundary *)
(* of its build, what was verified under the same configuration, what was  *)
(* verified under PC while the primary stays, and the safe prefix.         *)
(***************************************************************************)
\* authorize_failover_prefix: in the final failover, no more than the log holds.
SafePrefix(c) == IF c.safe # None THEN {Min(Len(log[c.to]), c.safe)} ELSE {}

Verified(c) ==
    LET r == c.to
        f == c.fence
        carried == {verified[r][f]}
                   \cup (IF r = Target THEN {Boundary} ELSE {})
                   \cup (IF CurrentOnly(c) THEN {verified[r][Joint(f[1])]} ELSE {})
                   \cup (IF f = Joint(2) /\ r \in Previous THEN {verified[r][Only(1)]} ELSE {})
                   \cup SafePrefix(c)
    IN  CHOOSE n \in carried : \A m \in carried : m <= n

\* The primary of a scale-up keeps its access (preserves_same_primary_scale_up_access).
PreservesAccess(c, a) == ~Failover(c) /\ c.to = Old /\ a.granted

\* A command that was completed is answered from its record.  The waits of the
\* authority that is replaced fail.
Deliver(c) ==
    LET r == c.to
        a == agent[r]
        new == /\ c.session = a.session /\ a.retained # c.fence
               /\ a.pending # c.fence /\ Admits(c, a)
    IN  /\ c \in net /\ Runs(c, a)
        /\ world.late => new
        /\ net' = IF world.late THEN net ELSE net \ {c}
        /\ IF new
           THEN /\ agent' = [agent EXCEPT ![r].fence = c.fence, ![r].pending = c.fence,
                                          ![r].granted = PreservesAccess(c, a)]
                /\ verified' = [verified EXCEPT ![r][c.fence] = Verified(c)]
                /\ waiting' = {w \in waiting : w[1] # r}
           ELSE UNCHANGED <<agent, verified, waiting>>
        /\ UNCHANGED <<world, status, routing, view, log, acked, unseen>>

(***************************************************************************)
(* Replication and catch-up.  The primary credits a peer with what the     *)
(* peer has verified under the primary's fence; current-only keeps what    *)
(* was credited under PC/CC.                                               *)
(***************************************************************************)
Progress(p, m) ==
    LET f == Fence(p)
    IN  IF m = p THEN Len(log[p])
        ELSE IF f \in {Only(2), Only(4)} THEN Max(verified[m][f], verified[m][Joint(f[1])])
        ELSE verified[m][f]

HoldersOf(p, S, lsn) == {m \in S : Progress(p, m) >= lsn}

HasQuorum(p, S, lsn) == Cardinality(HoldersOf(p, S, lsn)) >= WriteQuorum(S)

CommitReady(p, lsn) ==
    IF Epoch(p) = 1 THEN HasQuorum(p, Previous, lsn)
    ELSE /\ HasQuorum(p, Current, lsn)
         /\ IsJoint(p) => HasQuorum(p, Previous, lsn)

\* The longest prefix a write quorum of CC is credited with.
QuorumProgress(p) ==
    CHOOSE n \in 0..Len(log[p]) :
        HasQuorum(p, Current, n) /\ ~HasQuorum(p, Current, n + 1)

\* The replicas that gate the end of a transition: the candidate, and under PC/CC a
\* primary that was not the primary of PC.
MustCatchUp(p) == {Target} \cup (IF p # Old /\ IsJoint(p) THEN {p} ELSE {})

\* The boundary of a scale-up is the one the build ended at.
CatchUpComplete(p) ==
    LET reached == QuorumProgress(p)
    IN  /\ reached >= Boundary
        /\ \A m \in MustCatchUp(p) : Progress(p, m) >= reached

\* A primary that may read waits for the catch-up, and so does the new primary in
\* the final epoch; a retained primary that kept its access only activates, every
\* other member records its deactivation.
Finish(r) ==
    LET a == agent[r]
        primary == r = Leader(a.fence[1])
        grants == primary /\ (a.fence[1] <= 2 \/ ~a.fence[2])
    IN  /\ a.pending # None
        /\ grants \/ (primary /\ a.fence = Joint(4)) => CatchUpComplete(r)
        /\ agent' = [agent EXCEPT
               ![r] = [a EXCEPT !.pending = None, !.retained = a.pending, !.granted = grants,
                                !.deactivated = IF a.granted THEN @
                                                ELSE [epoch |-> a.fence[1], lsn |-> Len(log[r])]]]
        /\ UNCHANGED <<world, status, routing, view, net, verified, log, waiting, acked, unseen>>

\* A restarted process has a new session; its clients have gone.
Restart(r) ==
    /\ r \in world.restarts /\ agent[r].session = 0
    /\ agent' = [agent EXCEPT ![r].session = 1]
    /\ waiting' = {w \in waiting : w[1] # r}
    /\ UNCHANGED <<world, status, routing, view, net, verified, log, acked, unseen>>

Write(p) ==
    /\ agent[p].granted /\ Len(log[p]) <= world.writes
    /\ \A k \in 1..Len(log[p]) : <<p, k>> \notin waiting
    /\ log' = [log EXCEPT ![p] = Append(@, Fence(p))]
    /\ verified' = [verified EXCEPT ![p][Fence(p)] = Len(log[p]) + 1]
    /\ waiting' = waiting \cup {<<p, Len(log[p]) + 1>>}
    /\ UNCHANGED <<world, status, routing, view, net, agent, acked, unseen>>

\* A client write of the fence, or the next one from the history of the primary; an
\* operation that was applied before is compared.
Replicate(r) ==
    LET f == Fence(r)
        p == Leader(f[1])
        lsn == verified[r][f] + 1
    IN  /\ f # None /\ p # r /\ Fence(p) = f
        /\ lsn <= Len(log[p])
        /\ lsn = Len(log[r]) + 1 \/ (lsn <= Len(log[r]) /\ log[p][lsn] = f /\ log[r][lsn] = f)
        /\ log' = IF lsn <= Len(log[r]) THEN log
                  ELSE [log EXCEPT ![r] = Append(@, log[p][lsn])]
        /\ verified' = [verified EXCEPT ![r][f] = lsn]
        /\ UNCHANGED <<world, status, routing, view, net, agent, waiting, acked, unseen>>

Acknowledge(p) ==
    /\ agent[p].granted
    /\ \E w \in waiting :
          /\ w[1] = p /\ CommitReady(p, w[2])
          /\ acked' = acked \cup {<<w[2], log[p][w[2]]>>}
          /\ waiting' = waiting \ {w}
    /\ UNCHANGED <<world, status, routing, view, net, agent, verified, log, unseen>>

(***************************************************************************)
(* The controller's reports.                                               *)
(***************************************************************************)
NotRead == [seen |-> "no"]
Silent == [seen |-> "silent"]
Report(r) == [seen |-> "report", agent |-> agent[r], progress |-> Len(log[r]),
              caughtUp |-> agent[r].fence # None /\ r = Leader(Epoch(r)) /\ CatchUpComplete(r),
              verified |-> IF agent[r].fence = None THEN 0 ELSE verified[r][Fence(r)]]

Observe(r) ==
    /\ view[r] = NotRead
    /\ world.late \/ net = {}
    /\ view' = [view EXCEPT ![r] = IF unseen[r] = "lost" THEN Silent ELSE Report(r)]
    /\ UNCHANGED <<world, status, routing, net, agent, verified, log, waiting, acked, unseen>>

LoseContact(r) ==
    /\ r \in world.lose /\ unseen[r] = "never"
    /\ unseen' = [unseen EXCEPT ![r] = "lost"]
    /\ UNCHANGED <<world, status, routing, view, net, agent, verified, log, waiting, acked>>

RegainContact(r) ==
    /\ r \in world.regain /\ unseen[r] = "lost"
    /\ unseen' = [unseen EXCEPT ![r] = "back"]
    /\ UNCHANGED <<world, status, routing, view, net, agent, verified, log, waiting, acked>>

Reported(r) == view[r].seen = "report"
Of(r) == view[r].agent
PrimaryFailed == ~Reported(Old)

Settled(r, fence) == Of(r).pending = None /\ Of(r).retained = fence

\* exact_pc_cc_report and exact_current_only_report.
Exact(r, fence) == Reported(r) /\ Of(r).fence = fence /\ view[r].verified >= Boundary

Fenced(r) ==
    /\ Reported(r) /\ Of(r).fence = Joint(3) /\ Settled(r, Joint(3))
    /\ view[r].progress >= Boundary
    /\ Of(r).deactivated.epoch = 3 /\ ~Of(r).granted

ClaimsProvisional(r) == Of(r).fence # None /\ Of(r).fence[1] = 3

\* The process that was a witness of the election, with its fence.
ExactProvisional(r) ==
    /\ Of(r).fence = Joint(3) /\ Of(r).retained = Joint(3)
    /\ view[r].progress >= Boundary /\ view[r].verified >= Boundary
    /\ Of(r).deactivated.epoch = 3 /\ ~Of(r).granted
    /\ <<r, Of(r).session>> \in status.witnesses

NeedsJoint(r) ==
    \/ r \in Previous /\ Of(r).fence = Only(1)
    \/ r = Target /\ Of(r).fence = None
    \/ status.kind = "Failover" /\ ExactProvisional(r)

QuorumWitnesses(S, fence) == {r \in S : Exact(r, fence) /\ Settled(r, fence)}

RecoveryWitnesses(S) == QuorumWitnesses(S, Joint(2)) \cup QuorumWitnesses(S, Only(2))

Wait == [do |-> "wait"]
Unsafe == [do |-> "unsafe"]
Nothing == [do |-> "nothing"]
Persist(s) == [do |-> "persist", status |-> s, routing |-> routing]
Route(to) == [do |-> "persist", status |-> status, routing |-> to]
Execute(r, fence) ==
    [do |-> "execute",
     command |-> Command(r, fence, IF fence[1] = 4 THEN status.safe ELSE None, Of(r).session)]

Sessions(S) == {<<r, Of(r).session>> : r \in S}

(***************************************************************************)
(* begin_failover: both read quorums of the original attempt name a        *)
(* provisional primary, the survivor with the longest verified prefix.     *)
(***************************************************************************)
\* validate_recovery_witnesses: nobody but the old primary writes, and it does
\* when it is current-only.
ValidRecovery(S) ==
    \A r \in S : /\ Of(r).granted => r = Old
                 /\ r = Old /\ Of(r).fence = Only(2) => Of(r).granted

BeginFailover ==
    LET pc == RecoveryWitnesses(Previous)
        cc == RecoveryWitnesses(Current)
        survivors == cc \ {Old}
        best == {r \in survivors : \A s \in survivors : view[s].verified <= view[r].verified}
    IN  IF \/ Cardinality(pc) < ReadQuorum(Previous) \/ Cardinality(cc) < ReadQuorum(Current)
           \/ survivors = {}
        THEN Wait
        ELSE IF ~ValidRecovery(pc \cup cc) THEN Unsafe
        ELSE [Persist([status EXCEPT !.kind = "Failover", !.provisional = Least(best),
                                     !.failure = FALSE, !.witnesses = Sessions(pc \cup cc)])
              EXCEPT !.routing = None]

(***************************************************************************)
(* finalize_fenced_failover: the fenced members elect the final primary    *)
(* and its safe prefix.                                                    *)
(***************************************************************************)
Safe(r) == Min(view[r].progress, Of(r).deactivated.lsn)

\* Mutant: the final primary is the provisional one, whatever the others hold.
ElectedProvisional(S) == IF status.provisional \in S THEN status.provisional ELSE Least(S)

Elected(S) ==
    LET beats(r, s) == \/ Safe(r) > Safe(s)
                       \/ /\ Safe(r) = Safe(s)
                          /\ \/ view[r].progress > view[s].progress
                             \/ view[r].progress = view[s].progress /\ r < s
    IN  CHOOSE r \in S : \A s \in S \ {r} : beats(r, s)

\* validate_final_election: fenced witnesses in both read quorums, of which the
\* selected primary is the best survivor and covers the boundary.
ValidFinalWitnesses(S) ==
    \A r \in S : view[r].progress >= Boundary /\ Of(r).retained = Joint(3)

ValidFinalQuorum(S, C) == Cardinality(S \cap C) >= ReadQuorum(C)

ValidElection(best, pc, cc) ==
    /\ Safe(best) >= Boundary /\ best \in cc \ {Old}
    /\ ValidFinalWitnesses(pc \cup cc)
    /\ ValidFinalQuorum(pc, Previous) /\ ValidFinalQuorum(cc, Current)

FinalizeFencedFailover ==
    LET pc == {r \in Previous : Fenced(r)}
        cc == {r \in Current : Fenced(r)}
        best == Elected(cc \ {Old})
    IN  IF \/ Cardinality(pc) < ReadQuorum(Previous) \/ Cardinality(cc) < ReadQuorum(Current)
           \/ cc \ {Old} = {}
        THEN Wait
        ELSE IF ~ValidElection(best, pc, cc) THEN Unsafe
        ELSE Persist([status EXCEPT !.elected = best, !.safe = Safe(best),
                                    !.witnesses = @ \cup Sessions(pc \cup cc)])

(***************************************************************************)
(* transition, before anyone is current-only: bring the members to PC/CC,  *)
(* the primary last.                                                       *)
(***************************************************************************)
Working == IF status.kind = "ScaleUp" THEN 2 ELSE IF status.elected = None THEN 3 ELSE 4

\* The first of the members that have something to do, in the order of the loop.
InOrder(S, primary) ==
    IF S \ {primary} # {} THEN Least(S \ {primary})
    ELSE IF primary \in S THEN primary ELSE None

JointDone(r, e) ==
    /\ IF e = 3 THEN Fenced(r) ELSE Exact(r, Joint(e))
    /\ Settled(r, Joint(e))

InstallJoint(r, e) ==
    IF ~Reported(r) THEN Wait
    ELSE IF Of(r).pending = Only(e) THEN Execute(r, Only(e))
    ELSE IF Of(r).pending \notin {None, Joint(e)} THEN Wait
    ELSE Execute(r, Joint(e))

\* A member that does not report is passed over, except the primary of a scale-up.
Participants(e, recovering) ==
    {r \in Current : /\ Reported(r) \/ (r = Leader(e) /\ e = 2 /\ ~recovering)
                     /\ e > 2 => r # Old}

SelectedPrimaryReady ==
    LET p == status.elected
    IN  /\ Exact(p, Joint(4)) /\ Of(p).pending = None
        /\ Of(p).deactivated.epoch = 4 /\ Of(p).deactivated.lsn >= status.safe
        /\ view[p].verified >= status.safe /\ view[p].caughtUp /\ ~Of(p).granted

DualQuorum(e) ==
    LET pc == QuorumWitnesses(Previous, Joint(e))
        cc == QuorumWitnesses(Current, Joint(e))
        quorum(S) == IF e = 2 THEN WriteQuorum(S) ELSE ReadQuorum(S)
    IN  /\ Cardinality(pc) >= quorum(Previous) /\ Cardinality(cc) >= quorum(Current)
        /\ e = 4 => SelectedPrimaryReady
        /\ Target \in cc /\ Leader(e) \in cc
        /\ e = 2 => Of(Old).granted

(***************************************************************************)
(* transition, current-only: pending commands are finished first, the      *)
(* primary is preferred once it completes the write quorum.                *)
(***************************************************************************)
CurrentOnlyDone(r, e) == Exact(r, Only(e)) /\ Settled(r, Only(e))

\* The old primary takes part in a failover only if it has joined it.
Converging(e) ==
    {r \in Current : /\ Reported(r)
                     /\ e = 4 /\ r = Old => ClaimsProvisional(r) \/ Of(r).fence[1] = 4}

ConvergeCurrentOnly(e) ==
    LET p == Leader(e)
        S == Converging(e)
        resumed == InOrder({r \in S : Of(r).pending \in {Joint(e), Only(e)}}, p)
        malformed(r) == e = 4 /\ ClaimsProvisional(r) /\ ~ExactProvisional(r)
        wants(r) == \/ malformed(r) \/ NeedsJoint(r)
                    \/ ~CurrentOnlyDone(r, e) /\ Of(r).pending \in {None, Only(e)}
        prefer == /\ Reported(p) /\ ~CurrentOnlyDone(p, e) /\ wants(p)
                  /\ Cardinality({r \in Current \ {p} : CurrentOnlyDone(r, e)})
                         >= WriteQuorum(Current) - 1
        next == IF prefer THEN p ELSE InOrder({r \in S : wants(r)}, p)
    IN  IF resumed # None THEN Execute(resumed, Of(resumed).pending)
        ELSE IF next = None THEN Nothing
        ELSE IF malformed(next) THEN Unsafe
        ELSE IF NeedsJoint(next) THEN Execute(next, Joint(e))
        ELSE Execute(next, Only(e))

\* validate_witnesses and validate_scale_up_receipt: exactly the primary writes, and
\* after a failover it covers the safe prefix.
ValidWitnesses(S, p) ==
    /\ \A r \in S : Of(r).granted <=> r = p
    /\ p \in S /\ Cardinality(S) >= WriteQuorum(Current)

ValidReceipt(S, e) ==
    /\ ValidWitnesses(S, Leader(e))
    /\ e = 4 => view[Leader(e)].verified >= status.safe

\* The receipt and the expanded topology are one write.
Accept(e) ==
    LET only == QuorumWitnesses(Current, Only(e))
        p == Leader(e)
    IN  IF Cardinality(only) < WriteQuorum(Current) \/ p \notin only \/ ~Of(p).granted
        THEN Wait
        ELSE IF ~ValidReceipt(only, e) THEN Unsafe
        ELSE Persist([status EXCEPT !.kind = "Accepted", !.failure = FALSE])

Transition ==
    LET e == Working
        scaleUp == status.kind = "ScaleUp"
        recovering == scaleUp /\ PrimaryFailed
        started == \E r \in Current : Exact(r, Only(e))
        todo == InOrder({r \in Participants(e, recovering) :
                            ~Reported(r) \/ ~JointDone(r, e) \/ Of(r).pending = Only(e)},
                        Leader(e))
        converge == ConvergeCurrentOnly(e)
    IN  IF scaleUp /\ ~PrimaryFailed /\ status.failure
        THEN Persist([status EXCEPT !.failure = FALSE])
        ELSE IF /\ recovering
                /\ Cardinality(RecoveryWitnesses(Previous)) >= ReadQuorum(Previous)
                /\ Cardinality(RecoveryWitnesses(Current)) >= ReadQuorum(Current)
        THEN BeginFailover
        ELSE IF ~started /\ todo # None THEN InstallJoint(todo, e)
        ELSE IF ~started /\ recovering THEN BeginFailover
        ELSE IF ~started /\ e = 3 THEN FinalizeFencedFailover
        ELSE IF ~started /\ ~DualQuorum(e) THEN Wait
        ELSE IF converge # Nothing THEN converge
        ELSE Accept(e)

(***************************************************************************)
(* recover_local_acceptance: after the commit the service is restored and  *)
(* every member is brought to the accepted configuration.                  *)
(***************************************************************************)
Accepted == IF status.elected = None THEN 2 ELSE 4

StableReports(e) == {r \in Current : Reported(r) /\ Of(r).fence = Only(e) /\ Of(r).pending = None}

RestoreService(e) ==
    LET p == Leader(e)
        stable == StableReports(e)
    IN  IF p \notin stable \/ Cardinality(stable) < WriteQuorum(Current) THEN Wait
        ELSE IF ~Of(p).granted THEN Execute(p, Only(e))
        ELSE IF routing # None THEN Route(None)
        ELSE Route(p)

ReceiptSettled(e) ==
    \A r \in Current : Exact(r, Only(e)) /\ Of(r).pending = None

\* What is sent to a member that has not settled: what it has pending, PC/CC when
\* it missed the expansion or stands on an authority of the original attempt or
\* the provisional election, otherwise current-only.
Correct(r, e) ==
    LET a == Of(r)
    IN  IF a.pending # None
        THEN IF a.pending \in {Joint(e), Only(e)} THEN Execute(r, a.pending) ELSE Wait
        ELSE IF \/ r \in Previous /\ a.fence = Only(1)
                \/ e = 4 /\ a.fence \in {Joint(2), Only(2)}
                \/ e = 4 /\ ExactProvisional(r)
        THEN Execute(r, Joint(e))
        ELSE IF a.fence = Joint(e) THEN Execute(r, Only(e))
        ELSE Wait

RecoverLocalAcceptance ==
    LET e == Accepted
        p == Leader(e)
        open == {r \in Current : ~Reported(r) \/ Of(r).pending # None \/ Of(r).fence # Only(e)}
    IN  IF ~Reported(p) THEN Wait
        ELSE IF routing # p \/ ~Of(p).granted THEN RestoreService(e)
        ELSE IF ReceiptSettled(e) \/ open = {} THEN Wait
        ELSE IF ~Reported(Least(open)) THEN Wait
        ELSE Correct(Least(open), e)

Evaluate == IF status.kind = "Accepted" THEN RecoverLocalAcceptance ELSE Transition

Decide ==
    LET plan == Evaluate
    IN  /\ \A r \in Current : view[r] # NotRead
        /\ view' = [r \in Current |-> NotRead]
        /\ CASE plan.do \in {"wait", "unsafe"} -> UNCHANGED <<status, routing, net>>
             [] plan.do = "persist" -> /\ status' = plan.status /\ routing' = plan.routing
                                       /\ UNCHANGED net
             [] plan.do = "execute" -> /\ net' = net \cup {plan.command}
                                       /\ UNCHANGED <<status, routing>>
        /\ UNCHANGED <<world, agent, verified, log, waiting, acked, unseen>>

Init ==
    /\ world \in Worlds
    /\ status = [kind |-> "ScaleUp", provisional |-> None, elected |-> None, safe |-> None,
                 witnesses |-> {}, failure |-> world.failure]
    /\ routing = Old
    /\ view = [r \in Current |-> NotRead]
    /\ net = {}
    /\ agent = [r \in Current |->
                   [fence |-> IF r = Target THEN None ELSE Only(1), granted |-> r = Old,
                    pending |-> None, retained |-> None, session |-> 0,
                    deactivated |-> [epoch |-> 0, lsn |-> 0]]]
    /\ log = [r \in Current |-> IF r \in world.behind THEN <<>> ELSE <<Only(1)>>]
    /\ verified = [r \in Current |-> [f \in Fences |->
                     IF f = Only(1) /\ r # Target THEN Len(log[r]) ELSE 0]]
    /\ waiting = {} /\ acked = {}
    /\ unseen = [r \in Current |-> "never"]

Next ==
    \/ \E r \in Current : Observe(r) \/ LoseContact(r) \/ RegainContact(r)
    \/ Decide
    \/ \E c \in net : Deliver(c)
    \/ \E r \in Current : Finish(r) \/ Restart(r)
    \/ \E r \in Current : Write(r) \/ Replicate(r) \/ Acknowledge(r)

Spec == Init /\ [][Next]_vars

(***************************************************************************)
(* Properties.                                                             *)
(***************************************************************************)

\* Whoever may write holds every write a client was told is done, written by it or
\* by a primary before it: also when the failed primary went on writing under the
\* expanded configuration while the failover was already allocated, and when the
\* provisional primary was not the member with the longest log (scale_up.rs
\* begin_failover and finalize_fenced_failover).
WriterHoldsAcknowledged ==
    \A r \in Current : agent[r].granted /\ Leader(Epoch(r)) = r =>
        \A w \in acked :
            w[2][1] <= Epoch(r) => w[1] <= Len(log[r]) /\ log[r][w[1]] = w[2]

Done ==
    /\ status.kind = "Accepted"
    /\ routing = Leader(Accepted) /\ agent[Leader(Accepted)].granted
    /\ \A r \in Current : unseen[r] # "lost" => Fence(r) = Only(Accepted) /\ agent[r].pending = None
=============================================================================
