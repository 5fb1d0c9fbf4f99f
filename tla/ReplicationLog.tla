---------------------------- MODULE ReplicationLog ----------------------------
(***************************************************************************)
(* The replication engine of one replica: ReplicationLog and the           *)
(* QuorumTracker inside it.  It reserves LSNs for client writes, counts the *)
(* acknowledgements of its peers under the admitted authority, and decides *)
(* when a write is committed and when a transition has caught up.          *)
(*                                                                         *)
(* The peers are the environment.  verified_in records what each of them   *)
(* has durably verified, by process session and fence; acknowledgements    *)
(* travel over a network that may delay, drop, duplicate and reorder them, *)
(* so any past acknowledgement can be delivered at any time.               *)
(***************************************************************************)
EXTENDS Configurations

CONSTANTS
    Local,          \* the identity of this replica
    Admissible,     \* authorities the controller may have admitted here
    Session,        \* process session numbers, starting at 1
    Restarting,     \* peers whose process may restart
    Operation,      \* client operations
    MaxLsn          \* bound on LSNs (model checking only)

ASSUME LocalAssumption == Local \in Identity
ASSUME AdmissibleAssumption ==
    /\ Admissible \subseteq Authorities
    /\ \A a \in Admissible :
          /\ a.current.primary \in a.current.members
          /\ a.current.write_quorum \in 1..Cardinality(a.current.members)
ASSUME SessionAssumption ==
    1 \in Session /\ \A s \in Session : s \in Nat /\ 1..s \subseteq Session
ASSUME NoneAssumption ==
    /\ None \notin Configurations
    /\ None \notin Authorities
    /\ None \notin Nat

VARIABLES
    open, closed, role, epoch, authority, next_lsn, pending_local_write, queue,
    progress, pending, highest_lsn, committed_lsn, catch_up_boundary,
    must_catch_up, sessions, obsolete_sessions,
    applied_lsn,        \* durable application progress of this replica
    durable_authority,  \* the authority recorded by the last admission
    peer_session,       \* the session each peer process runs now
    verified_in,        \* [peer][session][fence]: highest LSN acknowledged
    built,              \* [peer]: durable LSN of a completed build of the peer
    acknowledged        \* history: writes reported committed to their clients

logVars     == <<open, closed, role, epoch, authority, next_lsn, pending_local_write, queue>>
trackerVars == <<progress, pending, highest_lsn, committed_lsn, catch_up_boundary,
                 must_catch_up, sessions, obsolete_sessions>>
peerVars    == <<peer_session, verified_in, built>>
vars        == <<logVars, trackerVars, peerVars, applied_lsn, durable_authority, acknowledged>>

Peers == Identity \ {Local}
Roles == {"None", "Active", "Primary"}
AdmissibleFences == {Fence(a) : a \in Admissible}
Max2(m, n) == IF m < n THEN n ELSE m

Init ==
    /\ open = FALSE /\ closed = FALSE /\ role = "None" /\ epoch = 0 /\ authority = None
    /\ next_lsn = 0 /\ pending_local_write = None /\ queue = {}
    /\ progress = [i \in Identity |-> Absent] /\ pending = {}
    /\ highest_lsn = 0 /\ committed_lsn = 0 /\ catch_up_boundary = None
    /\ must_catch_up = {} /\ sessions = [i \in Identity |-> None]
    /\ obsolete_sessions = {}
    /\ applied_lsn = 0 /\ durable_authority = None
    /\ peer_session = [i \in Identity |-> 1]
    /\ verified_in = [i \in Identity |-> [s \in Session |-> [f \in AdmissibleFences |-> 0]]]
    /\ built = [i \in Identity |-> 0]
    /\ acknowledged = {}

-----------------------------------------------------------------------------
(* Client waits.  fail_pending answers every registered wait with an error; *)
(* finalize_commit answers those at or below the commit point with success. *)

(* Mutant: the waits are left registered.                                   *)
KeepPending == UNCHANGED pending

FailPending == pending' = {}

ReadyLsns(a, prog, waiting) == {lsn \in waiting : ClientCommitReady(a, prog, lsn)}

(* ready_commit_lsn, storage.commit and finalize_commit, one under the lock: *)
(* everything up to the highest quorum-ready wait commits.                   *)
FinalizeReadyCommit(prog, waiting, ops) ==
    LET ready == ReadyLsns(authority, prog, waiting)
    IN  IF ready = {}
        THEN /\ pending' = waiting /\ queue' = ops
             /\ UNCHANGED <<committed_lsn, acknowledged>>
        ELSE \E commit \in ready :
             /\ \A lsn \in ready : lsn <= commit
             /\ pending' = {lsn \in waiting : lsn > commit}
             /\ queue' = {lsn \in ops : lsn > commit}
             /\ committed_lsn' = Max2(committed_lsn, commit)
             /\ acknowledged' = acknowledged \cup
                    {[lsn |-> lsn, authority |-> authority] :
                        lsn \in {n \in waiting : n <= commit}}

-----------------------------------------------------------------------------
(* Control interface.                                                       *)

Open ==
    /\ ~open /\ ~closed
    /\ open' = TRUE
    /\ UNCHANGED <<closed, role, epoch, authority, next_lsn, pending_local_write, queue,
                   trackerVars, peerVars, applied_lsn, durable_authority, acknowledged>>

(* update_epoch: never regresses; a change fences the client waits.         *)
UpdateEpoch(e) ==
    /\ open
    /\ e >= epoch
    /\ epoch' = e
    /\ IF e # epoch THEN FailPending ELSE UNCHANGED pending
    /\ UNCHANGED <<open, closed, role, authority, next_lsn, pending_local_write, queue,
                   progress, highest_lsn, committed_lsn, catch_up_boundary,
                   must_catch_up, sessions, obsolete_sessions,
                   peerVars, applied_lsn, durable_authority, acknowledged>>

(* control_change_role: the waits are fenced before the role changes.       *)
ChangeRole(e, r) ==
    /\ open
    /\ e >= epoch
    /\ epoch' = e /\ role' = r
    /\ FailPending
    /\ UNCHANGED <<open, closed, authority, next_lsn, pending_local_write, queue,
                   progress, highest_lsn, committed_lsn, catch_up_boundary,
                   must_catch_up, sessions, obsolete_sessions,
                   peerVars, applied_lsn, durable_authority, acknowledged>>

(* The host asks for the role the admitted configuration gives this replica; *)
(* a recovery that raises the epoch first may promote ahead of admission.    *)
MayTakeRole(e, r) ==
    r = "Primary" /\ authority # None =>
        e > authority.current.epoch \/ LocalIsPrimary(authority, Local)

(* control_close and control_abort leave the same engine behind, and no     *)
(* operation but the teardown of the process is accepted afterwards.        *)
Close ==
    /\ open
    /\ open' = FALSE /\ closed' = TRUE /\ role' = "None" /\ queue' = {}
    /\ FailPending
    /\ UNCHANGED <<epoch, authority, next_lsn, pending_local_write,
                   progress, highest_lsn, committed_lsn, catch_up_boundary,
                   must_catch_up, sessions, obsolete_sessions,
                   peerVars, applied_lsn, durable_authority, acknowledged>>

(* fence_client_writes, when pending configuration work is cancelled and    *)
(* before the application is asked about data loss.                         *)
FenceClientWrites ==
    /\ ~closed
    /\ FailPending
    /\ UNCHANGED <<logVars, progress, highest_lsn, committed_lsn, catch_up_boundary,
                   must_catch_up, sessions, obsolete_sessions,
                   peerVars, applied_lsn, durable_authority, acknowledged>>

(* The process stops at any point and a new one starts with a new engine;   *)
(* the application log and the admitted authority are durable.              *)
Restart ==
    /\ open' = FALSE /\ closed' = FALSE /\ role' = "None" /\ epoch' = 0 /\ authority' = None
    /\ next_lsn' = 0 /\ pending_local_write' = None /\ queue' = {}
    /\ progress' = [i \in Identity |-> Absent] /\ pending' = {}
    /\ highest_lsn' = 0 /\ committed_lsn' = 0 /\ catch_up_boundary' = None
    /\ must_catch_up' = {} /\ sessions' = [i \in Identity |-> None]
    /\ obsolete_sessions' = {}
    /\ UNCHANGED <<peerVars, applied_lsn, durable_authority, acknowledged>>

-----------------------------------------------------------------------------
(* Authority admission.                                                     *)

(* restore_authority: a restarted process first admits the authority it had *)
(* recorded.                                                                *)
Restores(a) == authority = None /\ durable_authority # None => a = durable_authority

(* validate_managed_configuration_candidate: the epoch advances, or the     *)
(* authority is the installed one, or it is its current-only completion.    *)
MayAdmit(a) ==
    /\ ContainsMember(a, Local)
    /\ Restores(a)
    /\ a.previous # None => a.previous.epoch < a.current.epoch
    /\ a.current.epoch >= epoch
    /\ authority # None =>
          \/ a.current.epoch > authority.current.epoch
          \/ a = authority
          \/ IsCurrentOnlyCompletionOf(a, authority)

(* Only a scale-up completion carries the progress of its joint phase over. *)
KeepsProgress(a) ==
    authority # None =>
        \/ a = authority
        \/ a.scale_up # None /\ IsCurrentOnlyCompletionOf(a, authority)

CatchUpBoundary(a, highest) ==
    IF a.scale_up # None THEN a.scale_up.boundary
    ELSE IF a.previous = None THEN None
    ELSE IF a.handoff # None THEN a.handoff ELSE highest

(* The replica being added whose completed build the primary hands off.     *)
CompletedBuilds(a) ==
    IF /\ LocalIsPrimary(a, Local)
       /\ a.scale_up # None
       /\ a.scale_up.target \in a.current.members \ {Local}
       /\ built[a.scale_up.target] >= a.scale_up.boundary
    THEN {a.scale_up.target} ELSE {}

(* record_local_progress at admission: the next LSN is past the durable log. *)
AlignedNextLsn == Max2(next_lsn, applied_lsn)

AdmitPreparedAuthority(a) ==
    LET kept   == IF KeepsProgress(a) THEN progress ELSE [i \in Identity |-> Absent]
        member == [i \in Identity |-> IF ContainsMember(a, i) THEN kept[i] ELSE Absent]
        local  == Raise(member, Local, applied_lsn)
        builds == CompletedBuilds(a)
        highest == Max2(highest_lsn, applied_lsn)
    IN  /\ open
        /\ MayAdmit(a)
        /\ authority' = a /\ durable_authority' = a
        /\ epoch' = a.current.epoch
        /\ next_lsn' = AlignedNextLsn
        /\ IF a = authority THEN UNCHANGED <<pending_local_write, pending>>
                            ELSE pending_local_write' = None /\ FailPending
        /\ progress' = [i \in Identity |->
                           IF i \in builds THEN Max2(local[i], built[i]) ELSE local[i]]
        /\ highest_lsn' = IF builds = {} THEN highest
                          ELSE Max2(highest, built[a.scale_up.target])
        /\ sessions' = [i \in Identity |-> IF ContainsMember(a, i) THEN sessions[i] ELSE None]
        /\ IF a = authority
           THEN UNCHANGED <<catch_up_boundary, must_catch_up>>
           ELSE /\ catch_up_boundary' = CatchUpBoundary(a, highest)
                /\ must_catch_up' = DeriveMustCatchUp(a)
        /\ UNCHANGED <<open, closed, role, queue, committed_lsn, obsolete_sessions,
                       peerVars, applied_lsn, acknowledged>>

(* The session a registration replaces.                                     *)
Obsoletes(i) == IF sessions[i] = None THEN {} ELSE {<<i, sessions[i]>>}

(* Mutant: the credit earned in the old session is kept.                    *)
RegisterPeerSessionKeepingCredit(i, s) ==
    /\ authority # None /\ ~closed
    /\ i # Local
    /\ ContainsMember(authority, i)
    /\ <<i, s>> \notin obsolete_sessions
    /\ sessions[i] # s
    /\ obsolete_sessions' = obsolete_sessions \cup Obsoletes(i)
    /\ sessions' = [sessions EXCEPT ![i] = s]
    /\ UNCHANGED <<logVars, progress, pending, highest_lsn, committed_lsn,
                   catch_up_boundary, must_catch_up, peerVars, applied_lsn,
                   durable_authority, acknowledged>>

(* register_peer_session: a new session erases the credit of the old one,   *)
(* and the old one is obsolete for good.                                    *)
RegisterPeerSession(i, s) ==
    /\ authority # None /\ ~closed
    /\ i # Local
    /\ ContainsMember(authority, i)
    /\ <<i, s>> \notin obsolete_sessions
    /\ sessions[i] # s
    /\ obsolete_sessions' = obsolete_sessions \cup Obsoletes(i)
    /\ progress' = [progress EXCEPT ![i] = Absent]
    /\ sessions' = [sessions EXCEPT ![i] = s]
    /\ UNCHANGED <<logVars, pending, highest_lsn, committed_lsn, catch_up_boundary,
                   must_catch_up, peerVars, applied_lsn, durable_authority, acknowledged>>

-----------------------------------------------------------------------------
(* Client writes.                                                           *)

MayWrite ==
    /\ open
    /\ authority # None
    /\ role = "Primary"
    /\ epoch = authority.current.epoch

(* reserve_write_inner: one reservation at a time, at the next LSN.         *)
ReserveWrite(op) ==
    /\ MayWrite
    /\ PrimaryIdentity(authority) = Local
    /\ pending_local_write = None
    /\ pending_local_write' = [operation |-> op, lsn |-> next_lsn + 1]
    /\ UNCHANGED <<open, closed, role, epoch, authority, next_lsn, queue,
                   trackerVars, peerVars, applied_lsn, durable_authority, acknowledged>>

(* The reserved operation has been applied durably; count it locally, wait  *)
(* for the quorum, and commit at once if the local copy completes it.       *)
EnsureLocalWriteRegistered ==
    /\ MayWrite
    /\ pending_local_write # None
    /\ LET lsn  == pending_local_write.lsn
           prog == Raise(progress, Local, lsn)
       IN  /\ applied_lsn + 1 >= lsn
           /\ applied_lsn' = Max2(applied_lsn, lsn)
           /\ progress' = prog
           /\ highest_lsn' = Max2(highest_lsn, lsn)
           /\ next_lsn' = Max2(next_lsn, lsn)
           /\ pending_local_write' = None
           /\ IF lsn <= committed_lsn
              THEN /\ queue' = {n \in queue \cup {lsn} : n > committed_lsn}
                   /\ acknowledged' = acknowledged \cup
                          {[lsn |-> lsn, authority |-> authority]}
                   /\ UNCHANGED <<pending, committed_lsn>>
              ELSE FinalizeReadyCommit(prog, pending \cup {lsn},
                       {n \in queue \cup {lsn} : n > committed_lsn})
    /\ UNCHANGED <<open, closed, role, epoch, authority, catch_up_boundary, must_catch_up,
                   sessions, obsolete_sessions, peerVars, durable_authority>>

(* accept_acknowledgement: the session, the epoch and the exact fence must  *)
(* match; then credit the peer and finalize what became ready.              *)
AcceptAcknowledgement(i, s, f, lsn) ==
    /\ authority # None /\ ~closed
    /\ sessions[i] = s
    /\ f.current.epoch = epoch
    /\ ValidateFence(authority, Local, i, f)
    /\ progress' = Raise(progress, i, lsn)
    /\ FinalizeReadyCommit(Raise(progress, i, lsn), pending, queue)
    /\ UNCHANGED <<open, closed, role, epoch, authority, next_lsn, pending_local_write,
                   highest_lsn, catch_up_boundary, must_catch_up, sessions,
                   obsolete_sessions, peerVars, applied_lsn, durable_authority>>

-----------------------------------------------------------------------------
(* Local progress made outside the write path.                              *)

(* A secondary applies the next replicated operation durably.  The engine   *)
(* learns of it when the next authority is admitted.                        *)
ApplyInbound ==
    /\ open
    /\ role = "Active"
    /\ authority # None => ~LocalIsPrimary(authority, Local)
    /\ applied_lsn < MaxLsn
    /\ applied_lsn' = applied_lsn + 1
    /\ UNCHANGED <<logVars, trackerVars, peerVars, durable_authority, acknowledged>>

(* Mutant: the reservation is settled around, but not a registered write.   *)
ReservedLsns == IF pending_local_write = None THEN {} ELSE {pending_local_write.lsn}

UnresolvedLsns ==
    pending \cup (IF pending_local_write = None THEN {} ELSE {pending_local_write.lsn})

(* settle_primary_prefix: commit the certified prefix of a new primary, up  *)
(* to but excluding any local write whose quorum is still open.             *)
RestoreCommittedPrefix(lsn) ==
    /\ open
    /\ role = "Primary"
    /\ authority # None
    /\ lsn <= applied_lsn
    /\ \A n \in UnresolvedLsns : lsn < n
    /\ pending' = {n \in pending : n > lsn}
    /\ acknowledged' = acknowledged \cup
           {[lsn |-> n, authority |-> authority] : n \in {m \in pending : m <= lsn}}
    /\ highest_lsn' = Max2(highest_lsn, lsn)
    /\ committed_lsn' = Max2(committed_lsn, lsn)
    /\ UNCHANGED <<logVars, progress, catch_up_boundary, must_catch_up, sessions,
                   obsolete_sessions, peerVars, applied_lsn, durable_authority>>

(* on_data_loss after the epoch was raised: the provider kept the prefix up *)
(* to lsn, every other claim of progress is dropped.  Writes lost with the  *)
(* data are no longer owed to anyone.                                       *)
ResetProgressAfterDataLoss(lsn) ==
    /\ open
    /\ role = "Primary"
    /\ authority # None => epoch > authority.current.epoch
    /\ lsn <= applied_lsn
    /\ applied_lsn' = lsn /\ next_lsn' = lsn
    /\ highest_lsn' = lsn /\ committed_lsn' = lsn
    /\ progress' = [i \in Identity |-> IF i = Local THEN lsn ELSE Absent]
    /\ FailPending
    /\ pending_local_write' = None /\ queue' = {}
    /\ catch_up_boundary' = None /\ must_catch_up' = {}
    /\ sessions' = [i \in Identity |-> None]
    /\ acknowledged' = {w \in acknowledged : w.lsn <= lsn}
    /\ UNCHANGED <<open, closed, role, epoch, authority, obsolete_sessions, peerVars,
                   durable_authority>>

-----------------------------------------------------------------------------
(* The peers.                                                               *)

(* A peer verifies the next operation this replica sends it as primary.     *)
PeerVerifies(i, f) ==
    LET s == peer_session[i]
    IN  /\ i \in Peers
        /\ f.current.primary = Local
        /\ verified_in[i][s][f] < MaxLsn
        /\ verified_in' = [verified_in EXCEPT ![i][s][f] = @ + 1]
        /\ UNCHANGED <<logVars, trackerVars, peer_session, built, applied_lsn,
                       durable_authority, acknowledged>>

PeerRestarts(i) ==
    /\ i \in Peers \cap Restarting
    /\ peer_session[i] + 1 \in Session
    /\ peer_session' = [peer_session EXCEPT ![i] = @ + 1]
    /\ UNCHANGED <<logVars, trackerVars, verified_in, built, applied_lsn,
                   durable_authority, acknowledged>>

(* A build of a replica being added completes one operation further on.     *)
PeerBuilds(i) ==
    /\ \E a \in Admissible : a.scale_up # None /\ a.scale_up.target = i
    /\ i \in Peers
    /\ built[i] < MaxLsn
    /\ built' = [built EXCEPT ![i] = @ + 1]
    /\ UNCHANGED <<logVars, trackerVars, peer_session, verified_in, applied_lsn,
                   durable_authority, acknowledged>>

-----------------------------------------------------------------------------
ControlStep ==
    \/ Open
    \/ Close
    \/ Restart
    \/ FenceClientWrites
    \/ \E a \in Admissible : \/ UpdateEpoch(a.current.epoch)
                             \/ AdmitPreparedAuthority(a)
                             \/ \E r \in Roles :
                                    /\ MayTakeRole(a.current.epoch, r)
                                    /\ ChangeRole(a.current.epoch, r)

WriteStep ==
    \/ next_lsn < MaxLsn /\ \E op \in Operation : ReserveWrite(op)
    \/ EnsureLocalWriteRegistered
    \/ \E i \in Peers, f \in AdmissibleFences : \E s \in 1..peer_session[i] :
            \E lsn \in 0..verified_in[i][s][f] : AcceptAcknowledgement(i, s, f, lsn)

RecoveryStep ==
    \/ ApplyInbound
    \/ \E lsn \in 0..applied_lsn : RestoreCommittedPrefix(lsn)
    \/ \E lsn \in 0..applied_lsn : ResetProgressAfterDataLoss(lsn)

PeerStep ==
    \E i \in Peers :
        \/ PeerRestarts(i)
        \/ PeerBuilds(i)
        \/ \E f \in AdmissibleFences : PeerVerifies(i, f)
        \/ \E s \in 1..peer_session[i] : RegisterPeerSession(i, s)

Next == ControlStep \/ WriteStep \/ RecoveryStep \/ PeerStep

Spec == Init /\ [][Next]_vars

-----------------------------------------------------------------------------
(* catch_up_complete: a write quorum of the CC has reached the boundary that *)
(* was frozen when the authority was admitted, and so has every replica that *)
(* gates the transition.                                                     *)
CatchUpComplete ==
    \/ catch_up_boundary = None
    \/ LET reached == QuorumProgress(authority.current, progress)
       IN  /\ reached >= catch_up_boundary
           /\ \A i \in must_catch_up : progress[i] # Absent /\ progress[i] >= reached

-----------------------------------------------------------------------------
(* Properties.                                                              *)

(* Fences under which a peer can have earned credit for authority a.        *)
CreditFences(a) ==
    {f \in AdmissibleFences :
        \/ f = Fence(a)
        \/ a.scale_up # None /\ f.current = a.current}

(* What replica i really holds under a: its own durable log, an operation it *)
(* verified under the fence, or the completed build it was handed.           *)
Holds(i, a, lsn) ==
    IF i = Local THEN applied_lsn >= lsn
    ELSE \/ \E s \in Session, f \in CreditFences(a) : verified_in[i][s][f] >= lsn
         \/ a.scale_up # None /\ i = a.scale_up.target /\ built[i] >= lsn

HeldByQuorum(config, a, lsn) ==
    Cardinality({i \in config.members : Holds(i, a, lsn)}) >= config.write_quorum

(* The engine's variables have the shapes the structs declare.              *)
TypeOK ==
    /\ open \in BOOLEAN
    /\ role \in Roles
    /\ epoch \in Nat
    /\ closed \in BOOLEAN
    /\ authority \in Admissible \cup {None}
    /\ durable_authority \in Admissible \cup {None}
    /\ next_lsn \in Nat
    /\ pending_local_write \in [operation : Operation, lsn : Nat \ {0}] \cup {None}
    /\ queue \subseteq Nat
    /\ progress \in [Identity -> Nat \cup {Absent}]
    /\ pending \subseteq Nat \ {0}
    /\ highest_lsn \in Nat
    /\ committed_lsn \in Nat
    /\ catch_up_boundary \in Nat \cup {None}
    /\ must_catch_up \subseteq Identity
    /\ sessions \in [Identity -> Session \cup {None}]
    /\ obsolete_sessions \subseteq Identity \X Session
    /\ applied_lsn \in Nat
    /\ peer_session \in [Identity -> Session]
    /\ verified_in \in [Identity -> [Session -> [AdmissibleFences -> Nat]]]
    /\ built \in [Identity -> Nat]
    /\ acknowledged \subseteq [lsn : Nat \ {0}, authority : Admissible]

(* A write whose client was told it committed is durable at a write quorum  *)
(* of the Current Configuration, and of the Previous Configuration if the   *)
(* authority was joint, whatever happens afterwards: finalize_commit never  *)
(* answers a wait on credit from an older fence or session.                 *)
AcknowledgedIsReplicated ==
    \A w \in acknowledged :
        /\ HeldByQuorum(w.authority.current, w.authority, w.lsn)
        /\ w.authority.previous # None =>
               HeldByQuorum(w.authority.previous, w.authority, w.lsn)

(* The tracker never credits a peer with more than the peer acknowledged in *)
(* the session registered for it, under the admitted fence; the exceptions  *)
(* are the two the code makes for a scale-up.                               *)
CreditIsEarned ==
    \A i \in Peers : progress[i] > 0 =>
        /\ authority # None
        /\ \/ /\ sessions[i] # None
              /\ \E f \in CreditFences(authority) :
                    verified_in[i][sessions[i]][f] >= progress[i]
           \/ /\ authority.scale_up # None
              /\ i = authority.scale_up.target
              /\ built[i] >= progress[i]

(* No client wait outlives the authority, epoch or role it was registered   *)
(* under: every path that changes one of them fails the waits first.        *)
WaitsAreFenced == pending # {} => MayWrite /\ PrimaryIdentity(authority) = Local

(* A reservation never reuses the LSN of an acknowledged write, nor that of *)
(* an operation already committed, across any number of admissions.         *)
ReservationIsFresh ==
    pending_local_write # None =>
        /\ \A w \in acknowledged : w.lsn < pending_local_write.lsn
        /\ committed_lsn < pending_local_write.lsn

(* A write that waits for its quorum can still be sent: truncating the queue *)
(* at a commit never drops an operation some client waits for.               *)
WaitsAreQueued == pending \subseteq queue

(* When the engine reports a transition caught up, a write quorum of the CC *)
(* and every replica that gates it durably hold the frozen boundary.        *)
CatchUpIsReplicated ==
    authority # None /\ catch_up_boundary # None /\ CatchUpComplete =>
        /\ HeldByQuorum(authority.current, authority, catch_up_boundary)
        /\ \A i \in must_catch_up : Holds(i, authority, catch_up_boundary)

(* The quorum progress found by sorting is the greatest LSN that the commit *)
(* rule would call quorum-ready: the catch-up gate and the commit gate can  *)
(* never disagree.                                                          *)
QuorumProgressAgreesWithCommit ==
    authority # None =>
        LET reached == QuorumProgress(authority.current, progress)
        IN  \A lsn \in Nat \ {0} :
                HasQuorum(authority.current, progress, lsn) <=> lsn <= reached

=============================================================================
