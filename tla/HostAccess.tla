---------------------------- MODULE HostAccess ----------------------------
(***************************************************************************)
(* How a replica's process opens and closes client writes.  Two views must *)
(* agree: the engine's, which admits a write, and the host's, which is     *)
(* shown to the application and to the reports.  A transaction reserves a  *)
(* projection, has the engine prove it, publishes it in both views and is  *)
(* accepted by the journal; authority admission, a supersession, peer      *)
(* discovery and build admission run beside it and invalidate it through   *)
(* two generations.  The recovery owner restores access that was lost.     *)
(*                                                                         *)
(* Sources, in kuberic-runtime/src: host/custom.rs (the managed lifecycle  *)
(* and its common host), host/hosting.rs, host/lifecycle.rs,               *)
(* host/recovery.rs, and the engine's side of them in runtime.rs.          *)
(*                                                                         *)
(* Access is the write status; reading is opened and closed with it.  Of   *)
(* an authority only its number counts; this replica is the primary of     *)
(* each.  A peer is known by its session.  The engine's proof (catch-up,   *)
(* recovered writes) succeeds at once, see LocalWrites and ReplicationLog. *)
(***************************************************************************)
EXTENDS Naturals, FiniteSets, Sequences

CONSTANTS
    None,
    Peers,
    MaxTries,
    Txns,        \* access transactions that may exist at the same time
    Worlds       \* [granted, first, next, preserve, describe, register, expire, fault,
                 \* behind, fair]: whether access is granted at the start; the effects of the
                 \* first command and of the one that supersedes it (None: there is
                 \* none); whether its authority is a scale-up of the same primary;
                 \* the peers that are described and the ones that are registered
                 \* with a new session; whether recovery may run into its deadline;
                 \* whether the application reports a fault; whether the replicas are
                 \* behind at the start; whether scheduling is fair

VARIABLES
    world,
    eng,         \* engine: [auth, write, gen, hostGen, pend]
    host,        \* [auth, write, conf, sess, conGen, accGen, pubGen, fault]
    lock,        \* the owner of access_commit
    durable,     \* the agent's store: [auth, write, pend]
    recorded,    \* the last access effect the live host recorded: its write status
    todo,        \* effects of the running command that are not complete
    drv,         \* the driver under the command lock: [pc, txn]
    txn,         \* access transactions: [pc, want, alive, recovery, prep]
    proj,        \* the projection each actor has reserved
    disc,        \* the peer discovery task: [pc, peer, locked, owned]
    obligation,  \* restored_access: [auth, conGen, accGen, active, sess] or None
    left         \* disturbances that are still to come

vars == <<world, eng, host, lock, durable, recorded, todo, drv, txn, proj, disc,
          obligation, left>>

Driver == "driver"
Discovery == "discovery"
Actors == Txns \cup {Driver, Discovery}

\* The configuration the host would publish: the authority and the sessions.
Description(a, s) == <<a, s>>

(***************************************************************************)
(* Projections.                                                            *)
(***************************************************************************)
\* reserve_access_projection, first half: what the reservation is for.  A grant is
\* refused by a reported fault, which closes access instead.
Captured(want) ==
    [want |-> IF host.fault THEN "Pending" ELSE want,
     faulted |-> host.fault /\ want = "Granted",
     auth |-> host.auth, conf |-> host.conf, sess |-> host.sess, conGen |-> host.conGen,
     accGen |-> 0]

Unmoved(p) ==
    /\ p.auth = host.auth /\ p.conf = host.conf /\ p.sess = host.sess
    /\ p.conGen = host.conGen

\* Its second half, under access_commit.
Reserved(p) == [p EXCEPT !.accGen = host.accGen + 1]

Attempted(p) ==
    IF /\ obligation # None /\ p.want = "Granted" /\ obligation.auth = p.auth
       /\ obligation.conGen = p.conGen /\ obligation.sess = p.sess
    THEN [obligation EXCEPT !.active = host.accGen + 1]
    ELSE obligation

\* validate_access_projection.
Valid(p) == Unmoved(p) /\ p.accGen = host.accGen

\* rollback_common_access_projection_locked: nothing once a newer one is published.
RolledBack(p) ==
    IF host.pubGen > p.accGen THEN host
    ELSE [host EXCEPT !.accGen = IF @ = p.accGen THEN @ + 1 ELSE @, !.write = "Pending"]

\* release_access_reservation.
Released(p) ==
    IF host.accGen = p.accGen /\ host.pubGen < p.accGen
    THEN [host EXCEPT !.accGen = @ + 1]
    ELSE host

\* cleanup_failed_access_projection, after a cancellation: what is published stays.
Cleaned(p) ==
    IF host.accGen = p.accGen /\ host.pubGen < p.accGen
    THEN [host EXCEPT !.accGen = @ + 1]
    ELSE host

\* publish_access_projection_locked.
Published(p) == [host EXCEPT !.write = p.want, !.pubGen = p.accGen]

(***************************************************************************)
(* Invalidation.                                                           *)
(***************************************************************************)
\* invalidate_configuration_attempts and invalidate_build_attempts.
Invalidated(h) == [h EXCEPT !.accGen = @ + 1, !.conGen = @ + 1]

\* Engine: fence_writes.
Fenced(e) == [e EXCEPT !.write = "Pending"]

\* Dropping a preparation that was not committed (replicator/mod.rs, Drop).
Dropped(e) ==
    IF e.pend # None /\ e.pend.active THEN [e EXCEPT !.gen = @ + 1, !.pend.active = FALSE] ELSE e

\* Between acceptance and the decision the engine's delivery lock is held.
Delivering == \A t \in Txns : txn[t].pc # "accepted"

(***************************************************************************)
(* Access transactions (execute_access_transaction).                       *)
(***************************************************************************)
NoTxn == [pc |-> "idle", want |-> None, alive |-> FALSE, recovery |-> FALSE, prep |-> None]

Go(t, pc) == txn' = [txn EXCEPT ![t].pc = pc] /\ UNCHANGED proj
End(t) == txn' = [txn EXCEPT ![t] = NoTxn] /\ proj' = [proj EXCEPT ![t] = None]

Abandoned(t) == ~txn[t].alive

TxnFrame == UNCHANGED <<world, durable, recorded, todo, drv, disc, left>>

Capture(t) ==
    /\ txn[t].pc = "capture"
    /\ txn' = [txn EXCEPT ![t].pc = "reserve"]
    /\ proj' = [proj EXCEPT ![t] = Captured(txn[t].want)]
    /\ TxnFrame /\ UNCHANGED <<eng, host, lock, obligation>>

Reserve(t) ==
    /\ txn[t].pc = "reserve" /\ lock = None
    /\ IF Unmoved(proj[t])
       THEN /\ host' = [host EXCEPT !.accGen = @ + 1]
            /\ proj' = [proj EXCEPT ![t] = Reserved(@)]
            /\ obligation' = Attempted(proj[t])
            /\ txn' = [txn EXCEPT ![t].pc = "prepare"]
       ELSE /\ End(t) /\ UNCHANGED <<host, obligation>>
    /\ TxnFrame /\ UNCHANGED <<eng, lock>>

\* Engine: prepare_access.  It is refused while a configuration is pending, and a grant
\* until the replicas have caught up.  Each time the publication resumes, an abandoned
\* one is dropped first (the select is biased).
Prepare(t) ==
    /\ txn[t].pc = "prepare" /\ ~Abandoned(t)
    /\ txn' = [txn EXCEPT ![t].pc = IF eng.pend = None /\ (left.behind => proj[t].want # "Granted")
                                     THEN "complete" ELSE "release",
                          ![t].prep = [auth |-> eng.auth, gen |-> eng.gen]]
    /\ TxnFrame /\ UNCHANGED <<eng, host, lock, proj, obligation>>

Release(t) ==
    /\ txn[t].pc = "release" /\ lock = None
    /\ host' = Released(proj[t]) /\ End(t)
    /\ TxnFrame /\ UNCHANGED <<eng, lock, obligation>>

\* complete_access_projection and validate_access_preparation.
Complete(t) ==
    /\ txn[t].pc = "complete" /\ ~Abandoned(t)
    /\ Go(t, IF Valid(proj[t]) /\ txn[t].prep.auth = proj[t].auth
             THEN "publish" ELSE "rollback")
    /\ TxnFrame /\ UNCHANGED <<eng, host, lock, obligation>>

\* rollback_common_access_projection.
Rollback(t) ==
    /\ txn[t].pc = "rollback" /\ lock = None
    /\ host' = RolledBack(proj[t]) /\ End(t)
    /\ TxnFrame /\ UNCHANGED <<eng, lock, obligation>>

\* publish_managed_access under access_commit: the engine first (publish_access).
PublishEngine(t) ==
    /\ txn[t].pc = "publish" /\ lock = None
    /\ IF /\ Valid(proj[t])
          /\ txn[t].prep.gen = eng.gen /\ txn[t].prep.auth = eng.auth
       THEN /\ Delivering /\ eng' = [eng EXCEPT !.write = proj[t].want]
            /\ lock' = t /\ Go(t, "show") /\ UNCHANGED host
       ELSE /\ host' = RolledBack(proj[t]) /\ End(t) /\ UNCHANGED <<eng, lock>>
    /\ TxnFrame /\ UNCHANGED <<obligation>>

\* Then the host.  A grant that a fault turned into a closure is an error.
PublishHost(t) ==
    /\ txn[t].pc = "show" /\ ~Abandoned(t) /\ lock = t /\ lock' = None
    /\ IF Valid(proj[t]) /\ ~proj[t].faulted
       THEN /\ host' = Published(proj[t])
            /\ Go(t, "ready") /\ UNCHANGED eng
       ELSE /\ eng' = Fenced(eng) /\ host' = RolledBack(proj[t])
            /\ End(t)
    /\ TxnFrame /\ UNCHANGED <<obligation>>

\* The publication is dropped where it stands: its driver is gone, or recovery's
\* deadline (RECOVERY_ACCESS_TIMEOUT) has passed.
Cancel(t) ==
    /\ txn[t].pc \in {"prepare", "complete", "publish", "show"}
    /\ \/ Abandoned(t) /\ UNCHANGED left
       \/ txn[t].recovery /\ left.expire /\ left' = [left EXCEPT !.expire = FALSE]
    /\ lock' = IF lock = t THEN None ELSE lock
    /\ Go(t, "cancelled")
    /\ UNCHANGED <<world, eng, host, durable, recorded, todo, drv, disc, obligation>>

\* rollback_cancelled_managed_access.
RollbackCancelled(t) ==
    /\ txn[t].pc = "cancelled" /\ lock = None
    /\ IF host.accGen # proj[t].accGen \/ host.pubGen > proj[t].accGen
       THEN UNCHANGED <<eng, host>>
       ELSE eng' = Fenced(eng) /\ host' = RolledBack(proj[t])
    /\ End(t)
    /\ TxnFrame /\ UNCHANGED <<lock, obligation>>

\* Mutant: a stale transaction closes whatever has been published since.
ForceRollbackManaged(t) ==
    /\ txn[t].pc = "revoke" /\ lock = None
    /\ eng' = Fenced(eng) /\ host' = RolledBack(proj[t])
    /\ End(t)
    /\ TxnFrame /\ UNCHANGED <<lock, obligation>>

\* rollback_managed_access.
RollbackManaged(t) ==
    /\ txn[t].pc = "revoke" /\ lock = None
    /\ IF host.pubGen > proj[t].accGen
       THEN UNCHANGED <<eng, host>>
       ELSE eng' = Fenced(eng) /\ host' = RolledBack(proj[t])
    /\ End(t)
    /\ TxnFrame /\ UNCHANGED <<lock, obligation>>

\* The driver accepts; lock_native_fence proves that the engine has not moved.
Accept(t) ==
    /\ txn[t].pc = "ready"
    /\ Abandoned(t) \/ lock = None
    /\ IF /\ ~Abandoned(t)
          /\ host.accGen = proj[t].accGen /\ host.pubGen = proj[t].accGen
          /\ eng.pend = None /\ txn[t].prep.gen = eng.gen /\ txn[t].prep.auth = eng.auth
       THEN lock' = t /\ Go(t, "accepted")
       ELSE Go(t, "revoke") /\ UNCHANGED lock
    /\ TxnFrame /\ UNCHANGED <<eng, host, obligation>>

\* The decision.  Without one, or when the projection has moved, both views close.
Decide(t) ==
    /\ txn[t].pc = "accepted" /\ lock = t
    /\ Abandoned(t) \/ drv.pc = "decided"
    /\ lock' = None
    /\ IF ~Abandoned(t) /\ Valid(proj[t])
       THEN Go(t, "record") /\ UNCHANGED <<eng, host>>
       ELSE eng' = Fenced(eng) /\ host' = RolledBack(proj[t]) /\ End(t)
    /\ TxnFrame /\ UNCHANGED <<obligation>>

\* AccessCommit::record, after access_commit is released.
Record(t) ==
    /\ txn[t].pc = "record" /\ End(t)
    /\ recorded' = IF txn[t].recovery THEN recorded ELSE proj[t].want
    /\ obligation' = IF txn[t].recovery THEN None ELSE obligation
    /\ UNCHANGED <<world, eng, host, lock, durable, todo, drv, disc, left>>

(***************************************************************************)
(* The driver: one effect of a command at a time (prepare_effect), or the  *)
(* recovery of access when no effect is pending (RecoveryOwner::advance).  *)
(***************************************************************************)
Free(t) == txn[t] = NoTxn
Fresh(t) == Free(t) /\ t = CHOOSE u \in Txns : Free(u)
Step(pc) == drv' = [drv EXCEPT !.pc = pc]

DrvFrame == UNCHANGED <<world, disc, left>>

\* A grant fails each time under a reported fault, and until the replicas have caught
\* up; MaxTries bounds these attempts.
Tried ==
    IF host.fault \/ left.behind THEN left.tries < MaxTries /\ left' = [left EXCEPT !.tries = @ + 1]
    ELSE UNCHANGED left

Spawn(t, want, recovery) ==
    txn' = [txn EXCEPT ![t] = [NoTxn EXCEPT !.pc = "capture", !.want = want, !.alive = TRUE,
                                            !.recovery = recovery]]

IsAccess(op) == op \in {"Granted", "Pending"}

\* effect_lock, which an access effect holds until its publication is over, and a
\* description too if it was free when it began.
EffectLocked ==
    \/ disc.locked
    \/ drv.pc \notin {"idle", "recover", "decided", "access"}
    \/ drv.pc = "access" /\ txn[drv.txn].pc \notin {"idle", "ready", "accepted"}

BeginEffect ==
    /\ drv.pc = "idle" /\ todo # <<>> /\ ~EffectLocked /\ Tried
    /\ durable' = [durable EXCEPT !.pend = TRUE]
    /\ IF IsAccess(Head(todo))
       THEN \E t \in Txns :
                /\ Fresh(t) /\ Spawn(t, Head(todo), FALSE) /\ drv' = [pc |-> "access", txn |-> t]
       ELSE /\ Step(IF Head(todo) = "build" THEN "configure" ELSE "invalidate")
            /\ UNCHANGED txn
    /\ UNCHANGED <<world, disc, eng, host, lock, recorded, todo, proj, obligation>>

\* Mutant: recovery grants what was granted last, whatever the store says.
RecoverRecorded ==
    /\ drv.pc = "idle" /\ todo = <<>> /\ ~durable.pend /\ Tried
    /\ recorded # host.write
    /\ \E t \in Txns :
           /\ Fresh(t) /\ Spawn(t, recorded, TRUE) /\ drv' = [pc |-> "recover", txn |-> t]
    /\ UNCHANGED <<world, disc>>
    /\ UNCHANGED <<eng, host, lock, durable, recorded, todo, proj, obligation>>

\* The durable status is the goal; the host's status tells whether it is reached.
Recover ==
    /\ drv.pc = "idle" /\ todo = <<>> /\ ~durable.pend /\ Tried
    /\ durable.write # host.write
    /\ \E t \in Txns :
           /\ Fresh(t) /\ Spawn(t, durable.write, TRUE) /\ drv' = [pc |-> "recover", txn |-> t]
    /\ UNCHANGED <<world, disc>>
    /\ UNCHANGED <<eng, host, lock, durable, recorded, todo, proj, obligation>>

\* restore_access, commit_access_obligation: the recovery transaction is decided as
\* soon as it is accepted; a failed one is tried again, and its obligation stays.
RecoveryWaits ==
    /\ drv.pc = "recover"
    /\ \/ /\ txn[drv.txn].pc = "accepted" /\ Step("decided") /\ UNCHANGED obligation
       \/ /\ Free(drv.txn) /\ drv' = [pc |-> "idle", txn |-> None]
          /\ obligation' = IF obligation = None THEN None
                           ELSE [obligation EXCEPT !.accGen = host.accGen, !.active = None]
    /\ DrvFrame /\ UNCHANGED <<eng, host, lock, durable, recorded, todo, txn, proj>>

\* An access effect: its completion is journaled before the decision is sent
\* (RuntimeAdapter); a failed one stays pending and is tried again.
AccessWaits ==
    /\ drv.pc = "access"
    /\ \/ /\ txn[drv.txn].pc = "accepted" /\ Step("decided")
          /\ durable' = [durable EXCEPT !.write = Head(todo), !.pend = FALSE]
          /\ todo' = Tail(todo)
       \/ /\ Free(drv.txn) /\ drv' = [pc |-> "idle", txn |-> None]
          /\ UNCHANGED <<durable, todo>>
    /\ DrvFrame /\ UNCHANGED <<eng, host, lock, recorded, txn, proj, obligation>>

Decided ==
    /\ drv.pc = "decided" /\ Free(drv.txn)
    /\ drv' = [pc |-> "idle", txn |-> None]
    /\ DrvFrame
    /\ UNCHANGED <<eng, host, lock, durable, recorded, todo, txn, proj, obligation>>

(***************************************************************************)
(* Authority admission (admit_authority).                                  *)
(***************************************************************************)
NextAuthority == 2
Preserves == world.preserve

\* prepare_authority_admission, invalidate_configuration_attempts.
AdmitInvalidate ==
    /\ drv.pc = "invalidate" /\ lock = None
    /\ IF host.auth = NextAuthority
       THEN Step("engine") /\ UNCHANGED host
       ELSE /\ host' = Invalidated(host)
            /\ Step(IF Preserves THEN "engine" ELSE "fence")
    /\ DrvFrame
    /\ UNCHANGED <<eng, lock, durable, recorded, todo, txn, proj, obligation>>

\* fence_managed_access: obligations and build attempts go, then access closes.
AdmitFence ==
    /\ drv.pc = "fence" /\ lock = None
    /\ host' = Invalidated(host) /\ obligation' = None /\ Step("close")
    /\ DrvFrame /\ UNCHANGED <<eng, lock, durable, recorded, todo, txn, proj>>

\* set_access of the common host, for the driver and for discovery.
CloseCapture(x) == proj' = [proj EXCEPT ![x] = Captured("Pending")]

CloseReserve(x, next, failed) ==
    /\ lock = None
    /\ IF Unmoved(proj[x])
       THEN /\ host' = [host EXCEPT !.accGen = @ + 1]
            /\ proj' = [proj EXCEPT ![x] = Reserved(@)] /\ next
       ELSE failed /\ proj' = [proj EXCEPT ![x] = None] /\ UNCHANGED host

ClosePublish(x, next, failed) ==
    /\ lock = None
    /\ IF Valid(proj[x])
       THEN host' = Published(proj[x]) /\ next
       ELSE host' = Cleaned(proj[x]) /\ failed
    /\ proj' = [proj EXCEPT ![x] = None]

EffectFailed == drv' = [pc |-> "idle", txn |-> None]

AdmitClose ==
    /\ \/ drv.pc = "close" /\ CloseCapture(Driver) /\ Step("closing") /\ UNCHANGED host
       \/ drv.pc = "closing" /\ CloseReserve(Driver, Step("closed"), EffectFailed)
       \/ drv.pc = "closed" /\ ClosePublish(Driver, Step("engine"), EffectFailed)
    /\ DrvFrame
    /\ UNCHANGED <<eng, lock, durable, recorded, todo, txn, obligation>>

\* Engine: prepare_replica_configuration.
AdmitEngine ==
    /\ drv.pc = "engine" /\ Delivering
    /\ IF eng.pend # None /\ eng.pend.active THEN EffectFailed /\ UNCHANGED eng
       ELSE LET changed == eng.auth # NextAuthority \/ eng.hostGen # host.conGen
                gen == IF changed THEN eng.gen + 1 ELSE eng.gen
                keep == eng.auth = NextAuthority \/ Preserves
            IN /\ eng' = [eng EXCEPT
                    !.gen = gen, !.write = IF changed /\ ~keep THEN "Pending" ELSE @,
                    !.pend = [gen |-> gen, hostGen |-> host.conGen, active |-> TRUE]]
               /\ Step("store")
    /\ DrvFrame
    /\ UNCHANGED <<host, lock, durable, recorded, todo, txn, proj, obligation>>

AdmitStore ==
    /\ drv.pc = "store" /\ Step("commit")
    /\ durable' = [durable EXCEPT !.auth = NextAuthority]
    /\ DrvFrame /\ UNCHANGED <<eng, host, lock, recorded, todo, txn, proj, obligation>>

\* Engine: install_managed_configuration.
Installed(e) == [e EXCEPT !.auth = NextAuthority, !.hostGen = e.pend.hostGen, !.pend = None]

\* Engine: commit_replica_configuration.
AdmitCommit ==
    /\ drv.pc = "commit"
    /\ IF eng.pend = None \/ ~eng.pend.active \/ eng.pend.gen # eng.gen
       THEN EffectFailed /\ eng' = Dropped(eng)
       ELSE eng' = Installed(eng) /\ Step("install")
    /\ DrvFrame
    /\ UNCHANGED <<host, lock, durable, recorded, todo, txn, proj, obligation>>

\* install_managed_authority.
AdmitInstall ==
    /\ drv.pc = "install"
    /\ host' = [host EXCEPT !.auth = NextAuthority]
    /\ Step("configure")
    /\ DrvFrame
    /\ UNCHANGED <<eng, lock, durable, recorded, todo, txn, proj, obligation>>

\* configure: a configuration that differs starts a new generation ...
Reconfigured(h) ==
    IF h.conf = Description(h.auth, h.sess) THEN h ELSE [h EXCEPT !.conGen = @ + 1]

\* ... and is published if no newer one was started meanwhile.
Configured(h, gen, described) ==
    IF h.conGen = gen THEN [h EXCEPT !.conf = described] ELSE h

\* The admitted build changes the description too (install_managed_build).
Configure ==
    /\ drv.pc = "configure"
    /\ host' = IF Head(todo) = "build" THEN [host EXCEPT !.conGen = @ + 1]
               ELSE Reconfigured(host)
    /\ proj' = [proj EXCEPT ![Driver] = [conGen |-> host'.conGen,
                                         conf |-> Description(host.auth, host.sess)]]
    /\ Step("configured")
    /\ DrvFrame
    /\ UNCHANGED <<eng, lock, durable, recorded, todo, txn, obligation>>

ConfigureDone ==
    /\ drv.pc = "configured"
    /\ host' = Configured(host, proj[Driver].conGen, proj[Driver].conf)
    /\ proj' = [proj EXCEPT ![Driver] = None]
    /\ IF host.conGen # proj[Driver].conGen
       THEN EffectFailed /\ UNCHANGED <<durable, todo>>
       ELSE IF Head(todo) = "build"
       THEN EffectFailed /\ todo' = Tail(todo) /\ durable' = [durable EXCEPT !.pend = FALSE]
       ELSE Step("synchronize") /\ UNCHANGED <<durable, todo>>
    /\ DrvFrame /\ UNCHANGED <<eng, lock, recorded, txn, obligation>>

\* Engine: synchronize_replica_configuration.
Synchronize ==
    /\ drv.pc = "synchronize" /\ Delivering
    /\ eng' = IF eng.hostGen = host.conGen THEN eng
              ELSE [eng EXCEPT !.gen = @ + 1, !.hostGen = host.conGen]
    /\ drv' = [pc |-> "idle", txn |-> None]
    /\ todo' = Tail(todo) /\ durable' = [durable EXCEPT !.pend = FALSE]
    /\ DrvFrame /\ UNCHANGED <<host, lock, recorded, txn, proj, obligation>>

(***************************************************************************)
(* Supersession (cancel_configuration_work): generations first, then the   *)
(* access generation under its lock, then the engine.  The running driver  *)
(* drops its effect wherever it is.                                        *)
(***************************************************************************)
CancelConfiguration ==
    /\ left.supersede = "ready"
    /\ left' = [left EXCEPT !.supersede = "access"]
    /\ host' = [host EXCEPT !.conGen = @ + 1] /\ obligation' = None
    /\ UNCHANGED <<world, eng, lock, durable, recorded, todo, drv, txn, proj, disc>>

CancelAccess ==
    /\ left.supersede = "access" /\ lock = None
    /\ left' = [left EXCEPT !.supersede = "engine"]
    /\ host' = [host EXCEPT !.accGen = @ + 1]
    /\ UNCHANGED <<world, eng, lock, durable, recorded, todo, drv, txn, proj, disc,
                   obligation>>

\* Engine: cancel_configuration_work, then fence_writes.
CancelEngine ==
    /\ \/ /\ left.supersede = "engine" /\ Delivering
          /\ left' = [left EXCEPT !.supersede = "fence"]
          /\ eng' = [eng EXCEPT !.gen = @ + 1, !.pend = None]
       \/ /\ left.supersede = "fence"
          /\ left' = [left EXCEPT !.supersede = "take"]
          /\ eng' = Fenced(eng)
    /\ UNCHANGED <<world, host, lock, durable, recorded, todo, drv, txn, proj, disc,
                   obligation>>

\* The old driver gives up and the new command begins with its own effects.
Supersede ==
    /\ left.supersede = "take"
    /\ left' = [left EXCEPT !.supersede = None]
    /\ txn' = [t \in Txns |-> IF Free(t) THEN NoTxn ELSE [txn[t] EXCEPT !.alive = FALSE]]
    /\ drv' = [pc |-> "idle", txn |-> None]
    /\ todo' = world.next /\ durable' = [durable EXCEPT !.pend = TRUE]
    /\ eng' = IF drv.pc \in {"store", "commit"} THEN Dropped(eng) ELSE eng
    /\ proj' = [proj EXCEPT ![Driver] = None]
    /\ UNCHANGED <<world, host, lock, recorded, disc, obligation>>

(***************************************************************************)
(* Peer discovery (describe_peer_with_owned_access_recovery).              *)
(***************************************************************************)
NoDisc == [pc |-> "idle", peer |-> None, locked |-> FALSE, owned |-> FALSE]
DiscFrame == UNCHANGED <<world, durable, recorded, todo, drv, txn, left>>
DiscStep(pc) == disc' = [disc EXCEPT !.pc = pc]

\* The grant is owned when no effect runs and the last access effect is shown.
Describe(p) ==
    /\ disc = NoDisc /\ p \in left.describe
    /\ left' = [left EXCEPT !.describe = @ \ {p}]
    /\ disc' = [NoDisc EXCEPT !.pc = "session", !.peer = p,
                    !.locked = ~EffectLocked,
                    !.owned = /\ ~EffectLocked /\ ~host.fault
                              /\ recorded = "Granted" /\ host.write = "Granted"]
    /\ UNCHANGED <<world, eng, host, lock, durable, recorded, todo, drv, txn, proj,
                   obligation>>

\* register_common_peer_locked: a replaced session invalidates every attempt.
Replaced(h, p) == Invalidated([h EXCEPT !.sess[p] = @ + 1])

DescribeSession ==
    /\ disc.pc = "session" /\ lock = None
    /\ host' = Replaced(host, disc.peer) /\ DiscStep("fence")
    /\ DiscFrame /\ UNCHANGED <<eng, lock, proj, obligation>>

\* CustomReplicatorHost::fence_writes.
DescribeFence ==
    /\ disc.pc = "fence" /\ lock = None
    /\ obligation' = None
    /\ host' = IF host.conf = None THEN host ELSE Invalidated(host)
    /\ DiscStep("epoch")
    /\ DiscFrame /\ UNCHANGED <<eng, lock, proj>>

\* Engine: control_update_epoch closes writes.
DescribeEpoch ==
    /\ disc.pc = "epoch" /\ Delivering
    /\ eng' = [Fenced(eng) EXCEPT !.gen = @ + 1]
    /\ DiscStep("close")
    /\ DiscFrame /\ UNCHANGED <<host, lock, proj, obligation>>

DescribeFailed == disc' = NoDisc

DescribeClose ==
    /\ \/ disc.pc = "close" /\ CloseCapture(Discovery) /\ DiscStep("closing") /\ UNCHANGED host
       \/ disc.pc = "closing" /\ CloseReserve(Discovery, DiscStep("closed"), DescribeFailed)
       \/ disc.pc = "closed" /\ ClosePublish(Discovery, DiscStep("address"), DescribeFailed)
    /\ DiscFrame /\ UNCHANGED <<eng, lock, obligation>>

\* The address is stored and the configuration published again.
DescribeConfigure ==
    /\ disc.pc = "address"
    /\ host' = Reconfigured(host)
    /\ proj' = [proj EXCEPT ![Discovery] = [conGen |-> host'.conGen,
                                            conf |-> Description(host.auth, host.sess)]]
    /\ DiscStep("publish")
    /\ DiscFrame /\ UNCHANGED <<eng, lock, obligation>>

DescribePublish ==
    /\ disc.pc = "publish"
    /\ host' = Configured(host, proj[Discovery].conGen, proj[Discovery].conf)
    /\ proj' = [proj EXCEPT ![Discovery] = None]
    /\ IF host.conGen = proj[Discovery].conGen THEN DiscStep("owe") ELSE DescribeFailed
    /\ DiscFrame /\ UNCHANGED <<eng, lock, obligation>>

\* defer_access_obligation: the grant this task has taken away is to be restored.
DescribeOwe ==
    /\ disc.pc = "owe"
    /\ obligation' = IF /\ disc.owned /\ host.write # "Granted"
                        /\ durable.auth = host.auth
                     THEN [auth |-> host.auth, conGen |-> host.conGen,
                           accGen |-> host.accGen, active |-> None, sess |-> host.sess]
                     ELSE obligation
    /\ disc' = NoDisc
    /\ DiscFrame /\ UNCHANGED <<eng, host, lock, proj>>

\* register_peer_session, from the discovery loop and before each delivery: the
\* engine's quorum first, which a pending configuration refuses.  A description holds
\* session_registration until it has closed access.
Register(p) ==
    /\ p \in left.register /\ lock = None /\ eng.pend = None
    /\ disc.pc \in {"idle", "address", "publish", "owe"}
    /\ left' = [left EXCEPT !.register = @ \ {p}]
    /\ host' = Replaced(host, p)
    /\ UNCHANGED <<world, eng, lock, durable, recorded, todo, drv, txn, proj, disc,
                   obligation>>

\* report_fault.
ReportFault ==
    /\ left.fault /\ left' = [left EXCEPT !.fault = FALSE]
    /\ host' = [host EXCEPT !.fault = TRUE]
    /\ UNCHANGED <<world, eng, lock, durable, recorded, todo, drv, txn, proj, disc,
                   obligation>>

\* The replicas catch up, see ReplicationLog.
CatchUp ==
    /\ left.behind /\ left' = [left EXCEPT !.behind = FALSE]
    /\ UNCHANGED <<world, eng, host, lock, durable, recorded, todo, drv, txn, proj, disc,
                   obligation>>

(***************************************************************************)
(* The specification.                                                      *)
(***************************************************************************)
Status(w) == IF w.granted THEN "Granted" ELSE "Pending"

Init ==
    /\ world \in Worlds
    /\ eng = [auth |-> 1, write |-> Status(world), gen |-> 0, hostGen |-> 0, pend |-> None]
    /\ host = [auth |-> 1, write |-> Status(world), sess |-> [p \in Peers |-> 0],
               conf |-> Description(1, [p \in Peers |-> 0]), conGen |-> 0, accGen |-> 0,
               pubGen |-> 0, fault |-> FALSE]
    /\ lock = None
    /\ durable = [auth |-> 1, write |-> Status(world), pend |-> FALSE]
    /\ recorded = Status(world)
    /\ todo = world.first
    /\ drv = [pc |-> "idle", txn |-> None]
    /\ txn = [t \in Txns |-> NoTxn]
    /\ proj = [x \in Actors |-> None]
    /\ disc = NoDisc /\ obligation = None
    /\ left = [supersede |-> IF world.next = None THEN None ELSE "ready",
               describe |-> world.describe, register |-> world.register,
               expire |-> world.expire, fault |-> world.fault,
               behind |-> world.behind, tries |-> 0]

TxnStep(t) ==
    \/ Capture(t) \/ Reserve(t) \/ Prepare(t) \/ Release(t) \/ Complete(t) \/ Rollback(t)
    \/ PublishEngine(t) \/ PublishHost(t) \/ RollbackCancelled(t) \/ RollbackManaged(t)
    \/ Accept(t) \/ Decide(t) \/ Record(t)

DriverStep ==
    \/ BeginEffect \/ Recover \/ RecoveryWaits \/ AccessWaits \/ Decided
    \/ AdmitInvalidate \/ AdmitFence \/ AdmitClose \/ AdmitEngine \/ AdmitStore
    \/ AdmitCommit \/ AdmitInstall \/ Configure \/ ConfigureDone \/ Synchronize

SupersessionStep == CancelConfiguration \/ CancelAccess \/ CancelEngine \/ Supersede

DiscoveryStep ==
    \/ DescribeSession \/ DescribeFence \/ DescribeEpoch \/ DescribeClose
    \/ DescribeConfigure \/ DescribePublish \/ DescribeOwe

Next ==
    \/ \E t \in Txns : TxnStep(t) \/ Cancel(t)
    \/ DriverStep \/ SupersessionStep \/ DiscoveryStep
    \/ \E p \in Peers : Describe(p) \/ Register(p)
    \/ ReportFault \/ CatchUp

Spec == Init /\ [][Next]_vars

\* Tasks are scheduled fairly; the recovery owner is woken by every registration of a
\* peer, which the discovery loop repeats (hosting.rs notify_recovery).
Fairness ==
    /\ \A t \in Txns : WF_vars(world.fair /\ TxnStep(t))
    /\ \A t \in Txns : WF_vars(world.fair /\ Abandoned(t) /\ Cancel(t))
    /\ WF_vars(world.fair /\ DriverStep) /\ WF_vars(world.fair /\ CatchUp)
    /\ WF_vars(world.fair /\ SupersessionStep)
    /\ WF_vars(world.fair /\ DiscoveryStep)
    /\ \A p \in Peers : WF_vars(world.fair /\ Describe(p)) /\ WF_vars(world.fair /\ Register(p))

FairSpec == Spec /\ Fairness

(***************************************************************************)
(* Properties.                                                             *)
(***************************************************************************)
Settled ==
    /\ drv.pc = "idle" /\ todo = <<>> /\ disc = NoDisc /\ left.supersede = None
    /\ \A t \in Txns : Free(t)
    /\ host.write = durable.write

\* When nothing runs and the host shows what the store has, so that recovery finds
\* nothing to do, the engine is under the same authority and admits writes exactly
\* if the host says so: no rollback, cancellation or fence left one view behind
\* (custom.rs rollback_managed_access, rollback_cancelled_managed_access,
\* cleanup_failed_access_projection).
SettledViewsAgree ==
    Settled => eng.write = host.write /\ eng.auth = host.auth /\ host.auth = durable.auth

\* Once the commands and disturbances are over, both views show what the store has:
\* access that was lost on the way is restored, and none that was revoked is open
\* (recovery.rs advance, custom.rs rollbacks).
AccessConverges ==
    <>[](world.fair => /\ todo = <<>> /\ host.write = durable.write
                       /\ eng.write = durable.write)
=============================================================================
