---------------------------- MODULE Coordinator ----------------------------
(***************************************************************************)
(* The replica agent of one pod: the durable coordinator that drives a     *)
(* configuration command through its stages, the effect journal (intent,   *)
(* applied, complete) every live change goes through, the live host the    *)
(* effects act on, supersession of a command by a newer epoch, replica     *)
(* builds that share the command lock, and process restarts that rebuild   *)
(* the live host from the durable state.                                   *)
(*                                                                         *)
(* Sources: kuberic-runtime/src/host/{coordinator,runtime_adapter,command, *)
(* sqlite_store,hosting,custom,service,state}.rs and runtime.rs.           *)
(*                                                                         *)
(* A configuration is abstracted to its epoch and the role it gives to     *)
(* this replica.  The sequence number of an effect is kept relative to the *)
(* durable counter (live.lag): only whether the live host has seen every   *)
(* earlier effect matters.                                                 *)
(***************************************************************************)
EXTENDS Naturals, FiniteSets

CONSTANTS
    None,         \* no configuration, command, effect, build ...
    Boot,         \* the driver that runs startup recovery
    Rpc,          \* the drivers that run commands received from the controller
    Builds,       \* the source builds the controller may ask for
    Worlds        \* the situations a behaviour may begin with: the durable state,
                  \* the commands and builds the controller may send, the bounds on
                  \* crashes and on failed store transactions

Drivers == {Boot} \cup Rpc

ASSUME DriverAssumption == Boot \notin Rpc /\ None \notin Drivers

Accesses == {"Granted", "Pending", "NotPrimary"}
Roles == {"Primary", "ActiveSecondary", "None"}
Configurations == [epoch : Nat, role : Roles]

\* Every command any situation holds.
AllCommands == UNION {w.commands : w \in Worlds}

\* Epochs are positive, and a command is not named like a build.
ASSUME WorldAssumption ==
    \A w \in Worlds :
        /\ {w.start.prev, w.start.cur} \subseteq Configurations \cup {None}
        /\ w.start.role \in Roles /\ w.start.read \in Accesses /\ w.start.write \in Accesses
        /\ w.builds \subseteq Builds
        /\ \A c \in w.commands :
              /\ c.cur \in Configurations /\ c.cur.epoch > 0
              /\ c.prev \in Configurations \cup {None}
              /\ c.write \in Accesses /\ c.retire \subseteq Builds /\ c.id \notin Builds

VARIABLES
    world,    \* the situation, fixed by Init
    st,       \* AgentState: the durable record of the agent
    table,    \* the durable authority table, written while an authority is admitted
    live,     \* the live host: authority, roles, access, recorded effects
    sup,      \* supersession_epoch, in memory
    lock,     \* command_lock: the driver that holds it
    drv,      \* what each driver is doing
    valid,    \* the generation token of the effect in flight is still current
    crashes, failures

vars == <<world, st, table, live, sup, lock, drv, valid, crashes, failures>>

(***************************************************************************)
(* Data.                                                                   *)
(***************************************************************************)
Authority(p, c, k) == [prev |-> p, cur |-> c, kind |-> k]
Epoch(conf) == IF conf = None THEN 0 ELSE conf.epoch
AuthEpoch(a) == IF a = None THEN 0 ELSE a.cur.epoch
LocalRole(a) == IF a = None THEN "None" ELSE a.cur.role

\* An effect is named by its operation id (command or build, and stage) and
\* carries the argument of its action: the authority to admit, the role to take
\* (as an authority of that role), the build to retire.
Effect(id, stage, arg) == [id |-> id, stage |-> stage, arg |-> arg]
RoleArgument(role) == Authority(None, [epoch |-> 0, role |-> role], None)
RoleStages == {"ReplicatorRole", "ApplicationRole"}
AccessStages == {"Demote", "Deactivate", "Activate"}

IdleDriver == [pc |-> "idle", mode |-> "none", cmd |-> None, auth |-> None,
               eff |-> None, res |-> None]

RoleTransition(target, rep, ep, app) ==
    [target |-> target, rep |-> rep, ep |-> ep, app |-> app]

DownHost == [phase |-> "down", auth |-> None, role |-> "None", trans |-> None,
             tEpoch |-> 0, tAuth |-> None, nRole |-> "None", nEpoch |-> 0,
             nWrite |-> "NotPrimary", read |-> "NotPrimary", write |-> "NotPrimary",
             caught |-> FALSE, rec |-> None, lag |-> "empty"]

(***************************************************************************)
(* The values of the variables.                                            *)
(***************************************************************************)
Kinds == {c.kind : c \in AllCommands} \cup {w.start.kind : w \in Worlds} \cup {None}
Authorities == [prev : Configurations \cup {None}, cur : Configurations, kind : Kinds]
Stages == {"AdmitAuthority", "FailoverPrefix", "Demote", "GetLsn", "Catchup", "Deactivate",
           "ReplicatorRole", "Epoch", "ApplicationRole", "Activate", "RetireBuild", "BuildReplica"}
Names == {c.id : c \in AllCommands} \cup Builds

\* An effect carries the argument that its action takes.
ArgumentFits(e) ==
    /\ e.stage \in {"AdmitAuthority"} \cup RoleStages => e.arg \in Authorities
    /\ e.stage = "RetireBuild" => e.arg \in Builds
    /\ e.id \in Builds => e.stage \in {"BuildReplica", "RetireBuild"}
    /\ e.stage = "BuildReplica" => e.id \in Builds /\ e.arg = None

Effects == {e \in [id : Names, stage : Stages, arg : Authorities \cup Builds \cup {None}] :
               ArgumentFits(e)}
Transitions == [target : Roles, rep : BOOLEAN, ep : BOOLEAN, app : BOOLEAN]
Results == [auth : Authorities \cup {None}, role : Roles, read : Accesses, write : Accesses,
            trans : Transitions \cup {None}]

\* A result tells what its effect has done.
ResultFits(e, r) ==
    /\ r \in Results
    /\ e.stage = "AdmitAuthority" => r.auth = e.arg
    /\ e.stage = "ApplicationRole" => r.role = e.arg.cur.role

Outcomes == {o \in [eff : Effects, res : Results] : ResultFits(o.eff, o.res)}
Records == {r \in [cmd : AllCommands, stage : (Stages \ {"BuildReplica"}) \cup {"Complete"}] :
               r.stage = "RetireBuild" => r.cmd.retire # {}}
Pendings == {p \in [eff : Effects, stage : {"Intent", "Applied"}, res : Results \cup {None}] :
                p.stage = "Applied" => ResultFits(p.eff, p.res)}

AgentStates ==
    [prev : Configurations \cup {None}, cur : Configurations \cup {None}, highest : Nat,
     role : Roles, read : Accesses, write : Accesses,
     record : Records \cup {None}, pending : Pendings \cup {None},
     retained : Outcomes \cup {None}, done : AllCommands \cup {None},
     builds : [Builds -> {"none", "journaled", "abandoned", "retired"}]]

Hosts ==
    [phase : {"down", "recovering", "up"}, auth : Authorities \cup {None}, role : Roles,
     trans : Transitions \cup {None}, tEpoch : Nat, tAuth : Authorities \cup {None},
     nRole : Roles, nEpoch : Nat, nWrite : Accesses, read : Accesses, write : Accesses,
     caught : BOOLEAN, rec : Outcomes \cup {None}, lag : {"empty", "current", "behind"}]

\* The steps a driver is at while an effect is in its hands, while it holds the
\* command lock, and otherwise.
InEffect == {"prepare", "publish", "install", "wait", "mark", "complete", "accept", "next"}
Busy == InEffect \cup {"begin", "stage"}
Waiting == {"idle", "cancel", "fence", "lock", "cancelBuild", "resume", "resumed"}

DriverStates ==
    [pc : Busy \cup Waiting, mode : {"none", "config", "build", "retire", "resume"},
     cmd : AllCommands \cup Builds \cup {None}, auth : Authorities \cup {None},
     eff : Effects \cup {None}, res : Results \cup {None}]

ASSUME NoneAssumption ==
    None \notin Configurations \cup AllCommands \cup Builds \cup Authorities \cup Effects
                \cup Transitions \cup Results \cup Outcomes \cup Records \cup Pendings \cup Hosts

(***************************************************************************)
(* Admission of a configuration command (command.rs).                      *)
(***************************************************************************)
IsAccessOnly(c, s) ==
    /\ ~c.only /\ c.prev = None /\ s.prev = None
    /\ s.cur = c.cur /\ c.cur.epoch = s.highest
    /\ ~c.safe /\ c.retire = {}
    /\ c.cur.role = s.role

CurrentOnlyCompletion(c, s) ==
    /\ c.cur.epoch = s.highest /\ s.cur = c.cur
    /\ s.prev # None /\ c.prev = None

CompletedCurrentOnlyReplay(c, s, exact) ==
    /\ exact /\ c.only
    /\ c.cur.epoch = s.highest /\ s.cur = c.cur
    /\ s.prev = None /\ c.prev = None

WriteGrantAllowed(c, s) ==
    \/ c.write # "Granted"
    \/ /\ c.kind \in {"Replacement", "Failover"} /\ ~c.only
       /\ s.cur = c.prev /\ c.cur.role = "Primary"
    \/ s.cur = c.cur /\ s.role = "Primary"

AdmitConfiguration(c, s, exact) ==
    LET completing == CurrentOnlyCompletion(c, s) \/ CompletedCurrentOnlyReplay(c, s, exact)
    IN  /\ c.cur.epoch >= s.highest
        /\ c.cur.epoch = s.highest /\ ~completing =>
              /\ s.cur # None => s.cur = c.cur
              /\ s.prev = c.prev
        /\ c.kind = "Failover" <=> c.safe
        /\ WriteGrantAllowed(c, s)
        /\ IF c.only
           THEN /\ c.prev = None /\ completing /\ c.kind # "Bootstrap"
                /\ c.kind = "Replacement" => c.retire # {}
           ELSE c.retire = {}
        /\ c.kind = "Bootstrap" => c.cur.role # "None"

AdmittedAuthority(c, s) ==
    Authority(c.prev, c.cur, IF c.only \/ IsAccessOnly(c, s) THEN None ELSE c.kind)

\* The same command, already journaled or already finished.
PersistedExact(c, s) ==
    \/ s.record # None /\ s.record.cmd.id = c.id
    \/ s.done # None /\ s.done.id = c.id

(***************************************************************************)
(* The stage machine (coordinator.rs).                                     *)
(***************************************************************************)
\* Mutant: a failover goes from Demote to Activate without changing roles.
NextStageSkipsRoles(c, a, stage, s) ==
    CASE stage = "AdmitAuthority" -> "Demote"
      [] stage = "Demote" -> "Activate"
      [] stage = "Activate" -> "Complete"
      [] OTHER -> "Activate"

NextStage(c, a, stage, s) ==
    LET primary == LocalRole(a) = "Primary"
        failover == c.kind = "Failover"
    IN  CASE stage = "AdmitAuthority" -> IF failover THEN "FailoverPrefix" ELSE "Demote"
          [] stage = "FailoverPrefix" -> "Demote"
          [] stage = "Demote" -> IF failover THEN "ReplicatorRole" ELSE "GetLsn"
          [] stage = "GetLsn" ->
                IF failover
                THEN IF primary /\ c.write = "Granted" THEN "Catchup" ELSE "Deactivate"
                ELSE IF s.role = "Primary" /\ ~primary THEN "Catchup" ELSE "Deactivate"
          [] stage = "Catchup" -> IF ~failover /\ primary THEN "Activate" ELSE "Deactivate"
          [] stage = "Deactivate" -> IF failover THEN "Activate" ELSE "ReplicatorRole"
          [] stage = "ReplicatorRole" -> IF primary THEN "Epoch" ELSE "ApplicationRole"
          [] stage = "Epoch" -> "ApplicationRole"
          [] stage = "ApplicationRole" ->
                IF failover THEN "GetLsn"
                ELSE IF primary /\ c.write = "Granted" THEN "Catchup" ELSE "Activate"
          [] stage = "Activate" -> IF c.retire # {} THEN "RetireBuild" ELSE "Complete"
          [] stage = "RetireBuild" -> "Complete"

\* The access an access stage asks for; the other half keeps its live value.
AccessOf(stage, c, h) ==
    LET primary == c.cur.role = "Primary"
        provisional == primary /\ c.kind = "Failover" /\ c.write # "Granted"
    IN  CASE stage = "Demote" -> <<"Pending", h.write>>
          [] stage = "Deactivate" -> <<h.read, "Pending">>
          [] stage = "Activate" ->
                <<IF provisional THEN "Pending"
                  ELSE IF c.cur.role \in {"Primary", "ActiveSecondary"} THEN "Granted"
                  ELSE "NotPrimary",
                  IF primary THEN c.write ELSE "NotPrimary">>

(***************************************************************************)
(* The live host (hosting.rs, custom.rs, runtime.rs).  Each operator gives *)
(* the host after the call, or None when the call is refused.              *)
(***************************************************************************)
\* Mutant: the fence closes the agent's view of access and not the engine.
FencedOutside(h) == [h EXCEPT !.read = "Pending", !.write = "Pending"]

Fenced(h) == [h EXCEPT !.read = "Pending", !.write = "Pending", !.nWrite = "Pending"]

InstallAuthority(h, a) ==
    LET changed == h.auth # a
        f == IF changed \/ LocalRole(a) # "Primary" THEN Fenced(h) ELSE h
    IN  [f EXCEPT !.auth = a, !.nEpoch = AuthEpoch(a),
                  !.caught = IF changed THEN a.prev = None ELSE @]

RefreshTransition(h) ==
    IF h.role = "Primary" /\ LocalRole(h.auth) = "Primary"
    THEN [h EXCEPT !.trans = RoleTransition("Primary", TRUE, TRUE, FALSE),
                   !.tEpoch = AuthEpoch(h.auth), !.tAuth = h.auth]
    ELSE h

ChangeReplicatorRole(h, role) ==
    LET epoch == AuthEpoch(h.auth)
        kept == IF epoch > h.tEpoch \/ h.tAuth # h.auth THEN None ELSE h.trans
        done == h.role = role /\ h.tEpoch >= epoch /\ h.tAuth = h.auth
        fresh == RoleTransition(role, h.role = role, role # "Primary" \/ done, done)
        t == IF kept # None THEN kept ELSE fresh
        g == [h EXCEPT !.trans = t, !.tEpoch = IF kept # None THEN @ ELSE epoch,
                       !.tAuth = IF kept # None THEN @ ELSE h.auth,
                       !.write = IF h.role # role THEN "Pending" ELSE @]
    IN  IF t.target # role THEN None
        ELSE IF t.rep THEN g
        ELSE [Fenced(g) EXCEPT !.nRole = role, !.nEpoch = epoch, !.trans = [t EXCEPT !.rep = TRUE]]

UpdateEpoch(h) ==
    IF h.trans = None \/ h.trans.target # "Primary" \/ ~h.trans.rep THEN None
    ELSE IF h.trans.ep THEN h
    ELSE [h EXCEPT !.nEpoch = AuthEpoch(h.auth), !.nWrite = "Pending",
                   !.trans = [h.trans EXCEPT !.ep = TRUE]]

\* settle_primary_prefix: only the primary of the admitted authority, write-closed.
SettlesPrefix(h) ==
    /\ h.nRole = "Primary" /\ h.nWrite # "Granted"
    /\ LocalRole(h.auth) = "Primary"

ChangeApplicationRole(h, role) ==
    IF \/ h.trans = None \/ h.trans.target # role \/ ~h.trans.rep
       \/ role = "Primary" /\ ~h.trans.ep
       \/ ~h.trans.app /\ role = "Primary" /\ ~SettlesPrefix(h)
    THEN None
    ELSE [h EXCEPT !.role = role, !.trans = None]

\* Only an effect that itself asks for a grant is refused during a role transition.
GrantsAccess(stage, c) ==
    stage = "Activate" /\ "Granted" \in {AccessOf(stage, c, DownHost)[i] : i \in {1, 2}}

\* reserve_access_projection and the engine's prepare_access.
AccessAllowed(h, access) ==
    LET read == access[1]
        write == access[2]
    IN  /\ read = "Granted" =>
              /\ h.nRole \in {"Primary", "ActiveSecondary"}
              /\ h.nRole = "Primary" => h.caught
        /\ write = "Granted" =>
              h.role = "Primary" /\ h.nRole = "Primary" /\ LocalRole(h.auth) = "Primary"

SetAccess(h, access) ==
    [h EXCEPT !.read = access[1], !.write = access[2], !.nWrite = access[2]]

\* What the result of an effect records of the host.
Outcome(stage, h) ==
    CASE stage = "AdmitAuthority" \/ stage \in AccessStages ->
            [auth |-> h.auth, role |-> h.role, read |-> h.read, write |-> h.write,
             trans |-> None]
      [] OTHER -> [auth |-> None, role |-> h.role, read |-> "NotPrimary",
                   write |-> "NotPrimary", trans |-> h.trans]

(***************************************************************************)
(* The durable journal (sqlite_store.rs).                                  *)
(***************************************************************************)
BeginConfiguration(s, c) ==
    IF s.record = None
    THEN [s EXCEPT !.record = [cmd |-> c, stage |-> IF IsAccessOnly(c, s) THEN "Activate"
                                                     ELSE "AdmitAuthority"]]
    ELSE IF s.record.cmd = c THEN s
    ELSE [s EXCEPT !.pending = None,
                   !.record = [cmd |-> c, stage |-> "AdmitAuthority"]]

ConfigurationConflicts(s, c) ==
    /\ s.record # None /\ s.record.cmd # c
    /\ \/ c.cur.epoch <= s.record.cmd.cur.epoch
       \/ s.pending # None /\ s.pending.eff.id # s.record.cmd.id

TableAdmits(a) ==
    \/ table = a
    \/ AuthEpoch(a) > AuthEpoch(table)
    \/ /\ AuthEpoch(a) = AuthEpoch(table)
       /\ a.cur = table.cur /\ a.prev = None /\ table.prev # None

Applied(s, e, r) == [s EXCEPT !.pending = [eff |-> e, stage |-> "Applied", res |-> r]]

\* cancel_effect
CancelEffect(s) == [s EXCEPT !.pending = None]

AppliedAuthority(t, r) ==
    [t EXCEPT !.read = r.read, !.write = r.write, !.prev = r.auth.prev, !.cur = r.auth.cur,
              !.highest = IF AuthEpoch(r.auth) > @ THEN AuthEpoch(r.auth) ELSE @]

\* What the result of an effect changes in the durable state.
EffectCompleted(t, e, r) ==
    CASE e.stage = "AdmitAuthority" -> AppliedAuthority(t, r)
      [] e.stage \in AccessStages -> [t EXCEPT !.read = r.read, !.write = r.write]
      [] e.stage = "ApplicationRole" -> [t EXCEPT !.role = r.role]
      [] e.stage = "RetireBuild" -> [t EXCEPT !.builds[e.arg] = "retired"]
      [] OTHER -> t

CompleteEffect(s, e, r) ==
    EffectCompleted([s EXCEPT !.pending = None, !.retained = [eff |-> e, res |-> r]], e, r)

\* advance_configuration
AdvanceConfiguration(s, next) == [s EXCEPT !.record = [s.record EXCEPT !.stage = next]]

(***************************************************************************)
(* Startup (service.rs, hosting.rs).                                       *)
(***************************************************************************)
StartupTransition(s) ==
    LET r == IF s.pending = None THEN None ELSE s.pending.res
        stage == IF s.pending = None THEN "none" ELSE s.pending.eff.stage
        target == IF s.record = None THEN "None" ELSE s.record.cmd.cur.role
        kept == IF s.retained = None THEN "none" ELSE s.retained.eff.stage
    IN  IF r # None /\ stage = "ReplicatorRole" /\ r.trans # None
        THEN <<r.trans.target, r.trans.ep, r.trans.app>>
        ELSE IF r # None /\ stage = "Epoch" /\ r.trans # None
        THEN <<r.trans.target, TRUE, r.trans.app>>
        ELSE IF r # None /\ stage = "ApplicationRole" THEN <<r.role, TRUE, TRUE>>
        ELSE IF stage = "ReplicatorRole" THEN <<s.pending.eff.arg.cur.role, FALSE, FALSE>>
        ELSE IF s.record = None THEN None
        ELSE IF kept = "ReplicatorRole" /\ s.retained.eff.arg.cur.role = target
        THEN <<target, FALSE, FALSE>>
        ELSE IF kept = "Epoch" THEN <<target, TRUE, FALSE>>
        ELSE IF kept = "ApplicationRole" /\ s.retained.eff.arg.cur.role = target
        THEN <<target, TRUE, TRUE>>
        ELSE IF s.record.stage = "Epoch" THEN <<target, FALSE, FALSE>>
        ELSE IF s.record.stage = "ApplicationRole" THEN <<target, TRUE, FALSE>>
        ELSE None

\* change_replicator_role, update_epoch and change_application_role in turn,
\* as far as ep and app allow; None as soon as one of them is refused.
AssumeRole(h, role, ep, app) ==
    LET g1 == ChangeReplicatorRole(h, role)
        g2 == IF g1 = None THEN None
              ELSE IF role = "Primary" /\ ep THEN UpdateEpoch(g1) ELSE g1
    IN  IF g2 = None THEN None
        ELSE IF app THEN ChangeApplicationRole(g2, role) ELSE g2

Reconstructed(s, a) ==
    LET opened == [DownHost EXCEPT !.phase = "recovering", !.auth = a,
                                   !.nEpoch = AuthEpoch(a), !.caught = a # None /\ a.prev = None]
        t == StartupTransition(s)
        placed == IF t # None THEN AssumeRole(opened, t[1], t[2], t[3])
                  ELSE IF s.role # "None" THEN AssumeRole(opened, s.role, TRUE, TRUE)
                  ELSE opened
        access == IF t # None THEN <<"Pending", "Pending">> ELSE <<s.read, s.write>>
    IN  IF placed = None THEN None
        ELSE IF AccessAllowed(placed, access) THEN SetAccess(placed, access)
        ELSE Fenced(placed)      \* restoration deferred

(***************************************************************************)
(* Initial states.                                                         *)
(***************************************************************************)
StartTable(s) == IF s.cur = None THEN None ELSE Authority(s.prev, s.cur, s.kind)

Init ==
    \E w \in Worlds : LET s == w.start IN
        /\ world = w
        /\ st = [prev |-> s.prev, cur |-> s.cur, highest |-> Epoch(s.cur), role |-> s.role,
                 read |-> s.read, write |-> s.write, record |-> None, pending |-> None,
                 retained |-> None, done |-> None,
                 builds |-> [b \in Builds |-> "none"]]
        /\ table = StartTable(s)
        /\ live = DownHost
        /\ sup = 0 /\ lock = None /\ valid = TRUE
        /\ drv = [d \in Drivers |-> IdleDriver]
        /\ crashes = 0 /\ failures = 0

(***************************************************************************)
(* Driver bookkeeping.                                                     *)
(***************************************************************************)
Goto(d, pc) == drv' = [drv EXCEPT ![d].pc = pc]

Holds(d) == lock = d

\* A command returns, with or without an error: the lock guard is dropped.  A
\* startup that fails ends the process.
Return(d, failed) ==
    IF failed /\ live.phase = "recovering"
    THEN /\ live' = DownHost
         /\ drv' = [x \in Drivers |-> IdleDriver]
         /\ lock' = None /\ sup' = 0
    ELSE /\ drv' = [drv EXCEPT ![d] = IdleDriver]
         /\ lock' = IF Holds(d) THEN None ELSE lock
         /\ UNCHANGED <<live, sup>>

\* The same with the live host already changed to h.
ReturnWith(d, failed, h) ==
    IF failed /\ live.phase = "recovering"
    THEN /\ live' = DownHost
         /\ drv' = [x \in Drivers |-> IdleDriver]
         /\ lock' = None /\ sup' = 0
    ELSE /\ live' = h
         /\ drv' = [drv EXCEPT ![d] = IdleDriver]
         /\ lock' = IF Holds(d) THEN None ELSE lock
         /\ UNCHANGED sup

\* A build command succeeds; startup goes on with its own recovery.
Finish(d) ==
    /\ drv' = [drv EXCEPT ![d] = IF live.phase = "recovering"
                                 THEN [IdleDriver EXCEPT !.pc = "resumed"] ELSE IdleDriver]
    /\ lock' = None

Superseded(c) == sup > c.cur.epoch

(***************************************************************************)
(* drive_configuration up to the lock.                                     *)
(***************************************************************************)
\* The controller sends a command that builds on another one only after a report
\* showed it that one finished.
Sent(c) == \/ c.after = None \/ PersistedExact(c, st)
           \/ st.done # None /\ st.done.id = c.after

Receive(d, c) ==
    /\ drv[d].pc = "idle" /\ live.phase = "up" /\ Sent(c)
    /\ IF st.record # None /\ st.record.cmd # c
       THEN /\ AdmitConfiguration(c, st, FALSE)
            /\ c.cur.epoch > st.record.cmd.cur.epoch
            /\ sup' = IF c.cur.epoch > sup THEN c.cur.epoch ELSE sup
            /\ drv' = [drv EXCEPT ![d] = [IdleDriver EXCEPT !.pc = "cancel",
                                                           !.mode = "config", !.cmd = c]]
       ELSE /\ drv' = [drv EXCEPT ![d] = [IdleDriver EXCEPT !.pc = "lock",
                                                           !.mode = "config", !.cmd = c]]
            /\ UNCHANGED sup
    /\ UNCHANGED <<st, table, live, lock, valid, crashes, failures>>

\* cancel_configuration_work, first half: the generations of configuration
\* and build attempts advance under no lock an effect in flight holds.
CancelGenerations(d) ==
    /\ drv[d].pc = "cancel"
    /\ valid' = FALSE
    /\ Goto(d, "fence")
    /\ UNCHANGED <<st, table, live, sup, lock, crashes, failures>>

\* Second half: behind access_commit and the engine's delivery lock, which an
\* accepted access transaction holds until its decision.
AccessHeld == \E d \in Drivers : drv[d].pc \in {"mark", "complete", "accept"}
                                 /\ drv[d].eff.stage \in AccessStages

CancelNative(d) ==
    /\ drv[d].pc = "fence" /\ ~AccessHeld
    /\ live' = [live EXCEPT !.nWrite = "Pending"]
    /\ Goto(d, "lock")
    /\ UNCHANGED <<st, table, sup, lock, valid, crashes, failures>>

Acquire(d) ==
    /\ drv[d].pc = "lock" /\ lock = None
    /\ lock' = d /\ Goto(d, "begin")
    /\ UNCHANGED <<st, table, live, sup, valid, crashes, failures>>

\* Admission against the reloaded state, and the durable record.
Begin(d) ==
    LET c == drv[d].cmd
        exact == PersistedExact(c, st)
        finished == st.done # None /\ st.done.id = c.id
    IN  /\ drv[d].pc = "begin" /\ drv[d].mode = "config"
        /\ IF \/ Superseded(c)
              \/ ~AdmitConfiguration(c, st, exact)
              \/ finished
              \/ ConfigurationConflicts(st, c)
           THEN Return(d, FALSE) /\ UNCHANGED st
           ELSE /\ st' = BeginConfiguration(st, c)
                /\ drv' = [drv EXCEPT ![d].pc = "stage", ![d].auth = AdmittedAuthority(c, st)]
                /\ UNCHANGED <<live, lock, sup>>
        /\ UNCHANGED <<table, valid, crashes, failures>>

(***************************************************************************)
(* One turn of the stage loop: begin_effect for the stage of the record.   *)
(***************************************************************************)
StageEffect(d, r) ==
    Effect(r.cmd.id, r.stage,
           CASE r.stage = "AdmitAuthority" -> drv[d].auth
             [] r.stage \in RoleStages -> RoleArgument(LocalRole(drv[d].auth))
             [] r.stage = "RetireBuild" -> CHOOSE b \in r.cmd.retire : TRUE
             [] OTHER -> None)

\* Mutant: a pending effect is never resumed.
StartEffectRefuses(d, e) ==
    IF st.pending # None
    THEN Return(d, TRUE) /\ UNCHANGED st
    ELSE /\ st' = [st EXCEPT !.pending = [eff |-> e, stage |-> "Intent", res |-> None]]
         /\ drv' = [drv EXCEPT ![d].pc = "prepare", ![d].eff = e]
         /\ UNCHANGED <<live, lock, sup>>

\* execute: a retained result is not run again; a pending effect is resumed;
\* any other pending effect refuses the new one.
StartEffect(d, e) ==
    IF st.retained # None /\ st.retained.eff.id = e.id /\ st.retained.eff.stage = e.stage
    THEN IF st.retained.eff.arg # e.arg
         THEN Return(d, TRUE) /\ UNCHANGED st
         ELSE /\ drv' = [drv EXCEPT ![d].pc = "next", ![d].eff = e]
              /\ UNCHANGED <<st, live, lock, sup>>
    ELSE IF st.pending = None
    THEN /\ st' = [st EXCEPT !.pending = [eff |-> e, stage |-> "Intent", res |-> None]]
         /\ drv' = [drv EXCEPT ![d].pc = "prepare", ![d].eff = e]
         /\ UNCHANGED <<live, lock, sup>>
    ELSE IF st.pending.eff # e
    THEN Return(d, TRUE) /\ UNCHANGED st
    ELSE /\ drv' = [drv EXCEPT ![d].eff = e, ![d].res = st.pending.res,
                    ![d].pc = IF st.pending.stage = "Applied" /\ e.stage \notin AccessStages
                              THEN "complete" ELSE "prepare"]
         /\ UNCHANGED <<st, live, lock, sup>>

Stage(d) ==
    /\ drv[d].pc = "stage"
    /\ LET r == st.record
       IN  IF r = None \/ Superseded(r.cmd)
           THEN Return(d, FALSE) /\ UNCHANGED st
           ELSE IF r.stage = "Complete"
           THEN /\ st' = [st EXCEPT !.record = None, !.done = r.cmd]
                /\ Return(d, FALSE)
           ELSE StartEffect(d, StageEffect(d, r))
    /\ UNCHANGED <<table, valid, crashes, failures>>

(***************************************************************************)
(* prepare_effect: the live change.                                        *)
(***************************************************************************)
\* The live host refuses an effect whose sequence does not follow the last one
\* it recorded, and another effect at a sequence it has recorded.
OutOfOrder(e) == \/ live.rec # None /\ live.rec.eff # e
                 \/ live.rec = None /\ live.lag = "behind"

Recorded(h, e, r) == [h EXCEPT !.rec = [eff |-> e, res |-> r]]

\* The effect is applied live and its result is in hand.
Prepared(d, e, h) ==
    LET r == Outcome(e.stage, h)
    IN  /\ live' = IF e.stage \in AccessStages THEN h ELSE Recorded(h, e, r)
        /\ drv' = [drv EXCEPT ![d].pc = "mark", ![d].res = r]
        /\ UNCHANGED <<st, table, lock, sup>>

LiveChange(d, e) ==
    LET role == e.arg.cur.role
    IN  CASE e.stage = "FailoverPrefix" -> RefreshTransition(live)
          [] e.stage = "GetLsn" -> live
          [] e.stage = "RetireBuild" -> live
          [] e.stage = "ReplicatorRole" -> ChangeReplicatorRole(live, role)
          [] e.stage = "Epoch" -> UpdateEpoch(live)
          [] e.stage = "ApplicationRole" -> ChangeApplicationRole(live, role)

PendingCommand == st.record.cmd

Prepare(d) ==
    LET e == drv[d].eff
    IN  /\ drv[d].pc = "prepare"
        /\ IF live.rec # None /\ live.rec.eff = e
           THEN /\ drv' = [drv EXCEPT ![d].pc = "mark", ![d].res = live.rec.res]
                /\ UNCHANGED <<st, table, live, lock, sup>>
           ELSE IF OutOfOrder(e) THEN Return(d, TRUE) /\ UNCHANGED <<st, table>>
           ELSE CASE e.stage = "AdmitAuthority" ->
                        IF TableAdmits(e.arg)
                        THEN /\ table' = e.arg
                             /\ live' = IF live.auth = e.arg THEN live ELSE Fenced(live)
                             /\ Goto(d, "install")
                             /\ UNCHANGED <<st, lock, sup>>
                        ELSE Return(d, TRUE) /\ UNCHANGED <<st, table>>
                  [] e.stage \in AccessStages ->
                        IF /\ AccessAllowed(live, AccessOf(e.stage, PendingCommand, live))
                           /\ GrantsAccess(e.stage, PendingCommand) => live.trans = None
                        THEN Goto(d, "publish") /\ UNCHANGED <<st, table, live, lock, sup>>
                        ELSE Return(d, TRUE) /\ UNCHANGED <<st, table>>
                  [] e.stage \in {"Catchup", "BuildReplica"} ->
                        /\ live' = IF e.stage = "Catchup" THEN live
                                   ELSE Recorded(live, e, Outcome(e.stage, live))
                        /\ Goto(d, "wait")
                        /\ UNCHANGED <<st, table, lock, sup>>
                  [] OTHER ->
                        IF LiveChange(d, e) = None
                        THEN Return(d, TRUE) /\ UNCHANGED <<st, table>>
                        ELSE Prepared(d, e, LiveChange(d, e))
        /\ valid' = TRUE
        /\ UNCHANGED <<crashes, failures>>

\* The access transaction is published and accepted, or cancelled before.
Publish(d) ==
    LET e == drv[d].eff
    IN  /\ drv[d].pc = "publish"
        /\ \/ Prepared(d, e, SetAccess(live, AccessOf(e.stage, PendingCommand, live)))
           \/ /\ ~valid
              /\ st' = [st EXCEPT !.pending = IF @.stage = "Intent" THEN None ELSE @]
              /\ ReturnWith(d, TRUE, Fenced(live))
              /\ UNCHANGED table
        /\ UNCHANGED <<valid, crashes, failures>>

\* The admitted authority becomes the live one, unless the attempt was
\* cancelled meanwhile: the table has it already.
Install(d) ==
    LET e == drv[d].eff
    IN  /\ drv[d].pc = "install"
        /\ \/ Prepared(d, e, InstallAuthority(live, e.arg))
           \/ /\ ~valid
              /\ st' = [st EXCEPT !.pending = None]
              /\ Return(d, TRUE)
              /\ UNCHANGED table
        /\ UNCHANGED <<valid, crashes, failures>>

\* Enough members of the configuration have reached the catch-up boundary.  Their
\* acknowledgements count only after the controller has registered their process
\* sessions, which takes a host that serves commands.
CatchUp ==
    /\ live.phase = "up" /\ LocalRole(live.auth) = "Primary" /\ ~live.caught
    /\ live' = [live EXCEPT !.caught = TRUE]
    /\ UNCHANGED <<st, table, sup, lock, drv, valid, crashes, failures>>

WaitCatchUp(d) ==
    LET e == drv[d].eff
    IN  /\ drv[d].pc = "wait" /\ e.stage = "Catchup"
        /\ IF valid
           THEN live.caught /\ Prepared(d, e, live)
           ELSE /\ st' = [st EXCEPT !.pending = None]
                /\ Return(d, TRUE)
                /\ UNCHANGED table
        /\ UNCHANGED <<valid, crashes, failures>>

(***************************************************************************)
(* mark_effect_applied, complete_effect, and the decision of an access     *)
(* transaction (runtime_adapter.rs).                                       *)
(***************************************************************************)
Mark(d) ==
    LET e == drv[d].eff
        r == drv[d].res
    IN  /\ drv[d].pc = "mark"
        /\ IF st.pending.stage = "Applied" /\ st.pending.res # r
           THEN \* a recovered effect with a changed result: rejected
                /\ ReturnWith(d, TRUE, [Fenced(live) EXCEPT !.rec = None])
                /\ UNCHANGED st
           ELSE /\ st' = Applied(st, e, r)
                /\ Goto(d, "complete")
                /\ UNCHANGED <<live, lock, sup>>
        /\ UNCHANGED <<table, valid, crashes, failures>>

\* A build finished after it was abandoned: its completion is stale.
StaleBuild(d, e) ==
    /\ e.stage = "BuildReplica" /\ drv[d].mode # "retire"
    /\ st.builds[e.id] \in {"abandoned", "retired"}

Complete(d) ==
    LET e == drv[d].eff
        caughtUp == [live EXCEPT !.rec = None,
                        !.lag = IF live.rec # None THEN "current"
                                ELSE IF @ = "current" THEN "behind" ELSE @]
    IN  /\ drv[d].pc = "complete"
        /\ IF StaleBuild(d, e)
           THEN ReturnWith(d, TRUE, [live EXCEPT !.rec = None]) /\ UNCHANGED st
           ELSE /\ st' = CompleteEffect(st, e, drv[d].res)
                /\ IF e.stage \in AccessStages
                   THEN Goto(d, "accept") /\ UNCHANGED live
                   ELSE live' = caughtUp /\ Goto(d, "next")
                /\ UNCHANGED <<sup, lock>>
        /\ UNCHANGED <<table, valid, crashes, failures>>

\* The commit of the access transaction revalidates its generations: when a
\* cancellation advanced them, the live change is rolled back although the
\* journal has completed the effect, and the live host never records it.
Accept(d) ==
    /\ drv[d].pc = "accept"
    /\ IF valid
       THEN /\ live' = [live EXCEPT !.lag = "current"]
            /\ Goto(d, "next")
            /\ UNCHANGED <<lock, sup>>
       ELSE ReturnWith(d, TRUE, [Fenced(live) EXCEPT
                                    !.lag = IF @ = "empty" THEN "empty" ELSE "behind"])
    /\ UNCHANGED <<st, table, valid, crashes, failures>>

\* A store transaction of the two above fails: the access transaction is
\* rejected, and the command returns the error.
StoreFails(d) ==
    /\ drv[d].pc \in {"mark", "complete"} /\ failures < world.failures
    /\ failures' = failures + 1
    /\ ReturnWith(d, TRUE, IF drv[d].eff.stage \in AccessStages THEN Fenced(live) ELSE live)
    /\ UNCHANGED <<st, table, valid, crashes>>

\* A resumed or a build effect has nothing to advance.
Advance(d) ==
    /\ drv[d].pc = "next"
    /\ IF drv[d].mode = "config"
       THEN /\ st' = AdvanceConfiguration(
                       st, NextStage(st.record.cmd, drv[d].auth, st.record.stage, st))
            /\ drv' = [drv EXCEPT ![d].pc = "stage", ![d].eff = None, ![d].res = None]
            /\ UNCHANGED <<live, lock, sup>>
       ELSE IF drv[d].mode = "retire" /\ drv[d].eff.stage = "BuildReplica"
       THEN Goto(d, "begin") /\ UNCHANGED <<st, live, lock, sup>>
       ELSE Finish(d) /\ UNCHANGED <<st, live, sup>>
    /\ UNCHANGED <<table, valid, crashes, failures>>

(***************************************************************************)
(* ensure_build: the source side of a replica build, and its retirement.   *)
(***************************************************************************)
AdmitsBuild(b) == st.builds[b] \in {"none", "journaled"} /\ st.cur # None
                  /\ st.cur.role = "Primary"

BuildDriver(b, mode, pc) == [IdleDriver EXCEPT !.pc = pc, !.mode = mode, !.cmd = b]

ReceiveBuild(d, b) ==
    /\ drv[d].pc = "idle" /\ live.phase = "up" /\ AdmitsBuild(b)
    /\ drv' = [drv EXCEPT ![d] = BuildDriver(b, "build", "lock")]
    /\ UNCHANGED <<st, table, live, sup, lock, valid, crashes, failures>>

\* Under the lock: admitted again, journaled, and dispatched.
BeginBuild(d) ==
    LET b == drv[d].cmd
    IN  /\ drv[d].pc = "begin" /\ drv[d].mode = "build"
        /\ IF ~AdmitsBuild(b)
           THEN Return(d, FALSE) /\ UNCHANGED st
           ELSE IF st.builds[b] = "none"
           THEN /\ st' = [st EXCEPT !.builds[b] = "journaled"]
                /\ UNCHANGED <<live, lock, sup, drv>>
           ELSE StartEffect(d, Effect(b, "BuildReplica", None))
        /\ UNCHANGED <<table, valid, crashes, failures>>

\* The confirmed build replaces the dispatch as the recorded result.
ObserveBuildCompletion(d) == Prepared(d, drv[d].eff, live)

\* The copy completes; or the attempt is cancelled or reaches its deadline.
\* The pending effect of an abandoned build is left to its retirement.
BuildCompletes(d) ==
    /\ drv[d].pc = "wait" /\ drv[d].eff.stage = "BuildReplica" /\ valid
    /\ ObserveBuildCompletion(d)
    /\ UNCHANGED <<valid, crashes, failures>>

BuildEnds(d) ==
    LET b == drv[d].eff.id
    IN  /\ drv[d].pc = "wait" /\ drv[d].eff.stage = "BuildReplica"
        /\ IF st.builds[b] = "abandoned"
           THEN Return(d, TRUE) /\ UNCHANGED st
           ELSE /\ st' = CancelEffect(st)
                /\ live' = [live EXCEPT !.rec = None]
                /\ Goto(d, "next")
                /\ UNCHANGED <<lock, sup>>
        /\ UNCHANGED <<table, valid, crashes, failures>>

PendingIs(b, stages) ==
    st.pending # None /\ st.pending.eff.id = b /\ st.pending.eff.stage \in stages

\* abandon_build is durable before the running attempt is cancelled.
ReceiveRetire(d, b) ==
    /\ drv[d].pc = "idle" /\ live.phase = "up"
    /\ st.builds[b] \in {"journaled", "abandoned"}
    /\ st.pending = None \/ PendingIs(b, {"BuildReplica", "RetireBuild"})
    /\ st' = [st EXCEPT !.builds[b] = "abandoned"]
    /\ drv' = [drv EXCEPT ![d] = BuildDriver(b, "retire", "cancelBuild")]
    /\ UNCHANGED <<table, live, sup, lock, valid, crashes, failures>>

CancelBuild(d) ==
    /\ drv[d].pc = "cancelBuild"
    /\ valid' = IF \E x \in Drivers : /\ drv[x].pc = "wait"
                                      /\ drv[x].eff.id = drv[d].cmd
                THEN FALSE ELSE valid
    /\ Goto(d, "lock")
    /\ UNCHANGED <<st, table, live, sup, lock, crashes, failures>>

Discarded(h, e) == IF h.rec # None /\ h.rec.eff = e THEN [h EXCEPT !.rec = None] ELSE h

\* The cancelled build is recorded as if it had been carried out.
ConsumedBuild(h, e) == Recorded(h, e, Outcome("BuildReplica", h))

\* settle_abandoned_build, then the RetireBuild effect.
BeginRetire(d) ==
    LET b == drv[d].cmd
        e == Effect(b, "BuildReplica", None)
    IN  /\ drv[d].pc = "begin" /\ drv[d].mode = "retire"
        /\ IF PendingIs(b, {"BuildReplica"})
           THEN IF st.pending.stage = "Applied"
                THEN /\ st' = CancelEffect(st)
                     /\ live' = Discarded(live, e)
                     /\ UNCHANGED <<lock, sup, drv>>
                ELSE IF OutOfOrder(e) THEN Return(d, TRUE) /\ UNCHANGED st
                ELSE /\ live' = ConsumedBuild(live, e)
                     /\ drv' = [drv EXCEPT ![d].eff = e, ![d].pc = "mark",
                                           ![d].res = Outcome("BuildReplica", live)]
                     /\ UNCHANGED <<st, lock, sup>>
           ELSE IF st.pending # None /\ ~PendingIs(b, {"RetireBuild"})
           THEN Return(d, TRUE) /\ UNCHANGED st
           ELSE IF st.builds[b] = "retired"
           THEN Finish(d) /\ UNCHANGED <<st, live, sup>>
           ELSE StartEffect(d, Effect(b, "RetireBuild", b))
        /\ UNCHANGED <<table, valid, crashes, failures>>

(***************************************************************************)
(* Crash and restart (service.rs).                                         *)
(***************************************************************************)
Crash ==
    /\ live.phase # "down" /\ crashes < world.crashes
    /\ crashes' = crashes + 1
    /\ live' = DownHost
    /\ drv' = [d \in Drivers |-> IdleDriver]
    /\ lock' = None /\ sup' = 0
    /\ UNCHANGED <<st, table, valid, failures>>

\* reconstruct_runtime: the live host from the durable state, then the pending
\* effect, except a catch-up wait, which the resumed command runs again, and
\* an abandoned build, which is retired below.
Restart ==
    /\ live.phase = "down"
    /\ Reconstructed(st, table) # None
    /\ live' = Reconstructed(st, table)
    /\ drv' = [drv EXCEPT ![Boot].pc =
                  IF \/ st.pending = None \/ st.pending.eff.stage = "Catchup"
                     \/ /\ st.pending.eff.stage = "BuildReplica"
                        /\ st.builds[st.pending.eff.id] = "abandoned"
                  THEN "resumed" ELSE "resume"]
    /\ UNCHANGED <<st, table, sup, lock, valid, crashes, failures>>

Resume(d) ==
    /\ drv[d].pc = "resume"
    /\ LET p == st.pending
       IN  drv' = [drv EXCEPT ![d].mode = "resume", ![d].eff = p.eff, ![d].res = p.res,
                      ![d].pc = IF p.stage = "Applied" /\ p.eff.stage \notin AccessStages
                                THEN "complete" ELSE "prepare"]
    /\ UNCHANGED <<st, table, live, sup, lock, valid, crashes, failures>>

\* The service is ready; a background task drives the pending command.
Ready(d) ==
    /\ drv[d].pc = "resumed"
    /\ LET abandoned == {b \in Builds : st.builds[b] = "abandoned"}
       IN  IF abandoned # {}
           THEN /\ \E b \in abandoned :
                      drv' = [drv EXCEPT ![d] = BuildDriver(b, "retire", "cancelBuild")]
                /\ UNCHANGED live
           ELSE /\ live' = [live EXCEPT !.phase = "up"]
                /\ drv' = [drv EXCEPT ![d] =
                              IF st.record = None THEN IdleDriver
                              ELSE [IdleDriver EXCEPT !.pc = "lock", !.mode = "config",
                                                      !.cmd = st.record.cmd]]
    /\ UNCHANGED <<st, table, sup, lock, valid, crashes, failures>>

\* The recovery owner: between commands, under the command lock, access that a
\* restart or a rejected transaction left closed is brought back to what the
\* durable state says.
Reconcile ==
    /\ live.phase = "up" /\ lock = None
    /\ st.pending = None /\ st.record = None
    /\ <<live.read, live.write>> # <<st.read, st.write>>
    /\ AccessAllowed(live, <<st.read, st.write>>)
    /\ live' = SetAccess(live, <<st.read, st.write>>)
    /\ UNCHANGED <<st, table, sup, lock, drv, valid, crashes, failures>>

DriverStep(d) ==
    \/ CancelGenerations(d) \/ CancelNative(d) \/ Acquire(d) \/ Begin(d)
    \/ Stage(d) \/ Prepare(d) \/ Publish(d) \/ Install(d) \/ WaitCatchUp(d)
    \/ Mark(d) \/ Complete(d) \/ Accept(d) \/ Advance(d)
    \/ BeginBuild(d) \/ BuildCompletes(d) \/ BuildEnds(d)
    \/ CancelBuild(d) \/ BeginRetire(d)
    \/ Resume(d) \/ Ready(d)

Next ==
    /\ \/ \E d \in Rpc, c \in world.commands : Receive(d, c)
       \/ \E d \in Rpc, b \in world.builds : ReceiveBuild(d, b) \/ ReceiveRetire(d, b)
       \/ \E d \in Drivers : DriverStep(d) \/ StoreFails(d)
       \/ CatchUp \/ Reconcile \/ Crash \/ Restart
    /\ UNCHANGED world

Spec == Init /\ [][Next]_vars

(***************************************************************************)
(* Properties.                                                             *)
(***************************************************************************)

\* Type correctness.
TypeOK ==
    /\ world \in Worlds /\ st \in AgentStates /\ table \in Authorities \cup {None}
    /\ live \in Hosts /\ sup \in Nat /\ lock \in Drivers \cup {None}
    /\ drv \in [Drivers -> DriverStates] /\ valid \in BOOLEAN

\* Writes are open in the engine only while this replica is the primary of the
\* authority in the durable table, in its role, in the engine's role and at the
\* engine's epoch, whatever stage a command is in and whatever crashed
\* (custom.rs reserve_access_projection, install_managed_authority, fence_writes).
WritesOnlyAsInstalledPrimary ==
    live.nWrite = "Granted" =>
        /\ live.role = "Primary" /\ live.nRole = "Primary"
        /\ LocalRole(live.auth) = "Primary" /\ live.auth = table
        /\ live.nEpoch = AuthEpoch(table)

\* The pending effect belongs to the command on record or to a build: a command
\* that supersedes another drops the effect it left (sqlite_store.rs
\* begin_configuration).
JournalOwned ==
    st.pending # None =>
        \/ st.pending.eff.id \in Builds
        \/ st.record # None /\ st.pending.eff.id = st.record.cmd.id

\* A command reported as finished left the configurations and the role it asked
\* for (coordinator.rs drive_configuration up to complete_configuration).
FinishedMeansInstalled ==
    st.done # None /\ st.record = None => /\ st.cur = st.done.cur /\ st.prev = st.done.prev
                                          /\ st.role = st.done.cur.role

(***************************************************************************)
(* Refinement and liveness.                                                *)
(***************************************************************************)
\* The authorities a command may ask for, and those a behaviour may begin with.
CommandAuthorities == UNION {{Authority(c.prev, c.cur, k) : k \in {c.kind, None}} :
                                 c \in AllCommands}
StartAuthorities == {StartTable(w.start) : w \in Worlds}

Agent == INSTANCE ConfigurationAgent WITH
    NoAuthority <- None,
    Commands <- AllCommands,
    Authorities <- CommandAuthorities \cup StartAuthorities,
    authority <- table,
    granted <- IF live.nWrite = "Granted" THEN AuthEpoch(live.auth) ELSE 0,
    finished <- st.done

\* The agent, with its journal, stages, crashes and concurrent commands, implements
\* the abstract configuration agent: the authority only moves forward, it is
\* replaced with writes closed, and a command finishes under its own authority.
Implements == Agent!AgentSpec

\* Spawned drivers run, command_lock is first come first served, the process is
\* restarted, members catch up, the recovery owner polls, and the controller sends
\* its commands again.
FairSpec ==
    /\ Spec
    /\ \A d \in Drivers : /\ WF_vars(DriverStep(d) /\ UNCHANGED world)
                          /\ SF_vars(Acquire(d) /\ UNCHANGED world)
    /\ WF_vars(Restart /\ UNCHANGED world) /\ WF_vars(CatchUp /\ UNCHANGED world)
    /\ WF_vars(Reconcile /\ UNCHANGED world)
    /\ SF_vars((\E d \in Rpc : Receive(d, world.goal)) /\ UNCHANGED world)
    /\ SF_vars((\E d \in Rpc : Receive(d, world.first)) /\ UNCHANGED world)
    /\ SF_vars((\E d \in Rpc, b \in world.builds : ReceiveRetire(d, b)) /\ UNCHANGED world)

\* Where the controller keeps sending its commands, the last of them finishes, again
\* and again, across store failures and a restart (coordinator.rs
\* drive_configuration and resume_configuration).
GoalFinishes == world.retry => []<>(st.done = world.goal)
=============================================================================
