-------------------------- MODULE CoordinatorFacts --------------------------
(***************************************************************************)
(* The inductive invariant of Coordinator, what its operators return, the  *)
(* lemmas every step's proof rests on, and the steps taken outside the     *)
(* command lock: commands received and cancelled, catch-up,                *)
(* reconciliation, crash and restart.                                      *)
(***************************************************************************)
EXTENDS Coordinator, TLAPS

-----------------------------------------------------------------------------
(* Types and exclusion.                                                     *)

(* What a driver holds at each of its steps.                                *)
DriverFits(x) ==
    /\ x.pc \in InEffect => x.eff # None
    /\ x.pc \in {"mark", "complete"} => ResultFits(x.eff, x.res)
    /\ x.mode = "config" => x.cmd \in AllCommands
    /\ x.mode \in {"build", "retire"} => x.cmd \in Builds
    /\ x.mode = "config" /\ x.pc \in {"stage"} \cup InEffect =>
          /\ x.auth \in Authorities
          /\ x.auth.cur = x.cmd.cur /\ x.auth.prev = x.cmd.prev
          /\ x.auth.kind \in {x.cmd.kind, None}
    /\ x.pc \in {"cancel", "fence", "stage"} => x.mode = "config"
    /\ x.pc = "cancelBuild" => x.mode = "retire"
    /\ x.pc \in {"lock", "begin"} => x.mode \in {"config", "build", "retire"}

Types == TypeOK /\ \A d \in Drivers : DriverFits(drv[d])

(* The command lock, and startup that runs before there are commands.       *)
Exclusive ==
    /\ live.phase = "down" =>
          live = DownHost /\ lock = None /\ \A d \in Drivers : drv[d] = IdleDriver
    /\ live.phase = "recovering" => \A d \in Rpc : drv[d] = IdleDriver
    /\ \A d \in Drivers :
          /\ drv[d].pc \in Busy => lock = d \/ (d = Boot /\ drv[d].mode = "resume")
          /\ drv[d].mode = "resume" =>
                d = Boot /\ live.phase = "recovering" /\ drv[d].pc \in InEffect
          /\ drv[d].pc \in {"resume", "resumed"} =>
                d = Boot /\ live.phase = "recovering" /\ drv[d].mode = "none"

-----------------------------------------------------------------------------
(* The journal.                                                             *)

(* The effect e is the one of a stage of the command c.                     *)
EffectOf(e, c) ==
    /\ e.id = c.id
    /\ e.stage = "AdmitAuthority" =>
          e.arg.cur = c.cur /\ e.arg.prev = c.prev /\ e.arg.kind \in {c.kind, None}
    /\ e.stage \in RoleStages => e.arg.cur.role = c.cur.role

(* The stages after which the durable role is the one the command asks for. *)
RolePlaced(c, stage) ==
    \/ stage \in {"Activate", "RetireBuild", "Complete"}
    \/ c.kind = "Failover" /\ stage \in {"GetLsn", "Catchup", "Deactivate"}
    \/ c.kind # "Failover" /\ c.cur.role = "Primary" /\ stage = "Catchup"

RecordFits ==
    /\ st.highest = Epoch(st.cur)
    /\ st.done # None => st.done.cur.epoch <= st.highest
    /\ st.record = None =>
          /\ st.cur # None => table # None /\ table.cur = st.cur
          /\ st.done # None => /\ st.cur = st.done.cur /\ st.prev = st.done.prev
                               /\ st.role = st.done.cur.role
    /\ st.record # None =>
          /\ st.record.cmd.cur.epoch >= st.highest
          /\ st.record.stage # "AdmitAuthority" =>
                /\ st.cur = st.record.cmd.cur /\ st.prev = st.record.cmd.prev
                /\ table # None /\ table.cur = st.cur
          /\ RolePlaced(st.record.cmd, st.record.stage) => st.role = st.record.cmd.cur.role

PendingFits ==
    st.pending # None =>
        \/ st.pending.eff.id \in Builds
        \/ /\ st.record # None /\ EffectOf(st.pending.eff, st.record.cmd)
           /\ st.pending.eff.stage = st.record.stage
           /\ st.pending.eff.stage = "AdmitAuthority" /\ st.pending.stage = "Applied" =>
                 /\ table = st.pending.eff.arg
                 /\ live.phase # "down" => live.auth = table

RetainedFits ==
    st.retained # None =>
        /\ st.retained.eff.stage = "AdmitAuthority" =>
              /\ st.cur = st.retained.eff.arg.cur /\ st.prev = st.retained.eff.arg.prev
              /\ st.record # None /\ st.record.stage # "Complete"
              /\ st.record.stage = "AdmitAuthority" /\ st.record.cmd.cur.epoch = st.highest =>
                    /\ table = st.retained.eff.arg
                    /\ live.phase # "down" => live.auth = table
                    /\ st.retained.eff.id = st.record.cmd.id
        /\ st.retained.eff.stage = "ApplicationRole" => st.role = st.retained.eff.arg.cur.role
        /\ st.pending # None => \/ st.pending.eff.id # st.retained.eff.id
                                \/ st.pending.eff.stage # st.retained.eff.stage

(* What the effect in hand has to do with the journal.                      *)
InHand(d) ==
    LET x == drv[d] IN
    /\ x.pc \in InEffect \ {"accept", "next"} => st.pending # None /\ st.pending.eff = x.eff
    /\ x.mode = "config" /\ x.pc \in {"stage"} \cup InEffect =>
          st.record # None /\ st.record.cmd = x.cmd
    /\ x.mode = "config" /\ x.pc \in InEffect =>
          EffectOf(x.eff, x.cmd) /\ x.eff.stage = st.record.stage
    /\ x.mode = "config" /\ x.pc \in {"accept", "next"} =>
          st.retained # None /\ st.retained.eff = x.eff
    /\ x.pc = "install" => x.eff.stage = "AdmitAuthority" /\ table = x.eff.arg
    /\ x.pc \in {"mark", "complete"} /\ x.eff.stage = "AdmitAuthority" =>
          table = x.eff.arg /\ live.auth = table
    /\ x.pc = "publish" => x.eff.stage \in AccessStages
    /\ x.pc = "wait" => x.eff.stage \in {"Catchup", "BuildReplica"}
    /\ x.pc = "accept" => x.eff.stage \in AccessStages
    /\ x.pc = "resume" => st.pending # None

Journal == RecordFits /\ PendingFits /\ RetainedFits /\ \A d \in Drivers : InHand(d)

-----------------------------------------------------------------------------
(* The live host.                                                           *)

(* A host on its own: the engine's epoch is the authority's, an engine that *)
(* has left the primary role for good is not both, and writes are open only *)
(* in the role of a primary.                                                *)
Sound(h) ==
    /\ h.nEpoch = AuthEpoch(h.auth)
    /\ h.trans # None /\ h.trans.target # "Primary" /\ h.trans.rep =>
          ~(h.role = "Primary" /\ h.nRole = "Primary")
    /\ h.nWrite = "Granted" =>
          h.role = "Primary" /\ h.nRole = "Primary" /\ LocalRole(h.auth) = "Primary"

HostFits ==
    /\ Sound(live)
    /\ live.nWrite = "Granted" => live.auth = table
    /\ live.phase # "down" /\ live.auth # table =>
          st.record # None /\ st.record.stage = "AdmitAuthority"
    /\ live.rec # None /\ live.rec.eff.stage = "AdmitAuthority" =>
          table = live.rec.eff.arg /\ live.auth = table
    /\ \A d \in Drivers : drv[d].pc = "publish" =>
          AccessAllowed(live, AccessOf(drv[d].eff.stage, PendingCommand, live))

IInv == Types /\ Exclusive /\ Journal /\ HostFits

-----------------------------------------------------------------------------
(* The operators on the live host.                                          *)

(* g is a host like h, under the same authority and in the same phase, that *)
(* is no more open to writes.                                               *)
Follows(g, h) ==
    /\ g \in Hosts /\ Sound(g) /\ g.auth = h.auth /\ g.phase = h.phase /\ g.rec = h.rec
    /\ g.nWrite = "Granted" => h.nWrite = "Granted"

(* Closing writes keeps a host sound.                                       *)
LEMMA FencedFacts ==
  ASSUME NEW h \in Hosts, Sound(h)
  PROVE  Follows(Fenced(h), h) /\ Fenced(h).nWrite = "Pending"
<1>1. Fenced(h) \in Hosts
  BY ZenonT(60) DEF Fenced, Hosts, Accesses
<1> QED
  BY <1>1 DEF Follows, Fenced, Hosts, Sound

(* Cancelling configuration work closes the engine only.                    *)
LEMMA ClosedFacts ==
  ASSUME NEW h \in Hosts, Sound(h)
  PROVE  Follows([h EXCEPT !.nWrite = "Pending"], h)
<1>1. [h EXCEPT !.nWrite = "Pending"] \in Hosts
  BY DEF Hosts, Accesses
<1> QED
  BY <1>1 DEF Follows, Hosts, Sound

(* A refreshed transition targets the primary role.                         *)
LEMMA RefreshFacts ==
  ASSUME NEW h \in Hosts, Sound(h)
  PROVE  Follows(RefreshTransition(h), h)
<1>1. RoleTransition("Primary", TRUE, TRUE, FALSE) \in Transitions
  BY DEF RoleTransition, Transitions, Roles
<1>2. PICK t \in Transitions : t = RoleTransition("Primary", TRUE, TRUE, FALSE)
  BY Zenon, <1>1
<1>3. t.target = "Primary"
  BY <1>2 DEF RoleTransition
<1>4. h.auth # None => AuthEpoch(h.auth) \in Nat
  BY DEF AuthEpoch, Hosts, Authorities, Configurations
<1>5. CASE h.role = "Primary" /\ LocalRole(h.auth) = "Primary"
  <2>1. PICK n \in Nat : n = AuthEpoch(h.auth)
    BY <1>4, <1>5 DEF LocalRole
  <2>2. RefreshTransition(h) = [h EXCEPT !.trans = t, !.tEpoch = n, !.tAuth = h.auth]
    BY <1>2, <1>5, <2>1 DEF RefreshTransition
  <2>3. [h EXCEPT !.trans = t, !.tEpoch = n, !.tAuth = h.auth] \in Hosts
    BY Zenon DEF Hosts
  <2>4. Sound([h EXCEPT !.trans = t, !.tEpoch = n, !.tAuth = h.auth])
    BY <1>3 DEF Hosts, Sound
  <2> QED
    BY <2>2, <2>3, <2>4 DEF Follows, Hosts
<1>6. CASE ~(h.role = "Primary" /\ LocalRole(h.auth) = "Primary")
  BY <1>6 DEF RefreshTransition, Follows
<1> QED
  BY <1>5, <1>6

(* The epoch of an authority is a number.                                   *)
LEMMA EpochIsNat ==
  ASSUME NEW a \in Authorities \cup {None}
  PROVE  AuthEpoch(a) \in Nat
BY DEF AuthEpoch, Authorities, Configurations

(* change_replicator_role: an engine that enters another role is closed.    *)
LEMMA ReplicatorRoleFacts ==
  ASSUME NEW h \in Hosts, Sound(h), NEW role \in Roles, ChangeReplicatorRole(h, role) # None
  PROVE  Follows(ChangeReplicatorRole(h, role), h)
<1> DEFINE epoch == AuthEpoch(h.auth)
           kept == IF epoch > h.tEpoch \/ h.tAuth # h.auth THEN None ELSE h.trans
           done == h.role = role /\ h.tEpoch >= epoch /\ h.tAuth = h.auth
           fresh == RoleTransition(role, h.role = role, role # "Primary" \/ done, done)
           t == IF kept # None THEN kept ELSE fresh
           g == [h EXCEPT !.trans = t, !.tEpoch = IF kept # None THEN @ ELSE epoch,
                       !.tAuth = IF kept # None THEN @ ELSE h.auth,
                       !.write = IF h.role # role THEN "Pending" ELSE @]
<1>1. /\ t.target = role
      /\ ChangeReplicatorRole(h, role) =
            IF t.rep THEN g
            ELSE [Fenced(g) EXCEPT !.nRole = role, !.nEpoch = epoch,
                                   !.trans = [t EXCEPT !.rep = TRUE]]
  BY Zenon DEF ChangeReplicatorRole
<1>2. PICK n \in Nat : n = epoch
  BY EpochIsNat DEF Hosts
<1>3. PICK b \in BOOLEAN, b2 \in BOOLEAN, b3 \in BOOLEAN :
         b = (h.role = role) /\ fresh = RoleTransition(role, b, b2, b3)
  BY Zenon
<1>4. fresh \in Transitions /\ fresh.rep = b
  BY <1>3 DEF RoleTransition, Transitions
<1>5. t \in Transitions
  <2>1. kept \in Transitions \cup {None}
    BY DEF Hosts
  <2> HIDE DEF kept, fresh
  <2> QED
    BY <1>4, <2>1
<1>6. t.rep /\ role # "Primary" => ~(h.role = "Primary" /\ h.nRole = "Primary")
  <2>1. CASE kept # None
    <3>1. kept = h.trans /\ t = h.trans /\ h.trans # None
      BY <2>1
    <3> QED
      BY Zenon, <1>1, <3>1 DEF Sound
  <2>2. CASE kept = None
    <3>1. t = fresh
      BY <2>2
    <3> QED
      BY Zenon, <1>3, <1>4, <3>1
  <2> QED
    BY Zenon, <2>1, <2>2
<1>7. PICK m \in Nat, a \in Authorities \cup {None}, w \in Accesses, u \in Transitions :
         /\ u = t /\ g = [h EXCEPT !.trans = u, !.tEpoch = m, !.tAuth = a, !.write = w]
  <2>1. (IF kept # None THEN h.tEpoch ELSE epoch) \in Nat
    BY <1>2 DEF Hosts
  <2>2. (IF kept # None THEN h.tAuth ELSE h.auth) \in Authorities \cup {None}
    BY DEF Hosts
  <2>3. (IF h.role # role THEN "Pending" ELSE h.write) \in Accesses
    BY DEF Hosts, Accesses
  <2> HIDE DEF kept, t, epoch
  <2> QED
    BY Zenon, <1>5, <2>1, <2>2, <2>3
<1>8. /\ u.target = role /\ u.rep \in BOOLEAN
      /\ u.rep /\ role # "Primary" => ~(h.role = "Primary" /\ h.nRole = "Primary")
      /\ ChangeReplicatorRole(h, role) =
            IF u.rep THEN g
            ELSE [Fenced(g) EXCEPT !.nRole = role, !.nEpoch = n,
                                   !.trans = [u EXCEPT !.rep = TRUE]]
  BY Zenon, <1>1, <1>2, <1>6, <1>7 DEF Transitions
<1> HIDE DEF g, t, kept, fresh, epoch, done
<1>9. g \in Hosts /\ g.trans = u
  BY Zenon, <1>7 DEF Hosts
<1>10. CASE u.rep
  <2>1. Sound(g) /\ Follows(g, h)
    BY <1>7, <1>8, <1>9, <1>10 DEF Sound, Follows, Hosts
  <2> QED
    BY <1>8, <1>10, <2>1
<1>11. CASE ~u.rep
  <2>1. PICK v \in Transitions : v = [u EXCEPT !.rep = TRUE] /\ v.target = role
    <3>1. [u EXCEPT !.rep = TRUE] \in Transitions /\ [u EXCEPT !.rep = TRUE].target = role
      BY Zenon, <1>8 DEF Transitions
    <3> QED
      BY Zenon, <3>1
  <2>2. [Fenced(g) EXCEPT !.nRole = role, !.nEpoch = n, !.trans = v] =
        [g EXCEPT !.read = "Pending", !.write = "Pending", !.nWrite = "Pending",
                  !.nRole = role, !.nEpoch = n, !.trans = v]
    BY DEF Fenced
  <2>3. PICK x : x = [g EXCEPT !.read = "Pending", !.write = "Pending", !.nWrite = "Pending",
                               !.nRole = role, !.nEpoch = n, !.trans = v]
    OBVIOUS
  <2>4. x \in Hosts
    BY ZenonT(60), <1>9, <2>3 DEF Hosts, Accesses
  <2>5. /\ x.auth = h.auth /\ x.phase = h.phase /\ x.rec = h.rec /\ x.nWrite = "Pending"
        /\ x.nRole = role /\ x.nEpoch = n /\ x.trans = v
    BY <1>7, <1>9, <2>3 DEF Hosts
  <2>6. Sound(x)
    BY <1>2, <2>1, <2>5 DEF Sound, epoch
  <2> QED
    BY Zenon, <1>8, <1>11, <2>1, <2>2, <2>3, <2>4, <2>5, <2>6 DEF Follows
<1> QED
  BY <1>8, <1>10, <1>11

(* update_epoch closes the engine.                                          *)
LEMMA UpdateEpochFacts ==
  ASSUME NEW h \in Hosts, Sound(h), UpdateEpoch(h) # None
  PROVE  Follows(UpdateEpoch(h), h)
<1>1. /\ h.trans # None /\ h.trans.target = "Primary" /\ h.trans \in Transitions
      /\ UpdateEpoch(h) = IF h.trans.ep THEN h
                          ELSE [h EXCEPT !.nEpoch = AuthEpoch(h.auth), !.nWrite = "Pending",
                                         !.trans = [h.trans EXCEPT !.ep = TRUE]]
  BY DEF UpdateEpoch, Hosts
<1>2. CASE UpdateEpoch(h) = h
  BY <1>2 DEF Follows
<1>3. CASE UpdateEpoch(h) = [h EXCEPT !.nEpoch = AuthEpoch(h.auth), !.nWrite = "Pending",
                                      !.trans = [h.trans EXCEPT !.ep = TRUE]]
  <2>1. PICK n \in Nat : n = AuthEpoch(h.auth)
    BY EpochIsNat DEF Hosts
  <2>2. PICK v \in Transitions : v = [h.trans EXCEPT !.ep = TRUE] /\ v.target = "Primary"
    <3>1. /\ [h.trans EXCEPT !.ep = TRUE] \in Transitions
          /\ [h.trans EXCEPT !.ep = TRUE].target = "Primary"
      BY Zenon, <1>1 DEF Transitions
    <3> QED
      BY Zenon, <3>1
  <2>3. UpdateEpoch(h) = [h EXCEPT !.nEpoch = n, !.nWrite = "Pending", !.trans = v]
    BY <1>3, <2>1, <2>2
  <2>4. PICK x : x = [h EXCEPT !.nEpoch = n, !.nWrite = "Pending", !.trans = v]
    OBVIOUS
  <2>5. x \in Hosts
    BY Zenon, <2>4 DEF Hosts, Accesses
  <2>6. /\ x.auth = h.auth /\ x.phase = h.phase /\ x.rec = h.rec /\ x.nWrite = "Pending"
        /\ x.nEpoch = n /\ x.trans = v
    BY <2>4 DEF Hosts
  <2>7. Sound(x)
    BY <2>1, <2>2, <2>6 DEF Sound
  <2> QED
    BY <2>3, <2>4, <2>5, <2>6, <2>7 DEF Follows
<1> QED
  BY <1>1, <1>2, <1>3

(* change_application_role: the engine has taken the role before.           *)
LEMMA ApplicationRoleFacts ==
  ASSUME NEW h \in Hosts, Sound(h), NEW role \in Roles, ChangeApplicationRole(h, role) # None
  PROVE  Follows(ChangeApplicationRole(h, role), h) /\ ChangeApplicationRole(h, role).role = role
<1>1. /\ h.trans # None /\ h.trans.target = role /\ h.trans.rep
      /\ ChangeApplicationRole(h, role) = [h EXCEPT !.role = role, !.trans = None]
  BY DEF ChangeApplicationRole
<1>2. PICK x : x = [h EXCEPT !.role = role, !.trans = None]
  OBVIOUS
<1>3. x \in Hosts
  BY Zenon, <1>2 DEF Hosts
<1>4. /\ x.auth = h.auth /\ x.phase = h.phase /\ x.rec = h.rec /\ x.nWrite = h.nWrite
      /\ x.nEpoch = h.nEpoch /\ x.trans = None /\ x.role = role /\ x.nRole = h.nRole
  BY <1>2 DEF Hosts
<1>5. Sound(x)
  BY <1>1, <1>4 DEF Sound
<1> QED
  BY <1>1, <1>2, <1>3, <1>4, <1>5 DEF Follows

(* An access that was allowed is set without making the host unsound.       *)
LEMMA SetAccessFacts ==
  ASSUME NEW h \in Hosts, Sound(h), NEW access \in Accesses \X Accesses, AccessAllowed(h, access)
  PROVE  /\ SetAccess(h, access) \in Hosts /\ Sound(SetAccess(h, access))
         /\ SetAccess(h, access).auth = h.auth /\ SetAccess(h, access).phase = h.phase
         /\ SetAccess(h, access).rec = h.rec
<1>1. PICK r \in Accesses, w \in Accesses : access = <<r, w>>
  OBVIOUS
<1>2. PICK x : x = [h EXCEPT !.read = r, !.write = w, !.nWrite = w]
  OBVIOUS
<1>3. SetAccess(h, access) = x
  BY <1>1, <1>2 DEF SetAccess
<1>4. x \in Hosts
  BY Zenon, <1>2 DEF Hosts
<1>5. /\ x.auth = h.auth /\ x.phase = h.phase /\ x.rec = h.rec /\ x.nWrite = w
      /\ x.nEpoch = h.nEpoch /\ x.trans = h.trans /\ x.role = h.role /\ x.nRole = h.nRole
  BY <1>2 DEF Hosts
<1>6. w = "Granted" => h.role = "Primary" /\ h.nRole = "Primary" /\ LocalRole(h.auth) = "Primary"
  BY <1>1 DEF AccessAllowed
<1>7. Sound(x)
  BY <1>5, <1>6 DEF Sound
<1> QED
  BY <1>3, <1>4, <1>5, <1>7

(* install_managed_authority: another authority is installed with writes    *)
(* closed.                                                                  *)
LEMMA InstallFacts ==
  ASSUME NEW h \in Hosts, Sound(h), NEW a \in Authorities
  PROVE  /\ InstallAuthority(h, a) \in Hosts /\ Sound(InstallAuthority(h, a))
         /\ InstallAuthority(h, a).auth = a /\ InstallAuthority(h, a).phase = h.phase
         /\ InstallAuthority(h, a).rec = h.rec
<1>1. PICK n \in Nat : n = AuthEpoch(a)
  BY EpochIsNat
<1>2. PICK f \in Hosts : /\ f = IF h.auth # a \/ LocalRole(a) # "Primary" THEN Fenced(h) ELSE h
                         /\ Sound(f) /\ f.phase = h.phase /\ f.rec = h.rec
                         /\ f.nWrite = "Granted" => LocalRole(a) = "Primary"
  BY FencedFacts DEF Follows
<1>3. PICK b \in BOOLEAN : b = IF h.auth # a THEN a.prev = None ELSE f.caught
  BY Zenon DEF Hosts
<1>4. InstallAuthority(h, a) = [f EXCEPT !.auth = a, !.nEpoch = n, !.caught = b]
  BY <1>1, <1>2, <1>3 DEF InstallAuthority
<1>5. PICK x : x = [f EXCEPT !.auth = a, !.nEpoch = n, !.caught = b]
  OBVIOUS
<1>6. x \in Hosts
  BY Zenon, <1>5 DEF Hosts
<1>7. /\ x.auth = a /\ x.phase = f.phase /\ x.nWrite = f.nWrite /\ x.rec = f.rec
      /\ x.nEpoch = n /\ x.trans = f.trans /\ x.role = f.role /\ x.nRole = f.nRole
  BY <1>5 DEF Hosts
<1>8. Sound(x)
  BY Zenon, <1>1, <1>2, <1>7 DEF Sound
<1> QED
  BY <1>2, <1>4, <1>5, <1>6, <1>7, <1>8

(* The result of an effect is one.                                          *)
LEMMA OutcomeFacts ==
  ASSUME NEW h \in Hosts, NEW stage
  PROVE  /\ Outcome(stage, h) \in Results /\ Outcome(stage, h).role = h.role
         /\ stage = "AdmitAuthority" => Outcome(stage, h).auth = h.auth
<1>1. h.auth \in Authorities \cup {None} /\ h.role \in Roles /\ h.read \in Accesses
      /\ h.write \in Accesses /\ h.trans \in Transitions \cup {None} /\ "NotPrimary" \in Accesses
  BY DEF Hosts, Accesses
<1>2. CASE stage = "AdmitAuthority" \/ stage \in AccessStages
  <2>1. Outcome(stage, h) = [auth |-> h.auth, role |-> h.role, read |-> h.read,
                             write |-> h.write, trans |-> None]
    BY <1>2 DEF Outcome
  <2> QED
    BY <1>1, <2>1 DEF Results
<1>3. CASE ~(stage = "AdmitAuthority" \/ stage \in AccessStages)
  <2>1. Outcome(stage, h) = [auth |-> None, role |-> h.role, read |-> "NotPrimary",
                             write |-> "NotPrimary", trans |-> h.trans]
    BY <1>3 DEF Outcome
  <2> QED
    BY <1>1, <1>3, <2>1 DEF Results
<1> QED
  BY <1>2, <1>3

(* The access a stage asks for is a pair of access statuses.                *)
LEMMA AccessOfFacts ==
  ASSUME NEW stage \in AccessStages, NEW c \in AllCommands, NEW h \in Hosts
  PROVE  AccessOf(stage, c, h) \in Accesses \X Accesses
<1>1. h.read \in Accesses /\ h.write \in Accesses /\ c.write \in Accesses
  BY WorldAssumption DEF Hosts, AllCommands
<1>2. CASE stage = "Demote"
  BY <1>1, <1>2 DEF AccessOf, Accesses
<1>3. CASE stage = "Deactivate"
  BY <1>1, <1>3 DEF AccessOf, Accesses
<1>4. CASE stage = "Activate"
  BY <1>1, <1>4 DEF AccessOf, Accesses
<1> QED
  BY <1>2, <1>3, <1>4 DEF AccessStages

(* The steps startup takes into a role, as far as they go.                  *)
LEMMA AssumeRoleFacts ==
  ASSUME NEW h \in Hosts, Sound(h), NEW role \in Roles, NEW ep, NEW app,
         AssumeRole(h, role, ep, app) # None
  PROVE  Follows(AssumeRole(h, role, ep, app), h)
<1> DEFINE g1 == ChangeReplicatorRole(h, role)
           g2 == IF g1 = None THEN None
                 ELSE IF role = "Primary" /\ ep THEN UpdateEpoch(g1) ELSE g1
<1>1. g1 # None /\ g2 # None
  BY DEF AssumeRole
<1>2. Follows(g1, h)
  BY <1>1, ReplicatorRoleFacts
<1>3. Follows(g2, g1)
  <2>1. CASE role = "Primary" /\ ep
    BY Zenon, <1>1, <1>2, <2>1, UpdateEpochFacts DEF Follows
  <2>2. CASE ~(role = "Primary" /\ ep)
    BY Zenon, <1>1, <1>2, <2>2 DEF Follows
  <2> QED
    BY <2>1, <2>2
<1>4. AssumeRole(h, role, ep, app) = IF app THEN ChangeApplicationRole(g2, role) ELSE g2
  BY <1>1 DEF AssumeRole
<1>5. g2 \in Hosts /\ Sound(g2)
  BY Zenon, <1>3 DEF Follows
<1> HIDE DEF g1, g2
<1>6. CASE app
  <2>1. Follows(ChangeApplicationRole(g2, role), g2)
    BY <1>4, <1>5, <1>6, ApplicationRoleFacts
  <2> QED
    BY <1>2, <1>3, <1>4, <1>6, <2>1 DEF Follows
<1>7. CASE ~app
  BY <1>2, <1>3, <1>4, <1>7 DEF Follows
<1> QED
  BY <1>6, <1>7

(* What is known of a command.                                              *)
LEMMA CommandFacts ==
  ASSUME NEW c \in AllCommands
  PROVE  /\ c.cur \in Configurations /\ c.cur.epoch \in Nat /\ c.cur.epoch > 0
         /\ c.cur.role \in Roles /\ c.prev \in Configurations \cup {None}
         /\ c.write \in Accesses /\ c.retire \subseteq Builds
         /\ c.id \notin Builds /\ c.id \in Names /\ c.kind \in Kinds
<1>1. PICK w \in Worlds : c \in w.commands
  BY DEF AllCommands
<1> QED
  BY Zenon, <1>1, WorldAssumption DEF Configurations, Names, Kinds

(* An effect whose action takes an authority carries one.                   *)
LEMMA EffectFacts ==
  ASSUME NEW e \in Effects
  PROVE  /\ e.id \in Names /\ e.stage \in Stages
         /\ e.stage = "AdmitAuthority" \/ e.stage \in RoleStages =>
               e.arg \in Authorities /\ e.arg.cur \in Configurations /\ e.arg.cur.role \in Roles
         /\ e.stage = "RetireBuild" => e.arg \in Builds
         /\ e.id \in Builds => e.stage \in {"BuildReplica", "RetireBuild"}
         /\ e.stage = "BuildReplica" => e.id \in Builds
BY DEF Effects, ArgumentFits, Authorities, Configurations

(* The role startup goes to is a role.                                      *)
LEMMA StartupFacts ==
  ASSUME NEW s \in AgentStates, StartupTransition(s) # None
  PROVE  StartupTransition(s)[1] \in Roles
<1> DEFINE r == IF s.pending = None THEN None ELSE s.pending.res
           stage == IF s.pending = None THEN "none" ELSE s.pending.eff.stage
           target == IF s.record = None THEN "None" ELSE s.record.cmd.cur.role
<1>1. s.pending # None => s.pending \in Pendings /\ s.pending.eff \in Effects
  BY DEF AgentStates, Pendings
<1>2. r # None => r \in Results
  BY DEF AgentStates, Pendings
<1>3. r # None => r.role \in Roles /\ (r.trans # None => r.trans.target \in Roles)
  BY Zenon, <1>2 DEF Results, Transitions
<1>4. stage = "ReplicatorRole" => s.pending.eff.arg.cur.role \in Roles
  BY <1>1, EffectFacts DEF RoleStages
<1>5. target \in Roles
  <2>1. CASE s.record # None
    <3>1. s.record.cmd \in AllCommands
      BY <2>1 DEF AgentStates, Records
    <3> QED
      BY <3>1, <2>1, CommandFacts
  <2> QED
    BY <2>1 DEF Roles
<1>6. \/ StartupTransition(s) = <<r.trans.target, r.trans.ep, r.trans.app>> /\ r # None /\ r.trans # None
      \/ StartupTransition(s) = <<r.trans.target, TRUE, r.trans.app>> /\ r # None /\ r.trans # None
      \/ StartupTransition(s) = <<r.role, TRUE, TRUE>> /\ r # None
      \/ /\ StartupTransition(s) = <<s.pending.eff.arg.cur.role, FALSE, FALSE>>
         /\ stage = "ReplicatorRole"
      \/ StartupTransition(s) = <<target, FALSE, FALSE>>
      \/ StartupTransition(s) = <<target, TRUE, FALSE>>
      \/ StartupTransition(s) = <<target, TRUE, TRUE>>
  BY Zenon DEF StartupTransition
<1> HIDE DEF r, stage, target
<1>7. PICK x \in Roles : \E y, z : StartupTransition(s) = <<x, y, z>>
  BY Zenon, <1>3, <1>4, <1>5, <1>6
<1> QED
  BY <1>7

(* The host that startup rebuilds from the durable state.                   *)
LEMMA ReconstructedFacts ==
  ASSUME NEW s \in AgentStates, NEW a \in Authorities \cup {None}, Reconstructed(s, a) # None
  PROVE  /\ Reconstructed(s, a) \in Hosts /\ Sound(Reconstructed(s, a))
         /\ Reconstructed(s, a).auth = a /\ Reconstructed(s, a).phase = "recovering"
         /\ Reconstructed(s, a).rec = None
<1>1. PICK n \in Nat, b \in BOOLEAN : n = AuthEpoch(a) /\ b = (a # None /\ a.prev = None)
  BY Zenon, EpochIsNat
<1> DEFINE opened == [DownHost EXCEPT !.phase = "recovering", !.auth = a,
                                      !.nEpoch = n, !.caught = b]
           t == StartupTransition(s)
           placed == IF t # None THEN AssumeRole(opened, t[1], t[2], t[3])
                     ELSE IF s.role # "None" THEN AssumeRole(opened, s.role, TRUE, TRUE)
                     ELSE opened
           access == IF t # None THEN <<"Pending", "Pending">> ELSE <<s.read, s.write>>
<1>2. /\ opened \in Hosts /\ opened.auth = a /\ opened.phase = "recovering" /\ opened.rec = None
      /\ opened.nEpoch = n /\ opened.nWrite = "NotPrimary" /\ opened.trans = None
  BY Zenon, NoneAssumption DEF Hosts, DownHost, Roles, Accesses
<1>3. Sound(opened)
  BY <1>1, <1>2 DEF Sound
<1>4. access \in Accesses \X Accesses
  <2>1. s.read \in Accesses /\ s.write \in Accesses /\ "Pending" \in Accesses
    BY DEF AgentStates, Accesses
  <2> QED
    BY <2>1
<1>5. /\ placed # None
      /\ Reconstructed(s, a) = IF AccessAllowed(placed, access) THEN SetAccess(placed, access)
                               ELSE Fenced(placed)
  BY Zenon, <1>1 DEF Reconstructed
<1>6. Follows(placed, opened)
  <2> HIDE DEF opened
  <2>1. CASE t # None
    <3>1. t[1] \in Roles
      BY <2>1, StartupFacts
    <3> QED
      BY Zenon, <1>2, <1>3, <1>5, <2>1, <3>1, AssumeRoleFacts
  <2>2. CASE t = None /\ s.role # "None"
    <3>1. s.role \in Roles
      BY DEF AgentStates
    <3> QED
      BY Zenon, <1>2, <1>3, <1>5, <2>2, <3>1, AssumeRoleFacts
  <2>3. CASE t = None /\ s.role = "None"
    BY Zenon, <1>2, <1>3, <2>3 DEF Follows
  <2> QED
    BY Zenon, <2>1, <2>2, <2>3
<1>7. /\ placed \in Hosts /\ Sound(placed) /\ placed.auth = a /\ placed.phase = "recovering"
      /\ placed.rec = None
  BY Zenon, <1>2, <1>6 DEF Follows
<1> HIDE DEF placed, access, t, opened
<1>8. CASE AccessAllowed(placed, access)
  BY <1>4, <1>5, <1>7, <1>8, SetAccessFacts
<1>9. CASE ~AccessAllowed(placed, access)
  <2>1. Follows(Fenced(placed), placed)
    BY <1>7, FencedFacts
  <2> QED
    BY <1>5, <1>7, <1>9, <2>1 DEF Follows
<1> QED
  BY <1>8, <1>9

-----------------------------------------------------------------------------
(* What a step leaves alone.                                                *)

(* The command lock, or startup, keeps every other driver out.              *)
LEMMA OthersQuiet ==
  ASSUME Types, Exclusive, NEW d \in Drivers, drv[d].pc \in Busy, NEW x \in Drivers, x # d
  PROVE  /\ drv[x].pc \notin Busy \cup {"resume"}
         /\ live.phase # "down" /\ (live.phase = "recovering" => d = Boot)
<1>1. drv[d] # IdleDriver
  BY DEF IdleDriver, Busy, InEffect
<1>2. live.phase # "down" /\ (live.phase = "recovering" => d = Boot)
  BY <1>1 DEF Exclusive, Drivers
<1>3. SUFFICES ASSUME drv[x].pc \in Busy \cup {"resume"} PROVE FALSE
  BY <1>2
<1>4. drv[x] # IdleDriver
  BY <1>3 DEF IdleDriver, Busy, InEffect
<1>5. live.phase = "recovering" => x = Boot
  BY <1>4 DEF Exclusive, Drivers
<1> QED
  BY Zenon, <1>2, <1>3, <1>5 DEF Exclusive, Busy, InEffect

(* A driver at work, and where startup may be.                              *)
LEMMA BusyFacts ==
  ASSUME Types, Exclusive, NEW d \in Drivers, drv[d].pc # "idle"
  PROVE  /\ live.phase # "down" /\ (live.phase = "recovering" => d = Boot)
         /\ live.phase \in {"recovering", "up"} /\ drv[d] \in DriverStates
         /\ drv[d].pc \in Busy => lock = d \/ (d = Boot /\ drv[d].mode = "resume")
<1>1. drv[d] # IdleDriver
  BY DEF IdleDriver
<1> QED
  BY Zenon, <1>1 DEF Exclusive, Drivers, Types, TypeOK, Hosts

(* A driver's next step keeps the types and the exclusion.                  *)
LEMMA StepTypes ==
  ASSUME Types, Exclusive, NEW d \in Drivers, NEW x \in DriverStates,
         live.phase # "down", live.phase = "recovering" => d = Boot,
         drv' = [drv EXCEPT ![d] = x], DriverFits(x),
         live' \in Hosts, live'.phase = live.phase,
         st' \in AgentStates, table' \in Authorities \cup {None}, sup' \in Nat,
         valid' \in BOOLEAN, world' = world,
         \/ lock' = lock
         \/ lock = None /\ lock' = d
         \/ lock' = None /\ \A y \in Drivers \ {d} : drv[y].pc \notin Busy,
         x.pc \in Busy => lock' = d \/ (d = Boot /\ x.mode = "resume"),
         x.mode = "resume" => d = Boot /\ live.phase = "recovering" /\ x.pc \in InEffect,
         x.pc \in {"resume", "resumed"} =>
             d = Boot /\ live.phase = "recovering" /\ x.mode = "none"
  PROVE  Types' /\ Exclusive' /\ drv'[d] = x /\ \A y \in Drivers \ {d} : drv'[y] = drv[y]
<1>1. drv \in [Drivers -> DriverStates]
  BY DEF Types, TypeOK
<1>2. drv'[d] = x /\ \A y \in Drivers \ {d} : drv'[y] = drv[y]
  BY <1>1
<1>3. TypeOK'
  BY <1>1 DEF Types, TypeOK
<1>4. \A y \in Drivers : DriverFits(drv'[y])
  BY <1>2 DEF Types
<1>5. Types'
  <2>1. \A y \in Drivers : DriverFits(drv[y])'
    BY Zenon, <1>4 DEF DriverFits
  <2> QED
    BY <1>3, <2>1 DEF Types
<1>6. ASSUME NEW y \in Drivers
      PROVE  /\ drv'[y].pc \in Busy => lock' = y \/ (y = Boot /\ drv'[y].mode = "resume")
             /\ drv'[y].mode = "resume" =>
                   y = Boot /\ live'.phase = "recovering" /\ drv'[y].pc \in InEffect
             /\ drv'[y].pc \in {"resume", "resumed"} =>
                   y = Boot /\ live'.phase = "recovering" /\ drv'[y].mode = "none"
  <2>1. CASE y = d
    BY <1>2, <2>1
  <2>2. CASE y # d
    BY Zenon, <1>2, <2>2, DriverAssumption DEF Exclusive
  <2> QED
    BY Zenon, <2>1, <2>2
<1>7. live'.phase = "recovering" => \A y \in Rpc : drv'[y] = IdleDriver
  <2>1. SUFFICES ASSUME live.phase = "recovering", NEW y \in Rpc PROVE drv'[y] = IdleDriver
    OBVIOUS
  <2> QED
    BY Zenon, <1>2, <2>1, DriverAssumption DEF Exclusive, Drivers
<1>8. Exclusive'
  BY Zenon, <1>6, <1>7 DEF Exclusive
<1> QED
  BY <1>2, <1>5, <1>8

(* A command that returns keeps the types and the exclusion, and leaves no  *)
(* effect in hand.                                                          *)
LEMMA ReturnTypes ==
  ASSUME Types, Exclusive, NEW d \in Drivers, drv[d].pc \in Busy, NEW failed, NEW h \in Hosts,
         ReturnWith(d, failed, h), h.phase = live.phase,
         st' \in AgentStates, table' \in Authorities \cup {None}, valid' \in BOOLEAN, world' = world
  PROVE  /\ Types' /\ Exclusive' /\ live' \in {h, DownHost}
         /\ live'.phase \in {live.phase, "down"} /\ live.phase # "down"
         /\ live' = DownHost \/ live'.phase # "down"
         /\ \A y \in Drivers : drv'[y].pc \notin Busy \cup {"resume"}
<1>1. drv \in [Drivers -> DriverStates] /\ sup \in Nat /\ lock \in Drivers \cup {None}
  BY DEF Types, TypeOK
<1>2. /\ live.phase # "down" /\ (live.phase = "recovering" => d = Boot)
      /\ live.phase \in {"recovering", "up"}
  BY BusyFacts DEF Busy, InEffect
<1>3. IdleDriver \in DriverStates /\ DriverFits(IdleDriver) /\ IdleDriver.pc \notin Busy
      /\ IdleDriver.mode = "none" /\ IdleDriver.pc = "idle"
  BY Zenon DEF IdleDriver, DriverStates, DriverFits, Waiting, Busy, InEffect
<1>4. DownHost \in Hosts /\ DownHost.phase = "down"
  BY Zenon DEF DownHost, Hosts, Roles, Accesses
<1>5. CASE failed /\ live.phase = "recovering"
  <2>1. live' = DownHost /\ drv' = [x \in Drivers |-> IdleDriver] /\ lock' = None /\ sup' = 0
    BY <1>5 DEF ReturnWith
  <2>2. TypeOK'
    BY <1>3, <1>4, <2>1 DEF Types, TypeOK
  <2>3. \A y \in Drivers : drv'[y] = IdleDriver
    BY <2>1
  <2>4. \A y \in Drivers : DriverFits(drv[y])'
    BY Zenon, <1>3, <2>3 DEF DriverFits
  <2>5. Exclusive'
    BY Zenon, <1>3, <1>4, <2>1, <2>3 DEF Exclusive, Drivers
  <2> QED
    BY <1>2, <1>3, <1>4, <2>1, <2>2, <2>3, <2>4, <2>5 DEF Types
<1>6. CASE ~(failed /\ live.phase = "recovering")
  <2>1. /\ live' = h /\ drv' = [drv EXCEPT ![d] = IdleDriver] /\ sup' = sup
        /\ lock' = IF lock = d THEN None ELSE lock
    BY <1>6 DEF ReturnWith, Holds
  <2>2. Types' /\ Exclusive' /\ drv'[d] = IdleDriver /\ \A y \in Drivers \ {d} : drv'[y] = drv[y]
    <3>1. IdleDriver.pc \notin {"resume", "resumed"} /\ IdleDriver.mode # "resume"
      BY <1>3
    <3> HIDE DEF IdleDriver
    <3> QED
      BY Zenon, <1>1, <1>2, <1>3, <2>1, <3>1, OthersQuiet, StepTypes
  <2>3. \A y \in Drivers : drv'[y].pc \notin Busy \cup {"resume"}
    BY <1>3, <2>2, OthersQuiet
  <2> QED
    BY <1>2, <2>1, <2>2, <2>3
<1> QED
  BY <1>5, <1>6

(* A step that at most drops the pending effect.                            *)
JournalKept ==
    /\ st'.prev = st.prev /\ st'.cur = st.cur /\ st'.highest = st.highest /\ st'.role = st.role
    /\ st'.record = st.record /\ st'.retained = st.retained /\ st'.done = st.done
    /\ st'.pending \in {st.pending, None}

LEMMA SameJournal ==
  ASSUME RecordFits, PendingFits, RetainedFits, JournalKept, table' = table,
         live'.phase # "down" =>
             live'.auth = table \/ (live.phase # "down" /\ live'.auth = live.auth)
  PROVE  RecordFits' /\ PendingFits' /\ RetainedFits'
<1>1. RecordFits'
  BY Zenon DEF JournalKept, RecordFits, Epoch, RolePlaced
<1>2. PendingFits'
  <2>1. CASE st'.pending = None
    BY <2>1 DEF PendingFits
  <2>2. CASE st'.pending = st.pending
    BY Zenon, <2>2 DEF PendingFits, JournalKept, EffectOf
  <2> QED
    BY <2>1, <2>2 DEF JournalKept
<1>3. RetainedFits'
  BY Zenon DEF JournalKept, RetainedFits
<1> QED
  BY <1>1, <1>2, <1>3

(* A driver that is not busy has nothing in hand.                           *)
LEMMA NothingInHand ==
  ASSUME NEW y \in Drivers, drv'[y].pc \notin Busy \cup {"resume"}
  PROVE  InHand(y)' /\ drv'[y].pc # "publish"
BY Zenon DEF InHand, Busy, InEffect

LEMMA ReturnIsReturnWith ==
  ASSUME NEW d \in Drivers, NEW failed, Return(d, failed)
  PROVE  ReturnWith(d, failed, live)
BY DEF Return, ReturnWith

(* A command returns, and the journal keeps all but the pending effect.     *)
LEMMA ReturnKeeps ==
  ASSUME IInv, NEW d \in Drivers, drv[d].pc \in Busy, NEW failed, NEW h \in Hosts,
         ReturnWith(d, failed, h), h.phase = live.phase, Sound(h), h.auth = live.auth,
         h.rec \in {live.rec, None}, h.nWrite = "Granted" => live.nWrite = "Granted",
         st' \in AgentStates, JournalKept, table' = table, valid' \in BOOLEAN, world' = world
  PROVE  IInv'
<1>1. /\ Types' /\ Exclusive' /\ live' \in {h, DownHost}
      /\ live'.phase \in {live.phase, "down"} /\ live.phase # "down"
      /\ live' = DownHost \/ live'.phase # "down"
      /\ \A y \in Drivers : drv'[y].pc \notin Busy \cup {"resume"}
  <2>1. table' \in Authorities \cup {None}
    BY DEF IInv, Types, TypeOK
  <2> QED
    BY Zenon, <2>1, ReturnTypes DEF IInv
<1>2. DownHost.phase = "down" /\ DownHost.nWrite = "NotPrimary" /\ DownHost.rec = None
      /\ DownHost.auth = None /\ DownHost.nEpoch = 0 /\ DownHost.trans = None
  BY Zenon DEF DownHost
<1>3. Journal'
  <2>1. live'.phase # "down" => live.phase # "down" /\ live'.auth = live.auth
    BY <1>1, <1>2
  <2>2. RecordFits' /\ PendingFits' /\ RetainedFits'
    BY <2>1, SameJournal DEF IInv, Journal
  <2>3. \A y \in Drivers : InHand(y)'
    BY <1>1, NothingInHand
  <2> QED
    BY <2>2, <2>3 DEF Journal
<1>4. HostFits'
  <2>1. \A y \in Drivers : drv'[y].pc # "publish"
    BY <1>1, NothingInHand
  <2>2. CASE live' = DownHost
    <3>1. Sound(live')
      BY <1>2, <2>2 DEF Sound, AuthEpoch
    <3>2. Sound(live)'
      BY Zenon, <3>1 DEF Sound, AuthEpoch, LocalRole
    <3> QED
      BY Zenon, <1>2, <2>1, <2>2, <3>2 DEF HostFits
  <2>3. CASE live' = h
    <3>1. Sound(live)'
      BY Zenon, <2>3 DEF Sound, AuthEpoch, LocalRole
    <3>2. st'.record = st.record
      BY DEF JournalKept
    <3> QED
      BY Zenon, <1>1, <2>1, <2>3, <3>1, <3>2 DEF HostFits, IInv
  <2> QED
    BY <1>1, <2>2, <2>3
<1> QED
  BY <1>1, <1>3, <1>4 DEF IInv

(* A driver at work goes on.                                                *)
LEMMA BusyStep ==
  ASSUME IInv, NEW d \in Drivers, drv[d].pc \in Busy, NEW x \in DriverStates,
         drv' = [drv EXCEPT ![d] = x], DriverFits(x), x.pc \in Busy, x.mode = drv[d].mode,
         x.mode = "resume" => x.pc \in InEffect, lock' = lock, sup' = sup,
         live' \in Hosts, live'.phase = live.phase,
         st' \in AgentStates, table' \in Authorities \cup {None}, valid' \in BOOLEAN, world' = world
  PROVE  /\ Types' /\ Exclusive' /\ drv'[d] = x /\ live.phase # "down"
         /\ \A y \in Drivers \ {d} : drv'[y].pc # "publish" /\ InHand(y)'
<1>1. /\ live.phase # "down" /\ (live.phase = "recovering" => d = Boot)
      /\ drv[d].pc \in Busy => lock = d \/ (d = Boot /\ drv[d].mode = "resume")
  BY Zenon, BusyFacts DEF Busy, InEffect, IInv
<1>2. sup' \in Nat
  BY DEF IInv, Types, TypeOK
<1>3. x.pc \notin {"resume", "resumed"}
  BY DEF Busy, InEffect
<1>4. drv[d].mode = "resume" => d = Boot /\ live.phase = "recovering"
  BY DEF IInv, Exclusive
<1>5. Types' /\ Exclusive' /\ drv'[d] = x /\ \A y \in Drivers \ {d} : drv'[y] = drv[y]
  BY Zenon, <1>1, <1>2, <1>3, <1>4, StepTypes DEF IInv
<1>6. \A y \in Drivers \ {d} : drv'[y].pc \notin Busy \cup {"resume"}
  BY <1>5, OthersQuiet DEF IInv
<1> QED
  BY Zenon, <1>1, <1>5, <1>6, NothingInHand

(* The live host of a driver at work: what HostFits asks after its step.    *)
LEMMA HostStep ==
  ASSUME NEW d \in Drivers, \A y \in Drivers \ {d} : drv'[y].pc # "publish",
         drv'[d].pc # "publish", Sound(live'),
         live'.nWrite = "Granted" => live'.auth = table',
         live'.phase # "down" /\ live'.auth # table' =>
             st'.record # None /\ st'.record.stage = "AdmitAuthority",
         live'.rec # None /\ live'.rec.eff.stage = "AdmitAuthority" =>
             table' = live'.rec.eff.arg /\ live'.auth = table'
  PROVE  HostFits'
<1>1. Sound(live)'
  BY DEF Sound, AuthEpoch, LocalRole
<1> QED
  BY <1>1 DEF HostFits

(* A step that is not the driver's own leaves its effect in hand.           *)
LEMMA OutsideInHand ==
  ASSUME NEW y \in Drivers, InHand(y), drv'[y] = drv[y], table' = table, live'.auth = live.auth,
         st'.pending = st.pending, st'.record = st.record, st'.retained = st.retained
  PROVE  InHand(y)'
BY ZenonT(60) DEF InHand, EffectOf

(* A step of a driver that is not at work and does not begin it.            *)
LEMMA OutsideStep ==
  ASSUME IInv, NEW d \in Drivers, drv[d].pc \notin Busy, NEW x \in DriverStates,
         drv' = [drv EXCEPT ![d] = x], DriverFits(x), x.pc \notin Busy,
         x.mode # "resume", x.pc \notin {"resume", "resumed"},
         live.phase # "down", live.phase = "recovering" => d = Boot, lock' = lock, sup' \in Nat,
         NEW w \in Accesses, live' = [live EXCEPT !.nWrite = w], w \in {live.nWrite, "Pending"},
         st' \in AgentStates, JournalKept, st'.pending = st.pending,
         table' = table, valid' \in BOOLEAN, world' = world
  PROVE  IInv'
<1>1. live \in Hosts /\ table \in Authorities \cup {None}
  BY DEF IInv, Types, TypeOK
<1>2. /\ live' \in Hosts /\ live'.phase = live.phase /\ live'.auth = live.auth
      /\ live'.role = live.role /\ live'.nRole = live.nRole /\ live'.rec = live.rec
      /\ live'.caught = live.caught /\ live'.read = live.read /\ live'.write = live.write
      /\ live'.trans = live.trans /\ live'.nEpoch = live.nEpoch /\ live'.nWrite = w
  BY <1>1 DEF Hosts
<1>3. Types' /\ Exclusive' /\ drv'[d] = x /\ \A y \in Drivers \ {d} : drv'[y] = drv[y]
  BY Zenon, <1>1, <1>2, StepTypes DEF IInv
<1>4. Journal'
  <2>1. RecordFits' /\ PendingFits' /\ RetainedFits'
    BY <1>2, SameJournal DEF IInv, Journal
  <2>2. \A y \in Drivers : InHand(y)'
    BY <1>2, <1>3, NothingInHand, OutsideInHand DEF IInv, Journal, JournalKept
  <2> QED
    BY <2>1, <2>2 DEF Journal
<1>5. HostFits'
  <2>1. Sound(live)'
    BY ZenonT(60), <1>2 DEF IInv, HostFits, Sound, AuthEpoch, LocalRole
  <2>2. \A y \in Drivers : drv'[y].pc = "publish" =>
           AccessAllowed(live, AccessOf(drv[y].eff.stage, PendingCommand, live))'
    <3>1. SUFFICES ASSUME NEW y \in Drivers, drv'[y].pc = "publish"
                   PROVE  AccessAllowed(live, AccessOf(drv[y].eff.stage, PendingCommand, live))'
      OBVIOUS
    <3>2. drv'[y] = drv[y]
      BY <1>3, <3>1 DEF Busy, InEffect
    <3>3. AccessAllowed(live, AccessOf(drv[y].eff.stage, PendingCommand, live))
      BY Zenon, <3>1, <3>2 DEF IInv, HostFits
    <3>4. st'.record = st.record
      BY DEF JournalKept
    <3>5. AccessOf(drv[y].eff.stage, PendingCommand, live)' =
          AccessOf(drv[y].eff.stage, PendingCommand, live)
      BY Zenon, <1>2, <3>2, <3>4 DEF AccessOf, PendingCommand
    <3> HIDE DEF PendingCommand, AccessOf
    <3> QED
      BY Zenon, <1>2, <3>3, <3>5 DEF AccessAllowed, LocalRole
  <2>3. st'.record = st.record
    BY DEF JournalKept
  <2> QED
    BY Zenon, <1>2, <2>1, <2>2, <2>3 DEF HostFits, IInv
<1> QED
  BY <1>3, <1>4, <1>5 DEF IInv

LEMMA InitHolds == Init => IInv
<1> SUFFICES ASSUME Init PROVE IInv
  OBVIOUS
<1>1. PICK w \in Worlds :
         /\ world = w
         /\ st = [prev |-> w.start.prev, cur |-> w.start.cur, highest |-> Epoch(w.start.cur),
                  role |-> w.start.role, read |-> w.start.read, write |-> w.start.write,
                  record |-> None, pending |-> None, retained |-> None, done |-> None,
                  builds |-> [b \in Builds |-> "none"]]
         /\ table = StartTable(w.start)
         /\ live = DownHost
         /\ sup = 0 /\ lock = None /\ valid = TRUE
         /\ drv = [d \in Drivers |-> IdleDriver]
  BY Zenon DEF Init
<1>2. /\ w.start.prev \in Configurations \cup {None} /\ w.start.cur \in Configurations \cup {None}
      /\ w.start.role \in Roles /\ w.start.read \in Accesses /\ w.start.write \in Accesses
      /\ w.start.kind \in Kinds
  BY WorldAssumption DEF Kinds
<1>3. Epoch(w.start.cur) \in Nat
  BY <1>2 DEF Epoch, Configurations
<1>4. st \in AgentStates
  BY Zenon, <1>1, <1>2, <1>3 DEF AgentStates
<1>5. table \in Authorities \cup {None} /\ (st.cur # None => table # None /\ table.cur = st.cur)
  BY <1>1, <1>2, NoneAssumption DEF StartTable, Authority, Authorities
<1>6. DownHost \in Hosts /\ DownHost.phase = "down" /\ DownHost.nWrite = "NotPrimary"
      /\ DownHost.rec = None /\ DownHost.auth = None /\ DownHost.nEpoch = 0
      /\ DownHost.trans = None
  BY DEF DownHost, Hosts, Roles, Accesses
<1>7. IdleDriver \in DriverStates /\ DriverFits(IdleDriver) /\ IdleDriver.pc = "idle"
      /\ IdleDriver.mode = "none"
  BY DEF IdleDriver, DriverStates, DriverFits, Waiting, Busy, InEffect
<1>8. \A d \in Drivers : drv[d] = IdleDriver
  BY <1>1
<1>9. Types
  BY Zenon, <1>1, <1>4, <1>5, <1>6, <1>7, <1>8 DEF Types, TypeOK
<1>10. Exclusive
  BY Zenon, <1>1, <1>6, <1>7, <1>8 DEF Exclusive, Busy, InEffect
<1>11. Journal
  <2>1. RecordFits /\ PendingFits /\ RetainedFits
    BY Zenon, <1>1, <1>5 DEF RecordFits, PendingFits, RetainedFits
  <2>2. \A d \in Drivers : InHand(d)
    BY Zenon, <1>7, <1>8 DEF InHand, InEffect
  <2> QED
    BY <2>1, <2>2 DEF Journal
<1>12. HostFits
  BY Zenon, <1>1, <1>6, <1>7, <1>8 DEF HostFits, Sound, AuthEpoch
<1> QED
  BY <1>9, <1>10, <1>11, <1>12 DEF IInv

-----------------------------------------------------------------------------
(* The steps outside the command lock.                                      *)

LEMMA GotoFacts ==
  ASSUME Types, NEW d \in Drivers, NEW pc \in Busy \cup Waiting, Goto(d, pc)
  PROVE  \E x \in DriverStates :
            /\ drv' = [drv EXCEPT ![d] = x]
            /\ x.pc = pc /\ x.mode = drv[d].mode /\ x.cmd = drv[d].cmd
            /\ x.auth = drv[d].auth /\ x.eff = drv[d].eff /\ x.res = drv[d].res
<1>1. drv \in [Drivers -> DriverStates] /\ drv[d] \in DriverStates
  BY DEF Types, TypeOK
<1>2. drv' = [drv EXCEPT ![d] = [drv[d] EXCEPT !.pc = pc]]
  BY <1>1 DEF Goto
<1>3. PICK x : x = [drv[d] EXCEPT !.pc = pc]
  BY Zenon
<1>4. x \in DriverStates
  BY <1>1, <1>3 DEF DriverStates
<1>5. /\ x.pc = pc /\ x.mode = drv[d].mode /\ x.cmd = drv[d].cmd
      /\ x.auth = drv[d].auth /\ x.eff = drv[d].eff /\ x.res = drv[d].res
  BY <1>1, <1>3 DEF DriverStates
<1> QED
  BY Zenon, <1>2, <1>3, <1>4, <1>5

LEMMA SameHost ==
  ASSUME live \in Hosts, live' = live
  PROVE  \E w \in Accesses : live' = [live EXCEPT !.nWrite = w] /\ w \in {live.nWrite, "Pending"}
BY DEF Hosts

LEMMA StateFacts ==
  ASSUME IInv
  PROVE  /\ world \in Worlds /\ st \in AgentStates /\ table \in Authorities \cup {None}
         /\ live \in Hosts /\ sup \in Nat /\ lock \in Drivers \cup {None}
         /\ drv \in [Drivers -> DriverStates] /\ valid \in BOOLEAN
         /\ Sound(live)
BY DEF IInv, Types, TypeOK, HostFits

LEMMA ReceiveKeeps ==
  ASSUME IInv, NEW d \in Rpc, NEW c \in world.commands, Receive(d, c), world' = world
  PROVE  IInv'
<1>1. c \in AllCommands /\ d \in Drivers /\ c.cur.epoch \in Nat
  BY StateFacts, CommandFacts DEF AllCommands, Drivers
<1>2. PICK pc \in {"cancel", "lock"} :
         drv' = [drv EXCEPT ![d] = [IdleDriver EXCEPT !.pc = pc, !.mode = "config", !.cmd = c]]
  BY Zenon DEF Receive
<1>3. PICK x : x = [IdleDriver EXCEPT !.pc = pc, !.mode = "config", !.cmd = c]
  OBVIOUS
<1>4. /\ x \in DriverStates /\ x.pc = pc /\ x.mode = "config" /\ x.cmd = c /\ x.eff = None
  BY Zenon, <1>1, <1>3 DEF IdleDriver, DriverStates, Waiting
<1>5. DriverFits(x) /\ x.pc \notin Busy
  BY <1>1, <1>4 DEF DriverFits, Busy, InEffect
<1>6. sup' \in Nat /\ st' = st /\ table' = table /\ live' = live /\ lock' = lock /\ valid' = valid
      /\ drv[d].pc = "idle" /\ live.phase = "up"
  BY Zenon, <1>1, StateFacts DEF Receive
<1>7. JournalKept
  BY <1>6 DEF JournalKept
<1>8. drv[d].pc \notin Busy
  BY <1>6 DEF Busy, InEffect
<1>9. PICK w \in Accesses : live' = [live EXCEPT !.nWrite = w] /\ w \in {live.nWrite, "Pending"}
  BY <1>6, StateFacts, SameHost
<1> QED
  BY Zenon, <1>1, <1>2, <1>3, <1>4, <1>5, <1>6, <1>7, <1>8, <1>9, StateFacts, OutsideStep

LEMMA BuildDriverFacts ==
  ASSUME NEW b \in Builds, NEW mode \in {"build", "retire"}, NEW pc \in {"lock", "cancelBuild"},
         pc = "cancelBuild" => mode = "retire"
  PROVE  /\ BuildDriver(b, mode, pc) \in DriverStates /\ BuildDriver(b, mode, pc).pc = pc
         /\ BuildDriver(b, mode, pc).mode = mode /\ DriverFits(BuildDriver(b, mode, pc))
         /\ pc \notin Busy
<1>1. PICK x : x = BuildDriver(b, mode, pc)
  OBVIOUS
<1>2. x \in DriverStates /\ x.pc = pc /\ x.mode = mode /\ x.cmd = b /\ x.eff = None
  BY Zenon, <1>1 DEF BuildDriver, IdleDriver, DriverStates, Waiting
<1>3. DriverFits(x) /\ pc \notin Busy
  BY <1>2 DEF DriverFits, Busy, InEffect
<1> QED
  BY <1>1, <1>2, <1>3

LEMMA ReceiveBuildKeeps ==
  ASSUME IInv, NEW d \in Rpc, NEW b \in world.builds, ReceiveBuild(d, b), world' = world
  PROVE  IInv'
<1>1. b \in Builds /\ d \in Drivers
  BY StateFacts, WorldAssumption DEF Drivers
<1>2. PICK x \in DriverStates : /\ drv' = [drv EXCEPT ![d] = x] /\ DriverFits(x)
                                /\ x.pc = "lock" /\ x.mode = "build" /\ x.pc \notin Busy
  <2>1. drv' = [drv EXCEPT ![d] = BuildDriver(b, "build", "lock")]
    BY DEF ReceiveBuild
  <2> QED
    BY Zenon, <1>1, <2>1, BuildDriverFacts
<1>3. st' = st /\ table' = table /\ live' = live /\ lock' = lock /\ valid' = valid /\ sup' = sup
      /\ drv[d].pc = "idle" /\ live.phase = "up"
  BY DEF ReceiveBuild
<1>4. JournalKept
  BY <1>3 DEF JournalKept
<1>5. drv[d].pc \notin Busy
  BY <1>3 DEF Busy, InEffect
<1>6. PICK w \in Accesses : live' = [live EXCEPT !.nWrite = w] /\ w \in {live.nWrite, "Pending"}
  BY <1>3, StateFacts, SameHost
<1> QED
  BY Zenon, <1>1, <1>2, <1>3, <1>4, <1>5, <1>6, StateFacts, OutsideStep

LEMMA BuildsFacts ==
  ASSUME st \in AgentStates, NEW b \in Builds, NEW v \in {"none", "journaled", "abandoned",
  "retired"},
         st' = [st EXCEPT !.builds[b] = v]
  PROVE  st' \in AgentStates /\ JournalKept /\ st'.pending = st.pending
<1>1. PICK f \in [Builds -> {"none", "journaled", "abandoned", "retired"}] :
         f = [st.builds EXCEPT ![b] = v]
  <2>1. st.builds \in [Builds -> {"none", "journaled", "abandoned", "retired"}]
    BY DEF AgentStates
  <2>2. [st.builds EXCEPT ![b] = v] \in [Builds -> {"none", "journaled", "abandoned", "retired"}]
    BY <2>1
  <2> QED
    BY Zenon, <2>2
<1>2. st' = [st EXCEPT !.builds = f]
  BY <1>1 DEF AgentStates
<1>3. st' \in AgentStates
  BY <1>2 DEF AgentStates
<1> QED
  BY <1>2, <1>3 DEF JournalKept, AgentStates

LEMMA ReceiveRetireKeeps ==
  ASSUME IInv, NEW d \in Rpc, NEW b \in world.builds, ReceiveRetire(d, b), world' = world
  PROVE  IInv'
<1>1. b \in Builds /\ d \in Drivers
  BY StateFacts, WorldAssumption DEF Drivers
<1>2. PICK x \in DriverStates : /\ drv' = [drv EXCEPT ![d] = x] /\ DriverFits(x)
                                /\ x.pc = "cancelBuild" /\ x.mode = "retire" /\ x.pc \notin Busy
  <2>1. drv' = [drv EXCEPT ![d] = BuildDriver(b, "retire", "cancelBuild")]
    BY DEF ReceiveRetire
  <2> QED
    BY Zenon, <1>1, <2>1, BuildDriverFacts
<1>3. /\ st' = [st EXCEPT !.builds[b] = "abandoned"]
      /\ table' = table /\ live' = live /\ lock' = lock /\ valid' = valid /\ sup' = sup
      /\ drv[d].pc = "idle" /\ live.phase = "up"
  BY DEF ReceiveRetire
<1>4. st' \in AgentStates /\ JournalKept /\ st'.pending = st.pending
  BY Zenon, <1>1, <1>3, StateFacts, BuildsFacts
<1>5. drv[d].pc \notin Busy
  BY <1>3 DEF Busy, InEffect
<1>6. PICK w \in Accesses : live' = [live EXCEPT !.nWrite = w] /\ w \in {live.nWrite, "Pending"}
  BY <1>3, StateFacts, SameHost
<1> QED
  BY Zenon, <1>1, <1>2, <1>3, <1>4, <1>5, <1>6, StateFacts, OutsideStep

(* cancel_configuration_work in its two halves, and the cancellation of a   *)
(* build: the driver moves on, and at most the engine's writes are closed.  *)
LEMMA CancelKeeps ==
  ASSUME IInv, NEW d \in Drivers, CancelGenerations(d) \/ CancelNative(d) \/ CancelBuild(d),
         world' = world
  PROVE  IInv'
<1>1. /\ st' = st /\ table' = table /\ lock' = lock /\ valid' \in BOOLEAN /\ sup' = sup
      /\ drv[d].pc \in {"cancel", "fence", "cancelBuild"}
      /\ \E pc \in {"fence", "lock"} : Goto(d, pc) /\ (pc = "fence" => drv[d].pc = "cancel")
      /\ live' = live \/ live' = [live EXCEPT !.nWrite = "Pending"]
  <2>1. CASE CancelGenerations(d)
    BY Zenon, <2>1 DEF CancelGenerations
  <2>2. CASE CancelNative(d)
    BY <2>2, StateFacts DEF CancelNative
  <2>3. CASE CancelBuild(d)
    BY Zenon, <2>3, StateFacts DEF CancelBuild
  <2> QED
    BY <2>1, <2>2, <2>3
<1>2. PICK pc \in {"fence", "lock"} : Goto(d, pc) /\ (pc = "fence" => drv[d].pc = "cancel")
  BY <1>1
<1>3. PICK x \in DriverStates :
            /\ drv' = [drv EXCEPT ![d] = x]
            /\ x.pc = pc /\ x.mode = drv[d].mode /\ x.cmd = drv[d].cmd
            /\ x.auth = drv[d].auth /\ x.eff = drv[d].eff /\ x.res = drv[d].res
  BY <1>2, GotoFacts DEF IInv, Waiting
<1>4. DriverFits(drv[d]) /\ drv[d].pc \notin Busy
  BY <1>1 DEF IInv, Types, Busy, InEffect
<1>5. DriverFits(x) /\ x.pc \notin Busy /\ x.mode # "resume" /\ x.pc \notin {"resume", "resumed"}
  BY Zenon, <1>1, <1>2, <1>3, <1>4 DEF DriverFits, Busy, InEffect
<1>6. live.phase # "down" /\ (live.phase = "recovering" => d = Boot)
  BY <1>1, BusyFacts DEF IInv
<1>7. JournalKept
  BY <1>1 DEF JournalKept
<1>8. PICK w \in Accesses : live' = [live EXCEPT !.nWrite = w] /\ w \in {live.nWrite, "Pending"}
  BY <1>1, StateFacts, SameHost DEF Accesses
<1> QED
  BY Zenon, <1>1, <1>3, <1>4, <1>5, <1>6, <1>7, <1>8, StateFacts, OutsideStep

LEMMA AcquireKeeps ==
  ASSUME IInv, NEW d \in Drivers, Acquire(d), world' = world
  PROVE  IInv'
<1>1. /\ st' = st /\ table' = table /\ live' = live /\ lock' = d /\ valid' = valid /\ sup' = sup
      /\ drv[d].pc = "lock" /\ lock = None /\ Goto(d, "begin")
  BY DEF Acquire
<1>2. PICK x \in DriverStates :
            /\ drv' = [drv EXCEPT ![d] = x]
            /\ x.pc = "begin" /\ x.mode = drv[d].mode /\ x.cmd = drv[d].cmd
            /\ x.auth = drv[d].auth /\ x.eff = drv[d].eff /\ x.res = drv[d].res
  BY <1>1, GotoFacts DEF IInv, Busy
<1>3. DriverFits(x) /\ x.mode # "resume"
  <2>1. DriverFits(drv[d])
    BY DEF IInv, Types
  <2> QED
    BY Zenon, <1>1, <1>2, <2>1 DEF DriverFits, InEffect
<1>4. live.phase # "down" /\ (live.phase = "recovering" => d = Boot)
  BY <1>1, BusyFacts DEF IInv
<1>5. Types' /\ Exclusive' /\ drv'[d] = x /\ \A y \in Drivers \ {d} : drv'[y] = drv[y]
  BY Zenon, <1>1, <1>2, <1>3, <1>4, StateFacts, StepTypes DEF IInv
<1>6. Journal'
  <2>1. RecordFits' /\ PendingFits' /\ RetainedFits'
    BY <1>1, <1>4, SameJournal DEF IInv, Journal, JournalKept
  <2>2. InHand(d)'
    BY Zenon, <1>2, <1>5 DEF InHand, InEffect
  <2>3. \A y \in Drivers \ {d} : InHand(y)'
    BY <1>1, <1>5, OutsideInHand DEF IInv, Journal
  <2> QED
    BY <2>1, <2>2, <2>3 DEF Journal
<1>7. HostFits'
  BY Zenon, <1>1, <1>2, <1>5 DEF IInv, HostFits, Sound, PendingCommand
<1> QED
  BY <1>5, <1>6, <1>7 DEF IInv

LEMMA CatchUpKeeps ==
  ASSUME IInv, CatchUp, world' = world
  PROVE  IInv'
<1>1. /\ st' = st /\ table' = table /\ lock' = lock /\ valid' = valid /\ sup' = sup
      /\ drv' = drv /\ live' = [live EXCEPT !.caught = TRUE]
  BY DEF CatchUp
<1>2. live \in Hosts
  BY StateFacts
<1>3. /\ live' \in Hosts /\ live'.phase = live.phase /\ live'.auth = live.auth
      /\ live'.role = live.role /\ live'.nRole = live.nRole /\ live'.rec = live.rec
      /\ live'.caught = TRUE /\ live'.read = live.read /\ live'.write = live.write
      /\ live'.trans = live.trans /\ live'.nEpoch = live.nEpoch /\ live'.nWrite = live.nWrite
      /\ live.phase = "up"
  BY Zenon, <1>1, <1>2 DEF Hosts, CatchUp
<1>4. Types'
  BY Zenon, <1>1, <1>3 DEF IInv, Types, TypeOK, DriverFits
<1>5. Exclusive'
  BY <1>1, <1>3 DEF IInv, Exclusive
<1>6. Journal'
  <2>1. RecordFits' /\ PendingFits' /\ RetainedFits'
    BY <1>1, <1>3, SameJournal DEF IInv, Journal, JournalKept
  <2>2. \A y \in Drivers : InHand(y)'
    BY <1>1, <1>3, OutsideInHand DEF IInv, Journal
  <2> QED
    BY <2>1, <2>2 DEF Journal
<1>7. HostFits'
  <2>1. Sound(live)'
    BY Zenon, <1>3 DEF IInv, HostFits, Sound, AuthEpoch, LocalRole
  <2>2. ASSUME NEW y \in Drivers, drv'[y].pc = "publish"
        PROVE  AccessAllowed(live, AccessOf(drv[y].eff.stage, PendingCommand, live))'
    <3>1. AccessAllowed(live, AccessOf(drv[y].eff.stage, PendingCommand, live))
      BY <1>1, <2>2 DEF IInv, HostFits
    <3>2. AccessOf(drv[y].eff.stage, PendingCommand, live)' =
          AccessOf(drv[y].eff.stage, PendingCommand, live)
      BY Zenon, <1>1, <1>3 DEF AccessOf, PendingCommand
    <3> HIDE DEF PendingCommand, AccessOf
    <3> QED
      BY Zenon, <1>3, <3>1, <3>2 DEF AccessAllowed, LocalRole
  <2> QED
    BY Zenon, <1>1, <1>3, <2>1, <2>2 DEF HostFits, IInv
<1> QED
  BY <1>4, <1>5, <1>6, <1>7 DEF IInv

(* Between commands the live authority is the one in the table.             *)
LEMMA ReconcileKeeps ==
  ASSUME IInv, Reconcile, world' = world
  PROVE  IInv'
<1>1. /\ st' = st /\ table' = table /\ lock' = lock /\ valid' = valid /\ sup' = sup /\ drv' = drv
      /\ live' = SetAccess(live, <<st.read, st.write>>) /\ live.phase = "up" /\ lock = None
      /\ st.record = None /\ AccessAllowed(live, <<st.read, st.write>>)
  BY DEF Reconcile
<1>2. <<st.read, st.write>> \in Accesses \X Accesses
  BY StateFacts DEF AgentStates
<1>3. /\ live' \in Hosts /\ Sound(live') /\ live'.auth = live.auth /\ live'.phase = live.phase
      /\ live'.rec = live.rec
  BY <1>1, <1>2, StateFacts, SetAccessFacts
<1>4. Types'
  BY Zenon, <1>1, <1>3 DEF IInv, Types, TypeOK, DriverFits
<1>5. Exclusive'
  BY Zenon, <1>1, <1>3 DEF IInv, Exclusive
<1>6. Journal'
  <2>1. RecordFits' /\ PendingFits' /\ RetainedFits'
    BY Zenon, <1>1, <1>3, SameJournal DEF IInv, Journal, JournalKept
  <2>2. \A y \in Drivers : InHand(y)'
    BY <1>1, <1>3, OutsideInHand DEF IInv, Journal
  <2> QED
    BY <2>1, <2>2 DEF Journal
<1>7. HostFits'
  <2>1. Sound(live)'
    BY <1>3 DEF Sound, AuthEpoch, LocalRole
  <2>2. \A y \in Drivers : drv[y].pc # "publish"
    BY Zenon, <1>1, DriverAssumption DEF IInv, Exclusive, Busy, InEffect
  <2>3. live.auth = table
    BY <1>1 DEF IInv, HostFits
  <2> QED
    BY Zenon, <1>1, <1>3, <2>1, <2>2, <2>3 DEF HostFits, IInv
<1> QED
  BY <1>4, <1>5, <1>6, <1>7 DEF IInv

LEMMA CrashKeeps ==
  ASSUME IInv, Crash, world' = world
  PROVE  IInv'
<1>1. /\ st' = st /\ table' = table /\ lock' = None /\ valid' = valid /\ sup' = 0
      /\ drv' = [d \in Drivers |-> IdleDriver] /\ live' = DownHost
  BY DEF Crash
<1>2. DownHost \in Hosts /\ DownHost.phase = "down" /\ DownHost.nWrite = "NotPrimary"
      /\ DownHost.rec = None /\ DownHost.auth = None /\ DownHost.nEpoch = 0
      /\ DownHost.trans = None
  BY DEF DownHost, Hosts, Roles, Accesses
<1>3. IdleDriver \in DriverStates /\ DriverFits(IdleDriver) /\ IdleDriver.pc = "idle"
      /\ IdleDriver.mode = "none"
  BY DEF IdleDriver, DriverStates, DriverFits, Waiting, Busy, InEffect
<1>4. \A d \in Drivers : drv'[d] = IdleDriver
  BY <1>1
<1>5. Types'
  <2>1. TypeOK'
    BY <1>1, <1>2, <1>3 DEF IInv, Types, TypeOK
  <2>2. \A d \in Drivers : DriverFits(drv[d])'
    BY Zenon, <1>3, <1>4 DEF DriverFits
  <2> QED
    BY <2>1, <2>2 DEF Types
<1>6. Exclusive'
  BY <1>1, <1>2, <1>3, <1>4 DEF Exclusive, Busy, InEffect, Drivers
<1>7. Journal'
  <2>1. RecordFits' /\ PendingFits' /\ RetainedFits'
    BY <1>1, <1>2, SameJournal DEF IInv, Journal, JournalKept
  <2>2. \A y \in Drivers : InHand(y)'
    BY Zenon, <1>3, <1>4 DEF InHand, InEffect
  <2> QED
    BY <2>1, <2>2 DEF Journal
<1>8. HostFits'
  <2>1. Sound(live)'
    BY <1>1, <1>2 DEF Sound, AuthEpoch, LocalRole
  <2> QED
    BY <1>1, <1>2, <1>3, <1>4, <2>1 DEF HostFits
<1> QED
  BY <1>5, <1>6, <1>7, <1>8 DEF IInv

LEMMA RestartKeeps ==
  ASSUME IInv, Restart, world' = world
  PROVE  IInv'
<1>1. /\ st' = st /\ table' = table /\ lock' = lock /\ valid' = valid /\ sup' = sup
      /\ live.phase = "down" /\ live' = Reconstructed(st, table) /\ live' # None
      /\ \E pc \in {"resumed", "resume"} : Goto(Boot, pc) /\ (pc = "resume" => st.pending # None)
  BY Zenon DEF Restart, Goto
<1>2. PICK pc \in {"resumed", "resume"} : Goto(Boot, pc) /\ (pc = "resume" => st.pending # None)
  BY <1>1
<1>3. /\ live' \in Hosts /\ Sound(live') /\ live'.auth = table /\ live'.phase = "recovering"
      /\ live'.rec = None
  BY <1>1, StateFacts, ReconstructedFacts
<1>4. lock = None /\ \A d \in Drivers : drv[d] = IdleDriver
  BY <1>1 DEF IInv, Exclusive
<1>5. PICK x \in DriverStates :
            /\ drv' = [drv EXCEPT ![Boot] = x]
            /\ x.pc = pc /\ x.mode = drv[Boot].mode /\ x.cmd = drv[Boot].cmd
            /\ x.auth = drv[Boot].auth /\ x.eff = drv[Boot].eff /\ x.res = drv[Boot].res
  BY <1>2, GotoFacts DEF IInv, Waiting, Drivers
<1>6. x.mode = "none" /\ x.pc \in {"resumed", "resume"}
  BY <1>4, <1>5 DEF IdleDriver, Drivers
<1>7. DriverFits(x)
  BY <1>6 DEF DriverFits, InEffect
<1>8. IdleDriver.pc = "idle" /\ IdleDriver.mode = "none" /\ DriverFits(IdleDriver)
  BY DEF IdleDriver, DriverFits, InEffect
<1>9. Boot \in Drivers /\ drv'[Boot] = x /\ \A y \in Drivers \ {Boot} : drv'[y] = IdleDriver
  BY <1>4, <1>5, StateFacts DEF Drivers
<1>10. Types'
  <2>1. drv' \in [Drivers -> DriverStates]
    BY Zenon, <1>5, StateFacts
  <2>2. TypeOK'
    BY <1>1, <1>3, <2>1 DEF IInv, Types, TypeOK
  <2>3. \A d \in Drivers : DriverFits(drv'[d])
    BY <1>7, <1>8, <1>9
  <2>4. \A d \in Drivers : DriverFits(drv[d])'
    BY Zenon, <2>3 DEF DriverFits
  <2> QED
    BY <2>2, <2>4 DEF Types
<1>11. Exclusive'
  <2>1. \A y \in Rpc : drv'[y] = IdleDriver
    BY <1>9, DriverAssumption DEF Drivers
  <2> QED
    BY <1>3, <1>6, <1>8, <1>9, <2>1 DEF Exclusive, Busy, InEffect
<1>12. Journal'
  <2>1. RecordFits' /\ PendingFits' /\ RetainedFits'
    BY Zenon, <1>1, <1>3, SameJournal DEF IInv, Journal, JournalKept
  <2>2. InHand(Boot)'
    BY Zenon, <1>1, <1>2, <1>5, <1>6, <1>9 DEF InHand, InEffect
  <2>3. \A y \in Drivers \ {Boot} : InHand(y)'
    BY Zenon, <1>8, <1>9 DEF InHand, InEffect
  <2> QED
    BY <2>1, <2>2, <2>3 DEF Journal
<1>13. HostFits'
  <2>1. \A y \in Drivers : drv'[y].pc # "publish"
    BY <1>6, <1>8, <1>9
  <2> QED
    BY <1>1, <1>3, <1>9, <2>1, HostStep
<1> QED
  BY <1>10, <1>11, <1>12, <1>13 DEF IInv

(* A stuttering step keeps the inductive invariant.                         *)
LEMMA StutterKeeps ==
  ASSUME IInv, UNCHANGED vars
  PROVE  IInv'
<1>1. /\ world' = world /\ st' = st /\ table' = table /\ live' = live /\ sup' = sup
      /\ lock' = lock /\ drv' = drv /\ valid' = valid
  BY Zenon DEF vars
<1>2. Types'
  <2>1. TypeOK'
    BY ZenonT(60), <1>1 DEF IInv, Types, TypeOK
  <2>2. \A d \in Drivers : DriverFits(drv[d])'
    BY SMT, <1>1 DEF IInv, Types, DriverFits
  <2> QED
    BY Zenon, <2>1, <2>2 DEF Types
<1>3. Exclusive'
  BY Zenon, <1>1 DEF IInv, Exclusive
<1>4. RecordFits'
  BY ZenonT(60), <1>1 DEF IInv, Journal, RecordFits, RolePlaced, Epoch, EffectOf
<1>5. PendingFits'
  BY ZenonT(60), <1>1 DEF IInv, Journal, PendingFits, RolePlaced, Epoch, EffectOf
<1>6. RetainedFits'
  BY ZenonT(60), <1>1 DEF IInv, Journal, RetainedFits, RolePlaced, Epoch, EffectOf
<1>7. \A d \in Drivers : InHand(d)'
  BY <1>1, OutsideInHand DEF IInv, Journal
<1>8. HostFits'
  BY ZenonT(60), <1>1 DEF IInv, HostFits, Sound, PendingCommand
<1> QED
  BY Zenon, <1>2, <1>3, <1>4, <1>5, <1>6, <1>7, <1>8 DEF IInv, Journal

=============================================================================
