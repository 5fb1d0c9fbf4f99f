-------------------------- MODULE CoordinatorSteps --------------------------
(***************************************************************************)
(* The steps a driver of Coordinator takes until its effect is in the live *)
(* host: the pending effect resumed or adopted, the command begun and      *)
(* staged, the effect prepared, published, installed and waited for.  Each *)
(* keeps the invariant.                                                    *)
(***************************************************************************)
EXTENDS CoordinatorFacts

-----------------------------------------------------------------------------
(* The pending effect is resumed as its driver left it.                     *)
LEMMA ResumeKeeps ==
  ASSUME IInv, NEW d \in Drivers, Resume(d), world' = world
  PROVE  IInv'
<1>1. /\ st' = st /\ table' = table /\ live' = live /\ lock' = lock /\ valid' = valid /\ sup' = sup
      /\ drv[d].pc = "resume"
  BY Zenon DEF Resume
<1>2. /\ st.pending # None /\ d = Boot /\ live.phase = "recovering" /\ drv[d] \in DriverStates
  BY Zenon, <1>1, StateFacts DEF IInv, Journal, InHand, Exclusive
<1>3. PICK p \in Pendings : p = st.pending
  BY <1>2, StateFacts DEF AgentStates
<1>4. /\ p.eff \in Effects /\ p.res \in Results \cup {None}
      /\ p.stage = "Applied" => ResultFits(p.eff, p.res)
  BY DEF Pendings
<1>5. PICK pc \in {"complete", "prepare"} :
         /\ drv' = [drv EXCEPT ![d].mode = "resume", ![d].eff = p.eff, ![d].res = p.res,
                               ![d].pc = pc]
         /\ pc = "complete" => p.stage = "Applied"
  BY Zenon, <1>3 DEF Resume
<1>6. PICK x : x = [drv[d] EXCEPT !.mode = "resume", !.eff = p.eff, !.res = p.res, !.pc = pc]
  OBVIOUS
<1>7. drv' = [drv EXCEPT ![d] = x]
  BY Zenon, <1>5, <1>6, StateFacts
<1>8. x \in DriverStates
  BY ZenonT(60), <1>2, <1>4, <1>6 DEF DriverStates, Busy, InEffect
<1>9. x.pc = pc /\ x.mode = "resume" /\ x.eff = p.eff /\ x.res = p.res
  BY <1>2, <1>6 DEF DriverStates
<1>10. DriverFits(x)
  BY Zenon, <1>4, <1>5, <1>9, NoneAssumption DEF DriverFits, InEffect
<1>11. Types' /\ Exclusive' /\ drv'[d] = x /\ \A y \in Drivers \ {d} : drv'[y] = drv[y]
  BY Zenon, <1>1, <1>2, <1>7, <1>8, <1>9, <1>10, StateFacts, StepTypes DEF IInv, InEffect
<1>12. RecordFits' /\ PendingFits' /\ RetainedFits'
  BY <1>1, <1>2, SameJournal DEF IInv, Journal, JournalKept
<1>13. pc = "complete" /\ p.eff.stage = "AdmitAuthority" => table = p.eff.arg /\ live.auth = table
  BY Zenon, <1>2, <1>3, <1>4, <1>5, EffectFacts DEF IInv, Journal, PendingFits
<1>14. InHand(d)'
  BY Zenon, <1>1, <1>2, <1>3, <1>9, <1>11, <1>13 DEF InHand, InEffect
<1>15. \A y \in Drivers \ {d} : InHand(y)'
  BY <1>1, <1>11, OutsideInHand DEF IInv, Journal
<1>16. HostFits'
  BY Zenon, <1>1, <1>9, <1>11 DEF IInv, HostFits, Sound, PendingCommand
<1> QED
  BY <1>11, <1>12, <1>14, <1>15, <1>16 DEF IInv, Journal

LEMMA ReadyKeeps ==
  ASSUME IInv, NEW d \in Drivers, Ready(d), world' = world
  PROVE  IInv'
<1>1. /\ st' = st /\ table' = table /\ lock' = lock /\ valid' = valid /\ sup' = sup
      /\ drv[d].pc = "resumed"
  BY DEF Ready
<1>2. d = Boot /\ live.phase = "recovering" /\ drv[d].pc \notin Busy
  BY <1>1 DEF IInv, Exclusive, Busy, InEffect
<1>3. JournalKept
  BY <1>1 DEF JournalKept
<1>4. CASE \E b \in Builds : drv' = [drv EXCEPT ![d] = BuildDriver(b, "retire", "cancelBuild")]
                             /\ live' = live
  <2>1. PICK x \in DriverStates : /\ drv' = [drv EXCEPT ![d] = x] /\ DriverFits(x)
                                  /\ x.pc = "cancelBuild" /\ x.mode = "retire" /\ x.pc \notin Busy
    BY Zenon, <1>4, BuildDriverFacts
  <2>2. PICK w \in Accesses : live' = [live EXCEPT !.nWrite = w] /\ w \in {live.nWrite, "Pending"}
    BY <1>4, StateFacts, SameHost
  <2> QED
    BY Zenon, <1>1, <1>2, <1>3, <2>1, <2>2, StateFacts, OutsideStep
<1>5. CASE /\ live' = [live EXCEPT !.phase = "up"]
           /\ drv' = [drv EXCEPT ![d] =
                         IF st.record = None THEN IdleDriver
                         ELSE [IdleDriver EXCEPT !.pc = "lock", !.mode = "config",
                                                 !.cmd = st.record.cmd]]
  <2>1. PICK x : x = IF st.record = None THEN IdleDriver
                     ELSE [IdleDriver EXCEPT !.pc = "lock", !.mode = "config",
                                             !.cmd = st.record.cmd]
    OBVIOUS
  <2>2. st.record # None => st.record.cmd \in AllCommands
    BY StateFacts DEF AgentStates, Records
  <2>3. /\ x \in DriverStates /\ x.eff = None
        /\ \/ x.pc = "idle" /\ x.mode = "none"
           \/ x.pc = "lock" /\ x.mode = "config" /\ x.cmd \in AllCommands
    <3>1. CASE st.record = None
      <4>1. x = IdleDriver
        BY <2>1, <3>1
      <4> QED
        BY <4>1 DEF IdleDriver, DriverStates, Waiting
    <3>2. CASE st.record # None
      <4>1. PICK c \in AllCommands : c = st.record.cmd
        BY <2>2, <3>2
      <4>2. x = [IdleDriver EXCEPT !.pc = "lock", !.mode = "config", !.cmd = c]
        BY <2>1, <3>2, <4>1
      <4> QED
        BY Zenon, <4>2 DEF IdleDriver, DriverStates, Waiting
    <3> QED
      BY <3>1, <3>2
  <2>4. DriverFits(x) /\ x.pc \notin Busy \cup {"resume"}
    BY <2>3 DEF DriverFits, Busy, InEffect
  <2>5. drv'[d] = x /\ \A y \in Drivers \ {d} : drv'[y] = IdleDriver
    BY Zenon, <1>2, <1>5, <2>1, StateFacts DEF IInv, Exclusive, Drivers
  <2>6. IdleDriver.pc = "idle" /\ IdleDriver.mode = "none" /\ DriverFits(IdleDriver)
    BY DEF IdleDriver, DriverFits, InEffect
  <2>7. /\ live' \in Hosts /\ live'.phase = "up" /\ live'.auth = live.auth /\ live'.rec = live.rec
        /\ live'.role = live.role /\ live'.nRole = live.nRole /\ live'.trans = live.trans
        /\ live'.nEpoch = live.nEpoch /\ live'.nWrite = live.nWrite
    BY <1>5, StateFacts DEF Hosts
  <2>8. Types'
    <3>1. drv' \in [Drivers -> DriverStates]
      <4>1. drv' = [drv EXCEPT ![d] = x]
        <5>1. CASE st.record = None
          BY <1>5, <2>1, <5>1
        <5>2. CASE st.record # None
          BY <1>5, <2>1, <5>2
        <5> QED
          BY <5>1, <5>2
      <4> QED
        BY <2>3, <4>1, StateFacts
    <3>2. TypeOK'
      BY <1>1, <2>7, <3>1, StateFacts DEF TypeOK
    <3>3. \A y \in Drivers : DriverFits(drv'[y])
      BY <2>4, <2>5, <2>6
    <3>4. \A y \in Drivers : DriverFits(drv[y])'
      BY Zenon, <3>3 DEF DriverFits
    <3> QED
      BY <3>2, <3>4 DEF Types
  <2>9. \A y \in Drivers : drv'[y].pc \notin Busy \cup {"resume",
  "resumed"} /\ drv'[y].mode # "resume"
    BY <2>3, <2>4, <2>5, <2>6 DEF Busy, InEffect
  <2>10. Exclusive'
    BY <2>7, <2>9 DEF Exclusive
  <2>11. Journal'
    <3>1. RecordFits' /\ PendingFits' /\ RetainedFits'
      BY <1>1, <1>2, <1>3, <2>7, SameJournal DEF IInv, Journal
    <3>2. \A y \in Drivers : InHand(y)'
      BY <2>9, NothingInHand
    <3> QED
      BY <3>1, <3>2 DEF Journal
  <2>12. HostFits'
    <3>1. Sound(live')
      BY <2>7, StateFacts DEF Sound
    <3>2. \A y \in Drivers : drv'[y].pc # "publish"
      BY <2>9 DEF Busy, InEffect
    <3> QED
      BY Zenon, <1>1, <1>2, <2>7, <3>1, <3>2, HostStep DEF IInv, HostFits
  <2> QED
    BY <2>8, <2>10, <2>11, <2>12 DEF IInv
<1> QED
  BY <1>4, <1>5 DEF Ready

-----------------------------------------------------------------------------
(* The beginning of a command and of an effect.                             *)

(* Execution of an effect that belongs to the command on record, or to a    *)
(* build.                                                                   *)
LEMMA StartEffectKeeps ==
  ASSUME IInv, NEW d \in Drivers, drv[d].pc \in {"stage", "begin"}, NEW e \in Effects,
         \/ /\ drv[d].mode = "config" /\ drv[d].pc = "stage"
            /\ st.record # None /\ e.stage = st.record.stage /\ EffectOf(e, st.record.cmd)
         \/ drv[d].mode \in {"build", "retire"} /\ e.id \in Builds,
         StartEffect(d, e), table' = table, valid' = valid, world' = world
  PROVE  IInv'
<1>1. drv[d].pc \in Busy /\ drv[d] \in DriverStates /\ DriverFits(drv[d]) /\ InHand(d)
  BY Zenon, StateFacts DEF Busy, IInv, Types, Journal
<1>2. drv[d].mode = "config" => st.record # None /\ st.record.cmd = drv[d].cmd
  BY Zenon, <1>1 DEF InHand
<1>3. e # None
  BY NoneAssumption
<1>4. live.phase # "down"
  BY Zenon, <1>1, BusyFacts DEF IInv
<1>5. ASSUME NEW x \in DriverStates, drv' = [drv EXCEPT ![d] = x],
             x.pc \in {"next", "prepare", "complete"}, x.eff = e, x.mode = drv[d].mode,
             x.cmd = drv[d].cmd, x.auth = drv[d].auth,
             x.pc = "complete" => ResultFits(e, x.res),
             x.pc = "next" => st'.retained # None /\ st'.retained.eff = e,
             x.pc # "next" => st'.pending # None /\ st'.pending.eff = e,
             x.pc = "complete" /\ e.stage = "AdmitAuthority" => table = e.arg /\ live.auth = table,
             st' \in AgentStates, st'.record = st.record, lock' = lock, sup' = sup, live' = live,
             RecordFits' /\ PendingFits' /\ RetainedFits'
      PROVE  IInv'
  <2>1. DriverFits(x)
    BY Zenon, <1>1, <1>3, <1>5 DEF DriverFits, InEffect
  <2>2. x.pc \in Busy /\ x.pc \in InEffect
    BY Zenon, <1>5 DEF Busy, InEffect
  <2>3. /\ Types' /\ Exclusive' /\ drv'[d] = x
        /\ \A y \in Drivers \ {d} : drv'[y].pc # "publish" /\ InHand(y)'
    BY Zenon, <1>1, <1>5, <2>1, <2>2, StateFacts, BusyStep
  <2>4. InHand(d)'
    <3>1. drv'[d].pc \in InEffect \ {"accept",
    "next"} => st'.pending # None /\ st'.pending.eff = drv'[d].eff
      BY Zenon, <1>5, <2>3 DEF InEffect
    <3>2. drv'[d].mode = "config" =>
             /\ st'.record # None /\ st'.record.cmd = drv'[d].cmd
             /\ EffectOf(e, drv'[d].cmd) /\ e.stage = st'.record.stage
      BY Zenon, <1>1, <1>2, <1>5, <2>3
    <3>3. drv'[d].mode = "config" =>
             /\ st'.record # None /\ st'.record.cmd = drv'[d].cmd
             /\ EffectOf(drv[d].eff, drv[d].cmd)' /\ drv'[d].eff.stage = st'.record.stage
      BY ZenonT(60), <1>5, <2>3, <3>2 DEF EffectOf
    <3> HIDE DEF EffectOf
    <3> QED
      BY Zenon, <1>5, <2>3, <3>1, <3>3 DEF InHand, InEffect
  <2>5. HostFits'
    <3>1. Sound(live')
      BY Zenon, <1>5, StateFacts
    <3> QED
      BY Zenon, <1>5, <2>3, <3>1, HostStep DEF IInv, HostFits
  <2> QED
    BY Zenon, <1>5, <2>3, <2>4, <2>5 DEF IInv, Journal
<1>6. CASE Return(d, TRUE) /\ st' = st
  <2>1. JournalKept
    BY <1>6 DEF JournalKept
  <2> QED
    BY Zenon, <1>1, <1>6, <2>1, StateFacts, ReturnIsReturnWith, ReturnKeeps
<1>7. CASE /\ st.retained # None /\ st.retained.eff.id = e.id /\ st.retained.eff.stage = e.stage
           /\ st.retained.eff.arg = e.arg
           /\ drv' = [drv EXCEPT ![d].pc = "next", ![d].eff = e]
           /\ st' = st /\ live' = live /\ lock' = lock /\ sup' = sup
  <2>1. st.retained.eff = e
    <3>1. st.retained.eff \in Effects
      BY Zenon, <1>7, StateFacts DEF AgentStates, Outcomes
    <3> QED
      BY <1>7, <3>1 DEF Effects
  <2>2. PICK x : x = [drv[d] EXCEPT !.pc = "next", !.eff = e]
    OBVIOUS
  <2>3. drv' = [drv EXCEPT ![d] = x]
    BY Zenon, <1>7, <2>2, StateFacts
  <2>4. x \in DriverStates
    BY Zenon, <1>1, <2>2 DEF DriverStates, Busy, InEffect
  <2>5. x.pc = "next" /\ x.eff = e /\ x.mode = drv[d].mode /\ x.cmd = drv[d].cmd /\ x.auth = drv[d].auth
    BY <1>1, <2>2 DEF DriverStates
  <2>6. RecordFits' /\ PendingFits' /\ RetainedFits'
    BY Zenon, <1>4, <1>7, SameJournal DEF IInv, Journal, JournalKept
  <2> QED
    BY Zenon, <1>5, <1>7, <2>1, <2>3, <2>4, <2>5, <2>6, StateFacts
<1>8. CASE /\ st.retained = None \/ st.retained.eff.id # e.id \/ st.retained.eff.stage # e.stage
           /\ st.pending = None
           /\ st' = [st EXCEPT !.pending = [eff |-> e, stage |-> "Intent", res |-> None]]
           /\ drv' = [drv EXCEPT ![d].pc = "prepare", ![d].eff = e]
           /\ live' = live /\ lock' = lock /\ sup' = sup
  <2>1. PICK p \in Pendings : p = [eff |-> e, stage |-> "Intent", res |-> None]
    <3>1. [eff |-> e, stage |-> "Intent", res |-> None] \in Pendings
      BY DEF Pendings
    <3> QED
      BY <3>1
  <2>2. st' = [st EXCEPT !.pending = p] /\ p.eff = e /\ p.stage = "Intent" /\ p # None
    BY Zenon, <1>8, <2>1, NoneAssumption
  <2>3. st' \in AgentStates
    BY <2>2, StateFacts DEF AgentStates
  <2>4. /\ st'.pending = p /\ st'.prev = st.prev /\ st'.cur = st.cur /\ st'.highest = st.highest
        /\ st'.role = st.role /\ st'.record = st.record /\ st'.retained = st.retained
        /\ st'.done = st.done
    BY <2>2, StateFacts DEF AgentStates
  <2>5. PICK x : x = [drv[d] EXCEPT !.pc = "prepare", !.eff = e]
    OBVIOUS
  <2>6. drv' = [drv EXCEPT ![d] = x]
    BY Zenon, <1>8, <2>5, StateFacts
  <2>7. x \in DriverStates
    BY Zenon, <1>1, <2>5 DEF DriverStates, Busy, InEffect
  <2>8. x.pc = "prepare" /\ x.eff = e /\ x.mode = drv[d].mode /\ x.cmd = drv[d].cmd /\ x.auth = drv[d].auth
    BY <1>1, <2>5 DEF DriverStates
  <2>9. RecordFits'
    BY ZenonT(60), <1>8, <2>4 DEF IInv, Journal, RecordFits, RolePlaced, Epoch
  <2>10. PendingFits'
    BY Zenon, <2>2, <2>4 DEF PendingFits, EffectOf
  <2>11. RetainedFits'
    BY ZenonT(60), <1>8, <2>2, <2>4 DEF IInv, Journal, RetainedFits
  <2> QED
    BY Zenon, <1>5, <1>8, <2>2, <2>3, <2>4, <2>6, <2>7, <2>8, <2>9, <2>10, <2>11
<1>9. CASE /\ st.pending # None /\ st.pending.eff = e
           /\ drv' = [drv EXCEPT ![d].eff = e, ![d].res = st.pending.res,
                    ![d].pc = IF st.pending.stage = "Applied" /\ e.stage \notin AccessStages
                              THEN "complete" ELSE "prepare"]
           /\ st' = st /\ live' = live /\ lock' = lock /\ sup' = sup
  <2>1. st.pending \in Pendings
    BY Zenon, <1>9, StateFacts DEF AgentStates
  <2>2. PICK r \in Results \cup {None}, pc \in {"complete", "prepare"} :
           /\ r = st.pending.res /\ drv' = [drv EXCEPT ![d].eff = e, ![d].res = r, ![d].pc = pc]
           /\ pc = "complete" => st.pending.stage = "Applied" /\ ResultFits(e, r)
    BY Zenon, <1>9, <2>1 DEF Pendings
  <2>3. PICK x : x = [drv[d] EXCEPT !.eff = e, !.res = r, !.pc = pc]
    OBVIOUS
  <2>4. drv' = [drv EXCEPT ![d] = x]
    BY Zenon, <2>2, <2>3, StateFacts
  <2>5. x \in DriverStates
    BY Zenon, <1>1, <2>3 DEF DriverStates, Busy, InEffect
  <2>6. x.pc = pc /\ x.res = r /\ x.eff = e /\ x.mode = drv[d].mode /\ x.cmd = drv[d].cmd
        /\ x.auth = drv[d].auth
    BY <1>1, <2>3 DEF DriverStates
  <2>7. RecordFits' /\ PendingFits' /\ RetainedFits'
    BY Zenon, <1>4, <1>9, SameJournal DEF IInv, Journal, JournalKept
  <2>8. pc = "complete" /\ e.stage = "AdmitAuthority" => table = e.arg /\ live.auth = table
    BY Zenon, <1>4, <1>9, <2>2, EffectFacts DEF IInv, Journal, PendingFits
  <2>9. /\ st' \in AgentStates /\ st'.record = st.record /\ lock' = lock /\ sup' = sup
        /\ live' = live /\ st'.pending # None /\ st'.pending.eff = e
    BY Zenon, <1>9, StateFacts
  <2>10. x.pc \in {"next", "prepare", "complete"} /\ x.pc # "next"
    BY <2>6
  <2>11. x.pc = "complete" => ResultFits(e, x.res)
    BY Zenon, <2>2, <2>6
  <2> QED
    BY Zenon, <1>5, <2>4, <2>5, <2>6, <2>7, <2>8, <2>9, <2>10, <2>11
<1> QED
  BY Zenon, <1>6, <1>7, <1>8, <1>9 DEF StartEffect

(* A command returns before it has changed anything.                        *)
LEMMA PlainReturn ==
  ASSUME IInv, NEW d \in Drivers, drv[d].pc \in Busy, NEW failed, Return(d, failed),
         st' = st, table' = table, valid' \in BOOLEAN, world' = world
  PROVE  IInv'
<1>1. JournalKept
  BY DEF JournalKept
<1> QED
  BY <1>1, StateFacts, ReturnIsReturnWith, ReturnKeeps

(* begin_configuration: a new command, the same command again, or a newer   *)
(* command in place of the one on record.                                   *)
LEMMA BeginKeeps ==
  ASSUME IInv, NEW d \in Drivers, Begin(d), world' = world
  PROVE  IInv'
<1> DEFINE c == drv[d].cmd
<1>1. /\ drv[d].pc = "begin" /\ drv[d].mode = "config" /\ table' = table /\ valid' = valid
      /\ drv[d] \in DriverStates /\ DriverFits(drv[d]) /\ drv[d].pc \in Busy
  BY Zenon, StateFacts DEF Begin, IInv, Types, Busy
<1>2. c \in AllCommands
  BY Zenon, <1>1 DEF DriverFits
<1>3. /\ c.cur \in Configurations /\ c.cur.epoch \in Nat /\ c.cur.epoch > 0
      /\ c.cur.role \in Roles /\ c.prev \in Configurations \cup {None} /\ c.kind \in Kinds
      /\ c.cur # None
  BY Zenon, <1>2, CommandFacts, NoneAssumption
<1>4. CASE Return(d, FALSE) /\ st' = st
  BY Zenon, <1>1, <1>4, StateFacts, PlainReturn
<1>5. CASE /\ AdmitConfiguration(c, st, PersistedExact(c, st)) /\ ~ConfigurationConflicts(st, c)
           /\ st' = BeginConfiguration(st, c)
           /\ drv' = [drv EXCEPT ![d].pc = "stage", ![d].auth = AdmittedAuthority(c, st)]
           /\ live' = live /\ lock' = lock /\ sup' = sup
  <2>1. live.phase # "down"
    BY <1>1, BusyFacts DEF IInv
  <2>2. c.cur.epoch >= st.highest /\ st.highest \in Nat
    BY Zenon, <1>5, StateFacts DEF AdmitConfiguration, AgentStates
  <2>3. PICK a \in Authorities : /\ a = AdmittedAuthority(c, st)
                                 /\ a.cur = c.cur /\ a.prev = c.prev /\ a.kind \in {c.kind, None}
    <3>1. PICK k \in Kinds : AdmittedAuthority(c, st) = Authority(c.prev, c.cur,
    k) /\ k \in {c.kind, None}
      BY Zenon, <1>3 DEF AdmittedAuthority, Kinds
    <3>2. /\ Authority(c.prev, c.cur, k) \in Authorities
          /\ Authority(c.prev, c.cur, k).cur = c.cur /\ Authority(c.prev, c.cur, k).prev = c.prev
          /\ Authority(c.prev, c.cur, k).kind = k
      BY Zenon, <1>3 DEF Authority, Authorities
    <3> QED
      BY Zenon, <3>1, <3>2
  <2>4. PICK x : x = [drv[d] EXCEPT !.pc = "stage", !.auth = a]
    OBVIOUS
  <2>5. drv' = [drv EXCEPT ![d] = x]
    BY Zenon, <1>5, <2>3, <2>4, StateFacts
  <2>6. x \in DriverStates
    BY Zenon, <1>1, <2>4 DEF DriverStates, Busy, InEffect
  <2>7. x.pc = "stage" /\ x.auth = a /\ x.mode = "config" /\ x.cmd = c /\ x.eff = drv[d].eff
    BY <1>1, <2>4 DEF DriverStates
  <2>8. DriverFits(x) /\ x.pc \in Busy
    BY Zenon, <1>2, <2>3, <2>7 DEF DriverFits, InEffect, Busy
  <2>9. ASSUME st' \in AgentStates, RecordFits', PendingFits', RetainedFits',
               st'.record # None, st'.record.cmd = c,
               live.auth # table => st'.record.stage = "AdmitAuthority"
        PROVE  IInv'
    <3>1. /\ Types' /\ Exclusive' /\ drv'[d] = x
          /\ \A y \in Drivers \ {d} : drv'[y].pc # "publish" /\ InHand(y)'
      BY Zenon, <1>1, <1>5, <2>5, <2>6, <2>7, <2>8, <2>9, StateFacts, BusyStep
    <3>2. InHand(d)'
      BY Zenon, <2>7, <2>9, <3>1 DEF InHand, InEffect
    <3>3. HostFits'
      <4>1. Sound(live')
        BY <1>5, StateFacts
      <4> QED
        BY Zenon, <1>1, <1>5, <2>7, <2>9, <3>1, <4>1, HostStep DEF IInv, HostFits
    <3> QED
      BY <2>9, <3>1, <3>2, <3>3 DEF IInv, Journal
  <2>10. CASE st.record # None /\ st.record.cmd = c
    <3>1. st' = st
      BY <1>5, <2>10 DEF BeginConfiguration
    <3>2. RecordFits' /\ PendingFits' /\ RetainedFits'
      BY Zenon, <1>1, <1>5, <2>1, <3>1, SameJournal DEF IInv, Journal, JournalKept
    <3> QED
      BY Zenon, <2>1, <2>9, <2>10, <3>1, <3>2, StateFacts DEF IInv, HostFits
  <2>11. CASE st.record = None
    <3>1. PICK stage \in {"Activate", "AdmitAuthority"} :
             /\ st' = [st EXCEPT !.record = [cmd |-> c, stage |-> stage]]
             /\ stage = "Activate" => IsAccessOnly(c, st)
      BY Zenon, <1>5, <2>11 DEF BeginConfiguration
    <3>2. PICK r \in Records : r = [cmd |-> c, stage |-> stage] /\ r.cmd = c /\ r.stage = stage
      <4>1. [cmd |-> c, stage |-> stage] \in Records
        BY <1>2 DEF Records, Stages
      <4> QED
        BY <4>1
    <3>3. st' = [st EXCEPT !.record = r] /\ r # None
      BY <3>1, <3>2, NoneAssumption
    <3>4. st' \in AgentStates
      BY <3>3, StateFacts DEF AgentStates
    <3>5. /\ st'.pending = st.pending /\ st'.prev = st.prev /\ st'.cur = st.cur
          /\ st'.highest = st.highest /\ st'.role = st.role /\ st'.record = r
          /\ st'.retained = st.retained /\ st'.done = st.done
      BY <3>3, StateFacts DEF AgentStates
    <3>6. RecordFits'
      <4>1. CASE stage = "AdmitAuthority"
        <5>1. ~RolePlaced(c, stage)
          BY <4>1 DEF RolePlaced
        <5>2. RolePlaced(st'.record.cmd, st'.record.stage) = RolePlaced(c, stage)
          BY <3>2, <3>5
        <5>3. RolePlaced(st.record.cmd, st.record.stage)' => FALSE
          BY Zenon, <5>1, <5>2 DEF RolePlaced
        <5> QED
          BY ZenonT(60), <1>1, <2>2, <3>2, <3>3, <3>5, <4>1, <5>3 DEF IInv, Journal, RecordFits,
             Epoch
      <4>2. CASE stage = "Activate"
        <5>1. st.cur = c.cur /\ st.prev = c.prev /\ st.role = c.cur.role
          BY Zenon, <3>1, <4>2 DEF IsAccessOnly
        <5>2. table # None /\ table.cur = st.cur
          BY Zenon, <1>3, <2>11, <5>1 DEF IInv, Journal, RecordFits
        <5> QED
          BY <1>1, <2>2, <3>2, <3>3, <3>5, <5>1, <5>2 DEF IInv, Journal, RecordFits, Epoch
      <4> QED
        BY <4>1, <4>2
    <3>7. PendingFits'
      BY Zenon, <2>11, <3>5 DEF IInv, Journal, PendingFits
    <3>8. RetainedFits'
      BY Zenon, <2>11, <3>5 DEF IInv, Journal, RetainedFits
    <3>9. live.auth = table
      BY <2>1, <2>11 DEF IInv, HostFits
    <3> QED
      BY <2>9, <3>2, <3>3, <3>4, <3>5, <3>6, <3>7, <3>8, <3>9
  <2>12. CASE st.record # None /\ st.record.cmd # c
    <3>1. st' = [st EXCEPT !.pending = None, !.record = [cmd |-> c, stage |-> "AdmitAuthority"]]
      BY <1>5, <2>12 DEF BeginConfiguration
    <3>2. PICK r \in Records :
             r = [cmd |-> c, stage |-> "AdmitAuthority"] /\ r.cmd = c /\ r.stage = "AdmitAuthority"
      <4>1. [cmd |-> c, stage |-> "AdmitAuthority"] \in Records
        BY <1>2 DEF Records, Stages
      <4> QED
        BY <4>1
    <3>3. st' = [st EXCEPT !.pending = None, !.record = r] /\ r # None
      BY <3>1, <3>2, NoneAssumption
    <3>4. st' \in AgentStates
      BY Zenon, <3>3, StateFacts DEF AgentStates
    <3>5. /\ st'.pending = None /\ st'.prev = st.prev /\ st'.cur = st.cur
          /\ st'.highest = st.highest /\ st'.role = st.role /\ st'.record = r
          /\ st'.retained = st.retained /\ st'.done = st.done
      BY <3>3, StateFacts DEF AgentStates
    <3>6. c.cur.epoch # st.highest
      <4>1. st.record.cmd \in AllCommands
        BY <2>12, StateFacts DEF AgentStates, Records
      <4>2. st.record.cmd.cur.epoch \in Nat
        BY <4>1, CommandFacts
      <4>3. c.cur.epoch > st.record.cmd.cur.epoch
        BY <1>3, <1>5, <2>12, <4>2 DEF ConfigurationConflicts
      <4>4. st.record.cmd.cur.epoch >= st.highest
        BY Zenon, <2>12 DEF IInv, Journal, RecordFits
      <4> QED
        BY <1>3, <2>2, <4>2, <4>3, <4>4
    <3>7. RecordFits'
      <4>1. ~RolePlaced(st.record.cmd, st.record.stage)'
        BY <3>2, <3>5 DEF RolePlaced
      <4> QED
        BY Zenon, <1>1, <2>2, <3>2, <3>3, <3>5, <4>1 DEF IInv, Journal, RecordFits, Epoch
    <3>8. PendingFits'
      BY <3>5 DEF PendingFits
    <3>9. RetainedFits'
      BY Zenon, <3>2, <3>3, <3>5, <3>6 DEF IInv, Journal, RetainedFits
    <3> QED
      BY <2>9, <3>2, <3>3, <3>4, <3>5, <3>7, <3>8, <3>9
  <2> QED
    BY <2>10, <2>11, <2>12
<1> QED
  BY Zenon, <1>4, <1>5 DEF Begin

(* The effect of a stage belongs to the command on record.                  *)
LEMMA StageEffectFacts ==
  ASSUME IInv, NEW d \in Drivers, drv[d].pc = "stage", st.record.stage # "Complete"
  PROVE  /\ StageEffect(d, st.record) \in Effects
         /\ StageEffect(d, st.record).stage = st.record.stage
         /\ EffectOf(StageEffect(d, st.record), st.record.cmd)
         /\ st.record # None /\ drv[d].mode = "config"
<1>1. DriverFits(drv[d]) /\ InHand(d)
  BY DEF IInv, Types, Journal
<1>2. drv[d].mode = "config" /\ st.record # None /\ st.record.cmd = drv[d].cmd
  BY Zenon, <1>1 DEF DriverFits, InHand
<1>3. PICK r \in Records : r = st.record
  BY <1>2, StateFacts DEF AgentStates
<1>4. r.cmd \in AllCommands /\ r.stage \in Stages \ {"BuildReplica"}
      /\ (r.stage = "RetireBuild" => r.cmd.retire # {})
  BY <1>3 DEF Records
<1>5. PICK a \in Authorities : /\ a = drv[d].auth /\ a.cur = r.cmd.cur /\ a.prev = r.cmd.prev
                               /\ a.kind \in {r.cmd.kind, None}
  BY Zenon, <1>1, <1>2, <1>3 DEF DriverFits
<1>6. /\ r.cmd.cur.role \in Roles /\ r.cmd.retire \subseteq Builds
      /\ r.cmd.id \notin Builds /\ r.cmd.id \in Names
  BY <1>4, CommandFacts
<1>7. PICK b \in Authorities : b = RoleArgument(LocalRole(a)) /\ b.cur.role = r.cmd.cur.role
  <2>1. LocalRole(a) = r.cmd.cur.role
    BY Zenon, <1>5, NoneAssumption DEF LocalRole
  <2>2. RoleArgument(r.cmd.cur.role) \in Authorities
    BY Zenon, <1>6 DEF RoleArgument, Authority, Authorities, Configurations, Kinds
  <2>3. RoleArgument(r.cmd.cur.role).cur.role = r.cmd.cur.role
    BY DEF RoleArgument, Authority
  <2> QED
    BY Zenon, <2>1, <2>2, <2>3
<1>8. ASSUME NEW g \in Authorities \cup Builds \cup {None},
             r.stage \in {"AdmitAuthority"} \cup RoleStages => g \in Authorities,
             r.stage = "RetireBuild" => g \in Builds,
             r.stage = "AdmitAuthority" => g = a,
             r.stage \in RoleStages => g = b
      PROVE  /\ Effect(r.cmd.id, r.stage, g) \in Effects
             /\ Effect(r.cmd.id, r.stage, g).stage = r.stage
             /\ EffectOf(Effect(r.cmd.id, r.stage, g), r.cmd)
  <2>1. PICK e : e = Effect(r.cmd.id, r.stage, g)
    OBVIOUS
  <2>2. e \in [id : Names, stage : Stages, arg : Authorities \cup Builds \cup {None}]
        /\ e.id = r.cmd.id /\ e.stage = r.stage /\ e.arg = g
    BY <1>4, <1>6, <2>1 DEF Effect
  <2>3. ArgumentFits(e)
    BY Zenon, <1>4, <1>6, <1>8, <2>2 DEF ArgumentFits
  <2>4. EffectOf(e, r.cmd)
    BY Zenon, <1>5, <1>7, <1>8, <2>2 DEF EffectOf
  <2> QED
    BY Zenon, <2>1, <2>2, <2>3, <2>4 DEF Effects
<1>9. CASE r.stage = "AdmitAuthority"
  <2>1. StageEffect(d, st.record) = Effect(r.cmd.id, r.stage, a)
    BY Zenon, <1>3, <1>5, <1>9 DEF StageEffect, RoleStages
  <2> QED
    BY Zenon, <1>2, <1>3, <1>8, <1>9, <2>1 DEF RoleStages
<1>10. CASE r.stage \in RoleStages
  <2>1. StageEffect(d, st.record) = Effect(r.cmd.id, r.stage, b)
    BY Zenon, <1>3, <1>5, <1>7, <1>10 DEF StageEffect, RoleStages
  <2> QED
    BY Zenon, <1>2, <1>3, <1>8, <1>10, <2>1 DEF RoleStages
<1>11. CASE r.stage = "RetireBuild"
  <2>1. PICK g \in Builds : g = CHOOSE x \in r.cmd.retire : TRUE
    BY <1>4, <1>6, <1>11
  <2>2. StageEffect(d, st.record) = Effect(r.cmd.id, r.stage, g)
    BY <1>3, <1>11, <2>1 DEF StageEffect, RoleStages
  <2> QED
    BY Zenon, <1>2, <1>3, <1>8, <1>11, <2>2 DEF RoleStages
<1>12. CASE r.stage \notin {"AdmitAuthority", "RetireBuild"} \cup RoleStages
  <2>1. StageEffect(d, st.record) = Effect(r.cmd.id, r.stage, None)
    BY <1>3, <1>12 DEF StageEffect
  <2> QED
    BY Zenon, <1>2, <1>3, <1>8, <1>12, <2>1
<1> QED
  BY Zenon, <1>9, <1>10, <1>11, <1>12

(* A turn of the stage loop; the last one finishes the command.             *)
LEMMA StageKeeps ==
  ASSUME IInv, NEW d \in Drivers, Stage(d), world' = world
  PROVE  IInv'
<1>1. drv[d].pc = "stage" /\ drv[d].pc \in Busy /\ table' = table /\ valid' = valid
  BY DEF Stage, Busy
<1>2. CASE Return(d, FALSE) /\ st' = st
  BY Zenon, <1>1, <1>2, StateFacts, PlainReturn
<1>3. CASE /\ st.record # None /\ st.record.stage = "Complete"
           /\ st' = [st EXCEPT !.record = None, !.done = st.record.cmd] /\ Return(d, FALSE)
  <2>1. PICK r \in Records : r = st.record
    BY <1>3, StateFacts DEF AgentStates
  <2>2. r.cmd \in AllCommands /\ r.stage = "Complete" /\ r.cmd.cur \in Configurations
        /\ r.cmd.cur.epoch \in Nat /\ r.cmd.cur # None
    BY Zenon, <1>3, <2>1, CommandFacts, NoneAssumption DEF Records
  <2>3. st' = [st EXCEPT !.record = None, !.done = r.cmd]
    BY <1>3, <2>1
  <2>4. st' \in AgentStates
    BY Zenon, <2>2, <2>3, StateFacts DEF AgentStates
  <2>5. /\ st'.pending = st.pending /\ st'.prev = st.prev /\ st'.cur = st.cur
        /\ st'.highest = st.highest /\ st'.role = st.role /\ st'.record = None
        /\ st'.retained = st.retained /\ st'.done = r.cmd
    BY <2>3, StateFacts DEF AgentStates
  <2>6. /\ st.cur = r.cmd.cur /\ st.prev = r.cmd.prev /\ st.role = r.cmd.cur.role
        /\ table # None /\ table.cur = st.cur /\ st.highest = Epoch(st.cur)
    BY Zenon, <1>3, <2>1, <2>2 DEF IInv, Journal, RecordFits, RolePlaced
  <2>7. st.highest = r.cmd.cur.epoch
    BY <2>2, <2>6 DEF Epoch
  <2>8. RecordFits'
    BY <1>1, <2>2, <2>5, <2>6, <2>7 DEF RecordFits, Epoch
  <2>9. live.auth = table \/ live.phase = "down"
    BY <1>3 DEF IInv, HostFits
  <2>10. PendingFits'
    <3>1. st.pending # None => st.pending.eff.id \in Builds
      <4>1. st.pending # None => st.pending.eff \in Effects
        BY StateFacts DEF AgentStates, Pendings
      <4>2. st.pending # None => st.pending.eff.stage # "Complete"
        BY <4>1, EffectFacts DEF Stages
      <4> QED
        BY Zenon, <1>3, <4>2 DEF IInv, Journal, PendingFits
    <3> QED
      BY <2>5, <3>1 DEF PendingFits
  <2>11. RetainedFits'
    BY Zenon, <1>3, <2>5 DEF IInv, Journal, RetainedFits
  <2>12. /\ Types' /\ Exclusive' /\ live' \in {live, DownHost}
         /\ live' = DownHost \/ live'.phase # "down"
         /\ \A y \in Drivers : drv'[y].pc \notin Busy \cup {"resume"}
    BY Zenon, <1>1, <1>3, <2>4, StateFacts, ReturnIsReturnWith, ReturnTypes DEF IInv
  <2>13. live' = live
    BY <1>3 DEF Return
  <2>14. \A y \in Drivers : InHand(y)' /\ drv'[y].pc # "publish"
    BY <2>12, NothingInHand
  <2>15. HostFits'
    BY Zenon, <1>1, <2>9, <2>13, <2>14, StateFacts, HostStep DEF IInv, HostFits
  <2> QED
    BY <2>8, <2>10, <2>11, <2>12, <2>14, <2>15 DEF IInv, Journal
<1>4. CASE st.record # None /\ st.record.stage # "Complete" /\ StartEffect(d, StageEffect(d,
st.record))
  BY Zenon, <1>1, <1>4, StageEffectFacts, StartEffectKeeps
<1> QED
  BY Zenon, <1>2, <1>3, <1>4 DEF Stage

-----------------------------------------------------------------------------
(* The live change of an effect.                                            *)

(* The effect in hand is the pending one.                                   *)
LEMMA InHandFacts ==
  ASSUME IInv, NEW d \in Drivers, drv[d].pc \in InEffect \ {"accept", "next"}
  PROVE  /\ drv[d].eff \in Effects /\ st.pending # None /\ st.pending.eff = drv[d].eff
         /\ drv[d].eff.stage \notin {"BuildReplica", "RetireBuild"} => drv[d].eff.id \notin Builds
         /\ drv[d].eff.id \notin Builds =>
               /\ st.record # None /\ EffectOf(drv[d].eff, st.record.cmd)
               /\ drv[d].eff.stage = st.record.stage
         /\ drv[d].pc \in Busy /\ live.phase # "down" /\ live.phase \in {"recovering", "up"}
         /\ drv[d] \in DriverStates /\ DriverFits(drv[d]) /\ InHand(d)
<1>1. drv[d] \in DriverStates /\ DriverFits(drv[d]) /\ InHand(d)
  BY StateFacts DEF IInv, Types, Journal
<1>2. st.pending # None /\ st.pending.eff = drv[d].eff
  BY Zenon, <1>1 DEF InHand
<1>3. drv[d].eff \in Effects
  BY <1>2, StateFacts DEF AgentStates, Pendings
<1>4. drv[d].pc \in Busy /\ live.phase # "down" /\ live.phase \in {"recovering", "up"}
  BY BusyFacts DEF IInv, Busy, InEffect
<1> QED
  BY Zenon, <1>1, <1>2, <1>3, <1>4, EffectFacts DEF IInv, Journal, PendingFits

(* A driver that goes on with the same effect, the journal as it was but    *)
(* for the pending effect's progress.                                       *)
LEMMA EffectStep ==
  ASSUME IInv, NEW d \in Drivers, drv[d].pc \in InEffect \ {"accept", "next"},
         NEW x \in DriverStates, drv' = [drv EXCEPT ![d] = x],
         x.mode = drv[d].mode, x.cmd = drv[d].cmd, x.auth = drv[d].auth, x.eff = drv[d].eff,
         x.pc \in {"install", "wait", "mark", "complete", "publish"},
         x.pc \in {"mark", "complete"} => ResultFits(x.eff, x.res),
         x.pc = "install" => x.eff.stage = "AdmitAuthority" /\ table' = x.eff.arg,
         x.pc \in {"mark", "complete"} /\ x.eff.stage = "AdmitAuthority" =>
             table' = x.eff.arg /\ live'.auth = table',
         x.pc = "publish" =>
             /\ x.eff.stage \in AccessStages /\ live' = live
             /\ AccessAllowed(live, AccessOf(x.eff.stage, PendingCommand, live)),
         x.pc = "wait" => x.eff.stage \in {"Catchup", "BuildReplica"},
         live' \in Hosts, live'.phase = live.phase, Sound(live'),
         live'.nWrite = "Granted" => live'.auth = table',
         live'.auth # table' => st.record # None /\ st.record.stage = "AdmitAuthority",
         live'.rec # None /\ live'.rec.eff.stage = "AdmitAuthority" =>
             table' = live'.rec.eff.arg /\ live'.auth = table',
         st' \in AgentStates, st'.record = st.record, st'.retained = st.retained,
         st'.pending # None, st'.pending.eff = st.pending.eff, table' \in Authorities \cup {None},
         lock' = lock, sup' = sup, valid' \in BOOLEAN, world' = world,
         RecordFits' /\ PendingFits' /\ RetainedFits'
  PROVE  IInv'
<1>1. /\ drv[d].eff \in Effects /\ st.pending.eff = drv[d].eff /\ drv[d].pc \in Busy
      /\ DriverFits(drv[d]) /\ InHand(d)
  BY Zenon, InHandFacts
<1>2. DriverFits(x)
  BY Zenon, <1>1, NoneAssumption DEF DriverFits, InEffect
<1>3. x.pc \in Busy /\ x.pc \in InEffect
  BY Zenon DEF Busy, InEffect
<1>4. /\ Types' /\ Exclusive' /\ drv'[d] = x
      /\ \A y \in Drivers \ {d} : drv'[y].pc # "publish" /\ InHand(y)'
  BY Zenon, <1>1, <1>2, <1>3, BusyStep
<1>5. InHand(d)'
  <2>1. drv[d].mode = "config" =>
           /\ st.record # None /\ st.record.cmd = drv[d].cmd
           /\ EffectOf(drv[d].eff, drv[d].cmd) /\ drv[d].eff.stage = st.record.stage
    BY Zenon, <1>1 DEF InHand
  <2>2. drv'[d].mode = "config" =>
           /\ st'.record # None /\ st'.record.cmd = drv'[d].cmd
           /\ EffectOf(drv[d].eff, drv[d].cmd)' /\ drv'[d].eff.stage = st'.record.stage
    BY ZenonT(60), <1>4, <2>1 DEF EffectOf
  <2> HIDE DEF EffectOf
  <2>3. st'.pending # None /\ st'.pending.eff = drv'[d].eff
    BY Zenon, <1>1, <1>4
  <2> QED
    BY Zenon, <1>4, <2>2, <2>3 DEF InHand, InEffect
<1>6. HostFits'
  <2>1. Sound(live)'
    BY Zenon DEF Sound, AuthEpoch, LocalRole
  <2>2. drv'[d].pc = "publish" =>
           AccessAllowed(live, AccessOf(drv[d].eff.stage, PendingCommand, live))'
    <3>1. SUFFICES ASSUME x.pc = "publish"
                   PROVE  AccessAllowed(live, AccessOf(drv[d].eff.stage, PendingCommand, live))'
      BY Zenon, <1>4
    <3>2. live' = live /\ AccessAllowed(live, AccessOf(x.eff.stage, PendingCommand, live))
      BY Zenon, <3>1
    <3>3. AccessOf(drv[d].eff.stage, PendingCommand, live)' =
          AccessOf(x.eff.stage, PendingCommand, live)
      BY Zenon, <1>4, <3>2 DEF AccessOf, PendingCommand
    <3> HIDE DEF PendingCommand, AccessOf
    <3> QED
      BY Zenon, <3>2, <3>3 DEF AccessAllowed, LocalRole
  <2> QED
    BY Zenon, <1>4, <2>1, <2>2 DEF HostFits
<1> QED
  BY Zenon, <1>4, <1>5, <1>6 DEF IInv, Journal

(* An effect that has been applied live: its result is in hand.             *)
LEMMA PreparedKeeps ==
  ASSUME IInv, NEW d \in Drivers, drv[d].pc \in InEffect \ {"accept", "next"},
         NEW e, e = drv[d].eff, NEW h \in Hosts, Sound(h), h.phase = live.phase,
         h.auth = live.auth \/ h.auth = table,
         h.nWrite = "Granted" => h.auth = table,
         h.rec = live.rec,
         e.stage = "AdmitAuthority" => table = e.arg /\ h.auth = table,
         e.stage = "ApplicationRole" => h.role = e.arg.cur.role,
         Prepared(d, e, h), valid' = valid \/ valid' = TRUE, world' = world
  PROVE  IInv'
<1>1. /\ e \in Effects /\ st.pending # None /\ st.pending.eff = e /\ drv[d].pc \in Busy
      /\ live.phase # "down" /\ drv[d] \in DriverStates /\ DriverFits(drv[d]) /\ InHand(d)
  BY Zenon, InHandFacts
<1>2. /\ Outcome(e.stage, h) \in Results /\ Outcome(e.stage, h).role = h.role
      /\ e.stage = "AdmitAuthority" => Outcome(e.stage, h).auth = h.auth
  BY Zenon, OutcomeFacts
<1>3. PICK r \in Results : r = Outcome(e.stage, h) /\ ResultFits(e, r)
  BY Zenon, <1>2 DEF ResultFits
<1>4. PICK o \in Outcomes : o = [eff |-> e, res |-> r] /\ o.eff = e
  <2>1. [eff |-> e, res |-> r] \in Outcomes /\ [eff |-> e, res |-> r].eff = e
    BY Zenon, <1>1, <1>3 DEF Outcomes
  <2> QED
    BY Zenon, <2>1
<1>5. /\ live' = IF e.stage \in AccessStages THEN h ELSE [h EXCEPT !.rec = o]
      /\ drv' = [drv EXCEPT ![d].pc = "mark", ![d].res = r]
      /\ st' = st /\ table' = table /\ lock' = lock /\ sup' = sup
  BY Zenon, <1>3, <1>4 DEF Prepared, Recorded
<1>6. PICK g : g = [h EXCEPT !.rec = o]
  BY Zenon
<1>7. g \in Hosts
  BY Zenon, <1>6 DEF Hosts
<1>8. /\ g.auth = h.auth /\ g.phase = h.phase /\ g.nWrite = h.nWrite /\ g.rec = o
      /\ g.nEpoch = h.nEpoch /\ g.trans = h.trans /\ g.role = h.role /\ g.nRole = h.nRole
  BY Zenon, <1>6 DEF Hosts
<1>9. Sound(g)
  BY Zenon, <1>8 DEF Sound
<1>10. /\ live' \in Hosts /\ Sound(live') /\ live'.auth = h.auth /\ live'.phase = h.phase
       /\ live'.nWrite = h.nWrite /\ (live' = h \/ live'.rec = o)
  BY Zenon, <1>5, <1>6, <1>7, <1>8, <1>9
<1>11. live'.rec # None /\ live'.rec.eff.stage = "AdmitAuthority" =>
           table = live'.rec.eff.arg /\ live'.auth = table
  <2>1. CASE live' = h
    BY Zenon, <2>1 DEF IInv, HostFits
  <2>2. CASE live'.rec = o
    BY Zenon, <1>4, <1>10, <2>2
  <2> QED
    BY Zenon, <1>10, <2>1, <2>2
<1>12. live'.auth # table => st.record # None /\ st.record.stage = "AdmitAuthority"
  BY Zenon, <1>1, <1>10 DEF IInv, HostFits
<1>13. PICK x : x = [drv[d] EXCEPT !.pc = "mark", !.res = r]
  BY Zenon
<1>14. drv' = [drv EXCEPT ![d] = x]
  BY Zenon, <1>5, <1>13, StateFacts
<1>15. x \in DriverStates
  BY Zenon, <1>1, <1>13 DEF DriverStates, Busy, InEffect
<1>16. x.pc = "mark" /\ x.res = r /\ x.mode = drv[d].mode /\ x.cmd = drv[d].cmd /\ x.eff = e
       /\ x.auth = drv[d].auth
  BY Zenon, <1>1, <1>13 DEF DriverStates
<1>17. RecordFits' /\ PendingFits' /\ RetainedFits'
  BY Zenon, <1>1, <1>5, <1>10, SameJournal DEF IInv, Journal, JournalKept
<1>18. x.pc \in {"mark", "complete"} /\ x.eff.stage = "AdmitAuthority" =>
           table' = x.eff.arg /\ live'.auth = table'
  BY Zenon, <1>5, <1>10, <1>16
<1>19. /\ st' \in AgentStates /\ st'.record = st.record /\ st'.retained = st.retained
       /\ st'.pending # None /\ st'.pending.eff = st.pending.eff
       /\ table' \in Authorities \cup {None} /\ valid' \in BOOLEAN
  BY Zenon, <1>1, <1>5, StateFacts
<1>20. /\ x.pc \in {"install", "wait", "mark", "complete", "publish"}
       /\ x.pc \in {"mark", "complete"} => ResultFits(x.eff, x.res)
       /\ x.pc # "install" /\ x.pc # "publish" /\ x.pc # "wait"
  BY Zenon, <1>3, <1>16
<1>21. /\ lock' = lock /\ sup' = sup /\ live'.phase = live.phase
       /\ live'.nWrite = "Granted" => live'.auth = table'
       /\ live'.auth # table' => st.record # None /\ st.record.stage = "AdmitAuthority"
       /\ live'.rec # None /\ live'.rec.eff.stage = "AdmitAuthority" =>
             table' = live'.rec.eff.arg /\ live'.auth = table'
  BY Zenon, <1>5, <1>10, <1>11, <1>12
<1>22. live' \in Hosts /\ Sound(live')
  BY Zenon, <1>10
<1> QED
  BY Zenon, <1>14, <1>15, <1>16, <1>17, <1>18, <1>19, <1>20, <1>21, <1>22, EffectStep

(* What prepare_effect does to the live host in the stages that change it   *)
(* at once.                                                                 *)
LEMMA LiveChangeFacts ==
  ASSUME IInv, NEW d \in Drivers, NEW e \in Effects,
         e.stage \in {"FailoverPrefix", "GetLsn", "RetireBuild", "ReplicatorRole", "Epoch",
                      "ApplicationRole"},
         LiveChange(d, e) # None
  PROVE  /\ Follows(LiveChange(d, e), live)
         /\ e.stage = "ApplicationRole" => LiveChange(d, e).role = e.arg.cur.role
<1>1. live \in Hosts /\ Sound(live)
  BY StateFacts
<1>2. e.stage \in RoleStages => e.arg.cur.role \in Roles
  BY EffectFacts
<1>3. CASE e.stage = "FailoverPrefix"
  <2>1. LiveChange(d, e) = RefreshTransition(live)
    BY <1>3 DEF LiveChange
  <2> QED
    BY <1>1, <1>3, <2>1, RefreshFacts
<1>4. CASE e.stage \in {"GetLsn", "RetireBuild"}
  <2>1. LiveChange(d, e) = live
    BY <1>4 DEF LiveChange
  <2> QED
    BY <1>1, <1>4, <2>1 DEF Follows
<1>5. CASE e.stage = "ReplicatorRole"
  <2>1. LiveChange(d, e) = ChangeReplicatorRole(live, e.arg.cur.role)
    BY <1>5 DEF LiveChange
  <2> QED
    BY <1>1, <1>2, <1>5, <2>1, ReplicatorRoleFacts DEF RoleStages
<1>6. CASE e.stage = "Epoch"
  <2>1. LiveChange(d, e) = UpdateEpoch(live)
    BY <1>6 DEF LiveChange
  <2> QED
    BY <1>1, <1>6, <2>1, UpdateEpochFacts
<1>7. CASE e.stage = "ApplicationRole"
  <2>1. LiveChange(d, e) = ChangeApplicationRole(live, e.arg.cur.role)
    BY <1>7 DEF LiveChange
  <2> QED
    BY <1>1, <1>2, <1>7, <2>1, ApplicationRoleFacts DEF RoleStages
<1> QED
  BY Zenon, <1>3, <1>4, <1>5, <1>6, <1>7

(* prepare_effect.                                                          *)
LEMMA PrepareKeeps ==
  ASSUME IInv, NEW d \in Drivers, Prepare(d), world' = world
  PROVE  IInv'
<1> DEFINE e == drv[d].eff
<1>1. drv[d].pc = "prepare" /\ valid' = TRUE /\ drv[d].pc \in InEffect \ {"accept", "next"}
  BY Zenon DEF Prepare, InEffect
<1>2. /\ e \in Effects /\ st.pending # None /\ st.pending.eff = e
      /\ e.stage \notin {"BuildReplica", "RetireBuild"} => e.id \notin Builds
      /\ e.id \notin Builds =>
            /\ st.record # None /\ EffectOf(e, st.record.cmd) /\ e.stage = st.record.stage
      /\ drv[d].pc \in Busy /\ live.phase # "down"
      /\ drv[d] \in DriverStates /\ DriverFits(drv[d]) /\ InHand(d)
  BY Zenon, <1>1, InHandFacts
<1>3. CASE Return(d, TRUE) /\ st' = st /\ table' = table
  BY Zenon, <1>1, <1>2, <1>3, PlainReturn
<1>4. CASE /\ live.rec # None /\ live.rec.eff = e
           /\ drv' = [drv EXCEPT ![d].pc = "mark", ![d].res = live.rec.res]
           /\ st' = st /\ table' = table /\ live' = live /\ lock' = lock /\ sup' = sup
  <2>1. PICK o \in Outcomes : o = live.rec
    BY <1>4, StateFacts DEF Hosts
  <2>2. o.res \in Results /\ ResultFits(e, o.res)
    BY <1>4, <2>1 DEF Outcomes
  <2>3. PICK r \in Results : r = o.res
    BY <2>2
  <2>4. PICK x : x = [drv[d] EXCEPT !.pc = "mark", !.res = r]
    OBVIOUS
  <2>5. drv' = [drv EXCEPT ![d] = x]
    BY Zenon, <1>4, <2>1, <2>3, <2>4, StateFacts
  <2>6. x \in DriverStates
    BY Zenon, <1>2, <2>4 DEF DriverStates, Busy, InEffect
  <2>7. x.pc = "mark" /\ x.res = r /\ x.mode = drv[d].mode /\ x.cmd = drv[d].cmd /\ x.eff = e
        /\ x.auth = drv[d].auth
    BY Zenon, <1>2, <2>4 DEF DriverStates
  <2>8. RecordFits' /\ PendingFits' /\ RetainedFits'
    BY Zenon, <1>2, <1>4, SameJournal DEF IInv, Journal, JournalKept
  <2>9. /\ x.pc \in {"install", "wait", "mark", "complete", "publish"}
        /\ x.pc \in {"mark", "complete"} => ResultFits(x.eff, x.res)
        /\ x.pc # "install" /\ x.pc # "publish" /\ x.pc # "wait"
    BY <2>2, <2>3, <2>7
  <2>10. /\ e.stage = "AdmitAuthority" => table' = e.arg /\ live'.auth = table'
         /\ live'.nWrite = "Granted" => live'.auth = table'
         /\ live'.auth # table' => st.record # None /\ st.record.stage = "AdmitAuthority"
         /\ live'.rec # None /\ live'.rec.eff.stage = "AdmitAuthority" =>
               table' = live'.rec.eff.arg /\ live'.auth = table'
    BY Zenon, <1>2, <1>4 DEF IInv, HostFits
  <2>11. /\ st' \in AgentStates /\ st'.record = st.record /\ st'.retained = st.retained
         /\ st'.pending # None /\ st'.pending.eff = st.pending.eff
         /\ table' \in Authorities \cup {None} /\ valid' \in BOOLEAN
         /\ live' \in Hosts /\ Sound(live') /\ live'.phase = live.phase
         /\ lock' = lock /\ sup' = sup
    BY Zenon, <1>1, <1>2, <1>4, StateFacts
  <2> QED
    BY Zenon, <1>1, <2>5, <2>6, <2>7, <2>8, <2>9, <2>10, <2>11, EffectStep
<1>5. CASE /\ live.rec = None /\ e.stage = "AdmitAuthority"
           /\ table' = e.arg /\ live' = IF live.auth = e.arg THEN live ELSE Fenced(live)
           /\ Goto(d, "install") /\ st' = st /\ lock' = lock /\ sup' = sup
  <2>1. e.arg \in Authorities /\ e.id \notin Builds
    BY Zenon, <1>2, <1>5, EffectFacts
  <2>2. /\ st.record # None /\ EffectOf(e, st.record.cmd) /\ st.record.stage = "AdmitAuthority"
    BY Zenon, <1>2, <1>5, <2>1
  <2>3. PICK x \in DriverStates :
            /\ drv' = [drv EXCEPT ![d] = x]
            /\ x.pc = "install" /\ x.mode = drv[d].mode /\ x.cmd = drv[d].cmd
            /\ x.auth = drv[d].auth /\ x.eff = drv[d].eff /\ x.res = drv[d].res
    BY <1>5, GotoFacts DEF IInv, Busy, InEffect
  <2>4. /\ live' \in Hosts /\ Sound(live') /\ live'.phase = live.phase /\ live'.auth = live.auth
        /\ live'.rec = None /\ (live'.nWrite = "Granted" => live'.auth = e.arg)
    BY Zenon, <1>5, StateFacts, FencedFacts DEF Follows
  <2>5. RecordFits'
    <3>1. RolePlaced(st.record.cmd, st.record.stage)' = RolePlaced(st.record.cmd, st.record.stage)
      BY <1>5 DEF RolePlaced
    <3> QED
      BY Zenon, <1>5, <2>2, <3>1 DEF IInv, Journal, RecordFits, Epoch
  <2>6. PendingFits'
    <3>1. EffectOf(st.pending.eff, st.record.cmd)'
      BY Zenon, <1>2, <1>5, <2>2 DEF EffectOf
    <3>2. st.pending.stage = "Applied" => table = e.arg /\ live.auth = table
      BY Zenon, <1>2, <1>5, <2>1 DEF IInv, Journal, PendingFits
    <3> HIDE DEF EffectOf
    <3> QED
      BY Zenon, <1>2, <1>5, <2>2, <2>4, <3>1, <3>2 DEF PendingFits
  <2>7. RetainedFits'
    <3>1. e.id = st.record.cmd.id
      BY Zenon, <2>2 DEF EffectOf
    <3> QED
      BY Zenon, <1>2, <1>5, <2>2, <3>1 DEF IInv, Journal, RetainedFits
  <2>8. /\ x.pc \in {"install", "wait", "mark", "complete", "publish"}
        /\ x.pc \notin {"mark", "complete"} /\ x.pc # "publish" /\ x.pc # "wait"
        /\ x.eff.stage = "AdmitAuthority" /\ table' = x.eff.arg
    BY Zenon, <1>5, <2>3
  <2>9. /\ st' \in AgentStates /\ st'.record = st.record /\ st'.retained = st.retained
        /\ st'.pending # None /\ st'.pending.eff = st.pending.eff
        /\ table' \in Authorities \cup {None} /\ valid' \in BOOLEAN
        /\ lock' = lock /\ sup' = sup
    BY Zenon, <1>1, <1>2, <1>5, <2>1, StateFacts
  <2>10. /\ live'.nWrite = "Granted" => live'.auth = table'
         /\ live'.auth # table' => st.record # None /\ st.record.stage = "AdmitAuthority"
    BY Zenon, <1>5, <2>2, <2>4
  <2> QED
    BY Zenon, <1>1, <2>3, <2>4, <2>5, <2>6, <2>7, <2>8, <2>9, <2>10, EffectStep
<1>6. CASE /\ e.stage \in AccessStages
           /\ AccessAllowed(live, AccessOf(e.stage, PendingCommand, live))
           /\ Goto(d, "publish")
           /\ st' = st /\ table' = table /\ live' = live /\ lock' = lock /\ sup' = sup
  <2>1. PICK x \in DriverStates :
            /\ drv' = [drv EXCEPT ![d] = x]
            /\ x.pc = "publish" /\ x.mode = drv[d].mode /\ x.cmd = drv[d].cmd
            /\ x.auth = drv[d].auth /\ x.eff = drv[d].eff /\ x.res = drv[d].res
    BY <1>6, GotoFacts DEF IInv, Busy, InEffect
  <2>2. RecordFits' /\ PendingFits' /\ RetainedFits'
    BY Zenon, <1>2, <1>6, SameJournal DEF IInv, Journal, JournalKept
  <2>3. /\ x.pc \in {"install", "wait", "mark", "complete", "publish"}
        /\ x.pc \notin {"mark", "complete"} /\ x.pc # "install" /\ x.pc # "wait"
        /\ x.eff.stage \in AccessStages /\ live' = live
        /\ AccessAllowed(live, AccessOf(x.eff.stage, PendingCommand, live))
    BY Zenon, <1>6, <2>1
  <2>4. /\ live'.nWrite = "Granted" => live'.auth = table'
        /\ live'.auth # table' => st.record # None /\ st.record.stage = "AdmitAuthority"
        /\ live'.rec # None /\ live'.rec.eff.stage = "AdmitAuthority" =>
              table' = live'.rec.eff.arg /\ live'.auth = table'
    BY Zenon, <1>2, <1>6 DEF IInv, HostFits
  <2>5. /\ st' \in AgentStates /\ st'.record = st.record /\ st'.retained = st.retained
        /\ st'.pending # None /\ st'.pending.eff = st.pending.eff
        /\ table' \in Authorities \cup {None} /\ valid' \in BOOLEAN
        /\ live' \in Hosts /\ Sound(live') /\ live'.phase = live.phase
        /\ lock' = lock /\ sup' = sup
    BY Zenon, <1>1, <1>2, <1>6, StateFacts
  <2> QED
    BY Zenon, <1>1, <2>1, <2>2, <2>3, <2>4, <2>5, EffectStep
<1>7. CASE /\ e.stage \in {"Catchup", "BuildReplica"} /\ live.rec = None
           /\ live' = IF e.stage = "Catchup" THEN live
                      ELSE Recorded(live, e, Outcome(e.stage, live))
           /\ Goto(d, "wait") /\ st' = st /\ table' = table /\ lock' = lock /\ sup' = sup
  <2>1. PICK x \in DriverStates :
            /\ drv' = [drv EXCEPT ![d] = x]
            /\ x.pc = "wait" /\ x.mode = drv[d].mode /\ x.cmd = drv[d].cmd
            /\ x.auth = drv[d].auth /\ x.eff = drv[d].eff /\ x.res = drv[d].res
    BY <1>7, GotoFacts DEF IInv, Busy, InEffect
  <2>2. /\ live' \in Hosts /\ Sound(live') /\ live'.phase = live.phase /\ live'.auth = live.auth
        /\ live'.nWrite = live.nWrite
        /\ live'.rec # None => live'.rec.eff.stage # "AdmitAuthority"
    <3>1. PICK r \in Results : r = Outcome(e.stage, live)
      BY StateFacts, OutcomeFacts
    <3>2. ResultFits(e, r)
      BY Zenon, <1>7 DEF ResultFits
    <3>3. PICK o \in Outcomes : o = [eff |-> e, res |-> r] /\ o.eff = e
      <4>1. [eff |-> e, res |-> r] \in Outcomes /\ [eff |-> e, res |-> r].eff = e
        BY Zenon, <1>2, <3>2 DEF Outcomes
      <4> QED
        BY <4>1
    <3>4. PICK g : g = [live EXCEPT !.rec = o]
      BY Zenon
    <3>5. g \in Hosts
      BY <3>4, StateFacts DEF Hosts
    <3>6. /\ g.auth = live.auth /\ g.phase = live.phase /\ g.nWrite = live.nWrite /\ g.rec = o
          /\ g.nEpoch = live.nEpoch /\ g.trans = live.trans /\ g.role = live.role
          /\ g.nRole = live.nRole
      BY <3>4, StateFacts DEF Hosts
    <3>7. Sound(g)
      BY Zenon, <3>6, StateFacts DEF Sound
    <3>8. live' = live \/ live' = g
      BY Zenon, <1>7, <3>1, <3>3, <3>4 DEF Recorded
    <3> QED
      BY Zenon, <1>7, <3>3, <3>5, <3>6, <3>7, <3>8, StateFacts
  <2>3. RecordFits' /\ PendingFits' /\ RetainedFits'
    BY Zenon, <1>2, <1>7, <2>2, SameJournal DEF IInv, Journal, JournalKept
  <2>4. /\ x.pc \in {"install", "wait", "mark", "complete", "publish"}
        /\ x.pc \notin {"mark", "complete"} /\ x.pc # "install" /\ x.pc # "publish"
        /\ x.eff.stage \in {"Catchup", "BuildReplica"}
    BY Zenon, <1>7, <2>1
  <2>5. /\ live'.nWrite = "Granted" => live'.auth = table'
        /\ live'.auth # table' => st.record # None /\ st.record.stage = "AdmitAuthority"
    BY Zenon, <1>2, <1>7, <2>2 DEF IInv, HostFits
  <2>6. /\ st' \in AgentStates /\ st'.record = st.record /\ st'.retained = st.retained
        /\ st'.pending # None /\ st'.pending.eff = st.pending.eff
        /\ table' \in Authorities \cup {None} /\ valid' \in BOOLEAN
        /\ lock' = lock /\ sup' = sup
    BY Zenon, <1>1, <1>2, <1>7, StateFacts
  <2> QED
    BY Zenon, <1>1, <2>1, <2>2, <2>3, <2>4, <2>5, <2>6, EffectStep
<1>8. CASE /\ e.stage \notin {"AdmitAuthority", "Catchup", "BuildReplica"} \cup AccessStages
           /\ LiveChange(d, e) # None /\ Prepared(d, e, LiveChange(d, e))
  <2>1. e.stage \in {"FailoverPrefix", "GetLsn", "RetireBuild", "ReplicatorRole", "Epoch",
                     "ApplicationRole"}
    BY Zenon, <1>2, <1>8, EffectFacts DEF Stages, AccessStages
  <2>2. PICK h : h = LiveChange(d, e)
    OBVIOUS
  <2>3. Follows(h, live) /\ (e.stage = "ApplicationRole" => h.role = e.arg.cur.role)
    BY Zenon, <1>2, <1>8, <2>1, <2>2, LiveChangeFacts
  <2>4. /\ h \in Hosts /\ Sound(h) /\ h.phase = live.phase /\ h.auth = live.auth /\ h.rec = live.rec
        /\ h.nWrite = "Granted" => h.auth = table
    BY Zenon, <2>3 DEF Follows, IInv, HostFits
  <2> QED
    BY Zenon, <1>1, <1>8, <2>1, <2>2, <2>3, <2>4, PreparedKeeps
<1>9. ~OutOfOrder(e) /\ ~(live.rec # None /\ live.rec.eff = e) => live.rec = None
  BY DEF OutOfOrder
<1> QED
  BY ZenonT(60), <1>3, <1>4, <1>5, <1>6, <1>7, <1>8, <1>9 DEF Prepare, AccessStages

LEMMA DropPending ==
  ASSUME st \in AgentStates, st' = [st EXCEPT !.pending = None]
  PROVE  /\ st' \in AgentStates /\ JournalKept /\ st'.pending = None
<1>1. st' \in AgentStates
  BY DEF AgentStates
<1> QED
  BY <1>1 DEF JournalKept, AgentStates

(* An effect that is given up: the pending effect goes with it, or stays.   *)
LEMMA GivesUp ==
  ASSUME IInv, NEW d \in Drivers, drv[d].pc \in Busy, NEW h \in Hosts, ReturnWith(d, TRUE, h),
         h.phase = live.phase, Sound(h), h.auth = live.auth, h.rec \in {live.rec, None},
         h.nWrite = "Granted" => live.nWrite = "Granted",
         st' = st \/ st' = [st EXCEPT !.pending = None],
         table' = table, valid' = valid, world' = world
  PROVE  IInv'
<1>1. st' \in AgentStates /\ JournalKept
  BY StateFacts, DropPending DEF JournalKept
<1> QED
  BY Zenon, <1>1, StateFacts, ReturnKeeps

LEMMA PublishKeeps ==
  ASSUME IInv, NEW d \in Drivers, Publish(d), world' = world
  PROVE  IInv'
<1> DEFINE e == drv[d].eff
<1>1. drv[d].pc = "publish" /\ valid' = valid /\ drv[d].pc \in InEffect \ {"accept", "next"}
  BY DEF Publish, InEffect
<1>2. /\ e \in Effects /\ st.pending # None /\ st.pending.eff = e
      /\ e.stage \notin {"BuildReplica", "RetireBuild"} => e.id \notin Builds
      /\ e.id \notin Builds =>
            /\ st.record # None /\ EffectOf(e, st.record.cmd) /\ e.stage = st.record.stage
      /\ drv[d].pc \in Busy /\ live.phase # "down" /\ InHand(d)
  BY Zenon, <1>1, InHandFacts
<1>3. e.stage \in AccessStages
  BY Zenon, <1>1, <1>2 DEF InHand
<1>4. st.record # None /\ st.record.stage \in AccessStages
  BY Zenon, <1>2, <1>3 DEF AccessStages
<1>5. live.auth = table
  BY Zenon, <1>2, <1>4 DEF IInv, HostFits, AccessStages
<1>6. CASE Prepared(d, e, SetAccess(live, AccessOf(e.stage, PendingCommand, live)))
  <2>1. PendingCommand \in AllCommands
    BY <1>4, StateFacts DEF PendingCommand, AgentStates, Records
  <2>2. PICK access \in Accesses \X Accesses : access = AccessOf(e.stage, PendingCommand, live)
    BY <1>3, <2>1, StateFacts, AccessOfFacts
  <2>3. AccessAllowed(live, access)
    BY Zenon, <1>1, <2>2 DEF IInv, HostFits
  <2>4. PICK h : h = SetAccess(live, access)
    OBVIOUS
  <2>5. h \in Hosts /\ Sound(h) /\ h.auth = live.auth /\ h.phase = live.phase /\ h.rec = live.rec
    BY <2>3, <2>4, StateFacts, SetAccessFacts
  <2>6. e.stage # "AdmitAuthority" /\ e.stage # "ApplicationRole"
    BY <1>3 DEF AccessStages
  <2>7. Prepared(d, e, h)
    BY Zenon, <1>6, <2>2, <2>4
  <2> QED
    BY Zenon, <1>1, <1>5, <2>5, <2>6, <2>7, PreparedKeeps
<1>7. CASE /\ st' = [st EXCEPT !.pending = IF @.stage = "Intent" THEN None ELSE @]
           /\ ReturnWith(d, TRUE, Fenced(live)) /\ table' = table
  <2>1. st' = st \/ st' = [st EXCEPT !.pending = None]
    <3>1. CASE st.pending.stage = "Intent"
      BY <1>7, <3>1
    <3>2. CASE st.pending.stage # "Intent"
      <4>1. st' = [st EXCEPT !.pending = st.pending]
        BY <1>7, <3>2
      <4> QED
        BY <4>1, StateFacts DEF AgentStates
    <3> QED
      BY <3>1, <3>2
  <2>2. Follows(Fenced(live), live)
    BY StateFacts, FencedFacts
  <2> QED
    BY Zenon, <1>1, <1>2, <1>7, <2>1, <2>2, GivesUp DEF Follows
<1> QED
  BY Zenon, <1>6, <1>7 DEF Publish

LEMMA InstallKeeps ==
  ASSUME IInv, NEW d \in Drivers, Install(d), world' = world
  PROVE  IInv'
<1> DEFINE e == drv[d].eff
<1>1. drv[d].pc = "install" /\ valid' = valid /\ drv[d].pc \in InEffect \ {"accept", "next"}
  BY DEF Install, InEffect
<1>2. e \in Effects /\ drv[d].pc \in Busy /\ live.phase # "down" /\ InHand(d)
  BY Zenon, <1>1, InHandFacts
<1>3. e.stage = "AdmitAuthority" /\ table = e.arg /\ e.arg \in Authorities
  BY Zenon, <1>1, <1>2, EffectFacts DEF InHand
<1>4. CASE Prepared(d, e, InstallAuthority(live, e.arg))
  <2>1. PICK h : h = InstallAuthority(live, e.arg)
    OBVIOUS
  <2>2. h \in Hosts /\ Sound(h) /\ h.auth = e.arg /\ h.phase = live.phase /\ h.rec = live.rec
    BY Zenon, <1>3, <2>1, StateFacts, InstallFacts
  <2>3. Prepared(d, e, h)
    BY <1>4, <2>1
  <2> QED
    BY Zenon, <1>1, <1>3, <2>2, <2>3, PreparedKeeps
<1>5. CASE st' = [st EXCEPT !.pending = None] /\ Return(d, TRUE) /\ table' = table
  BY Zenon, <1>1, <1>2, <1>5, StateFacts, ReturnIsReturnWith, GivesUp
<1> QED
  BY Zenon, <1>4, <1>5 DEF Install

(* The wait for a catch-up quorum ends, and so does the copy of a build.    *)
LEMMA WaitKeeps ==
  ASSUME IInv, NEW d \in Drivers, WaitCatchUp(d) \/ BuildCompletes(d), world' = world
  PROVE  IInv'
<1> DEFINE e == drv[d].eff
<1>1. /\ drv[d].pc = "wait" /\ valid' = valid /\ drv[d].pc \in InEffect \ {"accept", "next"}
      /\ e.stage \in {"Catchup", "BuildReplica"}
  BY Zenon DEF WaitCatchUp, BuildCompletes, InEffect
<1>2. drv[d].pc \in Busy
  BY Zenon, <1>1, InHandFacts
<1>3. CASE Prepared(d, e, live)
  <2>1. live \in Hosts /\ Sound(live) /\ (live.nWrite = "Granted" => live.auth = table)
    BY Zenon, StateFacts DEF IInv, HostFits
  <2>2. e.stage # "AdmitAuthority" /\ e.stage # "ApplicationRole"
    BY <1>1
  <2> QED
    BY Zenon, <1>1, <1>3, <2>1, <2>2, PreparedKeeps
<1>4. CASE st' = [st EXCEPT !.pending = None] /\ Return(d, TRUE) /\ table' = table
  BY Zenon, <1>1, <1>2, <1>4, StateFacts, ReturnIsReturnWith, GivesUp
<1> QED
  BY Zenon, <1>3, <1>4 DEF WaitCatchUp, BuildCompletes, ObserveBuildCompletion

=============================================================================
