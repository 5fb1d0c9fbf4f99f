------------------------- MODULE CoordinatorProofs --------------------------
(***************************************************************************)
(* What Coordinator keeps for every situation the controller may put the   *)
(* agent in, every number of drivers, crashes and failed transactions: its *)
(* write status, what a finished command means, and that it implements the *)
(* abstract ConfigurationAgent.                                            *)
(***************************************************************************)
EXTENDS CoordinatorSteps

-----------------------------------------------------------------------------
(* The journal records the effect.                                          *)

(* A host whose record of the last effect is cleared.                       *)
LEMMA ClearedFacts ==
  ASSUME NEW h \in Hosts, Sound(h)
  PROVE  /\ [h EXCEPT !.rec = None] \in Hosts /\ Sound([h EXCEPT !.rec = None])
         /\ [h EXCEPT !.rec = None].auth = h.auth /\ [h EXCEPT !.rec = None].phase = h.phase
         /\ [h EXCEPT !.rec = None].nWrite = h.nWrite /\ [h EXCEPT !.rec = None].rec = None
<1>1. PICK g : g = [h EXCEPT !.rec = None]
  BY Zenon
<1>2. g \in Hosts
  BY <1>1 DEF Hosts
<1>3. /\ g.auth = h.auth /\ g.phase = h.phase /\ g.nWrite = h.nWrite /\ g.rec = None
      /\ g.nEpoch = h.nEpoch /\ g.trans = h.trans /\ g.role = h.role /\ g.nRole = h.nRole
  BY <1>1 DEF Hosts
<1>4. Sound(g)
  BY <1>3 DEF Sound
<1> QED
  BY <1>1, <1>2, <1>3, <1>4

(* The same with the count of the effects it has seen brought up.           *)
LEMMA LagFacts ==
  ASSUME NEW h \in Hosts, Sound(h), NEW l \in {"empty", "current", "behind"}
  PROVE  /\ [h EXCEPT !.lag = l] \in Hosts /\ Sound([h EXCEPT !.lag = l])
         /\ [h EXCEPT !.lag = l].auth = h.auth /\ [h EXCEPT !.lag = l].phase = h.phase
         /\ [h EXCEPT !.lag = l].nWrite = h.nWrite /\ [h EXCEPT !.lag = l].rec = h.rec
<1>1. PICK g : g = [h EXCEPT !.lag = l]
  BY Zenon
<1>2. g \in Hosts
  BY <1>1 DEF Hosts
<1>3. /\ g.auth = h.auth /\ g.phase = h.phase /\ g.nWrite = h.nWrite /\ g.rec = h.rec
      /\ g.nEpoch = h.nEpoch /\ g.trans = h.trans /\ g.role = h.role /\ g.nRole = h.nRole
  BY <1>1 DEF Hosts
<1>4. Sound(g)
  BY <1>3 DEF Sound
<1> QED
  BY <1>1, <1>2, <1>3, <1>4

LEMMA MarkKeeps ==
  ASSUME IInv, NEW d \in Drivers, Mark(d), world' = world
  PROVE  IInv'
<1> DEFINE e == drv[d].eff
           r == drv[d].res
<1>1. /\ drv[d].pc = "mark" /\ valid' = valid /\ table' = table
      /\ drv[d].pc \in InEffect \ {"accept", "next"}
  BY DEF Mark, InEffect
<1>2. /\ e \in Effects /\ st.pending # None /\ st.pending.eff = e
      /\ e.stage \notin {"BuildReplica", "RetireBuild"} => e.id \notin Builds
      /\ e.id \notin Builds =>
            /\ st.record # None /\ EffectOf(e, st.record.cmd) /\ e.stage = st.record.stage
      /\ drv[d].pc \in Busy /\ live.phase # "down"
      /\ drv[d] \in DriverStates /\ DriverFits(drv[d]) /\ InHand(d)
  BY Zenon, <1>1, InHandFacts
<1>3. ResultFits(e, r) /\ (e.stage = "AdmitAuthority" => table = e.arg /\ live.auth = table)
  BY Zenon, <1>1, <1>2 DEF DriverFits, InHand
<1>4. CASE ReturnWith(d, TRUE, [Fenced(live) EXCEPT !.rec = None]) /\ st' = st
  <2>1. Fenced(live) \in Hosts /\ Sound(Fenced(live)) /\ Follows(Fenced(live), live)
    BY StateFacts, FencedFacts DEF Follows
  <2>2. PICK h : h = [Fenced(live) EXCEPT !.rec = None]
    BY Zenon
  <2>3. /\ h \in Hosts /\ Sound(h) /\ h.auth = live.auth /\ h.phase = live.phase /\ h.rec = None
        /\ h.nWrite = "Granted" => live.nWrite = "Granted"
    BY <2>1, <2>2, ClearedFacts DEF Follows
  <2>4. ReturnWith(d, TRUE, h)
    BY Zenon, <1>4, <2>2
  <2> QED
    BY Zenon, <1>1, <1>2, <1>4, <2>3, <2>4, GivesUp
<1>5. CASE st' = Applied(st, e, r) /\ Goto(d,
"complete") /\ live' = live /\ lock' = lock /\ sup' = sup
  <2>1. PICK p \in Pendings : /\ p = [eff |-> e, stage |-> "Applied", res |-> r]
                              /\ p.eff = e /\ p.stage = "Applied" /\ p # None
    <3>1. r \in Results
      BY Zenon, <1>3 DEF ResultFits
    <3>2. PICK q : q = [eff |-> e, stage |-> "Applied", res |-> r]
      BY Zenon
    <3>3. /\ q \in [eff : Effects, stage : {"Intent", "Applied"}, res : Results \cup {None}]
          /\ q.eff = e /\ q.stage = "Applied" /\ q.res = r
      BY Zenon, <1>2, <3>1, <3>2
    <3>4. q \in Pendings
      BY <1>3, <3>3 DEF Pendings
    <3> QED
      BY Zenon, <3>2, <3>3, <3>4, NoneAssumption
  <2>2. st' = [st EXCEPT !.pending = p]
    BY <1>5, <2>1 DEF Applied
  <2>3. st' \in AgentStates
    BY <2>2, StateFacts DEF AgentStates
  <2>4. /\ st'.pending = p /\ st'.prev = st.prev /\ st'.cur = st.cur /\ st'.highest = st.highest
        /\ st'.role = st.role /\ st'.record = st.record /\ st'.retained = st.retained
        /\ st'.done = st.done
    BY <2>2, StateFacts DEF AgentStates
  <2>5. PICK x \in DriverStates :
            /\ drv' = [drv EXCEPT ![d] = x]
            /\ x.pc = "complete" /\ x.mode = drv[d].mode /\ x.cmd = drv[d].cmd
            /\ x.auth = drv[d].auth /\ x.eff = drv[d].eff /\ x.res = drv[d].res
    BY <1>5, GotoFacts DEF IInv, Busy, InEffect
  <2>6. RecordFits'
    BY Zenon, <1>1, <2>4 DEF IInv, Journal, RecordFits, RolePlaced, Epoch
  <2>7. PendingFits'
    BY ZenonT(60), <1>1, <1>2, <1>3, <1>5, <2>1, <2>4, EffectFacts DEF PendingFits, EffectOf
  <2>8. RetainedFits'
    BY ZenonT(60), <1>1, <1>2, <1>5, <2>1, <2>4 DEF IInv, Journal, RetainedFits
  <2>9. /\ x.pc \in {"install", "wait", "mark", "complete", "publish"}
        /\ x.pc \in {"mark", "complete"} => ResultFits(x.eff, x.res)
        /\ x.pc # "install" /\ x.pc # "publish" /\ x.pc # "wait"
        /\ x.pc \in {"mark", "complete"} /\ x.eff.stage = "AdmitAuthority" =>
              table' = x.eff.arg /\ live'.auth = table'
    BY Zenon, <1>1, <1>3, <1>5, <2>5
  <2>10. /\ live'.nWrite = "Granted" => live'.auth = table'
         /\ live'.auth # table' => st.record # None /\ st.record.stage = "AdmitAuthority"
         /\ live'.rec # None /\ live'.rec.eff.stage = "AdmitAuthority" =>
               table' = live'.rec.eff.arg /\ live'.auth = table'
    BY Zenon, <1>1, <1>2, <1>5 DEF IInv, HostFits
  <2>11. /\ st'.pending # None /\ st'.pending.eff = st.pending.eff
         /\ table' \in Authorities \cup {None} /\ valid' \in BOOLEAN
         /\ live' \in Hosts /\ Sound(live') /\ live'.phase = live.phase
         /\ lock' = lock /\ sup' = sup
    BY Zenon, <1>1, <1>2, <1>5, <2>1, <2>4, StateFacts
  <2> QED
    BY Zenon, <1>1, <2>3, <2>4, <2>5, <2>6, <2>7, <2>8, <2>9, <2>10, <2>11, EffectStep
<1> QED
  BY Zenon, <1>4, <1>5 DEF Mark

(* What complete_effect writes.                                             *)
LEMMA CompleteEffectFacts ==
  ASSUME NEW s \in AgentStates, NEW e \in Effects, NEW r, ResultFits(e, r)
  PROVE  LET t == CompleteEffect(s, e, r) IN
         /\ t \in AgentStates /\ t.pending = None /\ t.retained # None /\ t.retained.eff = e
         /\ t.record = s.record /\ t.done = s.done
         /\ e.stage = "AdmitAuthority" =>
               /\ t.prev = e.arg.prev /\ t.cur = e.arg.cur /\ t.role = s.role
               /\ t.highest = IF e.arg.cur.epoch > s.highest THEN e.arg.cur.epoch ELSE s.highest
         /\ e.stage # "AdmitAuthority" =>
               t.prev = s.prev /\ t.cur = s.cur /\ t.highest = s.highest
         /\ e.stage = "ApplicationRole" => t.role = e.arg.cur.role
         /\ e.stage # "ApplicationRole" => t.role = s.role
<1>1. r \in Results
  BY DEF ResultFits
<1>2. PICK o \in Outcomes : o = [eff |-> e, res |-> r] /\ o.eff = e /\ o # None
  <2>1. [eff |-> e, res |-> r] \in Outcomes /\ [eff |-> e, res |-> r].eff = e
    BY <1>1 DEF Outcomes
  <2> QED
    BY <2>1, NoneAssumption
<1>3. PICK u : u = [s EXCEPT !.pending = None, !.retained = o]
  OBVIOUS
<1>4. u \in AgentStates
  BY Zenon, <1>3 DEF AgentStates
<1>5. /\ u.pending = None /\ u.retained = o /\ u.record = s.record /\ u.done = s.done
      /\ u.prev = s.prev /\ u.cur = s.cur /\ u.highest = s.highest /\ u.role = s.role
  BY <1>3 DEF AgentStates
<1>6. PICK t : t = CompleteEffect(s, e, r)
  OBVIOUS
<1>7. CASE e.stage = "AdmitAuthority"
  <2>1. PICK a \in Authorities : a = e.arg /\ r.auth = a
    BY <1>7, EffectFacts DEF ResultFits
  <2>2. a.prev \in Configurations \cup {None} /\ a.cur \in Configurations /\ a.cur.epoch \in Nat
        /\ AuthEpoch(a) = a.cur.epoch
    BY NoneAssumption DEF Authorities, Configurations, AuthEpoch
  <2>3. PICK n \in Nat : n = IF a.cur.epoch > s.highest THEN a.cur.epoch ELSE s.highest
    BY <2>2 DEF AgentStates
  <2>4. t = [u EXCEPT !.read = r.read, !.write = r.write, !.prev = a.prev, !.cur = a.cur,
                      !.highest = n]
    <3>1. t = [u EXCEPT !.read = r.read, !.write = r.write, !.prev = r.auth.prev,
                        !.cur = r.auth.cur,
                        !.highest = IF AuthEpoch(r.auth) > u.highest THEN AuthEpoch(r.auth)
                                    ELSE u.highest]
      <4>1. u = [s EXCEPT !.pending = None, !.retained = [eff |-> e, res |-> r]]
        BY <1>2, <1>3
      <4> QED
        BY <1>6, <1>7, <4>1 DEF CompleteEffect, EffectCompleted, AppliedAuthority, AccessStages
    <3>2. n = IF AuthEpoch(r.auth) > u.highest THEN AuthEpoch(r.auth) ELSE u.highest
      BY Zenon, <1>5, <2>1, <2>2, <2>3
    <3> QED
      BY <2>1, <3>1, <3>2
  <2>5. r.read \in Accesses /\ r.write \in Accesses
    BY <1>1 DEF Results
  <2>6. t \in AgentStates
    BY Zenon, <1>4, <2>2, <2>4, <2>5 DEF AgentStates
  <2>7. /\ t.pending = None /\ t.retained = o /\ t.record = s.record /\ t.done = s.done
        /\ t.prev = a.prev /\ t.cur = a.cur /\ t.highest = n /\ t.role = s.role
    BY <1>4, <1>5, <2>4 DEF AgentStates
  <2> QED
    BY Zenon, <1>2, <1>6, <1>7, <2>1, <2>3, <2>6, <2>7
<1>8. CASE e.stage \in AccessStages
  <2>1. r.read \in Accesses /\ r.write \in Accesses
    BY <1>1 DEF Results
  <2>2. t = [u EXCEPT !.read = r.read, !.write = r.write]
    BY <1>2, <1>3, <1>6, <1>8 DEF CompleteEffect, EffectCompleted, AccessStages
  <2>3. t \in AgentStates
    BY Zenon, <1>4, <2>1, <2>2 DEF AgentStates
  <2>4. /\ t.pending = None /\ t.retained = o /\ t.record = s.record /\ t.done = s.done
        /\ t.prev = s.prev /\ t.cur = s.cur /\ t.highest = s.highest /\ t.role = s.role
    BY <1>4, <1>5, <2>2 DEF AgentStates
  <2> QED
    BY Zenon, <1>2, <1>6, <1>8, <2>3, <2>4 DEF AccessStages
<1>9. CASE e.stage = "ApplicationRole"
  <2>1. r.role \in Roles /\ r.role = e.arg.cur.role
    BY <1>1, <1>9 DEF Results, ResultFits
  <2>2. t = [u EXCEPT !.role = r.role]
    BY <1>2, <1>3, <1>6, <1>9 DEF CompleteEffect, EffectCompleted, AccessStages
  <2>3. t \in AgentStates
    BY Zenon, <1>4, <2>1, <2>2 DEF AgentStates
  <2>4. /\ t.pending = None /\ t.retained = o /\ t.record = s.record /\ t.done = s.done
        /\ t.prev = s.prev /\ t.cur = s.cur /\ t.highest = s.highest /\ t.role = r.role
    BY <1>4, <1>5, <2>2 DEF AgentStates
  <2> QED
    BY Zenon, <1>2, <1>6, <1>9, <2>1, <2>3, <2>4
<1>10. CASE e.stage = "RetireBuild"
  <2>1. e.arg \in Builds
    BY <1>10, EffectFacts
  <2>2. PICK f \in [Builds -> {"none", "journaled", "abandoned", "retired"}] :
           f = [u.builds EXCEPT ![e.arg] = "retired"]
    <3>1. u.builds \in [Builds -> {"none", "journaled", "abandoned", "retired"}]
      BY <1>4 DEF AgentStates
    <3>2. [u.builds EXCEPT ![e.arg] = "retired"] \in
             [Builds -> {"none", "journaled", "abandoned", "retired"}]
      BY <2>1, <3>1
    <3> QED
      BY Zenon, <3>2
  <2>3. t = [u EXCEPT !.builds[e.arg] = "retired"]
    BY <1>2, <1>3, <1>6, <1>10 DEF CompleteEffect, EffectCompleted, AccessStages
  <2>4. t = [u EXCEPT !.builds = f]
    BY <1>4, <2>2, <2>3 DEF AgentStates
  <2>5. t \in AgentStates
    BY <1>4, <2>4 DEF AgentStates
  <2>6. /\ t.pending = None /\ t.retained = o /\ t.record = s.record /\ t.done = s.done
        /\ t.prev = s.prev /\ t.cur = s.cur /\ t.highest = s.highest /\ t.role = s.role
    BY <1>4, <1>5, <2>4 DEF AgentStates
  <2> QED
    BY Zenon, <1>2, <1>6, <1>10, <2>5, <2>6
<1>11. CASE e.stage \notin {"AdmitAuthority", "ApplicationRole", "RetireBuild"} \cup AccessStages
  <2>1. t = u
    BY <1>2, <1>3, <1>6, <1>11 DEF CompleteEffect, EffectCompleted
  <2> QED
    BY Zenon, <1>2, <1>4, <1>5, <1>6, <1>11, <2>1
<1> QED
  BY Zenon, <1>7, <1>8, <1>9, <1>10, <1>11

(* A busy driver goes on without an effect to run, under the same authority.*)
LEMMA GoesOn ==
  ASSUME IInv, NEW d \in Drivers, drv[d].pc \in Busy, NEW x \in DriverStates,
         drv' = [drv EXCEPT ![d] = x], DriverFits(x),
         x.pc \in {"accept", "next", "begin", "stage"}, x.mode = drv[d].mode,
         x.mode = "resume" => x.pc \in InEffect,
         x.mode = "config" /\ x.pc # "begin" => st'.record # None /\ st'.record.cmd = x.cmd,
         x.mode = "config" /\ x.pc \in {"accept", "next"} =>
             /\ EffectOf(x.eff, x.cmd) /\ x.eff.stage = st'.record.stage
             /\ st'.retained # None /\ st'.retained.eff = x.eff,
         x.pc = "accept" => x.eff.stage \in AccessStages,
         lock' = lock, sup' = sup, st' \in AgentStates,
         NEW h \in Hosts, live' = h, Sound(h), h.auth = live.auth, h.phase = live.phase,
         h.nWrite = "Granted" => live.nWrite = "Granted", h.rec \in {live.rec, None},
         st.record # None => st'.record # None,
         st.record # None /\ live.auth # table /\ st.record.stage = "AdmitAuthority" =>
             st'.record.stage = "AdmitAuthority",
         RecordFits' /\ PendingFits' /\ RetainedFits',
         table' = table, valid' = valid, world' = world
  PROVE  IInv'
<1>1. /\ live' \in Hosts /\ live'.phase = live.phase /\ table' \in Authorities \cup {None}
      /\ valid' \in BOOLEAN /\ x.pc \in Busy
  BY Zenon, StateFacts DEF Busy, InEffect
<1>2. /\ Types' /\ Exclusive' /\ drv'[d] = x /\ live.phase # "down"
      /\ \A y \in Drivers \ {d} : drv'[y].pc # "publish" /\ InHand(y)'
  BY Zenon, <1>1, BusyStep
<1>3. InHand(d)'
  BY ZenonT(60), <1>2 DEF InHand, EffectOf, InEffect
<1>4. HostFits'
  <2>1. Sound(live')
    BY Zenon
  <2>2. live'.nWrite = "Granted" => live'.auth = table'
    BY Zenon DEF IInv, HostFits
  <2>3. live'.phase # "down" /\ live'.auth # table' =>
            st'.record # None /\ st'.record.stage = "AdmitAuthority"
    BY Zenon, <1>2 DEF IInv, HostFits
  <2>4. live'.rec # None /\ live'.rec.eff.stage = "AdmitAuthority" =>
             table' = live'.rec.eff.arg /\ live'.auth = table'
    BY Zenon DEF IInv, HostFits
  <2> QED
    BY Zenon, <1>2, <2>1, <2>2, <2>3, <2>4, HostStep
<1>5. \A y \in Drivers : InHand(y)'
  BY Zenon, <1>2, <1>3
<1> QED
  BY Zenon, <1>2, <1>4, <1>5 DEF IInv, Journal

(* complete_effect writes the outcome of the effect into the durable state. *)
LEMMA CompleteKeeps ==
  ASSUME IInv, NEW d \in Drivers, Complete(d), world' = world
  PROVE  IInv'
<1> DEFINE e == drv[d].eff
           r == drv[d].res
           c == st.record.cmd
<1>1. /\ drv[d].pc = "complete" /\ valid' = valid /\ table' = table
      /\ drv[d].pc \in InEffect \ {"accept", "next"}
  BY DEF Complete, InEffect
<1>2. /\ e \in Effects /\ st.pending # None /\ st.pending.eff = e
      /\ e.stage \notin {"BuildReplica", "RetireBuild"} => e.id \notin Builds
      /\ e.id \notin Builds =>
            /\ st.record # None /\ EffectOf(e, c) /\ e.stage = st.record.stage
      /\ drv[d].pc \in Busy /\ live.phase # "down"
      /\ drv[d] \in DriverStates /\ DriverFits(drv[d]) /\ InHand(d)
  BY Zenon, <1>1, InHandFacts
<1>3. ResultFits(e, r) /\ (e.stage = "AdmitAuthority" => table = e.arg /\ live.auth = table)
  BY Zenon, <1>1, <1>2 DEF DriverFits, InHand
<1>4. CASE ReturnWith(d, TRUE, [live EXCEPT !.rec = None]) /\ st' = st
  <2>1. PICK h : h = [live EXCEPT !.rec = None]
    BY Zenon
  <2>2. /\ h \in Hosts /\ Sound(h) /\ h.auth = live.auth /\ h.phase = live.phase /\ h.rec = None
        /\ h.nWrite = live.nWrite
    BY <2>1, StateFacts, ClearedFacts
  <2>3. ReturnWith(d, TRUE, h)
    BY Zenon, <1>4, <2>1
  <2> QED
    BY Zenon, <1>1, <1>2, <1>4, <2>2, <2>3, GivesUp
<1>5. CASE /\ st' = CompleteEffect(st, e, r) /\ sup' = sup /\ lock' = lock
           /\ \/ Goto(d, "accept") /\ live' = live /\ e.stage \in AccessStages
              \/ /\ Goto(d, "next")
                 /\ live' = [live EXCEPT !.rec = None,
                                !.lag = IF live.rec # None THEN "current"
                                        ELSE IF @ = "current" THEN "behind" ELSE @]
  <2>1. /\ st' \in AgentStates /\ st'.pending = None /\ st'.retained # None
        /\ st'.retained.eff = e /\ st'.record = st.record /\ st'.done = st.done
        /\ e.stage = "AdmitAuthority" =>
              /\ st'.prev = e.arg.prev /\ st'.cur = e.arg.cur /\ st'.role = st.role
              /\ st'.highest = IF e.arg.cur.epoch > st.highest THEN e.arg.cur.epoch
                               ELSE st.highest
        /\ e.stage # "AdmitAuthority" =>
              st'.prev = st.prev /\ st'.cur = st.cur /\ st'.highest = st.highest
        /\ e.stage = "ApplicationRole" => st'.role = e.arg.cur.role
        /\ e.stage # "ApplicationRole" => st'.role = st.role
    BY <1>2, <1>3, <1>5, StateFacts, CompleteEffectFacts
  <2>2. PICK h \in Hosts : /\ live' = h /\ Sound(h) /\ h.auth = live.auth /\ h.phase = live.phase
                           /\ h.nWrite = live.nWrite /\ h.rec \in {live.rec, None}
    <3>1. CASE live' = live
      BY <3>1, StateFacts
    <3>2. CASE live' = [live EXCEPT !.rec = None,
                           !.lag = IF live.rec # None THEN "current"
                                   ELSE IF @ = "current" THEN "behind" ELSE @]
      <4>1. PICK l \in {"empty", "current", "behind"} :
               l = IF live.rec # None THEN "current"
                   ELSE IF live.lag = "current" THEN "behind" ELSE live.lag
        BY StateFacts DEF Hosts
      <4>2. PICK g : g = [live EXCEPT !.rec = None]
        BY Zenon
      <4>3. PICK h : h = [g EXCEPT !.lag = l]
        BY Zenon
      <4>4. /\ g \in Hosts /\ Sound(g) /\ g.auth = live.auth /\ g.phase = live.phase
            /\ g.nWrite = live.nWrite /\ g.rec = None
        BY <4>2, StateFacts, ClearedFacts
      <4>5. /\ h \in Hosts /\ Sound(h) /\ h.auth = g.auth /\ h.phase = g.phase
            /\ h.nWrite = g.nWrite /\ h.rec = g.rec
        BY Zenon, <4>3, <4>4, LagFacts
      <4>6. live' = h
        BY <3>2, <4>1, <4>2, <4>3, StateFacts DEF Hosts
      <4> QED
        BY <4>4, <4>5, <4>6
    <3> QED
      BY <1>5, <3>1, <3>2
  <2>3. PICK x \in DriverStates :
            /\ drv' = [drv EXCEPT ![d] = x]
            /\ x.pc \in {"accept", "next"} /\ (x.pc = "accept" => e.stage \in AccessStages)
            /\ x.mode = drv[d].mode /\ x.cmd = drv[d].cmd
            /\ x.auth = drv[d].auth /\ x.eff = drv[d].eff /\ x.res = drv[d].res
    BY <1>5, GotoFacts DEF IInv, Busy, InEffect
  <2>4. DriverFits(x) /\ x.pc \in InEffect
    BY Zenon, <1>1, <1>2, <2>3 DEF DriverFits, InEffect
  <2>5. RecordFits'
    <3>1. CASE e.stage = "AdmitAuthority"
      <4>1. /\ st.record # None /\ e.arg.cur = c.cur /\ st.record.stage = "AdmitAuthority"
            /\ c \in AllCommands /\ c.cur \in Configurations /\ c.cur # None
            /\ c.cur.epoch \in Nat /\ c.cur.epoch >= st.highest /\ st.highest \in Nat
        BY SMTT(60), <1>2, <3>1, StateFacts, CommandFacts, NoneAssumption DEF IInv, Journal,
           RecordFits, EffectOf, AgentStates, Records, Configurations
      <4>2. st'.highest = c.cur.epoch /\ st'.cur = c.cur
        BY <2>1, <3>1, <4>1
      <4>3. st'.highest = Epoch(st'.cur)
        BY Zenon, <4>1, <4>2 DEF Epoch
      <4>4. st'.done # None => st'.done.cur.epoch <= st'.highest
        <5>1. st.done # None => st.done.cur.epoch \in Nat /\ st.done.cur.epoch <= st.highest
          BY Zenon, StateFacts, CommandFacts DEF IInv, Journal, RecordFits, AgentStates,
             Configurations
        <5> QED
          BY <2>1, <4>1, <4>2, <5>1
      <4>5. ~RolePlaced(c, "AdmitAuthority")
        BY DEF RolePlaced
      <4> QED
        BY SMTT(60), <2>1, <4>1, <4>2, <4>3, <4>4, <4>5 DEF RecordFits, RolePlaced, Epoch
    <3>2. CASE e.stage = "ApplicationRole"
      <4>1. st.record # None /\ st.record.stage = "ApplicationRole" /\ ~RolePlaced(c,
      "ApplicationRole")
        BY Zenon, <1>2, <3>2 DEF RolePlaced
      <4> QED
        BY ZenonT(60), <1>1, <2>1, <3>2, <4>1 DEF IInv, Journal, RecordFits, RolePlaced, Epoch
    <3>3. CASE e.stage \notin {"AdmitAuthority", "ApplicationRole"}
      BY Zenon, <1>1, <2>1, <3>3 DEF IInv, Journal, RecordFits, RolePlaced, Epoch
    <3> QED
      BY <3>1, <3>2, <3>3
  <2>6. PendingFits'
    BY Zenon, <2>1 DEF PendingFits
  <2>7. RetainedFits'
    BY Zenon, <1>1, <1>2, <1>3, <2>1, <2>2 DEF RetainedFits, EffectOf
  <2>8. /\ x.mode = "config" => st'.record # None /\ st'.record.cmd = x.cmd
        /\ x.mode = "config" =>
             /\ EffectOf(x.eff, x.cmd) /\ x.eff.stage = st'.record.stage
             /\ st'.retained # None /\ st'.retained.eff = x.eff
        /\ x.pc = "accept" => x.eff.stage \in AccessStages
    BY Zenon, <1>1, <1>2, <2>1, <2>3 DEF InHand
  <2>9. /\ x.pc \in {"accept", "next", "begin", "stage"} /\ drv[d].pc \in Busy
        /\ x.mode = "config" /\ x.pc # "begin" => st'.record # None /\ st'.record.cmd = x.cmd
        /\ x.mode = "config" /\ x.pc \in {"accept", "next"} =>
             /\ EffectOf(x.eff, x.cmd) /\ x.eff.stage = st'.record.stage
             /\ st'.retained # None /\ st'.retained.eff = x.eff
        /\ st.record # None => st'.record # None
        /\ st.record # None /\ live.auth # table /\ st.record.stage = "AdmitAuthority" =>
             st'.record.stage = "AdmitAuthority"
    BY Zenon, <1>2, <2>1, <2>3, <2>8
  <2>10. st' \in AgentStates /\ lock' = lock /\ sup' = sup /\ x.mode = drv[d].mode
         /\ drv' = [drv EXCEPT ![d] = x]
    BY Zenon, <1>5, <2>1, <2>3
  <2> QED
    BY ZenonT(60), <1>1, <2>2, <2>4, <2>5, <2>6, <2>7, <2>8, <2>9, <2>10, GoesOn
<1> QED
  BY Zenon, <1>4, <1>5 DEF Complete

(* The commit of an access transaction, or its rollback.                    *)
LEMMA AcceptKeeps ==
  ASSUME IInv, NEW d \in Drivers, Accept(d), world' = world
  PROVE  IInv'
<1>1. /\ drv[d].pc = "accept" /\ drv[d].pc \in Busy /\ st' = st /\ valid' = valid /\ table' = table
  BY DEF Accept, Busy, InEffect
<1>2. drv[d] \in DriverStates /\ DriverFits(drv[d]) /\ InHand(d) /\ drv[d].eff # None
  BY Zenon, <1>1, StateFacts DEF IInv, Types, Journal, DriverFits, InEffect
<1>3. CASE ReturnWith(d, TRUE, [Fenced(live) EXCEPT
                                    !.lag = IF @ = "empty" THEN "empty" ELSE "behind"])
  <2>1. Fenced(live) \in Hosts /\ Sound(Fenced(live)) /\ Follows(Fenced(live), live)
    BY StateFacts, FencedFacts DEF Follows
  <2>2. PICK l \in {"empty", "current", "behind"} :
               l = IF Fenced(live).lag = "empty" THEN "empty" ELSE "behind"
    OBVIOUS
  <2>3. PICK h : h = [Fenced(live) EXCEPT !.lag = l]
    BY Zenon
  <2>4. /\ h \in Hosts /\ Sound(h) /\ h.auth = live.auth /\ h.phase = live.phase
        /\ h.rec = live.rec /\ (h.nWrite = "Granted" => live.nWrite = "Granted")
    BY Zenon, <2>1, <2>3, LagFacts DEF Follows
  <2>5. h = [Fenced(live) EXCEPT !.lag = IF @ = "empty" THEN "empty" ELSE "behind"]
    BY <2>1, <2>2, <2>3 DEF Hosts
  <2>6. ReturnWith(d, TRUE, h)
    BY Zenon, <1>3, <2>5
  <2> QED
    BY Zenon, <1>1, <2>4, <2>6, GivesUp
<1>4. CASE /\ live' = [live EXCEPT !.lag = "current"] /\ Goto(d, "next")
           /\ lock' = lock /\ sup' = sup
  <2>1. PICK h : h = [live EXCEPT !.lag = "current"]
    BY Zenon
  <2>2. /\ h \in Hosts /\ Sound(h) /\ h.auth = live.auth /\ h.phase = live.phase
        /\ h.rec = live.rec /\ h.nWrite = live.nWrite /\ live' = h
    BY Zenon, <1>4, <2>1, StateFacts, LagFacts
  <2>3. PICK x \in DriverStates :
            /\ drv' = [drv EXCEPT ![d] = x]
            /\ x.pc = "next" /\ x.mode = drv[d].mode /\ x.cmd = drv[d].cmd
            /\ x.auth = drv[d].auth /\ x.eff = drv[d].eff /\ x.res = drv[d].res
    BY <1>4, GotoFacts DEF IInv, Busy, InEffect
  <2>4. DriverFits(x) /\ x.pc \in InEffect
    BY Zenon, <1>1, <1>2, <2>3 DEF DriverFits, InEffect
  <2>5. RecordFits' /\ PendingFits' /\ RetainedFits'
    <3>1. JournalKept /\ live.phase # "down"
      BY <1>1, BusyFacts DEF JournalKept, IInv
    <3> QED
      BY <1>1, <2>2, <3>1, SameJournal DEF IInv, Journal
  <2>6. /\ x.pc \in {"accept", "next", "begin", "stage"}
        /\ x.mode = "config" /\ x.pc # "begin" => st'.record # None /\ st'.record.cmd = x.cmd
        /\ x.mode = "config" /\ x.pc \in {"accept", "next"} =>
             /\ EffectOf(x.eff, x.cmd) /\ x.eff.stage = st'.record.stage
             /\ st'.retained # None /\ st'.retained.eff = x.eff
        /\ x.pc = "accept" => x.eff.stage \in AccessStages
        /\ st.record # None => st'.record # None
        /\ st.record # None /\ live.auth # table /\ st.record.stage = "AdmitAuthority" =>
             st'.record.stage = "AdmitAuthority"
    BY Zenon, <1>1, <1>2, <2>3 DEF InHand, InEffect
  <2>7. st' \in AgentStates /\ lock' = lock /\ sup' = sup
    BY <1>1, <1>4, StateFacts
  <2> QED
    BY Zenon, <1>1, <2>2, <2>3, <2>4, <2>5, <2>6, <2>7, GoesOn
<1> QED
  BY Zenon, <1>3, <1>4 DEF Accept

(* A failed store transaction.                                              *)
LEMMA StoreFailsKeeps ==
  ASSUME IInv, NEW d \in Drivers, StoreFails(d), world' = world
  PROVE  IInv'
<1>1. drv[d].pc \in Busy /\ st' = st /\ valid' = valid /\ table' = table
  BY DEF StoreFails, Busy, InEffect
<1>2. Follows(Fenced(live), live) /\ Follows(live, live)
  BY StateFacts, FencedFacts DEF Follows
<1>3. PICK h : h = IF drv[d].eff.stage \in AccessStages THEN Fenced(live) ELSE live
  OBVIOUS
<1>4. Follows(h, live)
  BY <1>2, <1>3
<1>5. /\ h \in Hosts /\ h.phase = live.phase /\ Sound(h) /\ h.auth = live.auth /\ h.rec = live.rec
      /\ h.nWrite = "Granted" => live.nWrite = "Granted"
  BY <1>4 DEF Follows
<1>6. ReturnWith(d, TRUE, h)
  BY Zenon, <1>3 DEF StoreFails
<1> QED
  BY Zenon, <1>1, <1>5, <1>6, GivesUp

-----------------------------------------------------------------------------
(* The stage machine.                                                       *)

(* No stage is left out on the way to the role a command asks for.          *)
LEMMA NextStageFacts ==
  ASSUME NEW c \in AllCommands, NEW a, LocalRole(a) = c.cur.role, NEW s,
         NEW stage \in Stages \ {"BuildReplica"}, NEW n, n = NextStage(c, a, stage, s)
  PROVE  /\ n \in (Stages \ {"BuildReplica", "AdmitAuthority"}) \cup {"Complete"}
         /\ n = "RetireBuild" => c.retire # {}
         /\ stage = "AdmitAuthority" => n \in {"FailoverPrefix", "Demote"}
         /\ RolePlaced(c, n) => RolePlaced(c, stage) \/ stage = "ApplicationRole"
<1>1. CASE stage = "AdmitAuthority"
  BY <1>1 DEF NextStage, RolePlaced, Stages
<1>2. CASE stage = "FailoverPrefix"
  BY <1>2 DEF NextStage, RolePlaced, Stages
<1>3. CASE stage = "Demote"
  BY <1>3 DEF NextStage, RolePlaced, Stages
<1>4. CASE stage = "GetLsn"
  BY <1>4 DEF NextStage, RolePlaced, Stages
<1>5. CASE stage = "Catchup"
  BY <1>5 DEF NextStage, RolePlaced, Stages
<1>6. CASE stage = "Deactivate"
  BY <1>6 DEF NextStage, RolePlaced, Stages
<1>7. CASE stage = "ReplicatorRole"
  BY <1>7 DEF NextStage, RolePlaced, Stages
<1>8. CASE stage = "Epoch"
  BY <1>8 DEF NextStage, RolePlaced, Stages
<1>9. CASE stage = "ApplicationRole"
  BY <1>9 DEF NextStage, RolePlaced, Stages
<1>10. CASE stage = "Activate"
  BY <1>10 DEF NextStage, RolePlaced, Stages
<1>11. CASE stage = "RetireBuild"
  BY <1>11 DEF NextStage, RolePlaced, Stages
<1> QED
  BY ZenonT(60), <1>1, <1>2, <1>3, <1>4, <1>5, <1>6, <1>7, <1>8, <1>9, <1>10, <1>11 DEF Stages

(* A build command succeeds.                                                *)
LEMMA FinishKeeps ==
  ASSUME IInv, NEW d \in Drivers, drv[d].pc \in Busy, Finish(d), st' = st, live' = live,
         sup' = sup, table' = table, valid' = valid, world' = world
  PROVE  IInv'
<1>1. /\ live.phase # "down" /\ (live.phase = "recovering" => d = Boot)
      /\ live.phase \in {"recovering", "up"}
  BY BusyFacts DEF IInv, Busy, InEffect
<1>2. \A y \in Drivers \ {d} : drv[y].pc \notin Busy \cup {"resume"}
  BY OthersQuiet DEF IInv
<1>3. PICK x \in DriverStates :
         /\ x = IF live.phase = "recovering" THEN [IdleDriver EXCEPT !.pc = "resumed"]
                ELSE IdleDriver
         /\ x.mode = "none" /\ DriverFits(x) /\ x.pc \in {"idle", "resumed"}
         /\ x.pc = "resumed" => live.phase = "recovering"
  <2>1. PICK y : y = [IdleDriver EXCEPT !.pc = "resumed"]
    BY Zenon
  <2>2. /\ y \in DriverStates /\ y.mode = "none" /\ y.pc = "resumed" /\ y.eff = None
    BY <2>1 DEF IdleDriver, DriverStates, Waiting
  <2>3. /\ IdleDriver \in DriverStates /\ IdleDriver.mode = "none" /\ IdleDriver.pc = "idle"
    BY DEF IdleDriver, DriverStates, Waiting
  <2>4. DriverFits(y) /\ DriverFits(IdleDriver)
    BY <2>2, <2>3 DEF DriverFits, InEffect
  <2> HIDE DEF IdleDriver
  <2> QED
    BY Zenon, <2>1, <2>2, <2>3, <2>4
<1>4. drv' = [drv EXCEPT ![d] = x] /\ lock' = None
  BY <1>3 DEF Finish
<1>5. x.pc \notin Busy \cup {"resume"}
  BY <1>3 DEF Busy, InEffect
<1>6. /\ x.pc \in {"resume", "resumed"} => d = Boot /\ live.phase = "recovering" /\ x.mode = "none"
      /\ x.mode # "resume" /\ x.pc \notin Busy /\ live' \in Hosts /\ live'.phase = live.phase
      /\ st' \in AgentStates /\ table' \in Authorities \cup {None} /\ sup' \in Nat
      /\ valid' \in BOOLEAN /\ DriverFits(x)
      /\ \A y \in Drivers \ {d} : drv[y].pc \notin Busy
  BY <1>1, <1>2, <1>3, <1>5, StateFacts
<1>7. Types' /\ Exclusive' /\ drv'[d] = x /\ \A y \in Drivers \ {d} : drv'[y] = drv[y]
  BY Zenon, <1>1, <1>4, <1>6, StepTypes DEF IInv
<1>8. \A y \in Drivers : InHand(y)' /\ drv'[y].pc # "publish"
  BY <1>2, <1>5, <1>7, NothingInHand
<1>9. RecordFits' /\ PendingFits' /\ RetainedFits'
  <2>1. JournalKept
    BY DEF JournalKept
  <2> QED
    BY <1>1, <2>1, SameJournal DEF IInv, Journal
<1>10. HostFits'
  <2>1. /\ Sound(live')
        /\ live'.nWrite = "Granted" => live'.auth = table'
        /\ live'.phase # "down" /\ live'.auth # table' =>
             st'.record # None /\ st'.record.stage = "AdmitAuthority"
        /\ live'.rec # None /\ live'.rec.eff.stage = "AdmitAuthority" =>
             table' = live'.rec.eff.arg /\ live'.auth = table'
    BY Zenon, StateFacts DEF IInv, HostFits
  <2> QED
    BY Zenon, <1>8, <2>1, HostStep
<1> QED
  BY <1>7, <1>8, <1>9, <1>10 DEF IInv, Journal

(* advance_configuration.                                                   *)
LEMMA AdvanceKeeps ==
  ASSUME IInv, NEW d \in Drivers, Advance(d), world' = world
  PROVE  IInv'
<1>1. /\ drv[d].pc = "next" /\ drv[d].pc \in Busy /\ drv[d].pc \in InEffect
      /\ table' = table /\ valid' = valid
  BY Zenon DEF Advance, Busy, InEffect
<1>2. /\ drv[d] \in DriverStates /\ DriverFits(drv[d]) /\ InHand(d) /\ live.phase # "down"
  BY Zenon, <1>1, StateFacts, BusyFacts DEF IInv, Types, Journal
<1>3. CASE drv[d].mode = "config"
  <2> DEFINE c == st.record.cmd
             e == drv[d].eff
             stage == st.record.stage
             n == NextStage(c, drv[d].auth, stage, st)
  <2>1. /\ st' = [st EXCEPT !.record = [st.record EXCEPT !.stage = n]]
        /\ drv' = [drv EXCEPT ![d].pc = "stage", ![d].eff = None, ![d].res = None]
        /\ live' = live /\ lock' = lock /\ sup' = sup
    BY Zenon, <1>3 DEF Advance, AdvanceConfiguration
  <2>2. /\ st.record # None /\ c = drv[d].cmd /\ EffectOf(e, c) /\ e.stage = stage
        /\ st.retained # None /\ st.retained.eff = e /\ e # None
    BY Zenon, <1>1, <1>2, <1>3 DEF InHand, DriverFits
  <2>3. /\ e \in Effects /\ c \in AllCommands /\ st.record \in Records
        /\ stage \in Stages \ {"BuildReplica"}
    BY Zenon, <1>2, <2>2, StateFacts, EffectFacts DEF DriverStates, AgentStates, Records
  <2>4. /\ c.cur \in Configurations /\ c.cur # None /\ c.cur.epoch \in Nat
        /\ LocalRole(drv[d].auth) = c.cur.role
        /\ drv[d].auth \in Authorities
        /\ drv[d].auth.cur = c.cur /\ drv[d].auth.prev = c.prev
        /\ drv[d].auth.kind \in {c.kind, None}
    BY Zenon, <1>1, <1>2, <1>3, <2>2, <2>3, CommandFacts, NoneAssumption DEF DriverFits, LocalRole
  <2>5. /\ n \in (Stages \ {"BuildReplica", "AdmitAuthority"}) \cup {"Complete"}
        /\ n = "RetireBuild" => c.retire # {}
        /\ stage = "AdmitAuthority" => n \in {"FailoverPrefix", "Demote"}
        /\ RolePlaced(c, n) => RolePlaced(c, stage) \/ stage = "ApplicationRole"
    BY <2>3, <2>4, NextStageFacts
  <2> HIDE DEF n
  <2>6. PICK q \in Records : /\ q = [st.record EXCEPT !.stage = n]
                             /\ q.cmd = c /\ q.stage = n /\ q # None
    <3>1. PICK q : q = [st.record EXCEPT !.stage = n]
      BY Zenon
    <3>2. q.cmd = c /\ q.stage = n
      BY <2>3, <3>1 DEF Records
    <3>3. q \in [cmd : AllCommands, stage : (Stages \ {"BuildReplica"}) \cup {"Complete"}]
      BY <2>3, <2>5, <3>1 DEF Records
    <3>4. q \in Records
      BY <2>5, <3>2, <3>3 DEF Records
    <3> QED
      BY Zenon, <3>1, <3>2, <3>4, NoneAssumption
  <2>7. st' = [st EXCEPT !.record = q]
    BY <2>1, <2>6
  <2>8. st' \in AgentStates
    BY <2>7, StateFacts DEF AgentStates
  <2>9. /\ st'.pending = st.pending /\ st'.prev = st.prev /\ st'.cur = st.cur
        /\ st'.highest = st.highest /\ st'.role = st.role /\ st'.record = q
        /\ st'.retained = st.retained /\ st'.done = st.done
    BY <2>7, StateFacts DEF AgentStates
  <2>10. /\ st.cur = c.cur /\ st.prev = c.prev /\ table # None /\ table.cur = st.cur
         /\ stage = "AdmitAuthority" => live.auth = table
    <3>1. CASE stage = "AdmitAuthority"
      <4>1. st.cur = e.arg.cur /\ st.prev = e.arg.prev /\ e.arg \in Authorities
        BY Zenon, <2>2, <2>3, <3>1, EffectFacts DEF IInv, Journal, RetainedFits
      <4>2. st.cur = c.cur /\ st.prev = c.prev
        BY Zenon, <2>2, <3>1, <4>1 DEF EffectOf
      <4>3. c.cur.epoch = st.highest
        BY Zenon, <2>4, <4>2 DEF IInv, Journal, RecordFits, Epoch
      <4>4. table = e.arg /\ live.auth = table
        BY Zenon, <1>2, <2>2, <3>1, <4>3 DEF IInv, Journal, RetainedFits
      <4> QED
        BY Zenon, <4>1, <4>2, <4>4, NoneAssumption
    <3>2. CASE stage # "AdmitAuthority"
      BY Zenon, <2>2, <3>2 DEF IInv, Journal, RecordFits
    <3> QED
      BY <3>1, <3>2
  <2>11. RolePlaced(c, n) => st.role = c.cur.role
    <3>1. RolePlaced(c, stage) => st.role = c.cur.role
      BY Zenon, <2>2 DEF IInv, Journal, RecordFits
    <3>2. stage = "ApplicationRole" => st.role = c.cur.role
      BY Zenon, <2>2 DEF IInv, Journal, RetainedFits, EffectOf, RoleStages
    <3> QED
      BY Zenon, <2>5, <3>1, <3>2
  <2>12. RecordFits'
    <3>1. /\ st.highest = Epoch(st.cur)
          /\ st.done # None => st.done.cur.epoch <= st.highest
          /\ c.cur.epoch >= st.highest
      BY Zenon, <2>2 DEF IInv, Journal, RecordFits
    <3>2. /\ st'.highest = Epoch(st'.cur)
          /\ st'.done # None => st'.done.cur.epoch <= st'.highest
          /\ st'.record # None /\ st'.record.cmd = c /\ st'.record.stage = n
          /\ st'.cur = c.cur /\ st'.prev = c.prev /\ table' # None /\ table'.cur = st'.cur
          /\ c.cur.epoch >= st'.highest
          /\ RolePlaced(st'.record.cmd, st'.record.stage) => st'.role = c.cur.role
      BY ZenonT(60), <1>1, <2>6, <2>9, <2>10, <2>11, <3>1
    <3> QED
      BY Zenon, <3>2 DEF RecordFits, RolePlaced, Epoch
  <2>13. PendingFits'
    <3>1. st.pending # None => st.pending.eff.id \in Builds
      <4>1. SUFFICES ASSUME st.pending # None, st.pending.eff.id \notin Builds PROVE FALSE
        OBVIOUS
      <4>2. /\ EffectOf(st.pending.eff, c) /\ st.pending.eff.stage = stage
        BY Zenon, <4>1 DEF IInv, Journal, PendingFits
      <4>3. st.pending.eff.id = e.id /\ st.pending.eff.stage = e.stage
        BY Zenon, <2>2, <4>2 DEF EffectOf
      <4> QED
        BY Zenon, <2>2, <4>1, <4>3 DEF IInv, Journal, RetainedFits
    <3> QED
      BY <2>9, <3>1 DEF PendingFits
  <2>14. RetainedFits'
    <3>1. /\ st'.record # None /\ st'.record.stage # "AdmitAuthority"
          /\ e.stage = "AdmitAuthority" => st'.record.stage # "Complete"
      BY Zenon, <2>2, <2>5, <2>6, <2>9
    <3> QED
      BY ZenonT(60), <2>2, <2>9, <3>1 DEF IInv, Journal, RetainedFits
  <2>15. PICK x : x = [drv[d] EXCEPT !.pc = "stage", !.eff = None, !.res = None]
    OBVIOUS
  <2>16. drv' = [drv EXCEPT ![d] = x]
    BY Zenon, <2>1, <2>15, StateFacts
  <2>17. x \in DriverStates
    BY Zenon, <1>2, <2>15 DEF DriverStates, Busy, InEffect
  <2>18. /\ x.pc = "stage" /\ x.mode = drv[d].mode /\ x.cmd = drv[d].cmd
         /\ x.auth = drv[d].auth /\ x.eff = None
    BY <1>2, <2>15 DEF DriverStates
  <2>19. DriverFits(x)
    BY Zenon, <1>1, <1>2, <1>3, <2>18 DEF DriverFits, InEffect
  <2>20. /\ x.pc \in {"accept", "next", "begin", "stage"} /\ x.mode # "resume"
         /\ st'.record # None /\ st'.record.cmd = x.cmd /\ x.pc # "accept" /\ x.pc # "next"
         /\ st.record # None /\ live.auth # table /\ st.record.stage = "AdmitAuthority" =>
               st'.record.stage = "AdmitAuthority"
    BY ZenonT(60), <1>3, <2>2, <2>6, <2>9, <2>10, <2>18
  <2>21. live' \in Hosts /\ Sound(live) /\ live \in Hosts
    BY <2>1, StateFacts
  <2> QED
    BY ZenonT(60), <1>1, <2>1, <2>8, <2>12, <2>13, <2>14, <2>16, <2>17, <2>18, <2>19, <2>20,
       <2>21, GoesOn
<1>4. CASE drv[d].mode # "config" /\ Goto(d, "begin") /\ drv[d].mode = "retire"
           /\ st' = st /\ live' = live /\ lock' = lock /\ sup' = sup
  <2>1. PICK x \in DriverStates :
            /\ drv' = [drv EXCEPT ![d] = x]
            /\ x.pc = "begin" /\ x.mode = drv[d].mode /\ x.cmd = drv[d].cmd
            /\ x.auth = drv[d].auth /\ x.eff = drv[d].eff /\ x.res = drv[d].res
    BY <1>4, GotoFacts DEF IInv, Busy, InEffect
  <2>2. DriverFits(x)
    BY Zenon, <1>2, <1>4, <2>1 DEF DriverFits, InEffect
  <2>3. RecordFits' /\ PendingFits' /\ RetainedFits'
    <3>1. JournalKept
      BY <1>4 DEF JournalKept
    <3> QED
      BY <1>1, <1>2, <1>4, <3>1, SameJournal DEF IInv, Journal
  <2>4. /\ x.pc \in {"accept", "next", "begin", "stage"} /\ x.mode # "resume" /\ x.mode # "config"
        /\ x.pc # "accept" /\ live \in Hosts /\ Sound(live) /\ st' \in AgentStates
        /\ st.record # None => st'.record # None
        /\ st.record # None /\ live.auth # table /\ st.record.stage = "AdmitAuthority" =>
               st'.record.stage = "AdmitAuthority"
    BY <1>4, <2>1, StateFacts
  <2> QED
    BY Zenon, <1>1, <1>4, <2>1, <2>2, <2>3, <2>4, GoesOn
<1>5. CASE Finish(d) /\ st' = st /\ live' = live /\ sup' = sup
  BY <1>1, <1>5, FinishKeeps
<1> QED
  BY Zenon, <1>3, <1>4, <1>5 DEF Advance

-----------------------------------------------------------------------------
(* Builds.                                                                  *)

(* The effects of a build are effects.                                      *)
LEMMA BuildEffects ==
  ASSUME NEW b \in Builds
  PROVE  /\ Effect(b, "BuildReplica", None) \in Effects /\ Effect(b, "RetireBuild", b) \in Effects
         /\ Effect(b, "BuildReplica", None).id = b /\ Effect(b, "RetireBuild", b).id = b
         /\ Effect(b, "BuildReplica", None).stage = "BuildReplica"
BY DEF Effect, Effects, Names, Stages, ArgumentFits, RoleStages

(* A busy driver stays where it is, or goes on without an effect, in a step *)
(* that at most drops the pending effect.                                   *)
LEMMA StaysBusy ==
  ASSUME IInv, NEW d \in Drivers, drv[d].pc \in Busy, NEW x \in DriverStates,
         drv' = [drv EXCEPT ![d] = x], DriverFits(x), x.pc \in {"next", "begin"},
         x.mode = drv[d].mode, x.mode # "config", x.mode = "resume" => x.pc \in InEffect,
         lock' = lock, sup' = sup, st' \in AgentStates, JournalKept,
         NEW h \in Hosts, live' = h, Sound(h), h.auth = live.auth, h.phase = live.phase,
         h.nWrite = "Granted" => live.nWrite = "Granted", h.rec \in {live.rec, None},
         table' = table, valid' = valid, world' = world
  PROVE  IInv'
<1>1. live.phase # "down"
  BY Zenon, BusyFacts DEF IInv, Busy, InEffect
<1>2. RecordFits' /\ PendingFits' /\ RetainedFits'
  BY Zenon, <1>1, SameJournal DEF IInv, Journal
<1>3. /\ x.pc \in {"accept", "next", "begin", "stage"} /\ x.pc # "accept"
      /\ st.record # None => st'.record # None
      /\ st.record # None /\ live.auth # table /\ st.record.stage = "AdmitAuthority" =>
             st'.record.stage = "AdmitAuthority"
  BY Zenon DEF JournalKept
<1> QED
  BY Zenon, <1>2, <1>3, GoesOn

(* A build that is cancelled or reaches its deadline.                       *)
LEMMA BuildEndsKeeps ==
  ASSUME IInv, NEW d \in Drivers, BuildEnds(d), world' = world
  PROVE  IInv'
<1>1. /\ drv[d].pc = "wait" /\ drv[d].pc \in Busy /\ drv[d].pc \in InEffect \ {"accept", "next"}
      /\ drv[d].eff.stage = "BuildReplica" /\ table' = table /\ valid' = valid
  BY DEF BuildEnds, Busy, InEffect
<1>2. CASE Return(d, TRUE) /\ st' = st
  BY Zenon, <1>1, <1>2, StateFacts, PlainReturn
<1>3. CASE /\ st' = [st EXCEPT !.pending = None] /\ live' = [live EXCEPT !.rec = None]
           /\ Goto(d, "next") /\ lock' = lock /\ sup' = sup
  <2>1. drv[d] \in DriverStates /\ DriverFits(drv[d]) /\ InHand(d) /\ drv[d].eff \in Effects
    BY Zenon, <1>1, InHandFacts
  <2>2. drv[d].mode # "config"
    <3>1. st.record # None => st.record.stage # "BuildReplica"
      BY StateFacts DEF AgentStates, Records, Stages
    <3> QED
      BY Zenon, <1>1, <2>1, <3>1 DEF InHand
  <2>3. PICK x \in DriverStates :
            /\ drv' = [drv EXCEPT ![d] = x]
            /\ x.pc = "next" /\ x.mode = drv[d].mode /\ x.cmd = drv[d].cmd
            /\ x.auth = drv[d].auth /\ x.eff = drv[d].eff /\ x.res = drv[d].res
    BY <1>3, GotoFacts DEF IInv, Busy, InEffect
  <2>4. DriverFits(x)
    BY Zenon, <1>1, <2>1, <2>2, <2>3 DEF DriverFits, InEffect
  <2>5. st' \in AgentStates /\ JournalKept
    BY <1>3, StateFacts, DropPending
  <2>6. PICK h : h = [live EXCEPT !.rec = None]
    BY Zenon
  <2>7. /\ h \in Hosts /\ live' = h /\ Sound(h) /\ h.auth = live.auth /\ h.phase = live.phase
        /\ h.nWrite = live.nWrite /\ h.rec = None
    BY <1>3, <2>6, StateFacts, ClearedFacts
  <2>8. x.pc \in {"next", "begin"} /\ x.pc \in InEffect /\ x.mode # "config"
    BY <2>2, <2>3 DEF InEffect
  <2> QED
    BY Zenon, <1>1, <1>3, <2>3, <2>4, <2>5, <2>7, <2>8, StaysBusy
<1> QED
  BY Zenon, <1>2, <1>3 DEF BuildEnds, CancelEffect

(* A build is journaled, then dispatched.                                   *)
LEMMA BeginBuildKeeps ==
  ASSUME IInv, NEW d \in Drivers, BeginBuild(d), world' = world
  PROVE  IInv'
<1>1. /\ drv[d].pc = "begin" /\ drv[d].pc \in Busy /\ drv[d].mode = "build"
      /\ table' = table /\ valid' = valid
  BY DEF BeginBuild, Busy
<1>2. drv[d] \in DriverStates /\ DriverFits(drv[d]) /\ drv[d].cmd \in Builds
  BY Zenon, <1>1, StateFacts DEF IInv, Types, DriverFits
<1>3. CASE Return(d, FALSE) /\ st' = st
  BY Zenon, <1>1, <1>3, StateFacts, PlainReturn
<1>4. CASE /\ st' = [st EXCEPT !.builds[drv[d].cmd] = "journaled"]
           /\ live' = live /\ lock' = lock /\ sup' = sup /\ drv' = drv
  <2>1. st' \in AgentStates /\ JournalKept
    BY Zenon, <1>2, <1>4, StateFacts, BuildsFacts
  <2>2. PICK x \in DriverStates : x = drv[d]
    BY <1>2
  <2>3. drv' = [drv EXCEPT ![d] = x]
    BY <1>4, <2>2, StateFacts
  <2>4. /\ DriverFits(x) /\ x.pc \in {"next", "begin"} /\ x.mode = drv[d].mode /\ x.mode # "config"
        /\ x.mode # "resume" /\ live \in Hosts /\ Sound(live)
    BY <1>1, <1>2, <2>2, StateFacts
  <2> QED
    BY Zenon, <1>1, <1>4, <2>1, <2>3, <2>4, StaysBusy
<1>5. CASE StartEffect(d, Effect(drv[d].cmd, "BuildReplica", None))
  <2>1. PICK e \in Effects : e = Effect(drv[d].cmd, "BuildReplica", None) /\ e.id \in Builds
    BY <1>2, BuildEffects
  <2>2. StartEffect(d, e)
    BY <1>5, <2>1
  <2>3. drv[d].pc \in {"stage", "begin"} /\ drv[d].mode \in {"build", "retire"}
    BY <1>1
  <2> QED
    BY Zenon, <1>1, <2>1, <2>2, <2>3, StartEffectKeeps
<1> QED
  BY Zenon, <1>3, <1>4, <1>5 DEF BeginBuild

(* settle_abandoned_build, then the RetireBuild effect.                     *)
LEMMA BeginRetireKeeps ==
  ASSUME IInv, NEW d \in Drivers, BeginRetire(d), world' = world
  PROVE  IInv'
<1> DEFINE b == drv[d].cmd
<1>1. /\ drv[d].pc = "begin" /\ drv[d].pc \in Busy /\ drv[d].mode = "retire"
      /\ table' = table /\ valid' = valid
  BY Zenon DEF BeginRetire, Busy
<1>2. drv[d] \in DriverStates /\ DriverFits(drv[d]) /\ b \in Builds /\ live.phase # "down"
  BY ZenonT(60), <1>1, StateFacts, BusyFacts DEF IInv, Types, DriverFits
<1>3. PICK e \in Effects : /\ e = Effect(b, "BuildReplica", None) /\ e.id = b
                           /\ e.stage = "BuildReplica" /\ e # None
  BY <1>2, BuildEffects, NoneAssumption
<1>4. CASE /\ st' = [st EXCEPT !.pending = None]
           /\ live' = IF live.rec # None /\ live.rec.eff = e THEN [live EXCEPT !.rec = None]
                      ELSE live
           /\ lock' = lock /\ sup' = sup /\ drv' = drv
  <2>1. st' \in AgentStates /\ JournalKept
    BY <1>4, StateFacts, DropPending
  <2>2. PICK x \in DriverStates : x = drv[d]
    BY <1>2
  <2>3. drv' = [drv EXCEPT ![d] = x]
    BY <1>4, <2>2, StateFacts
  <2>4. /\ DriverFits(x) /\ x.pc \in {"next", "begin"} /\ x.mode = drv[d].mode /\ x.mode # "config"
        /\ x.mode # "resume"
    BY <1>1, <1>2, <2>2
  <2>5. PICK h \in Hosts : /\ live' = h /\ Sound(h) /\ h.auth = live.auth /\ h.phase = live.phase
                           /\ h.nWrite = live.nWrite /\ h.rec \in {live.rec, None}
    <3>1. PICK g : g = [live EXCEPT !.rec = None]
      BY Zenon
    <3>2. /\ g \in Hosts /\ Sound(g) /\ g.auth = live.auth /\ g.phase = live.phase
          /\ g.nWrite = live.nWrite /\ g.rec = None
      BY <3>1, StateFacts, ClearedFacts
    <3>3. live' = g \/ live' = live
      BY <1>4, <3>1
    <3> QED
      BY <3>2, <3>3, StateFacts
  <2> QED
    BY ZenonT(60), <1>1, <1>4, <2>1, <2>3, <2>4, <2>5, StaysBusy
<1>5. CASE \E failed \in BOOLEAN : Return(d, failed) /\ st' = st
  BY <1>1, <1>5, StateFacts, PlainReturn
<1>6. CASE /\ PendingIs(b, {"BuildReplica"})
           /\ live' = Recorded(live, e, Outcome("BuildReplica", live))
           /\ drv' = [drv EXCEPT ![d].eff = e, ![d].pc = "mark",
                                 ![d].res = Outcome("BuildReplica", live)]
           /\ st' = st /\ lock' = lock /\ sup' = sup
  <2>1. st.pending # None /\ st.pending.eff = e
    <3>1. st.pending # None /\ st.pending.eff \in Effects /\ st.pending.eff.id = b
          /\ st.pending.eff.stage = "BuildReplica"
      BY Zenon, <1>6, StateFacts DEF PendingIs, AgentStates, Pendings
    <3>2. st.pending.eff = Effect(b, "BuildReplica", None)
      BY Zenon, <3>1 DEF Effect, Effects, ArgumentFits
    <3> QED
      BY Zenon, <1>3, <3>1, <3>2
  <2>2. PICK r \in Results : r = Outcome("BuildReplica", live)
    BY StateFacts, OutcomeFacts DEF Stages
  <2>3. ResultFits(e, r)
    BY Zenon, <1>3 DEF ResultFits
  <2>4. PICK o \in Outcomes : o = [eff |-> e, res |-> r] /\ o.eff = e
    <3>1. PICK o : o = [eff |-> e, res |-> r]
      BY Zenon
    <3>2. o \in [eff : Effects, res : Results] /\ o.eff = e /\ o.res = r
      BY <3>1
    <3> QED
      BY <2>3, <3>1, <3>2 DEF Outcomes
  <2>5. live' = [live EXCEPT !.rec = o]
    BY <1>6, <2>2, <2>4 DEF Recorded
  <2>6. live' \in Hosts
    BY <2>5, StateFacts DEF Hosts
  <2>7. /\ live'.auth = live.auth /\ live'.phase = live.phase /\ live'.nWrite = live.nWrite
        /\ live'.rec = o /\ live'.nEpoch = live.nEpoch /\ live'.trans = live.trans
        /\ live'.role = live.role /\ live'.nRole = live.nRole
    BY <2>5, StateFacts DEF Hosts
  <2>8. Sound(live')
    BY Zenon, <2>7, StateFacts DEF Sound
  <2>9. PICK x : x = [drv[d] EXCEPT !.eff = e, !.pc = "mark", !.res = r]
    OBVIOUS
  <2>10. drv' = [drv EXCEPT ![d] = x]
    BY Zenon, <1>6, <2>2, <2>9, StateFacts
  <2>11. x \in DriverStates
    BY Zenon, <1>2, <2>9 DEF DriverStates, Busy, InEffect
  <2>12. /\ x.pc = "mark" /\ x.mode = drv[d].mode /\ x.cmd = drv[d].cmd
         /\ x.auth = drv[d].auth /\ x.eff = e /\ x.res = r
    BY <1>2, <2>9 DEF DriverStates
  <2>13. DriverFits(x)
    BY ZenonT(60), <1>1, <1>2, <1>3, <2>3, <2>12 DEF DriverFits, InEffect
  <2>14. /\ x.pc \in Busy /\ x.mode # "resume" /\ st' \in AgentStates
         /\ table' \in Authorities \cup {None} /\ valid' \in BOOLEAN
    BY Zenon, <1>1, <1>6, <2>12, StateFacts DEF Busy, InEffect
  <2>15. /\ Types' /\ Exclusive' /\ drv'[d] = x
         /\ \A y \in Drivers \ {d} : drv'[y].pc # "publish" /\ InHand(y)'
    BY ZenonT(60), <1>1, <1>6, <2>6, <2>7, <2>10, <2>11, <2>12, <2>13, <2>14, BusyStep
  <2>16. InHand(d)'
    BY ZenonT(60), <1>1, <1>3, <1>6, <2>1, <2>12, <2>15 DEF InHand
  <2>17. RecordFits' /\ PendingFits' /\ RetainedFits'
    <3>1. JournalKept
      BY <1>6 DEF JournalKept
    <3> QED
      BY Zenon, <1>1, <1>2, <2>7, <3>1, SameJournal DEF IInv, Journal
  <2>18. HostFits'
    <3>1. /\ live'.nWrite = "Granted" => live'.auth = table'
          /\ live'.phase # "down" /\ live'.auth # table' =>
               st'.record # None /\ st'.record.stage = "AdmitAuthority"
          /\ ~(live'.rec # None /\ live'.rec.eff.stage = "AdmitAuthority")
      BY ZenonT(60), <1>1, <1>2, <1>3, <1>6, <2>4, <2>7 DEF IInv, HostFits
    <3>2. drv'[d].pc # "publish"
      BY <2>12, <2>15
    <3> QED
      BY Zenon, <2>8, <2>15, <3>1, <3>2, HostStep
  <2>19. \A y \in Drivers : InHand(y)'
    BY <2>15, <2>16
  <2> QED
    BY <2>15, <2>17, <2>18, <2>19 DEF IInv, Journal
<1>7. CASE Finish(d) /\ st' = st /\ live' = live /\ sup' = sup
  BY <1>1, <1>7, FinishKeeps
<1>8. CASE StartEffect(d, Effect(b, "RetireBuild", b))
  <2>1. PICK f \in Effects : f = Effect(b, "RetireBuild", b) /\ f.id \in Builds
    BY <1>2, BuildEffects
  <2>2. StartEffect(d, f)
    BY <1>8, <2>1
  <2>3. drv[d].pc \in {"stage", "begin"} /\ drv[d].mode \in {"build", "retire"}
    BY <1>1
  <2> QED
    BY Zenon, <1>1, <2>1, <2>2, <2>3, StartEffectKeeps
<1> QED
  BY Zenon, <1>3, <1>4, <1>5, <1>6, <1>7, <1>8
     DEF BeginRetire, CancelEffect, Discarded, ConsumedBuild

-----------------------------------------------------------------------------
(* The inductive invariant.                                                 *)

LEMMA DriverStepKeeps ==
  ASSUME IInv, NEW d \in Drivers, DriverStep(d) \/ StoreFails(d), world' = world
  PROVE  IInv'
<1>1. CASE CancelGenerations(d) \/ CancelNative(d) \/ CancelBuild(d)
  BY <1>1, CancelKeeps
<1>2. CASE Acquire(d)
  BY <1>2, AcquireKeeps
<1>3. CASE Begin(d)
  BY <1>3, BeginKeeps
<1>4. CASE Stage(d)
  BY <1>4, StageKeeps
<1>5. CASE Prepare(d)
  BY <1>5, PrepareKeeps
<1>6. CASE Publish(d)
  BY <1>6, PublishKeeps
<1>7. CASE Install(d)
  BY <1>7, InstallKeeps
<1>8. CASE WaitCatchUp(d) \/ BuildCompletes(d)
  BY <1>8, WaitKeeps
<1>9. CASE Mark(d)
  BY <1>9, MarkKeeps
<1>10. CASE Complete(d)
  BY <1>10, CompleteKeeps
<1>11. CASE Accept(d)
  BY <1>11, AcceptKeeps
<1>12. CASE Advance(d)
  BY <1>12, AdvanceKeeps
<1>13. CASE BeginBuild(d)
  BY <1>13, BeginBuildKeeps
<1>14. CASE BuildEnds(d)
  BY <1>14, BuildEndsKeeps
<1>15. CASE BeginRetire(d)
  BY <1>15, BeginRetireKeeps
<1>16. CASE Resume(d)
  BY <1>16, ResumeKeeps
<1>17. CASE Ready(d)
  BY <1>17, ReadyKeeps
<1>18. CASE StoreFails(d)
  BY <1>18, StoreFailsKeeps
<1> QED
  BY ZenonT(60), <1>1, <1>2, <1>3, <1>4, <1>5, <1>6, <1>7, <1>8, <1>9, <1>10, <1>11, <1>12,
     <1>13, <1>14,
     <1>15, <1>16, <1>17, <1>18 DEF DriverStep

LEMMA NextKeeps ==
  ASSUME IInv, [Next]_vars
  PROVE  IInv'
<1>1. CASE UNCHANGED vars
  BY <1>1, StutterKeeps
<1>2. CASE Next
  <2>1. world' = world /\ world \in Worlds /\ world.builds \subseteq Builds
    BY Zenon, <1>2, StateFacts, WorldAssumption DEF Next
  <2>2. CASE \E d \in Rpc, c \in world.commands : Receive(d, c)
    BY <2>1, <2>2, ReceiveKeeps
  <2>3. CASE \E d \in Rpc, b \in world.builds : ReceiveBuild(d, b)
    BY <2>1, <2>3, ReceiveBuildKeeps
  <2>4. CASE \E d \in Rpc, b \in world.builds : ReceiveRetire(d, b)
    BY <2>1, <2>4, ReceiveRetireKeeps
  <2>5. CASE \E d \in Drivers : DriverStep(d) \/ StoreFails(d)
    BY <2>1, <2>5, DriverStepKeeps
  <2>6. CASE CatchUp
    BY <2>1, <2>6, CatchUpKeeps
  <2>7. CASE Reconcile
    BY <2>1, <2>7, ReconcileKeeps
  <2>8. CASE Crash
    BY <2>1, <2>8, CrashKeeps
  <2>9. CASE Restart
    BY <2>1, <2>9, RestartKeeps
  <2> QED
    BY <1>2, <2>2, <2>3, <2>4, <2>5, <2>6, <2>7, <2>8, <2>9 DEF Next
<1> QED
  BY <1>1, <1>2

LEMMA Invariance == Spec => []IInv
<1>1. IInv /\ [Next]_vars => IInv'
  BY NextKeeps
<1> QED
  BY <1>1, InitHolds, PTL DEF Spec

(* Whatever stage a command is in, whoever cancels it and whatever crashed, *)
(* the engine accepts writes only as the installed primary of the authority *)
(* in the durable table (custom.rs reserve_access_projection,               *)
(* install_managed_authority, fence_writes).                                *)
THEOREM WritesNeedTheInstalledPrimary == Spec => []WritesOnlyAsInstalledPrimary
<1>1. IInv => WritesOnlyAsInstalledPrimary
  BY Zenon DEF IInv, HostFits, Sound, WritesOnlyAsInstalledPrimary
<1> QED
  BY <1>1, Invariance, PTL

(* A command reported as finished left its configurations and its role in   *)
(* the durable state (coordinator.rs drive_configuration).                  *)
THEOREM FinishedCommandsAreInstalled == Spec => []FinishedMeansInstalled
<1>1. IInv => FinishedMeansInstalled
  BY DEF IInv, Journal, RecordFits, FinishedMeansInstalled
<1> QED
  BY <1>1, Invariance, PTL

(* The effect pending in the journal is a build's or the one of the stage   *)
(* the command on record is in, through supersession, retry, cancellation   *)
(* and restart (sqlite_store.rs begin_configuration, begin_effect).         *)
THEOREM PendingEffectsAreOwned == Spec => []JournalOwned
<1>1. IInv => JournalOwned
  BY Zenon DEF IInv, Journal, PendingFits, EffectOf, JournalOwned
<1> QED
  BY <1>1, Invariance, PTL

-----------------------------------------------------------------------------
(* The refinement of ConfigurationAgent.                                    *)

LEMMA StartEffectFrame ==
  ASSUME IInv, NEW d \in Drivers, NEW e, StartEffect(d, e)
  PROVE  st'.done = st.done
<1>1. st \in AgentStates
  BY StateFacts
<1>2. \/ st' = st
      \/ st' = [st EXCEPT !.pending = [eff |-> e, stage |-> "Intent", res |-> None]]
  BY Zenon DEF StartEffect
<1> QED
  BY <1>1, <1>2 DEF AgentStates

(* No step but a stage step finishes a command, and none but the            *)
(* preparation of an AdmitAuthority effect touches the table.               *)
LEMMA Frame ==
  ASSUME IInv, Next
  PROVE  \/ table' = table /\ st'.done = st.done
         \/ \E d \in Drivers : Prepare(d) /\ drv[d].eff.stage = "AdmitAuthority" /\ st' = st
         \/ \E d \in Drivers : Stage(d) /\ st.record # None /\ st.record.stage = "Complete"
<1>1. st \in AgentStates
  BY StateFacts
<1>2. CASE \E d \in Rpc, c \in world.commands : Receive(d, c)
  BY <1>2 DEF Receive
<1>3. CASE \E d \in Rpc, b \in world.builds : ReceiveBuild(d, b) \/ ReceiveRetire(d, b)
  BY Zenon, <1>1, <1>3 DEF ReceiveBuild, ReceiveRetire, AgentStates
<1>4. CASE CatchUp \/ Reconcile \/ Crash \/ Restart
  BY Zenon, <1>4 DEF CatchUp, Reconcile, Crash, Restart
<1>5. ASSUME NEW d \in Drivers, DriverStep(d) \/ StoreFails(d)
      PROVE  \/ table' = table /\ st'.done = st.done
             \/ Prepare(d) /\ drv[d].eff.stage = "AdmitAuthority" /\ st' = st
             \/ Stage(d) /\ st.record # None /\ st.record.stage = "Complete"
  <2>1. CASE \/ CancelGenerations(d) \/ CancelNative(d) \/ Acquire(d) \/ Accept(d)
             \/ CancelBuild(d) \/ Resume(d) \/ Ready(d) \/ StoreFails(d)
    BY Zenon, <2>1 DEF CancelGenerations, CancelNative, Acquire, Accept, CancelBuild, Resume, Ready,
                StoreFails
  <2>2. CASE Begin(d)
    <3>1. table' = table /\ (st' = st \/ st' = BeginConfiguration(st, drv[d].cmd))
      BY Zenon, <2>2 DEF Begin
    <3> QED
      BY Zenon, <1>1, <3>1 DEF BeginConfiguration, AgentStates
  <2>3. CASE Stage(d)
    <3>1. table' = table
      BY <2>3 DEF Stage
    <3>2. CASE st' = st
      BY <3>1, <3>2
    <3>3. CASE st.record # None /\ st.record.stage = "Complete"
      BY <2>3, <3>3
    <3>4. CASE StartEffect(d, StageEffect(d, st.record))
      BY <3>1, <3>4, StartEffectFrame
    <3> QED
      BY Zenon, <2>3, <3>2, <3>3, <3>4 DEF Stage
  <2>4. CASE Prepare(d)
    <3>1. st' = st
      BY Zenon, <2>4 DEF Prepare, Prepared
    <3>2. drv[d].eff.stage # "AdmitAuthority" => table' = table
      BY Zenon, <2>4 DEF Prepare, Prepared, AccessStages
    <3> QED
      BY <2>4, <3>1, <3>2
  <2>5. CASE Publish(d)
    <3>1. table' = table /\ (\/ st' = st
                             \/ st' = [st EXCEPT !.pending = IF @.stage = "Intent" THEN None ELSE @])
      BY Zenon, <2>5 DEF Publish, Prepared
    <3> QED
      BY <1>1, <3>1 DEF AgentStates
  <2>6. CASE Install(d) \/ WaitCatchUp(d) \/ BuildCompletes(d) \/ BuildEnds(d)
    <3>1. table' = table /\ (st' = st \/ st' = [st EXCEPT !.pending = None])
      BY Zenon, <2>6 DEF Install, WaitCatchUp, BuildCompletes, ObserveBuildCompletion,
                           BuildEnds, CancelEffect, Prepared
    <3> QED
      BY <1>1, <3>1 DEF AgentStates
  <2>7. CASE Mark(d)
    <3>1. table' = table /\ (st' = st \/ st' = Applied(st, drv[d].eff, drv[d].res))
      BY Zenon, <2>7 DEF Mark
    <3> QED
      BY <1>1, <3>1 DEF Applied, AgentStates
  <2>8. CASE Complete(d)
    <3>1. /\ table' = table /\ drv[d].pc = "complete"
          /\ st' = st \/ st' = CompleteEffect(st, drv[d].eff, drv[d].res)
      BY Zenon, <2>8 DEF Complete
    <3>2. drv[d].pc \in InEffect \ {"accept", "next"}
      BY <3>1 DEF InEffect
    <3>3. drv[d].eff \in Effects /\ DriverFits(drv[d])
      BY Zenon, <3>2, InHandFacts
    <3>4. ResultFits(drv[d].eff, drv[d].res)
      BY Zenon, <3>1, <3>3 DEF DriverFits
    <3> QED
      BY <1>1, <3>1, <3>3, <3>4, CompleteEffectFacts
  <2>9. CASE Advance(d)
    <3>1. table' = table /\ (\/ st' = st
                             \/ st' = [st EXCEPT !.record = [st.record EXCEPT !.stage =
                                  NextStage(st.record.cmd, drv[d].auth, st.record.stage, st)]])
      BY Zenon, <2>9 DEF Advance, AdvanceConfiguration
    <3> QED
      BY <1>1, <3>1 DEF AgentStates
  <2>10. CASE BeginBuild(d)
    <3>1. /\ table' = table
          /\ \/ st' = st
             \/ st' = [st EXCEPT !.builds[drv[d].cmd] = "journaled"]
             \/ StartEffect(d, Effect(drv[d].cmd, "BuildReplica", None))
      BY Zenon, <2>10 DEF BeginBuild
    <3> QED
      BY <1>1, <3>1, StartEffectFrame DEF AgentStates
  <2>11. CASE BeginRetire(d)
    <3>1. /\ table' = table
          /\ \/ st' = st
             \/ st' = [st EXCEPT !.pending = None]
             \/ StartEffect(d, Effect(drv[d].cmd, "RetireBuild", drv[d].cmd))
      BY Zenon, <2>11 DEF BeginRetire, CancelEffect
    <3> QED
      BY <1>1, <3>1, StartEffectFrame DEF AgentStates
  <2> QED
    BY ZenonT(60), <1>5, <2>1, <2>2, <2>3, <2>4, <2>5, <2>6, <2>7, <2>8, <2>9, <2>10,
       <2>11 DEF DriverStep
<1> QED
  BY Zenon, <1>2, <1>3, <1>4, <1>5 DEF Next

(* What the engine's write status tells of the abstract one.                *)
Granted == IF live.nWrite = "Granted" THEN AuthEpoch(live.auth) ELSE 0

LEMMA InitImplements == Init => Agent!AgentInit
<1>1. SUFFICES ASSUME Init PROVE Agent!AgentInit
  OBVIOUS
<1>2. PICK w \in Worlds : table = StartTable(w.start) /\ live = DownHost /\ st.done = None
  BY <1>1 DEF Init
<1>3. live.nWrite # "Granted"
  BY <1>2 DEF DownHost
<1> QED
  BY <1>2, <1>3 DEF Agent!AgentInit, StartAuthorities

(* A step that leaves the table and the last finished command alone.        *)
LEMMA AccessStep ==
  ASSUME IInv', table' = table, st'.done = st.done
  PROVE  Agent!AgentNext
<1>1. CASE live'.nWrite = "Granted"
  <2>1. live'.auth = table' /\ LocalRole(live'.auth) = "Primary"
    BY <1>1 DEF IInv, HostFits, Sound
  <2>2. table # None /\ table.cur.role = "Primary"
    BY <2>1 DEF LocalRole
  <2>3. Granted' = table.cur.epoch
    BY <1>1, <2>1, <2>2 DEF Granted, AuthEpoch
  <2>4. Agent!Grant
    BY <2>2, <2>3 DEF Agent!Grant, Agent!Number, Granted
  <2> QED
    BY <2>4 DEF Agent!AgentNext
<1>2. CASE live'.nWrite # "Granted"
  <2>1. Agent!Close
    BY <1>2 DEF Agent!Close
  <2> QED
    BY <2>1 DEF Agent!AgentNext
<1> QED
  BY <1>1, <1>2

(* The authority of an AdmitAuthority effect is in the table.               *)
LEMMA AdmitStep ==
  ASSUME IInv, IInv', NEW d \in Drivers, Prepare(d), drv[d].eff.stage = "AdmitAuthority",
         st' = st, table' # table
  PROVE  Agent!AgentNext
<1> DEFINE a == drv[d].eff.arg
           c == st.record.cmd
<1>1. drv[d].pc = "prepare" /\ drv[d].pc \in InEffect \ {"accept", "next"}
  BY Zenon DEF Prepare, InEffect
<1>2. /\ drv[d].eff \in Effects /\ st.record # None /\ EffectOf(drv[d].eff, c)
      /\ c \in AllCommands /\ a \in Authorities /\ a # None
  BY <1>1, InHandFacts, StateFacts, EffectFacts, NoneAssumption DEF AgentStates, Records
<1>3. /\ table' = a /\ TableAdmits(a)
      /\ live' = IF live.auth = a THEN live ELSE Fenced(live)
  BY Zenon DEF Prepare
<1>4. a \in CommandAuthorities
  <2>1. /\ a.cur = c.cur /\ a.prev = c.prev /\ a.kind \in {c.kind, None}
    BY Zenon, <1>2 DEF EffectOf
  <2>2. a = Authority(c.prev, c.cur, a.kind)
    BY Zenon, <1>2, <2>1 DEF Authority, Authorities
  <2> QED
    BY <1>2, <2>1, <2>2 DEF CommandAuthorities
<1>5. live'.nWrite # "Granted"
  <2>1. CASE live' = Fenced(live)
    BY <2>1, StateFacts, FencedFacts
  <2>2. CASE live.auth = a /\ live' = live
    BY Zenon, <1>3, <2>2 DEF IInv, HostFits
  <2> QED
    BY Zenon, <1>3, <2>1, <2>2
<1>6. Agent!Follows(a, table)
  BY Zenon, <1>2, <1>3 DEF TableAdmits, AuthEpoch, Agent!Follows, Agent!Number
<1>7. Agent!Admit(a)
  BY Zenon, <1>3, <1>5, <1>6 DEF Agent!Admit
<1> QED
  BY <1>4, <1>7 DEF Agent!AgentNext

(* A command is reported as finished.                                       *)
LEMMA FinishStep ==
  ASSUME IInv, NEW d \in Drivers, Stage(d), st.record # None, st.record.stage = "Complete",
         st'.done # st.done
  PROVE  Agent!AgentNext
<1> DEFINE c == st.record.cmd
<1>1. /\ st' = [st EXCEPT !.record = None, !.done = c] /\ Return(d, FALSE) /\ table' = table
  BY Zenon DEF Stage
<1>2. live' = live
  BY <1>1 DEF Return
<1>3. st'.done = c /\ c \in AllCommands
  BY <1>1, StateFacts DEF AgentStates, Records
<1>4. table # None /\ c.cur = table.cur
  BY Zenon DEF IInv, Journal, RecordFits
<1>5. st.done # None => st.done.cur.epoch <= c.cur.epoch
  <2>1. /\ c.cur.epoch >= st.highest /\ c.cur.epoch \in Nat /\ st.highest \in Nat
        /\ st.done # None => st.done.cur.epoch <= st.highest /\ st.done.cur.epoch \in Nat
    BY Zenon, <1>3, StateFacts, CommandFacts DEF IInv, Journal, RecordFits, AgentStates
  <2> QED
    BY <2>1
<1>6. Agent!Finish(c)
  BY <1>1, <1>2, <1>3, <1>4, <1>5 DEF Agent!Finish
<1> QED
  BY <1>3, <1>6 DEF Agent!AgentNext

LEMMA StepImplements ==
  ASSUME IInv, IInv', [Next]_vars
  PROVE  [Agent!AgentNext]_(Agent!agentVars)
<1>1. CASE UNCHANGED vars
  BY <1>1 DEF vars, Agent!agentVars
<1>2. CASE table' = table /\ st'.done = st.done
  BY <1>2, AccessStep
<1>3. CASE Next /\ ~(table' = table /\ st'.done = st.done)
  <2>1. CASE \E d \in Drivers : Prepare(d) /\ drv[d].eff.stage = "AdmitAuthority" /\ st' = st
    BY <1>3, <2>1, AdmitStep
  <2>2. CASE \E d \in Drivers : Stage(d) /\ st.record # None /\ st.record.stage = "Complete"
    <3>1. table' = table
      BY <2>2 DEF Stage
    <3> QED
      BY <1>3, <2>2, <3>1, FinishStep
  <2> QED
    BY <1>3, <2>1, <2>2, Frame
<1> QED
  BY <1>1, <1>2, <1>3

(* The agent, with its journal, its stages, its crashes and its concurrent  *)
(* commands, implements ConfigurationAgent: the authority only moves        *)
(* forward, it is replaced with writes closed, writes are granted to its    *)
(* primary, and a command finishes under the authority it asked for         *)
(* (coordinator.rs drive_configuration, sqlite_store.rs admit, custom.rs).  *)
THEOREM ImplementsTheAgent == Spec => Implements
<1>1. IInv /\ IInv' /\ [Next]_vars => [Agent!AgentNext]_(Agent!agentVars)
  BY StepImplements
<1> QED
  BY <1>1, Invariance, InitImplements, PTL DEF Spec, Implements, Agent!AgentSpec

=============================================================================
