----------------------- MODULE DurableExecutionFacts ------------------------
(***************************************************************************)
(* The inductive invariant of DurableExecution, what its operators return, *)
(* and the kinds of step its actions are made of: a host that only changes *)
(* what it holds, a swap of the stored checkpoint, and the proposals of    *)
(* exposure and progress.                                                  *)
(***************************************************************************)
EXTENDS DurableExecution, FiniteSetTheorems, FunctionTheorems, SequenceTheorems, TLAPS

(***************************************************************************)
(* The inductive invariant.  A checkpoint changes only by a swap whose     *)
(* proposal was made against the revision that is still stored, so what a  *)
(* proposal needs to be harmless is required of it only while it is        *)
(* current.  LiveAttempts are the attempts that the external system has    *)
(* taken or that somebody can still make it take.                          *)
(***************************************************************************)

Outs == {None, "ok", "failed", "noAdmission", "retryable", "wait"}

LedgerEntries == [id : Nat, st : {"exposed", "noAdmission", "observed"}]

Ledgers == Seq(LedgerEntries)

ActivityRecords ==
    [st : {"scheduled", "exposed", "completed"}, att : Nat, ord : Nat,
     ledger : Ledgers, res : Results]

Checkpoints ==
    [rev : Nat, hist : Seq(ActivityRecords), outcome : {None} \cup [1..Steps -> Results]]

PlainJobs ==
    [pc : {"idle", "permit", "invoking", "report", "resolve", "quarantined", "panicked"},
     act : Nat, att : Nat, ord : Nat, out : Outs, prop : {None}]

Proposals == [rev : Nat, ck : Checkpoints, next : PlainJobs, back : PlainJobs]

Swapping ==
    [pc : {"cas"}, act : {0}, att : {0}, ord : {0}, out : {None}, prop : Proposals]

Jobs == PlainJobs \cup Swapping

(* The shape of the state.                                                  *)
Types ==
    /\ world \in Worlds
    /\ store \in Checkpoints
    /\ job \in [Host -> Jobs]
    /\ exposed \subseteq Nat \X Nat /\ IsFiniteSet(exposed)
    /\ started \subseteq Nat \X Nat /\ IsFiniteSet(started)
    /\ sent \subseteq Nat \X Nat
    /\ admitted \subseteq Nat \X Nat
    /\ waits \in Nat

LiveAttempts ==
    sent \cup admitted \cup {Attempt(h) : h \in {g \in Host : job[g].pc = "permit"}}

ExposedOf(n) == {p \in exposed : p[1] = n}

(* The exposures that the final record n may have had: a strict record      *)
(* lists them in its ledger and has none alive while it is scheduled; an    *)
(* ordinary one has counted them in its ordinal, waits (w) apart.           *)
FinalFits(n, r, w) ==
    /\ n \in Strict =>
          /\ \A p \in ExposedOf(n) : \E k \in DOMAIN r.ledger : r.ledger[k].id = p[2]
          /\ r.st = "scheduled" => \A p \in LiveAttempts : p[1] # n
          /\ r.st = "exposed" =>
                r.ledger # <<>> /\ r.ledger[Len(r.ledger)].id = r.att
    /\ n \notin Strict =>
          /\ r.ord <= MaxAttempts
          /\ Cardinality(ExposedOf(n)) <= (IF r.st = "scheduled" THEN r.ord - 1 ELSE r.ord) + w

(* The stored checkpoint knows every exposure while the execution runs.     *)
StoreFits ==
    /\ store.outcome # None => store.hist = <<>>
    /\ store.outcome = None => \A p \in exposed : p[1] <= Len(store.hist)
    /\ store.hist # <<>> => FinalFits(Len(store.hist), Final(store.hist), waits)

(* What a replay has been shown, the checkpoint ck shows again.             *)
Keeps(ck) ==
    \A i \in DOMAIN store.hist : store.hist[i].st = "completed" =>
        IF ck.outcome # None
        THEN ck.outcome[i] = store.hist[i].res
        ELSE ck.hist[i] = store.hist[i]

WaitsWith(back) == IF back.out = "wait" THEN waits + 1 ELSE waits

(* ck exposes, under an attempt nobody has used, a record that was          *)
(* scheduled.                                                               *)
Exposes(ck, back) ==
    /\ \A p \in exposed : p[2] # Final(ck.hist).att
    /\ \E r \in ActivityRecords :
          /\ r.st = "scheduled"
          /\ FinalFits(Len(ck.hist), r, WaitsWith(back))
          /\ Final(ck.hist) = Expose(Len(ck.hist), r, Final(ck.hist).att)

PermitFor(ck) ==
    [Idle EXCEPT !.pc = "permit", !.act = Len(ck.hist), !.att = Final(ck.hist).att]

(* A proposal against the stored revision leads to a sound checkpoint.      *)
CurrentFits(p) ==
    /\ store.outcome = None
    /\ Keeps(p.ck)
    /\ IF p.ck.outcome # None
       THEN p.ck.hist = <<>> /\ p.next = Idle
       ELSE /\ p.ck.hist # <<>>
            /\ Len(p.ck.hist) >= Len(store.hist)
            /\ IF Final(p.ck.hist).st = "exposed"
               THEN Exposes(p.ck, p.back) /\ p.next = PermitFor(p.ck)
               ELSE /\ p.next = Idle
                    /\ FinalFits(Len(p.ck.hist), Final(p.ck.hist), WaitsWith(p.back))

(* A host works only on exposed attempts, its permit has not been used, and *)
(* its evidence that a strict attempt was not admitted is final.            *)
JobFits(j) ==
    /\ j.pc \in {"permit", "invoking"} => <<j.act, j.att>> \in exposed
    /\ j.pc = "permit" => <<j.act, j.att>> \notin sent \cup admitted
    /\ j.pc = "resolve" => j.act \in Strict
    /\ j.pc = "report" /\ j.act \in Strict =>
          /\ <<j.act, j.att>> \in exposed
          /\ j.out = "noAdmission" => <<j.act, j.att>> \notin LiveAttempts

ProposalFits(p) ==
    /\ p.rev <= store.rev
    /\ p.back.pc \in {"idle", "report", "resolve"}
    /\ JobFits(p.back)
    /\ p.rev = store.rev => CurrentFits(p)

HostFits(j) == IF j.pc = "cas" THEN ProposalFits(j.prop) ELSE JobFits(j)

(* A permit has one holder.                                                 *)
PermitsAreUnique ==
    \A g, h \in Host :
        job[g].pc = "permit" /\ job[h].pc = "permit" /\ Attempt(g) = Attempt(h) => g = h

(* At most one attempt of a strict effect is alive.                         *)
OneLiveAttempt ==
    /\ \A p \in sent \cup admitted : p[1] \in Strict
    /\ \A p, q \in LiveAttempts : p[1] \in Strict /\ p[1] = q[1] => p = q

IInv ==
    /\ Types
    /\ StoreFits
    /\ \A h \in Host : HostFits(job[h])
    /\ PermitsAreUnique
    /\ OneLiveAttempt
    /\ StartedIsExposed
    /\ AttemptsAreBounded

-----------------------------------------------------------------------------
(* Facts about checkpoints, jobs and fresh attempts.                        *)

(* The parts of a world that the arithmetic needs.                          *)
LEMMA WorldFacts ==
    ASSUME Types
    PROVE  /\ Steps \in Nat /\ Strict \subseteq Nat /\ MaxAttempts \in Nat
           /\ MaxAttempts >= 1 /\ None \notin [1..Steps -> Results]
BY WorldAssumption DEF Types, Steps, Strict, MaxAttempts

(* The final record of a history that has one.                              *)
LEMMA FinalFacts ==
    ASSUME NEW hist \in Seq(ActivityRecords), hist # <<>>
    PROVE  /\ Len(hist) \in Nat /\ Len(hist) >= 1
           /\ Len(hist) \in DOMAIN hist
           /\ Final(hist) \in ActivityRecords
BY DEF Final

(* WithFinal replaces the final record of a checkpoint and nothing else.    *)
LEMMA WithFinalFacts ==
    ASSUME NEW ck \in Checkpoints, ck.hist # <<>>, NEW r \in ActivityRecords
    PROVE  /\ WithFinal(ck, r) \in Checkpoints
           /\ WithFinal(ck, r).outcome = ck.outcome
           /\ WithFinal(ck, r).hist # <<>>
           /\ Len(WithFinal(ck, r).hist) = Len(ck.hist)
           /\ Final(WithFinal(ck, r).hist) = r
           /\ \A i \in DOMAIN ck.hist :
                 i # Len(ck.hist) => WithFinal(ck, r).hist[i] = ck.hist[i]
<1> DEFINE hist == [ck.hist EXCEPT ![Len(ck.hist)] = r]
<1>1. ck.hist \in Seq(ActivityRecords)
  BY DEF Checkpoints
<1>2. Len(ck.hist) \in Nat /\ Len(ck.hist) >= 1 /\ DOMAIN ck.hist = 1..Len(ck.hist)
  BY <1>1
<1>3. hist \in Seq(ActivityRecords) /\ Len(hist) = Len(ck.hist)
  BY <1>1, <1>2, ExceptSeq
<1>4. hist[Len(hist)] = r /\ \A i \in DOMAIN ck.hist : i # Len(ck.hist) => hist[i] = ck.hist[i]
  BY <1>1, <1>2, <1>3
<1>5. WithFinal(ck, r) = [ck EXCEPT !.hist = hist]
  BY DEF WithFinal
<1>6. WithFinal(ck, r) \in Checkpoints /\ WithFinal(ck, r).outcome = ck.outcome
      /\ WithFinal(ck, r).hist = hist
  BY Zenon, <1>3, <1>5 DEF Checkpoints
<1> QED
  BY <1>2, <1>3, <1>4, <1>6 DEF Final

(* Appending a scheduled activity to a checkpoint.                          *)
LEMMA AppendFacts ==
    ASSUME NEW ck \in Checkpoints
    PROVE  LET next == [ck EXCEPT !.hist = Append(@, Scheduled)]
           IN  /\ next \in Checkpoints
               /\ next.outcome = ck.outcome
               /\ next.hist # <<>>
               /\ Len(next.hist) = Len(ck.hist) + 1
               /\ Final(next.hist) = Scheduled
               /\ \A i \in DOMAIN ck.hist : next.hist[i] = ck.hist[i]
<1> DEFINE next == [ck EXCEPT !.hist = Append(@, Scheduled)]
<1>1. ck.hist \in Seq(ActivityRecords)
  BY DEF Checkpoints
<1>2. Scheduled \in ActivityRecords
  BY DEF Scheduled, ActivityRecords, Ledgers, Results
<1>3. Append(ck.hist, Scheduled) \in Seq(ActivityRecords)
      /\ Len(Append(ck.hist, Scheduled)) = Len(ck.hist) + 1
      /\ Append(ck.hist, Scheduled)[Len(ck.hist) + 1] = Scheduled
      /\ \A i \in DOMAIN ck.hist : Append(ck.hist, Scheduled)[i] = ck.hist[i]
  BY <1>1, <1>2, AppendProperties
<1>4. next \in Checkpoints /\ next.outcome = ck.outcome
      /\ next.hist = Append(ck.hist, Scheduled)
  BY SMTT(60), <1>3 DEF Checkpoints
<1>5. Len(ck.hist) \in Nat
  BY <1>1
<1> QED
  BY <1>3, <1>4, <1>5 DEF Final

(* Every image of a finite set under a function is finite.                  *)
LEMMA FiniteImage ==
    ASSUME NEW S, IsFiniteSet(S), NEW f, DOMAIN f = S
    PROVE  IsFiniteSet({f[x] : x \in S})
<1> DEFINE g == [x \in S |-> f[x]]
           T == {f[x] : x \in S}
<1>1. g \in Surjection(S, T)
  BY DEF Surjection
<1> QED
  BY <1>1, FS_Surjection

(* The ids the state mentions are finitely many.                            *)
LEMMA InUseFinite == ASSUME Types PROVE IsFiniteSet(InUse)
<1> DEFINE A == exposed \cup started
           B == {g \in Host : job[g].prop # None /\ job[g].prop.ck.hist # <<>>}
           fa == [p \in A |-> p[2]]
           fj == [h \in Host |-> job[h].att]
           fp == [h \in B |-> Final(job[h].prop.ck.hist).att]
<1>1. IsFiniteSet({fa[p] : p \in A})
  <2>1. IsFiniteSet(A)
    BY Zenon, FS_Union DEF Types
  <2> HIDE DEF A
  <2> QED
    BY Zenon, <2>1, FiniteImage
<1>2. IsFiniteSet({fj[h] : h \in Host})
  BY Zenon, HostAssumption, FiniteImage
<1>3. IsFiniteSet({fp[h] : h \in B})
  <2>1. IsFiniteSet(B)
    BY HostAssumption, FS_Subset
  <2> HIDE DEF B
  <2> QED
    BY Zenon, <2>1, FiniteImage
<1>4. InUse = {fa[p] : p \in A} \cup {fj[h] : h \in Host} \cup {fp[h] : h \in B}
  BY Zenon DEF InUse
<1> HIDE DEF fa, fj, fp, A, B
<1> QED
  BY Zenon, <1>1, <1>2, <1>3, <1>4, FS_Union

(* A fresh attempt exists, and the state mentions it nowhere.               *)
LEMMA FreshAttemptFacts ==
    ASSUME Types
    PROVE  FreshAttempt \in Nat /\ FreshAttempt \notin InUse
<1> DEFINE n == Cardinality(InUse) + 1
<1>1. IsFiniteSet(InUse) /\ Cardinality(InUse) \in Nat
  BY InUseFinite, FS_CardinalityType
<1>2. \E a \in 1..n : a \notin InUse
  <2> SUFFICES ASSUME 1..n \subseteq InUse PROVE FALSE
    OBVIOUS
  <2>1. Cardinality(1..n) <= Cardinality(InUse)
    BY <1>1, FS_Subset
  <2>2. Cardinality(1..n) = n
    BY <1>1, FS_Interval
  <2> QED
    BY <1>1, <2>1, <2>2
<1>3. FreshAttempt \in 1..n /\ FreshAttempt \notin InUse
  BY <1>2 DEF FreshAttempt
<1> QED
  BY <1>1, <1>3

-----------------------------------------------------------------------------
(* The initial state satisfies the invariant.                               *)
LEMMA InitInvariant == Init => IInv
<1> SUFFICES ASSUME Init PROVE IInv
  OBVIOUS
<1>1. Idle \in PlainJobs
  BY DEF Idle, PlainJobs, Outs
<1>2. Types
  <2>1. store \in Checkpoints
    BY DEF Init, Checkpoints
  <2>2. job \in [Host -> Jobs]
    BY <1>1 DEF Init, Jobs
  <2> QED
    BY <2>1, <2>2, FS_EmptySet DEF Init, Types
<1>3. \A h \in Host : job[h] = Idle /\ job[h].pc = "idle"
  BY DEF Init, Idle
<1>4. LiveAttempts = {}
  BY <1>3 DEF Init, LiveAttempts
<1>5. StoreFits
  BY DEF Init, StoreFits
<1>6. \A h \in Host : HostFits(job[h])
  BY Zenon, <1>3 DEF HostFits, JobFits
<1>7. PermitsAreUnique /\ OneLiveAttempt /\ StartedIsExposed
  BY <1>3, <1>4 DEF Init, PermitsAreUnique, OneLiveAttempt, StartedIsExposed
<1>8. AttemptsAreBounded
  <2> SUFFICES ASSUME NEW i \in (1..Steps) \ Strict
               PROVE  Cardinality({p \in exposed : p[1] = i}) <= MaxAttempts + waits
    BY DEF AttemptsAreBounded
  <2>1. {p \in exposed : p[1] = i} = {}
    BY DEF Init
  <2> QED
    BY <1>2, <2>1, FS_EmptySet, WorldFacts DEF Init
<1> QED
  BY <1>2, <1>5, <1>6, <1>7, <1>8 DEF IInv

-----------------------------------------------------------------------------
(* Steps that leave the checkpoint alone.                                   *)

(* The attempt a host may use up in a step: the one it holds a permit for.  *)
Own(h) ==
    IF job[h].pc = "permit" /\ job[h].act \in Strict THEN {Attempt(h)} ELSE {}

(* What a final record must fit is weaker when fewer attempts are alive.    *)
LEMMA FinalFitsKept ==
    ASSUME LiveAttempts' \subseteq LiveAttempts, UNCHANGED <<world, exposed>>
    PROVE  \A n, r, w : FinalFits(n, r, w) => FinalFits(n, r, w)'
BY DEF FinalFits, ExposedOf, Strict, MaxAttempts

(* So are the requirements on a proposal against the stored revision.       *)
LEMMA CurrentFitsKept ==
    ASSUME LiveAttempts' \subseteq LiveAttempts, UNCHANGED <<world, store, exposed, waits>>
    PROVE  \A p : CurrentFits(p) => CurrentFits(p)'
<1> SUFFICES ASSUME NEW p, CurrentFits(p) PROVE CurrentFits(p)'
  OBVIOUS
<1>1. Keeps(p.ck)'
  BY Zenon DEF CurrentFits, Keeps
<1>2. ASSUME Exposes(p.ck, p.back) PROVE Exposes(p.ck, p.back)'
  <2>1. PICK r \in ActivityRecords :
            /\ r.st = "scheduled"
            /\ FinalFits(Len(p.ck.hist), r, WaitsWith(p.back))
            /\ Final(p.ck.hist) = Expose(Len(p.ck.hist), r, Final(p.ck.hist).att)
    BY Zenon, <1>2 DEF Exposes
  <2>2. FinalFits(Len(p.ck.hist), r, WaitsWith(p.back))'
    BY <2>1, FinalFitsKept DEF WaitsWith
  <2>3. Final(p.ck.hist) = Expose(Len(p.ck.hist), r, Final(p.ck.hist).att)'
    BY <2>1 DEF Expose, Strict
  <2> QED
    BY Zenon, <1>2, <2>1, <2>2, <2>3 DEF Exposes
<1>3. ASSUME FinalFits(Len(p.ck.hist), Final(p.ck.hist), WaitsWith(p.back))
      PROVE  FinalFits(Len(p.ck.hist), Final(p.ck.hist), WaitsWith(p.back))'
  BY <1>3, FinalFitsKept DEF WaitsWith
<1> QED
  BY Zenon, <1>1, <1>2, <1>3 DEF CurrentFits

(* A step in which one host moves, using up at most its own permit, and the *)
(* checkpoint stays, preserves the invariant if the host fits afterwards.   *)
LEMMA QuietStep ==
    ASSUME IInv, NEW h \in Host, job' \in [Host -> Jobs],
           \A g \in Host \ {h} : job'[g] = job[g],
           job'[h].pc # "permit",
           UNCHANGED <<world, store, exposed, waits>>,
           sent' \cup admitted' \subseteq sent \cup admitted \cup Own(h),
           started' \subseteq exposed,
           HostFits(job[h])'
    PROVE  IInv'
<1>1. LiveAttempts' \subseteq LiveAttempts
  <2> SUFFICES ASSUME NEW p \in LiveAttempts' PROVE p \in LiveAttempts
    OBVIOUS
  <2>1. CASE p \in sent' \cup admitted'
    BY Zenon, <2>1 DEF LiveAttempts, Own, Attempt
  <2>2. CASE \E g \in Host : job'[g].pc = "permit" /\ p = <<job'[g].act, job'[g].att>>
    BY Zenon, <2>2 DEF LiveAttempts, Attempt
  <2> QED
    BY Zenon, <2>1, <2>2 DEF LiveAttempts, Attempt
<1>2. Types'
  <2>1. exposed' \subseteq Nat \X Nat /\ IsFiniteSet(exposed')
    BY DEF IInv, Types
  <2>2. IsFiniteSet(started') /\ started' \subseteq Nat \X Nat
    BY Zenon, FS_Subset DEF IInv, Types
  <2>3. Own(h) \subseteq Nat \X Nat
    <3>1. CASE job[h].pc = "permit"
      <4>1. job[h] \in PlainJobs
        BY Zenon, <3>1 DEF IInv, Types, Jobs, Swapping
      <4> QED
        BY <4>1 DEF Own, Attempt, PlainJobs
    <3> QED
      BY <3>1 DEF Own
  <2>4. sent' \subseteq Nat \X Nat /\ admitted' \subseteq Nat \X Nat
    BY <2>3 DEF IInv, Types
  <2>5. store' \in Checkpoints'
    BY Zenon DEF IInv, Types, Checkpoints, Steps
  <2>6. job' \in [Host -> Jobs']
    BY DEF Jobs, Swapping, Proposals, Checkpoints, Steps
  <2> QED
    BY Zenon, <2>1, <2>2, <2>4, <2>5, <2>6 DEF IInv, Types
<1>3. StoreFits'
  BY Zenon, <1>1, FinalFitsKept DEF IInv, StoreFits
<1>4. ASSUME NEW g \in Host PROVE HostFits(job[g])'
  <2>1. CASE g = h
    BY <2>1
  <2>2. CASE g # h /\ job[g].pc = "cas"
    <3>1. job'[g] = job[g] /\ ProposalFits(job[g].prop)
      BY Zenon, <2>2 DEF IInv, HostFits
    <3>2. job[g].prop.back.pc # "permit"
      BY Zenon, <3>1 DEF ProposalFits
    <3>3. JobFits(job[g].prop.back)'
      BY Zenon, <3>1, <3>2, <1>1 DEF ProposalFits, JobFits, Strict
    <3>4. job[g].prop.rev = store.rev => CurrentFits(job[g].prop)'
      <4>1. \A p : CurrentFits(p) => CurrentFits(p)'
        BY <1>1, CurrentFitsKept
      <4> QED
        BY Zenon, <3>1, <4>1 DEF ProposalFits
    <3> QED
      BY Zenon, <2>2, <3>1, <3>3, <3>4 DEF HostFits, ProposalFits
  <2>3. CASE g # h /\ job[g].pc # "cas"
    <3>1. job'[g] = job[g] /\ JobFits(job[g])
      BY <2>3 DEF IInv, HostFits
    <3>2. job[g].pc = "permit" => Attempt(g) \notin sent' \cup admitted'
      BY Zenon, <2>3, <3>1 DEF JobFits, Own, Attempt, IInv, PermitsAreUnique
    <3>3. JobFits(job[g])'
      BY Zenon, <3>1, <3>2, <1>1 DEF JobFits, Strict, Attempt
    <3> QED
      BY <2>3, <3>1, <3>3 DEF HostFits
  <2> QED
    BY <2>1, <2>2, <2>3
<1>5. PermitsAreUnique'
  BY Zenon DEF IInv, PermitsAreUnique, Attempt
<1>6. OneLiveAttempt'
  <2>1. \A p \in sent' \cup admitted' : p[1] \in Strict'
    BY DEF IInv, OneLiveAttempt, Own, Attempt, Strict
  <2> QED
    BY <1>1, <2>1 DEF IInv, OneLiveAttempt, Strict
<1>7. StartedIsExposed'
  <2>1. Own(h) \subseteq exposed
    BY Zenon DEF IInv, HostFits, JobFits, Own, Attempt
  <2> QED
    BY <2>1 DEF IInv, StartedIsExposed
<1>8. AttemptsAreBounded'
  BY DEF IInv, AttemptsAreBounded, Steps, Strict, MaxAttempts
<1> QED
  BY <1>2, <1>3, <1>4, <1>5, <1>6, <1>7, <1>8 DEF IInv

-----------------------------------------------------------------------------
(* Swaps.                                                                   *)

(* Every live attempt was exposed.                                          *)
LEMMA LiveIsExposed == ASSUME IInv PROVE LiveAttempts \subseteq exposed
BY Zenon DEF IInv, LiveAttempts, StartedIsExposed, HostFits, JobFits, Attempt

(* What a proposal is made of.                                              *)
LEMMA ProposalFacts ==
    ASSUME IInv, NEW h \in Host, job[h].pc = "cas"
    PROVE  /\ job[h].prop \in Proposals
           /\ job[h].prop.ck \in Checkpoints
           /\ job[h].prop.ck.hist \in Seq(ActivityRecords)
           /\ job[h].prop.next \in PlainJobs
           /\ job[h].prop.back \in PlainJobs
           /\ ProposalFits(job[h].prop)
<1>1. job[h] \in Swapping
  BY DEF IInv, Types, Jobs, PlainJobs
<1>2. job[h].prop \in Proposals
  BY <1>1 DEF Swapping
<1> QED
  BY Zenon, <1>2 DEF Proposals, Checkpoints, IInv, HostFits

(* Exposing a scheduled record under a fresh attempt keeps it fitting.      *)
LEMMA ExposeFits ==
    ASSUME Types, NEW n \in Nat, NEW r \in ActivityRecords, NEW a \in Nat, NEW w \in Nat,
           r.st = "scheduled", FinalFits(n, r, w),
           \A p \in exposed : p[2] # a,
           UNCHANGED world,
           exposed' = exposed \cup {<<n, a>>}
    PROVE  FinalFits(n, Expose(n, r, a), w)'
<1> DEFINE x == Expose(n, r, a)
<1>0. x' = x
  BY DEF Expose, Strict
<1>1. CASE n \in Strict
  <2>1. r.ledger \in Ledgers
    BY DEF ActivityRecords
  <2>2. x.ledger = Append(r.ledger, [id |-> a, st |-> "exposed"]) /\ x.st = "exposed"
        /\ x.att = a
    BY <1>1 DEF Expose, ActivityRecords
  <2>3. /\ x.ledger # <<>> /\ x.ledger[Len(x.ledger)].id = a
        /\ DOMAIN r.ledger \subseteq DOMAIN x.ledger /\ Len(x.ledger) \in DOMAIN x.ledger
        /\ \A k \in DOMAIN r.ledger : x.ledger[k] = r.ledger[k]
    <3>1. [id |-> a, st |-> "exposed"] \in LedgerEntries
      BY DEF LedgerEntries
    <3> QED
      BY <2>1, <2>2, <3>1, AppendProperties DEF Ledgers
  <2>4. ASSUME NEW p \in exposed', p[1] = n
        PROVE  \E k \in DOMAIN x.ledger : x.ledger[k].id = p[2]
    <3>1. CASE p \in exposed
      BY Zenon, <3>1, <2>3, <2>4, <1>1 DEF FinalFits, ExposedOf
    <3>2. CASE p = <<n, a>>
      BY Zenon, <3>2, <2>3
    <3> QED
      BY Zenon, <3>1, <3>2
  <2>5. n \in Strict'
    BY <1>1 DEF Strict
  <2> QED
    BY ZenonT(60), <1>0, <2>2, <2>3, <2>4, <2>5 DEF FinalFits, ExposedOf
<1>2. CASE n \notin Strict
  <2>1. x.ord = r.ord /\ x.st = "exposed" /\ r.ord \in Nat
    BY <1>2 DEF Expose, ActivityRecords
  <2>2. ExposedOf(n)' = ExposedOf(n) \cup {<<n, a>>}
    BY DEF ExposedOf
  <2>3. IsFiniteSet(ExposedOf(n))
    BY FS_Subset DEF ExposedOf, Types
  <2>4. Cardinality(ExposedOf(n)') <= Cardinality(ExposedOf(n)) + 1
        /\ Cardinality(ExposedOf(n)) \in Nat /\ Cardinality(ExposedOf(n)') \in Nat
    <3>1. Cardinality(ExposedOf(n)) \in Nat
      BY <2>3, FS_CardinalityType
    <3>2. Cardinality(ExposedOf(n) \cup {<<n, a>>}) =
              IF <<n, a>> \in ExposedOf(n) THEN Cardinality(ExposedOf(n))
                                          ELSE Cardinality(ExposedOf(n)) + 1
      BY Zenon, <2>3, FS_AddElement
    <3> QED
      BY <2>2, <3>1, <3>2
  <2>5. r.ord <= MaxAttempts /\ Cardinality(ExposedOf(n)) <= r.ord - 1 + w
    BY <1>2 DEF FinalFits
  <2>6. Cardinality(ExposedOf(n)') <= r.ord + w
    BY <2>1, <2>4, <2>5
  <2>7. n \notin Strict' /\ MaxAttempts' = MaxAttempts
    BY <1>2 DEF Strict, MaxAttempts
  <2> QED
    BY Zenon, <1>0, <2>1, <2>5, <2>6, <2>7 DEF FinalFits
<1> QED
  BY <1>1, <1>2

(* A swap of a current proposal preserves the invariant, whether its host   *)
(* learns of it (and becomes next) or not.                                  *)
LEMMA SwapStep ==
    ASSUME IInv, NEW h \in Host, job[h].pc = "cas", job[h].prop.rev = store.rev,
           Swap(job[h].prop), job' \in [Host -> Jobs],
           \A g \in Host \ {h} : job'[g] = job[g],
           job'[h] \in {Idle, job[h].prop.back, job[h].prop.next},
           UNCHANGED <<world, sent, admitted, started>>
    PROVE  IInv'
<1>0. PICK p, w : p = job[h].prop /\ w = waits'
  OBVIOUS
<1> DEFINE n == Len(p.ck.hist)
           e == <<n, Final(p.ck.hist).att>>
           exposing == p.ck.hist # <<>> /\ Final(p.ck.hist).st = "exposed"
<1>1. p \in Proposals /\ p.ck \in Checkpoints /\ p.ck.hist \in Seq(ActivityRecords)
      /\ p.next \in PlainJobs /\ p.back \in PlainJobs /\ ProposalFits(p)
  BY Zenon, <1>0, ProposalFacts
<1>2. CurrentFits(p) /\ JobFits(p.back) /\ p.back.pc \in {"idle", "report", "resolve"}
  BY Zenon, <1>0, <1>1 DEF ProposalFits
<1>3. store \in Checkpoints /\ store.rev \in Nat /\ store.hist \in Seq(ActivityRecords)
      /\ Len(store.hist) \in Nat
  BY DEF IInv, Types, Checkpoints
<1>4. store' \in Checkpoints /\ store'.rev = store.rev + 1 /\ store'.hist = p.ck.hist
      /\ store'.outcome = p.ck.outcome
  BY SMTT(60), <1>0, <1>1, <1>3 DEF Swap, Checkpoints
<1>5. n \in Nat /\ (p.ck.hist # <<>> => n >= 1 /\ Final(p.ck.hist) \in ActivityRecords)
  BY <1>1, FinalFacts
<1>6. exposed' = IF exposing THEN exposed \cup {e} ELSE exposed
  BY Zenon, <1>0 DEF Swap
<1>7. w = WaitsWith(p.back) /\ w \in Nat /\ w >= waits /\ waits \in Nat
  BY <1>0 DEF Swap, WaitsWith, IInv, Types
<1>8. ~exposing => p.next = Idle
  BY Zenon, <1>2 DEF CurrentFits
<1>9. exposing => /\ p.ck.outcome = None /\ p.next = PermitFor(p.ck)
                  /\ Exposes(p.ck, p.back) /\ e \notin exposed
  BY Zenon, <1>2 DEF CurrentFits, Exposes
<1>10. PermitFor(p.ck).pc = "permit" /\ PermitFor(p.ck).act = n
       /\ PermitFor(p.ck).att = Final(p.ck.hist).att
  BY DEF PermitFor, Idle
<1>11. Idle.pc = "idle"
  BY Zenon DEF Idle
<1>12. LiveAttempts \subseteq exposed
  BY LiveIsExposed
<1>13. job'[h].pc = "permit" => exposing /\ <<job'[h].act, job'[h].att>> = e
  BY Zenon, <1>0, <1>2, <1>8, <1>9, <1>10, <1>11
<1>14. job'[h].pc # "cas"
  BY Zenon, <1>0, <1>2, <1>8, <1>9, <1>10, <1>11
<1>15. LiveAttempts' \subseteq LiveAttempts \cup (exposed' \ exposed)
  <2> SUFFICES ASSUME NEW q \in LiveAttempts' PROVE q \in LiveAttempts \cup (exposed' \ exposed)
    BY Zenon
  <2>1. CASE q \in sent \cup admitted
    BY Zenon, <2>1 DEF LiveAttempts
  <2>2. CASE \E g \in Host : job'[g].pc = "permit" /\ q = <<job'[g].act, job'[g].att>>
    <3>1. PICK g \in Host : job'[g].pc = "permit" /\ q = <<job'[g].act, job'[g].att>>
      BY Zenon, <2>2
    <3>2. CASE g = h
      BY Zenon, <3>1, <3>2, <1>13, <1>9, <1>6
    <3>3. CASE g # h
      BY Zenon, <3>1, <3>3 DEF LiveAttempts, Attempt
    <3> QED
      BY Zenon, <3>2, <3>3
  <2> QED
    BY Zenon, <2>1, <2>2 DEF LiveAttempts, Attempt
<1>16. exposed \subseteq exposed'
  BY Zenon, <1>6
<1>17. \A j : JobFits(j) /\ j.pc # "permit" => JobFits(j)'
  BY Zenon, <1>15, <1>16 DEF JobFits, Strict
<1>18. Types'
  <2>1. exposed' \subseteq Nat \X Nat /\ IsFiniteSet(exposed')
    <3>1. exposing => e \in Nat \X Nat
      BY Zenon, <1>5 DEF ActivityRecords
    <3> QED
      BY Zenon, <1>6, <3>1, FS_AddElement DEF IInv, Types
  <2>2. store' \in Checkpoints'
    BY Zenon, <1>4 DEF Checkpoints, Steps
  <2>3. job' \in [Host -> Jobs']
    BY Zenon DEF Jobs, Swapping, Proposals, Checkpoints, Steps
  <2> QED
    BY Zenon, <2>1, <2>2, <2>3, <1>0, <1>7 DEF IInv, Types
<1>19. ASSUME NEW g \in Host PROVE HostFits(job[g])'
  <2>1. CASE g = h
    <3>1. JobFits(job[h])'
      <4>1. CASE job'[h].pc = "permit"
        <5>1. <<job'[h].act, job'[h].att>> = e /\ e \in exposed' /\ e \notin exposed
          BY Zenon, <4>1, <1>13, <1>9, <1>6
        <5>2. e \notin sent \cup admitted
          BY Zenon, <5>1 DEF IInv, StartedIsExposed
        <5> QED
          BY Zenon, <4>1, <5>1, <5>2 DEF JobFits
      <4>2. CASE job'[h] = Idle
        BY <4>2, <1>11 DEF JobFits
      <4>3. CASE job'[h] = p.back
        BY Zenon, <4>3, <1>2, <1>17
      <4> QED
        BY Zenon, <4>1, <4>2, <4>3, <1>0, <1>8, <1>9, <1>10
    <3> QED
      BY Zenon, <2>1, <3>1, <1>14 DEF HostFits
  <2>2. CASE g # h /\ job[g].pc = "cas"
    <3>1. job'[g] = job[g] /\ ProposalFits(job[g].prop) /\ job[g].prop.rev \in Nat
      BY Zenon, <2>2, ProposalFacts DEF Proposals
    <3>2. job[g].prop.rev <= store'.rev /\ job[g].prop.rev # store'.rev
      BY <3>1, <1>3, <1>4 DEF ProposalFits
    <3>3. JobFits(job[g].prop.back)'
      BY Zenon, <3>1, <1>17 DEF ProposalFits
    <3> QED
      BY Zenon, <2>2, <3>1, <3>2, <3>3 DEF HostFits, ProposalFits
  <2>3. CASE g # h /\ job[g].pc # "cas"
    <3>1. job'[g] = job[g] /\ JobFits(job[g])
      BY Zenon, <2>3 DEF IInv, HostFits
    <3>2. JobFits(job[g])'
      <4>1. CASE job[g].pc = "permit"
        BY Zenon, <4>1, <3>1, <1>16 DEF JobFits
      <4>2. CASE job[g].pc # "permit"
        BY Zenon, <4>2, <3>1, <1>17
      <4> QED
        BY Zenon, <4>1, <4>2
    <3> QED
      BY Zenon, <2>3, <3>1, <3>2 DEF HostFits
  <2> QED
    BY Zenon, <2>1, <2>2, <2>3
<1>20. PermitsAreUnique'
  <2>1. ASSUME NEW g \in Host, g # h, job'[g].pc = "permit"
        PROVE  <<job'[g].act, job'[g].att>> \in exposed
    BY Zenon, <2>1, <1>12 DEF LiveAttempts, Attempt
  <2> QED
    BY <2>1, <1>13, <1>9 DEF IInv, PermitsAreUnique, Attempt
<1>21. OneLiveAttempt'
  <2>1. exposing /\ n \in Strict => \A q \in LiveAttempts : q[1] # n
    BY Zenon, <1>9 DEF Exposes, FinalFits
  <2>2. \A q \in LiveAttempts' : q \in LiveAttempts \/ (exposing /\ q = e)
    BY Zenon, <1>15, <1>6
  <2> QED
    BY <2>1, <2>2 DEF IInv, OneLiveAttempt, Strict
<1>22. StartedIsExposed'
  BY Zenon, <1>16 DEF IInv, StartedIsExposed
<1>23. p.ck.hist # <<>> => FinalFits(n, Final(p.ck.hist), w)'
  <2>1. CASE exposing
    <3>1. PICK r \in ActivityRecords :
              /\ r.st = "scheduled"
              /\ FinalFits(n, r, w)
              /\ Final(p.ck.hist) = Expose(n, r, Final(p.ck.hist).att)
      BY Zenon, <2>1, <1>7, <1>9 DEF Exposes
    <3>2. PICK a \in Nat : a = Final(p.ck.hist).att
      BY Zenon, <2>1, <1>5 DEF ActivityRecords
    <3>5. \A q \in exposed : q[2] # a
      BY Zenon, <2>1, <1>9, <3>2 DEF Exposes
    <3>6. FinalFits(n, Expose(n, r, a), w)'
      BY Zenon, <3>1, <3>2, <3>5, <2>1, <1>5, <1>6, <1>7, ExposeFits DEF IInv
    <3>7. Expose(n, r, a)' = Expose(n, r, a)
      BY DEF Expose, Strict
    <3> QED
      BY Zenon, <3>1, <3>2, <3>6, <3>7
  <2>2. CASE ~exposing /\ p.ck.hist # <<>>
    <3>1. exposed' = exposed /\ LiveAttempts' \subseteq LiveAttempts
      BY Zenon, <2>2, <1>6, <1>15
    <3>2. p.ck.outcome = None
      BY Zenon, <2>2, <1>2 DEF CurrentFits
    <3>3. FinalFits(n, Final(p.ck.hist), w)
      BY Zenon, <2>2, <3>2, <1>2, <1>7 DEF CurrentFits
    <3> QED
      BY Zenon, <3>1, <3>3, FinalFitsKept
  <2> QED
    BY Zenon, <2>1, <2>2
<1>24. StoreFits'
  <2>1. p.ck.outcome # None => p.ck.hist = <<>>
    BY Zenon, <1>2 DEF CurrentFits
  <2>2. ASSUME p.ck.outcome = None, NEW q \in exposed' PROVE q[1] <= n
    <3>1. Len(store.hist) <= n /\ store.outcome = None
      BY Zenon, <2>2, <1>2, <1>5, <1>3 DEF CurrentFits
    <3>2. CASE q \in exposed
      <4>1. q[1] \in Nat /\ q[1] <= Len(store.hist)
        BY Zenon, <3>1, <3>2 DEF IInv, StoreFits, Types
      <4> QED
        BY <3>1, <4>1, <1>3, <1>5
    <3>3. CASE q = e
      BY <3>3, <1>5
    <3> QED
      BY Zenon, <3>2, <3>3, <1>6
  <2> QED
    BY Zenon, <2>1, <2>2, <1>0, <1>4, <1>23 DEF StoreFits
<1>25. AttemptsAreBounded'
  <2> SUFFICES ASSUME NEW i \in ((1..Steps) \ Strict)'
               PROVE  Cardinality(ExposedOf(i)') <= (MaxAttempts + waits)'
    BY Zenon DEF AttemptsAreBounded, ExposedOf
  <2>1. i \in (1..Steps) \ Strict /\ MaxAttempts' = MaxAttempts /\ MaxAttempts \in Nat
    BY Zenon, WorldFacts DEF Steps, Strict, MaxAttempts, IInv
  <2>2. IsFiniteSet(ExposedOf(i)')
    BY Zenon, <1>18, FS_Subset DEF ExposedOf, Types
  <2>3. Cardinality(ExposedOf(i)') \in Nat
    BY Zenon, <2>2, FS_CardinalityType
  <2>4. CASE exposing /\ i = n
    <3>1. Final(p.ck.hist).ord \in Nat /\ Final(p.ck.hist).ord <= MaxAttempts
      BY Zenon, <2>4, <2>1, <1>5, <1>23 DEF FinalFits, ActivityRecords, Strict
    <3>2. Cardinality(ExposedOf(n)') <= Final(p.ck.hist).ord + w
      BY Zenon, <2>4, <2>1, <1>23 DEF FinalFits, Strict
    <3> QED
      BY <2>4, <2>1, <2>3, <3>1, <3>2, <1>0, <1>7
  <2>5. CASE ~(exposing /\ i = n)
    <3>1. ExposedOf(i)' = ExposedOf(i)
      BY <2>5, <1>6 DEF ExposedOf
    <3>2. Cardinality(ExposedOf(i)) <= MaxAttempts + waits
      BY Zenon, <2>1 DEF IInv, AttemptsAreBounded, ExposedOf
    <3> QED
      BY SMTT(60), <2>1, <2>3, <3>1, <3>2, <1>0, <1>7
  <2> QED
    BY Zenon, <2>4, <2>5
<1> QED
  BY ZenonT(60), <1>18, <1>19, <1>20, <1>21, <1>22, <1>24, <1>25 DEF IInv

-----------------------------------------------------------------------------
(* Proposals.                                                               *)

(* When no host gains a permit and no command is sent, no attempt comes     *)
(* alive, and what a host without a permit relies on stays true.            *)
LEMMA NothingComesAlive ==
    ASSUME NEW h \in Host, \A g \in Host \ {h} : job'[g] = job[g], job'[h].pc # "permit",
           UNCHANGED <<world, exposed, sent, admitted>>
    PROVE  /\ LiveAttempts' \subseteq LiveAttempts
           /\ \A j : JobFits(j) => JobFits(j)'
<1>1. LiveAttempts' \subseteq LiveAttempts
  BY DEF LiveAttempts, Attempt
<1> QED
  BY <1>1 DEF JobFits, Strict

(* A host that moves to a plain job it fits.                                *)
LEMMA PlainStep ==
    ASSUME IInv, NEW h \in Host, NEW j \in PlainJobs, j.pc # "permit",
           job' = [job EXCEPT ![h] = j], JobFits(j),
           UNCHANGED <<world, store, exposed, waits, sent, admitted>>,
           started' \subseteq exposed
    PROVE  IInv'
<1>1. job' \in [Host -> Jobs] /\ job'[h] = j /\ \A g \in Host \ {h} : job'[g] = job[g]
  BY DEF IInv, Types, Jobs
<1>2. JobFits(j)'
  BY <1>1, NothingComesAlive
<1>3. j.pc # "cas"
  BY DEF PlainJobs
<1>4. HostFits(job[h])'
  BY <1>1, <1>2, <1>3 DEF HostFits
<1> QED
  BY <1>1, <1>4, QuietStep

(* Idle fits always.                                                        *)
LEMMA IdleFits == Idle \in PlainJobs /\ Idle.pc = "idle" /\ Idle.out = None /\ JobFits(Idle)
BY DEF Idle, PlainJobs, Outs, JobFits

(* A host that gives up, for whatever reason.                               *)
LEMMA GiveUpStep ==
    ASSUME IInv, NEW h \in Host, GiveUp(h),
           UNCHANGED <<world, store, exposed, waits, sent, admitted>>,
           started' \subseteq exposed
    PROVE  IInv'
BY Zenon, IdleFits, PlainStep DEF GiveUp

Proposal(ck, next, back) == [rev |-> store.rev, ck |-> ck, next |-> next, back |-> back]

(* A host that makes a proposal against the stored revision.                *)
LEMMA ProposeStep ==
    ASSUME IInv, NEW h \in Host, NEW ck \in Checkpoints, NEW next \in PlainJobs,
           NEW back \in PlainJobs, Propose(h, ck, next, back),
           back.pc \in {"idle", "report", "resolve"}, JobFits(back),
           CurrentFits(Proposal(ck, next, back)),
           UNCHANGED <<External, Durable>>
    PROVE  IInv'
<1>0. UNCHANGED <<world, store, exposed, waits, sent, admitted, started>>
  BY DEF External, Durable
<1>1. PICK p : p = Proposal(ck, next, back)
  OBVIOUS
<1>2. store.rev \in Nat
  BY DEF IInv, Types, Checkpoints
<1>3. p \in Proposals /\ p.rev = store.rev /\ p.back = back
  BY <1>1, <1>2 DEF Proposals, Proposal
<1>4. PICK j : j = [Idle EXCEPT !.pc = "cas", !.prop = p]
  OBVIOUS
<1>5. j \in Swapping /\ j.pc = "cas" /\ j.prop = p
  BY Zenon, <1>3, <1>4 DEF Swapping, Idle
<1>6. job' = [job EXCEPT ![h] = j]
  BY <1>1, <1>4 DEF Propose, Proposal
<1>7. job' \in [Host -> Jobs] /\ job'[h] = j /\ \A g \in Host \ {h} : job'[g] = job[g]
  BY Zenon, <1>5, <1>6 DEF IInv, Types, Jobs
<1>8. LiveAttempts' \subseteq LiveAttempts /\ JobFits(back)'
  BY Zenon, <1>0, <1>5, <1>7, NothingComesAlive
<1>9. CurrentFits(p)'
  BY <1>0, <1>1, <1>8, CurrentFitsKept
<1>10. HostFits(job[h])'
  BY <1>0, <1>2, <1>3, <1>5, <1>7, <1>8, <1>9 DEF HostFits, ProposalFits
<1>11. started' \subseteq exposed /\ sent' \cup admitted' \subseteq sent \cup admitted \cup Own(h)
  BY <1>0 DEF IInv, StartedIsExposed
<1> QED
  BY Zenon, <1>0, <1>5, <1>7, <1>10, <1>11, QuietStep

(* Exposing a scheduled record yields an exposed one.                       *)
LEMMA ExposeType ==
    ASSUME NEW n, NEW r \in ActivityRecords, NEW a \in Nat
    PROVE  Expose(n, r, a) \in ActivityRecords /\ Expose(n, r, a).st = "exposed"
           /\ Expose(n, r, a).att = a
<1>1. r.ledger \in Ledgers /\ Append(r.ledger, [id |-> a, st |-> "exposed"]) \in Ledgers
  BY DEF ActivityRecords, Ledgers, LedgerEntries
<1> QED
  BY Zenon, <1>1 DEF Expose, ActivityRecords

(* The proposal that exposes the scheduled final record of ck.              *)
LEMMA ProposeExposureStep ==
    ASSUME IInv, NEW h \in Host, NEW ck \in Checkpoints, NEW back \in PlainJobs,
           ProposeExposure(h, ck, back),
           back.pc \in {"idle", "report", "resolve"}, JobFits(back),
           store.outcome = None, ck.outcome = None, ck.hist # <<>>,
           Len(ck.hist) >= Len(store.hist), Keeps(ck),
           \A i \in DOMAIN store.hist : store.hist[i].st = "completed" => i # Len(ck.hist),
           Final(ck.hist).st = "scheduled",
           FinalFits(Len(ck.hist), Final(ck.hist), WaitsWith(back)),
           UNCHANGED <<External, Durable>>
    PROVE  IInv'
<1> DEFINE a == FreshAttempt
           n == Len(ck.hist)
           r == Expose(n, Final(ck.hist), a)
           x == WithFinal(ck, r)
           next == [Idle EXCEPT !.pc = "permit", !.act = n, !.att = a]
<1>1. a \in Nat /\ \A p \in exposed : p[2] # a
  <2>1. a \in Nat /\ a \notin InUse
    BY FreshAttemptFacts DEF IInv
  <2> QED
    BY Zenon, <2>1 DEF InUse
<1>2. ck.hist \in Seq(ActivityRecords) /\ n \in Nat /\ Final(ck.hist) \in ActivityRecords
  BY FinalFacts DEF Checkpoints
<1>3. r \in ActivityRecords /\ r.st = "exposed" /\ r.att = a
  BY Zenon, <1>1, <1>2, ExposeType
<1>4. /\ x \in Checkpoints /\ x.outcome = ck.outcome /\ x.hist # <<>> /\ Len(x.hist) = n
      /\ Final(x.hist) = r
      /\ \A i \in DOMAIN ck.hist : i # n => x.hist[i] = ck.hist[i]
  <2> HIDE DEF r
  <2> QED
    BY Zenon, <1>3, WithFinalFacts
<1>5. Propose(h, x, next, back)
  BY DEF ProposeExposure
<1>6. next \in PlainJobs
  BY Zenon, <1>1, <1>2, IdleFits DEF PlainJobs, Idle
<1>7. next = PermitFor(x)
  BY Zenon, <1>3, <1>4 DEF PermitFor
<1>8. Exposes(x, back)
  <2> HIDE DEF r, x
  <2>1. r = Expose(n, Final(ck.hist), r.att)
    BY Zenon, <1>3 DEF r
  <2> QED
    BY Zenon, <1>1, <1>2, <1>3, <1>4, <2>1 DEF Exposes
<1>9. Keeps(x)
  <2> HIDE DEF r, x
  <2>1. DOMAIN store.hist \subseteq DOMAIN ck.hist
    <3>1. store.hist \in Seq(ActivityRecords)
      BY Zenon DEF IInv, Types, Checkpoints
    <3>2. DOMAIN store.hist = 1..Len(store.hist) /\ DOMAIN ck.hist = 1..n
          /\ Len(store.hist) \in Nat
      BY <3>1, <1>2
    <3> QED
      BY <3>2, <1>2
  <2> QED
    BY Zenon, <2>1, <1>4 DEF Keeps
<1>10. CurrentFits(Proposal(x, next, back))
  <2> HIDE DEF r, x, next
  <2> QED
    BY Zenon, <1>3, <1>4, <1>7, <1>8, <1>9 DEF CurrentFits, Proposal
<1> HIDE DEF r, x, next
<1> QED
  BY Zenon, <1>4, <1>5, <1>6, <1>10, ProposeStep

(* A newly scheduled activity has no exposures.                             *)
LEMMA ScheduledFits ==
    ASSUME IInv, store.outcome = None, NEW w \in Nat
    PROVE  FinalFits(Len(store.hist) + 1, Scheduled, w)
<1> DEFINE n == Len(store.hist) + 1
<1>1. n \in Nat /\ \A p \in exposed : p[1] \in Nat /\ p[1] # n
  BY DEF IInv, Types, Checkpoints, StoreFits
<1>2. ExposedOf(n) = {} /\ \A p \in LiveAttempts : p[1] # n
  BY <1>1, LiveIsExposed DEF ExposedOf
<1>3. Cardinality(ExposedOf(n)) = 0
  BY Zenon, <1>2, FS_EmptySet
<1>4. Scheduled.st = "scheduled" /\ Scheduled.ord = 1 /\ 1 <= MaxAttempts
  BY WorldFacts DEF Scheduled, IInv
<1> QED
  BY <1>2, <1>3, <1>4 DEF FinalFits

(* The proposal that goes on from a checkpoint whose activities are done.   *)
LEMMA ProposeProgressStep ==
    ASSUME IInv, NEW h \in Host, NEW ck \in Checkpoints, NEW back \in PlainJobs,
           ProposeProgress(h, ck, back),
           back.pc \in {"idle", "report", "resolve"}, JobFits(back),
           store.outcome = None, ck.outcome = None,
           Len(ck.hist) = Len(store.hist), Keeps(ck),
           UNCHANGED <<External, Durable>>
    PROVE  IInv'
<1>1. /\ store.hist \in Seq(ActivityRecords) /\ ck.hist \in Seq(ActivityRecords)
      /\ Len(store.hist) \in Nat
      /\ DOMAIN store.hist = 1..Len(store.hist) /\ DOMAIN ck.hist = 1..Len(store.hist)
  BY DEF IInv, Types, Checkpoints
<1>2. CASE Len(ck.hist) = Steps
  <2> DEFINE f == [i \in 1..Steps |-> ck.hist[i].res]
             x == [ck EXCEPT !.hist = <<>>, !.outcome = f]
  <2>1. f \in [1..Steps -> Results] /\ f # None
    <3>1. \A i \in 1..Steps : ck.hist[i].res \in Results
      <4> TAKE i \in 1..Steps
      <4>1. i \in 1..Len(ck.hist)
        BY <1>2
      <4>2. ck.hist[i] \in ActivityRecords
        BY <1>1, <4>1, ElementOfSeq
      <4> QED
        BY <4>2 DEF ActivityRecords
    <3>2. f \in [1..Steps -> Results]
      BY <3>1
    <3>3. None \notin [1..Steps -> Results]
      BY WorldFacts DEF IInv
    <3> QED
      BY <3>2, <3>3
  <2>2. Propose(h, x, Idle, back)
    BY <1>2 DEF ProposeProgress, ProposeTerminal, IntoTerminal
  <2>3. x \in Checkpoints /\ x.hist = <<>> /\ x.outcome = f
    <3> HIDE DEF f
    <3>1. PICK none \in Seq(ActivityRecords) : none = <<>>
      BY Zenon, EmptySeq
    <3>2. [ck EXCEPT !.hist = none, !.outcome = f] \in Checkpoints
      BY Zenon, <2>1 DEF Checkpoints
    <3>3. x = [ck EXCEPT !.hist = none, !.outcome = f]
      BY <3>1
    <3> QED
      BY <3>1, <3>2, <3>3 DEF Checkpoints
  <2>4. Keeps(x)
    <3>1. \A i \in DOMAIN store.hist : f[i] = ck.hist[i].res
      BY <1>1, <1>2
    <3> HIDE DEF x, f
    <3> QED
      BY Zenon, <2>1, <2>3, <3>1 DEF Keeps
  <2> HIDE DEF x, f
  <2>5. CurrentFits(Proposal(x, Idle, back))
    BY Zenon, <2>1, <2>3, <2>4 DEF CurrentFits, Proposal
  <2> QED
    BY <2>2, <2>3, <2>5, IdleFits, ProposeStep
<1>3. CASE Len(ck.hist) # Steps
  <2> DEFINE x == [ck EXCEPT !.hist = Append(@, Scheduled)]
  <2>1. ProposeExposure(h, x, back)
    BY <1>3 DEF ProposeProgress
  <2>2. /\ x \in Checkpoints /\ x.outcome = None /\ x.hist # <<>>
        /\ Len(x.hist) = Len(store.hist) + 1 /\ Final(x.hist) = Scheduled
        /\ \A i \in DOMAIN ck.hist : x.hist[i] = ck.hist[i]
    BY Zenon, AppendFacts
  <2> HIDE DEF x
  <2>3. Keeps(x)
    BY Zenon, <1>1, <2>2 DEF Keeps
  <2>4. WaitsWith(back) \in Nat
    BY DEF WaitsWith, IInv, Types
  <2>5. FinalFits(Len(x.hist), Final(x.hist), WaitsWith(back)) /\ Final(x.hist).st = "scheduled"
    BY <2>2, <2>4, ScheduledFits DEF Scheduled
  <2>6. Len(x.hist) >= Len(store.hist) /\ \A i \in DOMAIN store.hist : i # Len(x.hist)
    BY <1>1, <2>2
  <2> QED
    BY Zenon, <2>1, <2>2, <2>3, <2>5, <2>6, ProposeExposureStep
<1> QED
  BY <1>2, <1>3

-----------------------------------------------------------------------------
(* The stored checkpoint is one that every later load accepts.              *)

(* Record r may stand at place i of a history.                              *)
RecordValid(i, r) ==
    /\ r.ord \in 1..MaxAttempts
    /\ IF i \in Strict THEN LedgerMatches(r) ELSE r.ledger = <<>>

(* So may the history of every proposal that is still current.              *)
ProposalsAreValid ==
    \A h \in Host : job[h].pc = "cas" /\ job[h].prop.rev = store.rev =>
        ValidHistory(job[h].prop.ck.hist)

VInv == StoredIsValid /\ ProposalsAreValid

(* A history with its final record replaced by a valid one.                 *)
LEMMA ReplaceValid ==
    ASSUME NEW ck \in Checkpoints, ck.hist # <<>>, ValidHistory(ck.hist),
           NEW r \in ActivityRecords, RecordValid(Len(ck.hist), r)
    PROVE  ValidHistory(WithFinal(ck, r).hist)
<1>1. PICK s, t, n : s = ck.hist /\ t = WithFinal(ck, r).hist /\ n = Len(ck.hist)
  OBVIOUS
<1>2. WithFinal(ck, r) \in Checkpoints /\ t # <<>> /\ Len(t) = n /\ Final(t) = r
      /\ \A i \in DOMAIN s : i # n => t[i] = s[i]
  BY Zenon, <1>1, WithFinalFacts
<1>3. s \in Seq(ActivityRecords) /\ t \in Seq(ActivityRecords)
  BY Zenon, <1>1, <1>2 DEF Checkpoints
<1>4. DOMAIN s = 1..n /\ DOMAIN t = 1..n /\ n \in Nat /\ Len(s) = n
  BY <1>1, <1>2, <1>3
<1>5. t[n] = r
  BY Zenon, <1>2 DEF Final
<1>6. ASSUME NEW i \in DOMAIN t
      PROVE  /\ t[i].ord \in 1..MaxAttempts
             /\ i < n => t[i].st = "completed"
             /\ IF i \in Strict THEN LedgerMatches(t[i]) ELSE t[i].ledger = <<>>
  <2>1. CASE i = n
    BY <1>1, <1>4, <1>5, <2>1 DEF RecordValid
  <2>2. CASE i # n
    <3>1. i \in DOMAIN s /\ t[i] = s[i]
      BY Zenon, <1>2, <1>4, <1>6, <2>2
    <3> QED
      BY Zenon, <1>1, <3>1 DEF ValidHistory
  <2> QED
    BY Zenon, <2>1, <2>2
<1> QED
  BY Zenon, <1>1, <1>2, <1>6 DEF ValidHistory

(* A completed history with a scheduled activity more.                      *)
LEMMA AppendValid ==
    ASSUME Types, NEW ck \in Checkpoints, ValidHistory(ck.hist), AllCompleted(ck.hist)
    PROVE  ValidHistory([ck EXCEPT !.hist = Append(@, Scheduled)].hist)
<1>1. PICK s, t, n : s = ck.hist /\ t = [ck EXCEPT !.hist = Append(@, Scheduled)].hist /\ n = Len(s)
  BY Zenon
<1>2. /\ [ck EXCEPT !.hist = Append(@, Scheduled)] \in Checkpoints
      /\ Len(t) = n + 1 /\ Final(t) = Scheduled /\ \A i \in DOMAIN s : t[i] = s[i]
  BY Zenon, <1>1, AppendFacts
<1>3. s \in Seq(ActivityRecords) /\ t \in Seq(ActivityRecords)
  BY Zenon, <1>1, <1>2 DEF Checkpoints
<1>4. DOMAIN s = 1..n /\ DOMAIN t = 1..n + 1 /\ n \in Nat /\ t[n + 1] = Scheduled
  BY <1>1, <1>2, <1>3 DEF Final
<1>5. /\ Scheduled.ord \in 1..MaxAttempts /\ Scheduled.ledger = <<>>
      /\ LedgerMatches(Scheduled)
  BY WorldFacts DEF Scheduled, LedgerMatches, LedgerValid
<1>6. ASSUME NEW i \in DOMAIN t
      PROVE  /\ t[i].ord \in 1..MaxAttempts
             /\ i < Len(t) => t[i].st = "completed"
             /\ IF i \in Strict THEN LedgerMatches(t[i]) ELSE t[i].ledger = <<>>
  <2>1. CASE i = n + 1
    BY <1>2, <1>4, <1>5, <2>1
  <2>2. CASE i # n + 1
    <3>1. i \in DOMAIN s
      BY <1>4, <1>6, <2>2
    <3>2. t[i] = s[i]
      BY Zenon, <1>2, <3>1
    <3> QED
      BY Zenon, <1>1, <3>1, <3>2 DEF ValidHistory, AllCompleted
  <2> QED
    BY Zenon, <2>1, <2>2
<1> QED
  BY Zenon, <1>1, <1>6 DEF ValidHistory

(* An exposed record under a ledger that admits the exposure.               *)
LEMMA ExposeValid ==
    ASSUME NEW i, NEW r \in ActivityRecords, RecordValid(i, r), NEW a \in Nat,
           LedgerValid(Expose(i, r, a).ledger)
    PROVE  Expose(i, r, a) \in ActivityRecords /\ RecordValid(i, Expose(i, r, a))
<1>1. PICK x : x = Expose(i, r, a)
  OBVIOUS
<1>2. CASE i \in Strict
  <2>1. PICK e, l : e = [id |-> a, st |-> "exposed"] /\ l = Append(r.ledger, e)
    BY Zenon
  <2>2. e \in LedgerEntries
    BY <2>1 DEF LedgerEntries
  <2>3. r.ledger \in Seq(LedgerEntries)
    BY DEF ActivityRecords, Ledgers
  <2>4. l \in Seq(LedgerEntries) /\ l # <<>> /\ l[Len(l)] = e
    BY <2>1, <2>2, <2>3
  <2>5. x = [r EXCEPT !.st = "exposed", !.att = a, !.ledger = l]
    BY <1>1, <1>2, <2>1 DEF Expose
  <2>6. x \in ActivityRecords /\ x.st = "exposed" /\ x.att = a /\ x.ledger = l /\ x.ord = r.ord
    BY Zenon, <2>4, <2>5 DEF ActivityRecords, Ledgers
  <2>7. LedgerMatches(x)
    BY <1>1, <2>1, <2>4, <2>6 DEF LedgerMatches, Final
  <2> QED
    BY <1>1, <1>2, <2>6, <2>7 DEF RecordValid
<1>3. CASE i \notin Strict
  <2>1. x = [r EXCEPT !.st = "exposed", !.att = a, !.ledger = r.ledger]
    BY <1>1, <1>3 DEF Expose
  <2>2. x \in ActivityRecords /\ x.ledger = r.ledger /\ x.ord = r.ord
    BY Zenon, <2>1 DEF ActivityRecords
  <2> QED
    BY <1>1, <1>3, <2>2 DEF RecordValid
<1> QED
  BY <1>2, <1>3

(* The final record of a valid history, and of one that replay has ended.   *)
LEMMA FinalValid ==
    ASSUME NEW hist \in Seq(ActivityRecords), hist # <<>>, ValidHistory(hist)
    PROVE  /\ RecordValid(Len(hist), Final(hist))
           /\ Final(hist).st = "completed" => AllCompleted(hist)
<1>1. DOMAIN hist = 1..Len(hist) /\ Len(hist) \in Nat /\ Len(hist) \in DOMAIN hist
  BY FinalFacts
<1>2. RecordValid(Len(hist), Final(hist))
  BY Zenon, <1>1 DEF ValidHistory, RecordValid, Final
<1>3. ASSUME Final(hist).st = "completed", NEW i \in DOMAIN hist PROVE hist[i].st = "completed"
  <2>1. CASE i = Len(hist)
    BY Zenon, <1>3, <2>1 DEF Final
  <2>2. CASE i # Len(hist)
    <3>1. i < Len(hist)
      BY <1>1, <1>3, <2>2
    <3> QED
      BY Zenon, <1>3, <3>1 DEF ValidHistory
  <2> QED
    BY Zenon, <2>1, <2>2
<1> QED
  BY Zenon, <1>2, <1>3 DEF AllCompleted

(* A proposal of a valid history.                                           *)
LEMMA ProposeValid ==
    ASSUME IInv, VInv, NEW h \in Host, NEW ck, NEW next, NEW back, Propose(h, ck, next, back),
           ValidHistory(ck.hist), UNCHANGED <<world, store>>
    PROVE  VInv'
<1>1. PICK p : p = [rev |-> store.rev, ck |-> ck, next |-> next, back |-> back]
  BY Zenon
<1>2. PICK j : j = [Idle EXCEPT !.pc = "cas", !.prop = p]
  OBVIOUS
<1>3. p.ck = ck /\ j.prop = p
  BY <1>1, <1>2 DEF Idle
<1>4. job' = [job EXCEPT ![h] = j] /\ job \in [Host -> Jobs]
  BY <1>1, <1>2 DEF Propose, IInv, Types
<1>5. job'[h] = j /\ \A g \in Host : g # h => job'[g] = job[g]
  BY Zenon, <1>4
<1>6. \A hist : ValidHistory(hist) => ValidHistory(hist)'
  BY Zenon DEF ValidHistory, MaxAttempts, Strict, LedgerMatches
<1>7. ProposalsAreValid'
  BY Zenon, <1>3, <1>5, <1>6 DEF VInv, ProposalsAreValid
<1>8. StoredIsValid'
  BY Zenon, <1>6 DEF VInv, StoredIsValid
<1> QED
  BY <1>7, <1>8 DEF VInv

(* A host that proposes nothing and swaps nothing.                          *)
LEMMA PlainValid ==
    ASSUME IInv, VInv, NEW h \in Host, NEW j, job' = [job EXCEPT ![h] = j], j.pc # "cas",
           UNCHANGED <<world, store>>
    PROVE  VInv'
<1>1. job'[h] = j /\ \A g \in Host : g # h => job'[g] = job[g]
  BY Zenon DEF IInv, Types
<1>2. \A hist : ValidHistory(hist) => ValidHistory(hist)'
  BY Zenon DEF ValidHistory, MaxAttempts, Strict, LedgerMatches
<1>3. ProposalsAreValid'
  BY Zenon, <1>1, <1>2 DEF VInv, ProposalsAreValid
<1>4. StoredIsValid'
  BY Zenon, <1>2 DEF VInv, StoredIsValid
<1> QED
  BY <1>3, <1>4 DEF VInv

(* A swap stores the history of a current proposal; the others are out.     *)
LEMMA SwapValid ==
    ASSUME IInv, VInv, NEW h \in Host, job[h].pc = "cas", job[h].prop.rev = store.rev,
           Swap(job[h].prop), NEW j, job' = [job EXCEPT ![h] = j], j.pc # "cas", UNCHANGED world
    PROVE  VInv'
<1>1. job'[h] = j /\ \A g \in Host : g # h => job'[g] = job[g]
  BY Zenon DEF IInv, Types
<1>2. \A hist : ValidHistory(hist) => ValidHistory(hist)'
  BY ZenonT(60) DEF ValidHistory, MaxAttempts, Strict, LedgerMatches
<1>3. PICK ck \in Checkpoints : ck = job[h].prop.ck
  BY Zenon, ProposalFacts
<1>4. store' = [ck EXCEPT !.rev = store.rev + 1] /\ store.rev \in Nat
  BY <1>3 DEF Swap, IInv, Types, Checkpoints
<1>5. store'.hist = ck.hist /\ store'.rev = store.rev + 1
  BY <1>4 DEF Checkpoints
<1>6. ValidHistory(ck.hist)
  BY Zenon, <1>3 DEF VInv, ProposalsAreValid
<1>7. PICK hist : hist = ck.hist
  OBVIOUS
<1>8. ValidHistory(hist)' /\ store'.hist = hist
  BY Zenon, <1>2, <1>5, <1>6, <1>7
<1>9. StoredIsValid'
  BY Zenon, <1>8 DEF StoredIsValid
<1>10. ASSUME NEW g \in Host, job'[g].pc = "cas" PROVE job'[g].prop.rev # store'.rev
  <2>1. g # h /\ job'[g] = job[g] /\ job[g].pc = "cas"
    BY Zenon, <1>1, <1>10
  <2>2. ProposalFits(job[g].prop) /\ job[g].prop.rev \in Nat
    BY Zenon, <2>1, ProposalFacts DEF Proposals
  <2> QED
    BY <1>4, <1>5, <2>1, <2>2 DEF ProposalFits
<1>11. ProposalsAreValid'
  BY Zenon, <1>10 DEF ProposalsAreValid
<1> QED
  BY <1>9, <1>11 DEF VInv

(* Exposing the final record of a valid history.                            *)
LEMMA ProposeExposureValid ==
    ASSUME IInv, VInv, NEW h \in Host, NEW ck \in Checkpoints, NEW back, ck.hist # <<>>,
           ValidHistory(ck.hist), ProposeExposure(h, ck, back), UNCHANGED <<world, store>>
    PROVE  VInv'
<1>1. PICK a, i, r : a = FreshAttempt /\ i = Len(ck.hist) /\ r = Expose(i, Final(ck.hist), a)
  OBVIOUS
<1>2. ck.hist \in Seq(ActivityRecords)
  BY DEF Checkpoints
<1>3. Final(ck.hist) \in ActivityRecords /\ RecordValid(i, Final(ck.hist))
  BY Zenon, <1>1, <1>2, FinalFacts, FinalValid
<1>4. a \in Nat
  BY <1>1, FreshAttemptFacts DEF IInv
<1>5. LedgerValid(r.ledger)
      /\ Propose(h, WithFinal(ck, r), [Idle EXCEPT !.pc = "permit", !.act = i, !.att = a], back)
  BY <1>1 DEF ProposeExposure
<1>6. r \in ActivityRecords /\ RecordValid(i, r)
  BY Zenon, <1>1, <1>3, <1>4, <1>5, ExposeValid
<1>7. ValidHistory(WithFinal(ck, r).hist)
  BY Zenon, <1>1, <1>6, ReplaceValid
<1> QED
  BY Zenon, <1>5, <1>7, ProposeValid

(* What follows a completed history is valid.                               *)
LEMMA ProposeProgressValid ==
    ASSUME IInv, VInv, NEW h \in Host, NEW ck \in Checkpoints, NEW back,
           ValidHistory(ck.hist), AllCompleted(ck.hist), ProposeProgress(h, ck, back),
           UNCHANGED <<world, store>>
    PROVE  VInv'
<1>1. CASE Len(ck.hist) = Steps
  <2>1. Propose(h, IntoTerminal(ck), Idle, back)
    BY <1>1 DEF ProposeProgress, ProposeTerminal
  <2>2. IntoTerminal(ck).hist = <<>>
    BY DEF IntoTerminal, Checkpoints
  <2>3. ValidHistory(IntoTerminal(ck).hist)
    BY <2>2 DEF ValidHistory
  <2> QED
    BY Zenon, <2>1, <2>3, ProposeValid
<1>2. CASE Len(ck.hist) # Steps
  <2>1. PICK x : x = [ck EXCEPT !.hist = Append(@, Scheduled)]
    BY Zenon
  <2>2. x \in Checkpoints /\ x.hist # <<>>
    BY Zenon, <2>1, AppendFacts
  <2>3. ValidHistory(x.hist)
    BY Zenon, <2>1, AppendValid DEF IInv
  <2>4. ProposeExposure(h, x, back)
    BY Zenon, <1>2, <2>1 DEF ProposeProgress
  <2> QED
    BY Zenon, <2>2, <2>3, <2>4, ProposeExposureValid
<1> QED
  BY <1>1, <1>2

=============================================================================
