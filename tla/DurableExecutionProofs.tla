----------------------- MODULE DurableExecutionProofs -----------------------
(***************************************************************************)
(* Proofs about DurableExecution, for every finite set of hosts and every  *)
(* execution: any number of activities, any choice of strict ones, any     *)
(* attempt limit, any number of faults.                                    *)
(***************************************************************************)
EXTENDS DurableExecutionFacts

-----------------------------------------------------------------------------
(* Each action preserves the invariant.                                     *)

(* What the invariant says of the store and of a host, unfolded.            *)
LEMMA StateFacts ==
    ASSUME IInv, NEW h \in Host
    PROVE  /\ store \in Checkpoints /\ store.hist \in Seq(ActivityRecords)
           /\ DOMAIN store.hist = 1..Len(store.hist) /\ Len(store.hist) \in Nat
           /\ waits \in Nat
           /\ job[h].pc # "cas" => job[h] \in PlainJobs /\ JobFits(job[h])
           /\ started \subseteq exposed
           /\ Keeps(store) \/ store.outcome # None
           /\ store.hist # <<>> =>
                 /\ store.outcome = None
                 /\ Final(store.hist) \in ActivityRecords
                 /\ FinalFits(Len(store.hist), Final(store.hist), waits)
<1>1. store \in Checkpoints /\ store.hist \in Seq(ActivityRecords) /\ waits \in Nat
  BY DEF IInv, Types, Checkpoints
<1>2. job[h].pc # "cas" => job[h] \in PlainJobs /\ JobFits(job[h])
  BY DEF IInv, Types, Jobs, Swapping, HostFits
<1>3. started \subseteq exposed /\ (Keeps(store) \/ store.outcome # None)
  BY DEF IInv, StartedIsExposed, Keeps
<1>4. store.hist # <<>> =>
          store.outcome = None /\ FinalFits(Len(store.hist), Final(store.hist), waits)
  BY DEF IInv, StoreFits
<1> QED
  BY <1>1, <1>2, <1>3, <1>4, FinalFacts

(* Turn preserves the invariant.                                            *)
LEMMA TurnPreserves == ASSUME IInv, NEW h \in Host, Turn(h) PROVE IInv'
<1>1. store \in Checkpoints /\ store.outcome = None /\ Keeps(store) /\ waits \in Nat
      /\ DOMAIN store.hist = 1..Len(store.hist) /\ Len(store.hist) \in Nat
  BY StateFacts DEF Turn
<1>2. UNCHANGED <<External, Durable>>
  BY DEF Turn
<1>3. CASE ProposeProgress(h, store, Idle)
  BY <1>1, <1>2, <1>3, IdleFits, ProposeProgressStep
<1>4. CASE Propose(h, [store EXCEPT !.hist = Append(@, Scheduled)], Idle, Idle)
  <2> DEFINE x == [store EXCEPT !.hist = Append(@, Scheduled)]
  <2>1. /\ x \in Checkpoints /\ x.outcome = None /\ x.hist # <<>>
        /\ Len(x.hist) = Len(store.hist) + 1 /\ Final(x.hist) = Scheduled
        /\ \A i \in DOMAIN store.hist : x.hist[i] = store.hist[i]
    BY Zenon, <1>1, AppendFacts
  <2>2. Propose(h, x, Idle, Idle)
    BY <1>4
  <2> HIDE DEF x
  <2>3. Keeps(x)
    BY <1>1, <2>1 DEF Keeps
  <2>4. WaitsWith(Idle) \in Nat
    BY <1>1 DEF WaitsWith
  <2>5. FinalFits(Len(x.hist), Final(x.hist), WaitsWith(Idle)) /\ Final(x.hist).st = "scheduled"
    BY <1>1, <2>1, <2>4, ScheduledFits DEF Scheduled
  <2>6. CurrentFits(Proposal(x, Idle, Idle))
    BY <1>1, <2>1, <2>3, <2>5 DEF CurrentFits, Proposal
  <2> QED
    BY <1>2, <2>1, <2>2, <2>6, IdleFits, ProposeStep
<1> QED
  BY <1>3, <1>4 DEF Turn

(* TurnPending preserves the invariant.                                     *)
LEMMA TurnPendingPreserves == ASSUME IInv, NEW h \in Host, TurnPending(h) PROVE IInv'
<1>1. /\ store \in Checkpoints /\ store.outcome = None /\ Keeps(store)
      /\ store.hist # <<>> /\ Len(store.hist) \in Nat
      /\ FinalFits(Len(store.hist), Final(store.hist), waits)
  BY Zenon, StateFacts DEF TurnPending
<1>2. Final(store.hist).st = "scheduled" /\ ProposeExposure(h, store, Idle)
      /\ UNCHANGED <<External, Durable>>
  BY DEF TurnPending
<1>3. \A i \in DOMAIN store.hist : store.hist[i].st = "completed" => i # Len(store.hist)
  BY <1>2 DEF Final
<1>4. WaitsWith(Idle) = waits \/ WaitsWith(Idle) = waits + 1
  BY DEF WaitsWith
<1>5. FinalFits(Len(store.hist), Final(store.hist), WaitsWith(Idle))
  <2>1. CASE WaitsWith(Idle) = waits
    BY <1>1, <2>1
  <2>2. CASE WaitsWith(Idle) # waits
    <3>1. IsFiniteSet(ExposedOf(Len(store.hist)))
      BY FS_Subset DEF ExposedOf, IInv, Types
    <3>2. Cardinality(ExposedOf(Len(store.hist))) \in Nat /\ waits \in Nat
          /\ Final(store.hist).ord \in Nat
      BY Zenon, <1>1, <3>1, FS_CardinalityType, StateFacts DEF ActivityRecords
    <3> QED
      BY <1>1, <1>4, <2>2, <3>2 DEF FinalFits
  <2> QED
    BY <2>1, <2>2
<1> QED
  BY <1>1, <1>2, <1>3, <1>5, IdleFits, ProposeExposureStep

(* TurnQuarantined preserves the invariant.                                 *)
LEMMA TurnQuarantinedPreserves == ASSUME IInv, NEW h \in Host, TurnQuarantined(h) PROVE IInv'
<1> DEFINE j == [Idle EXCEPT !.pc = "quarantined", !.act = Len(store.hist),
                             !.att = Final(store.hist).att]
<1>1. Len(store.hist) \in Nat /\ Final(store.hist).att \in Nat /\ started \subseteq exposed
  BY StateFacts DEF TurnQuarantined, ActivityRecords
<1>2. j \in PlainJobs /\ j.pc = "quarantined"
  BY Zenon, <1>1 DEF Idle, PlainJobs, Outs
<1>3. job' = [job EXCEPT ![h] = j]
      /\ UNCHANGED <<world, store, exposed, waits, sent, admitted, started>>
  BY DEF TurnQuarantined, External, Durable
<1> HIDE DEF j
<1>4. JobFits(j)
  BY <1>2 DEF JobFits
<1> QED
  BY Zenon, <1>1, <1>2, <1>3, <1>4, PlainStep

(* A host that reloads after a swap it must take for failed.                *)
LEMMA ReloadStep ==
    ASSUME IInv, NEW h \in Host, job[h].pc = "cas", Reload(h),
           UNCHANGED <<world, store, exposed, waits, sent, admitted, started>>
    PROVE  IInv'
<1>1. PICK next \in {Idle, job[h].prop.back} : job' = [job EXCEPT ![h] = next]
  BY Zenon DEF Reload
<1>2. next \in PlainJobs /\ next.pc # "permit" /\ JobFits(next)
  BY Zenon, <1>1, ProposalFacts, IdleFits DEF ProposalFits
<1>3. started' \subseteq exposed
  BY Zenon, StateFacts
<1> QED
  BY Zenon, <1>1, <1>2, <1>3, PlainStep

(* Accepted preserves the invariant.                                        *)
LEMMA AcceptedPreserves == ASSUME IInv, NEW h \in Host, Accepted(h) PROVE IInv'
<1>1. job[h].pc = "cas" /\ job[h].prop.rev = store.rev /\ Swap(job[h].prop)
      /\ job' = [job EXCEPT ![h] = job[h].prop.next]
      /\ UNCHANGED <<world, sent, admitted, started>>
  BY DEF Accepted, External
<1>2. job[h].prop.next \in Jobs
  BY Zenon, <1>1, ProposalFacts DEF Jobs
<1>3. job' \in [Host -> Jobs] /\ job'[h] = job[h].prop.next
      /\ \A g \in Host \ {h} : job'[g] = job[g]
  BY Zenon, <1>1, <1>2 DEF IInv, Types
<1> QED
  BY Zenon, <1>1, <1>3, SwapStep

(* Conflict preserves the invariant.                                        *)
LEMMA ConflictPreserves == ASSUME IInv, NEW h \in Host, Conflict(h) PROVE IInv'
BY ReloadStep DEF Conflict, External, Durable

(* OutcomeUnknown preserves the invariant.                                  *)
LEMMA OutcomeUnknownPreserves == ASSUME IInv, NEW h \in Host, OutcomeUnknown(h) PROVE IInv'
<1>1. job[h].pc = "cas" /\ Reload(h) /\ UNCHANGED <<world, sent, admitted, started>>
  BY DEF OutcomeUnknown, External
<1>2. CASE job[h].prop.rev = store.rev /\ Swap(job[h].prop)
  <2>1. PICK next \in {Idle, job[h].prop.back} : job' = [job EXCEPT ![h] = next]
    BY Zenon, <1>1 DEF Reload
  <2>2. next \in Jobs
    BY Zenon, <1>1, ProposalFacts, IdleFits DEF Jobs
  <2>3. job' \in [Host -> Jobs] /\ job'[h] = next /\ \A g \in Host \ {h} : job'[g] = job[g]
    BY <2>1, <2>2 DEF IInv, Types
  <2> QED
    BY Zenon, <1>1, <1>2, <2>1, <2>3, SwapStep
<1>3. CASE UNCHANGED <<store, exposed, waits>>
  BY <1>1, <1>3, ReloadStep
<1> QED
  BY <1>2, <1>3 DEF OutcomeUnknown

(* ReloadAttempt preserves the invariant.                                   *)
LEMMA ReloadAttemptPreserves == ASSUME IInv, NEW h \in Host, ReloadAttempt(h) PROVE IInv'
<1>1. job[h].pc = "permit" /\ job[h] \in PlainJobs /\ JobFits(job[h]) /\ started \subseteq exposed
  BY StateFacts DEF ReloadAttempt
<1>2. UNCHANGED <<world, store, exposed, waits, sent, admitted, started>>
  BY DEF ReloadAttempt, External, Durable
<1>3. CASE store.hist = <<>>
  <2> DEFINE j == [Idle EXCEPT !.pc = "panicked"]
  <2>1. job' = [job EXCEPT ![h] = j]
    BY <1>3 DEF ReloadAttempt
  <2>2. j \in PlainJobs /\ j.pc = "panicked"
    BY DEF Idle, PlainJobs, Outs
  <2> HIDE DEF j
  <2>3. JobFits(j)
    BY <2>2 DEF JobFits
  <2> QED
    BY Zenon, <1>1, <1>2, <2>1, <2>2, <2>3, PlainStep
<1>4. CASE store.hist # <<>>
  <2> DEFINE j == [job[h] EXCEPT !.pc = "invoking", !.ord = Final(store.hist).ord]
  <2>1. job' = [job EXCEPT ![h] = j]
    BY <1>4 DEF ReloadAttempt
  <2>2. Final(store.hist).ord \in Nat
    BY <1>4, StateFacts DEF ActivityRecords
  <2>3. j \in PlainJobs /\ j.pc = "invoking" /\ j.act = job[h].act /\ j.att = job[h].att
    BY Zenon, <1>1, <2>2 DEF PlainJobs
  <2> HIDE DEF j
  <2>4. JobFits(j)
    BY Zenon, <1>1, <2>3 DEF JobFits
  <2> QED
    BY Zenon, <1>1, <1>2, <2>1, <2>3, <2>4, PlainStep
<1> QED
  BY <1>3, <1>4

(* Invoke preserves the invariant.                                          *)
LEMMA InvokePreserves == ASSUME IInv, NEW h \in Host, Invoke(h) PROVE IInv'
<1>1. job[h].pc = "invoking" /\ job[h] \in PlainJobs /\ JobFits(job[h]) /\ started \subseteq exposed
  BY Zenon, StateFacts DEF Invoke
<1>2. UNCHANGED <<world, store, exposed, waits, sent, admitted>>
      /\ started' = started \cup {<<job[h].act, job[h].att>>}
  BY DEF Invoke
<1>3. started' \subseteq exposed
  BY Zenon, <1>1, <1>2 DEF JobFits
<1>4. ASSUME NEW out \in {"ok", "failed", "retryable", "wait"},
             job' = [job EXCEPT ![h] = [job[h] EXCEPT !.pc = "report", !.out = out]]
      PROVE  IInv'
  <2> DEFINE j == [job[h] EXCEPT !.pc = "report", !.out = out]
  <2>1. j \in PlainJobs /\ j.pc = "report" /\ j.out = out /\ j.act = job[h].act
        /\ j.att = job[h].att
    BY Zenon, <1>1 DEF PlainJobs, Outs
  <2>2. job' = [job EXCEPT ![h] = j]
    BY <1>4
  <2> HIDE DEF j
  <2>3. JobFits(j)
    BY Zenon, <1>1, <2>1 DEF JobFits
  <2> QED
    BY Zenon, <1>2, <1>3, <2>1, <2>2, <2>3, PlainStep
<1>5. CASE GiveUp(h)
  BY <1>2, <1>3, <1>5, GiveUpStep
<1>6. CASE \E out \in {"ok", "failed", "retryable"} :
               job' = [job EXCEPT ![h] = [@ EXCEPT
                   !.pc = "report",
                   !.out = IF out = "retryable" /\ job[h].ord >= MaxAttempts
                           THEN "failed" ELSE out]]
  BY Zenon, <1>4, <1>6
<1>7. CASE job' = [job EXCEPT ![h].pc = "report", ![h].out = "wait"]
  <2>1. job' = [job EXCEPT ![h] = [job[h] EXCEPT !.pc = "report", !.out = "wait"]]
    BY Zenon, <1>7 DEF IInv, Types
  <2> QED
    BY <1>4, <2>1
<1> QED
  BY Zenon, <1>5, <1>6, <1>7 DEF Invoke

(* The exposed final record of an ordinary activity has counted every       *)
(* exposure.                                                                *)
LEMMA OrdinaryFacts ==
    ASSUME IInv, NEW h \in Host, StillExposed(h), job[h].act \notin Strict
    PROVE  /\ store.hist # <<>> /\ Len(store.hist) \notin Strict
           /\ Final(store.hist) \in ActivityRecords /\ Final(store.hist).ord \in Nat
           /\ Final(store.hist).ord <= MaxAttempts
           /\ Cardinality(ExposedOf(Len(store.hist))) \in Nat
           /\ Cardinality(ExposedOf(Len(store.hist))) <= Final(store.hist).ord + waits
<1>1. store.hist # <<>> /\ Len(store.hist) \notin Strict /\ Final(store.hist).st = "exposed"
  BY DEF StillExposed
<1>2. Final(store.hist) \in ActivityRecords
      /\ FinalFits(Len(store.hist), Final(store.hist), waits)
  BY <1>1, StateFacts
<1>3. IsFiniteSet(ExposedOf(Len(store.hist)))
  BY FS_Subset DEF ExposedOf, IInv, Types
<1>4. Cardinality(ExposedOf(Len(store.hist))) \in Nat
  BY <1>3, FS_CardinalityType
<1> QED
  BY Zenon, <1>1, <1>2, <1>4 DEF FinalFits, ActivityRecords

(* Replacing the exposed final record keeps what replay was shown.          *)
LEMMA ReplaceExposedKeeps ==
    ASSUME IInv, NEW h \in Host, StillExposed(h), NEW r \in ActivityRecords
    PROVE  LET x == WithFinal(store, r)
           IN  /\ x \in Checkpoints /\ x.outcome = None /\ x.hist # <<>>
               /\ Len(x.hist) = Len(store.hist) /\ Final(x.hist) = r /\ Keeps(x)
<1> DEFINE x == WithFinal(store, r)
<1>1. store.hist # <<>> /\ Final(store.hist).st = "exposed"
  BY DEF StillExposed
<1>2. store \in Checkpoints /\ store.outcome = None
  BY <1>1, StateFacts
<1>3. /\ x \in Checkpoints /\ x.outcome = None /\ x.hist # <<>>
      /\ Len(x.hist) = Len(store.hist) /\ Final(x.hist) = r
      /\ \A i \in DOMAIN store.hist : i # Len(store.hist) => x.hist[i] = store.hist[i]
  BY Zenon, <1>1, <1>2, WithFinalFacts
<1> HIDE DEF x
<1>4. \A i \in DOMAIN store.hist : store.hist[i].st = "completed" => i # Len(store.hist)
  BY <1>1 DEF Final
<1>5. Keeps(x)
  BY <1>3, <1>4 DEF Keeps
<1> QED
  BY <1>3, <1>5 DEF x

(* Proposing a record in place of the exposed one it reports on.            *)
LEMMA ReplaceExposedStep ==
    ASSUME IInv, NEW h \in Host, StillExposed(h), NEW r \in ActivityRecords,
           r.st # "exposed", NEW back \in PlainJobs,
           back.pc \in {"idle", "report", "resolve"}, JobFits(back),
           FinalFits(Len(store.hist), r, WaitsWith(back)),
           Propose(h, WithFinal(store, r), Idle, back),
           UNCHANGED <<External, Durable>>
    PROVE  IInv'
<1> DEFINE x == WithFinal(store, r)
<1>1. /\ x \in Checkpoints /\ x.outcome = None /\ x.hist # <<>>
      /\ Len(x.hist) = Len(store.hist) /\ Final(x.hist) = r /\ Keeps(x)
  BY Zenon, ReplaceExposedKeeps
<1>2. Propose(h, x, Idle, back)
  OBVIOUS
<1>3. store.outcome = None /\ Len(store.hist) \in Nat
  BY Zenon, StateFacts DEF StillExposed
<1> HIDE DEF x
<1>4. CurrentFits(Proposal(x, Idle, back))
  BY <1>1, <1>3 DEF CurrentFits, Proposal
<1> QED
  BY Zenon, <1>1, <1>2, <1>4, IdleFits, ProposeStep

(* A retry takes the next ordinal.                                          *)
LEMMA ScheduleRetryFacts ==
    ASSUME NEW r \in ActivityRecords
    PROVE  ScheduleRetry(r) \in ActivityRecords /\ ScheduleRetry(r).st = "scheduled"
           /\ ScheduleRetry(r).ord = r.ord + 1 /\ ScheduleRetry(r).ledger = r.ledger
<1>1. PICK k : k = r.ord + 1
  OBVIOUS
<1>2. ScheduleRetry(r) = [r EXCEPT !.st = "scheduled", !.att = 0, !.ord = k]
  BY <1>1 DEF ScheduleRetry, ActivityRecords
<1>3. k \in Nat
  BY <1>1 DEF ActivityRecords
<1>4. /\ [r EXCEPT !.st = "scheduled", !.att = 0, !.ord = k] \in ActivityRecords
      /\ [r EXCEPT !.st = "scheduled", !.att = 0, !.ord = k].st = "scheduled"
      /\ [r EXCEPT !.st = "scheduled", !.att = 0, !.ord = k].ord = k
      /\ [r EXCEPT !.st = "scheduled", !.att = 0, !.ord = k].ledger = r.ledger
  BY Zenon, <1>3 DEF ActivityRecords
<1> QED
  BY <1>1, <1>2, <1>4

(* Report preserves the invariant.                                          *)
LEMMA ReportPreserves == ASSUME IInv, NEW h \in Host, Report(h) PROVE IInv'
<1> DEFINE r    == Final(store.hist)
           out  == job[h].out
           n    == Len(store.hist)
           s    == Settle(r, <<out, job[h].att>>)
           done == WithFinal(store, s)
<1>1. job[h].pc = "report" /\ job[h] \in PlainJobs /\ JobFits(job[h]) /\ started \subseteq exposed
      /\ job[h].act \notin Strict /\ waits \in Nat
  BY Zenon, StateFacts DEF Report
<1>2. UNCHANGED <<External, Durable>>
      /\ UNCHANGED <<world, store, exposed, waits, sent, admitted, started>>
  BY Zenon DEF Report, External, Durable
<1>3. CASE GiveUp(h)
  BY <1>1, <1>2, <1>3, GiveUpStep
<1>4. WaitsWith(job[h]) \in Nat /\ WaitsWith(job[h]) >= waits
      /\ (out = "wait" => WaitsWith(job[h]) = waits + 1)
  BY <1>1 DEF WaitsWith
<1>5. ASSUME StillExposed(h)
      PROVE  /\ store.hist # <<>> /\ n \notin Strict /\ r \in ActivityRecords
             /\ r.ord \in Nat /\ r.ord <= MaxAttempts
             /\ Cardinality(ExposedOf(n)) \in Nat
             /\ Cardinality(ExposedOf(n)) <= r.ord + waits
  BY Zenon, <1>1, <1>5, OrdinaryFacts
<1>6. ASSUME StillExposed(h)
      PROVE  s \in ActivityRecords /\ s.st = "completed" /\ s.ord = r.ord
  BY Zenon, <1>1, <1>5, <1>6 DEF Settle, ActivityRecords, PlainJobs, Results, Outs
<1>7. ASSUME StillExposed(h)
      PROVE  FinalFits(n, s, WaitsWith(job[h]))
  <2> HIDE DEF s, r
  <2> QED
    BY <1>1, <1>4, <1>5, <1>6, <1>7 DEF FinalFits
<1>8. CASE StillExposed(h) /\ Propose(h, done, Idle, job[h])
  <2> HIDE DEF s
  <2> QED
    BY ZenonT(60), <1>1, <1>2, <1>6, <1>7, <1>8, ReplaceExposedStep
<1>9. CASE StillExposed(h) /\ ProposeProgress(h, done, job[h])
  <2>1. /\ done \in Checkpoints /\ done.outcome = None
        /\ Len(done.hist) = Len(store.hist) /\ Keeps(done)
    <3> HIDE DEF s
    <3> QED
      BY <1>6, <1>9, ReplaceExposedKeeps
  <2>2. store.outcome = None
    BY Zenon, <1>5, <1>9, StateFacts
  <2> HIDE DEF done
  <2> QED
    BY Zenon, <1>1, <1>2, <1>9, <2>1, <2>2, ProposeProgressStep
<1>10. CASE StillExposed(h) /\ out = "wait"
            /\ Propose(h, WithFinal(store, DeferWait(r)), Idle, job[h])
  <2> DEFINE d == DeferWait(r)
  <2>1. d \in ActivityRecords /\ d.st = "scheduled" /\ d.ord = r.ord
    BY Zenon, <1>5, <1>10 DEF DeferWait, ActivityRecords
  <2> HIDE DEF d, r
  <2>2. FinalFits(n, d, WaitsWith(job[h]))
    BY <1>1, <1>4, <1>5, <1>10, <2>1 DEF FinalFits
  <2>3. Propose(h, WithFinal(store, d), Idle, job[h])
    BY <1>10 DEF d, r
  <2> QED
    BY ZenonT(60), <1>1, <1>2, <1>10, <2>1, <2>2, <2>3, ReplaceExposedStep
<1>11. CASE StillExposed(h) /\ r.ord < MaxAttempts
            /\ Propose(h, WithFinal(store, ScheduleRetry(r)), Idle, job[h])
  <2> DEFINE d == ScheduleRetry(r)
  <2>1. d \in ActivityRecords /\ d.st = "scheduled" /\ d.ord = r.ord + 1
    BY Zenon, <1>5, <1>11, ScheduleRetryFacts
  <2>2. MaxAttempts \in Nat
    BY WorldFacts DEF IInv
  <2> HIDE DEF d, r
  <2>3. FinalFits(n, d, WaitsWith(job[h]))
    BY SMTT(60), <1>1, <1>4, <1>5, <1>11, <2>1, <2>2 DEF FinalFits
  <2>4. Propose(h, WithFinal(store, d), Idle, job[h])
    BY <1>11 DEF d, r
  <2> QED
    BY ZenonT(60), <1>1, <1>2, <1>11, <2>1, <2>3, <2>4, ReplaceExposedStep
<1> QED
  BY ZenonT(60), <1>3, <1>8, <1>9, <1>10, <1>11
     DEF Report, Observe, ObserveAndTurn, ObserveFailure, Defer, Retry, Done

(* RetryLost preserves the invariant.                                       *)
LEMMA RetryLostPreserves == ASSUME IInv, NEW h \in Host, RetryLost(h) PROVE IInv'
<1> DEFINE r == Final(store.hist)
           d == ScheduleRetry(r)
           n == Len(store.hist)
<1>1. job[h].pc = "quarantined" /\ job[h] \in PlainJobs /\ started \subseteq exposed
      /\ job[h].act \notin Strict /\ waits \in Nat
  BY Zenon, StateFacts DEF RetryLost
<1>2. UNCHANGED <<External, Durable>>
      /\ UNCHANGED <<world, store, exposed, waits, sent, admitted, started>>
  BY DEF RetryLost, External, Durable
<1>3. CASE GiveUp(h)
  BY <1>1, <1>2, <1>3, GiveUpStep
<1>4. CASE /\ StillExposed(h) /\ r.ord < MaxAttempts
           /\ Propose(h, WithFinal(store, d), Idle, Idle)
  <2>1. /\ n \notin Strict /\ r \in ActivityRecords /\ r.ord \in Nat
        /\ Cardinality(ExposedOf(n)) \in Nat /\ Cardinality(ExposedOf(n)) <= r.ord + waits
    BY Zenon, <1>1, <1>4, OrdinaryFacts
  <2>2. d \in ActivityRecords /\ d.st = "scheduled" /\ d.ord = r.ord + 1
    BY <2>1, ScheduleRetryFacts
  <2>3. MaxAttempts \in Nat /\ WaitsWith(Idle) \in Nat /\ WaitsWith(Idle) >= waits
    BY <1>1, WorldFacts DEF IInv, WaitsWith
  <2> HIDE DEF d, r
  <2>4. FinalFits(n, d, WaitsWith(Idle))
    BY <1>1, <1>4, <2>1, <2>2, <2>3 DEF FinalFits
  <2> QED
    BY ZenonT(60), <1>2, <1>4, <2>2, <2>4, IdleFits, ReplaceExposedStep
<1>5. CASE job' = [job EXCEPT ![h].pc = "report", ![h].out = "failed"]
  <2> DEFINE j == [job[h] EXCEPT !.pc = "report", !.out = "failed"]
  <2>1. j \in PlainJobs /\ j.pc = "report" /\ j.act \notin Strict
    BY Zenon, <1>1 DEF PlainJobs, Outs
  <2>2. job' = [job EXCEPT ![h] = j]
    BY Zenon, <1>5 DEF IInv, Types
  <2> HIDE DEF j
  <2>3. JobFits(j)
    BY <2>1 DEF JobFits
  <2> QED
    BY Zenon, <1>1, <1>2, <2>1, <2>2, <2>3, PlainStep
<1> QED
  BY <1>3, <1>4, <1>5 DEF RetryLost

(* ObserveOrDispatch preserves the invariant: it uses up the permit.        *)
LEMMA ObserveOrDispatchPreserves ==
    ASSUME IInv, NEW h \in Host, ObserveOrDispatch(h) PROVE IInv'
<1>1. job[h].pc = "permit" /\ job[h] \in PlainJobs /\ JobFits(job[h]) /\ started \subseteq exposed
      /\ job[h].act \in Strict
  BY Zenon, StateFacts DEF ObserveOrDispatch
<1>2. UNCHANGED <<world, store, exposed, waits>>
  BY DEF ObserveOrDispatch, Durable
<1>3. Attempt(h) \in exposed /\ Attempt(h) \notin sent \cup admitted /\ Own(h) = {Attempt(h)}
  BY Zenon, <1>1 DEF JobFits, Own, Attempt
<1>4. started' \subseteq exposed /\ sent' \cup admitted' \subseteq sent \cup admitted \cup Own(h)
  BY Zenon, <1>1, <1>3 DEF ObserveOrDispatch, External
<1>5. CASE GiveUp(h)
  <2>1. job' = [job EXCEPT ![h] = Idle]
    BY <1>5 DEF GiveUp
  <2>2. job' \in [Host -> Jobs] /\ job'[h] = Idle /\ \A g \in Host \ {h} : job'[g] = job[g]
    BY <2>1, IdleFits DEF IInv, Types, Jobs
  <2>3. HostFits(job[h])'
    BY <2>2, IdleFits DEF HostFits, JobFits
  <2> QED
    BY <1>2, <1>4, <2>2, <2>3, IdleFits, QuietStep
<1>6. ASSUME NEW out \in {"ok", "failed", "noAdmission"}, Observed(h, "report", out),
             out = "noAdmission" => UNCHANGED <<sent, admitted>>
      PROVE  IInv'
  <2>1. PICK j : j = [job[h] EXCEPT !.pc = "report", !.out = out]
    OBVIOUS
  <2>2. job' = [job EXCEPT ![h] = j]
    BY Zenon, <1>6, <2>1 DEF Observed, IInv, Types
  <2>3. j \in PlainJobs /\ j.pc = "report" /\ j.out = out /\ j.act = job[h].act
        /\ j.att = job[h].att
    BY Zenon, <1>1, <2>1 DEF PlainJobs, Outs
  <2>4. job' \in [Host -> Jobs] /\ job'[h] = j /\ \A g \in Host \ {h} : job'[g] = job[g]
    BY <2>2, <2>3 DEF IInv, Types, Jobs
  <2>5. out = "noAdmission" => Attempt(h) \notin LiveAttempts'
    <3> SUFFICES ASSUME out = "noAdmission", Attempt(h) \in LiveAttempts' PROVE FALSE
      OBVIOUS
    <3>1. Attempt(h) \notin sent' \cup admitted'
      BY <1>3, <1>6
    <3>2. PICK g \in Host : job'[g].pc = "permit" /\ Attempt(h) = <<job'[g].act, job'[g].att>>
      BY Zenon, <3>1 DEF LiveAttempts, Attempt
    <3>3. g # h
      BY <2>3, <2>4, <3>2
    <3> QED
      BY Zenon, <1>1, <2>4, <3>2, <3>3 DEF IInv, PermitsAreUnique, Attempt
  <2>6. HostFits(job[h])'
    BY Zenon, <1>2, <1>3, <2>3, <2>4, <2>5 DEF HostFits, JobFits, Attempt
  <2> QED
    BY Zenon, <1>2, <1>4, <2>3, <2>4, <2>6, QuietStep
<1> QED
  BY <1>5, <1>6 DEF ObserveOrDispatch, External

(* Admit preserves the invariant: the same attempts stay alive.             *)
LEMMA AdmitPreserves == ASSUME IInv, Admit PROVE IInv'
<1>1. UNCHANGED <<world, store, exposed, waits, job, started>>
  BY DEF Admit, Durable
<1>2. sent' \cup admitted' = sent \cup admitted
  BY DEF Admit
<1>3. LiveAttempts' = LiveAttempts
  BY <1>1, <1>2 DEF LiveAttempts, Attempt
<1>4. Types'
  <2>1. sent' \subseteq Nat \X Nat /\ admitted' \subseteq Nat \X Nat
    BY <1>2 DEF IInv, Types
  <2>2. store' \in Checkpoints' /\ job' \in [Host -> Jobs']
    BY Zenon, <1>1 DEF IInv, Types, Jobs, Swapping, Proposals, Checkpoints, Steps
  <2> QED
    BY <1>1, <2>1, <2>2 DEF IInv, Types
<1>5. \A j : JobFits(j) => JobFits(j)'
  BY <1>1, <1>2, <1>3 DEF JobFits, Strict
<1>6. \A p : CurrentFits(p) => CurrentFits(p)'
  BY <1>1, <1>3, CurrentFitsKept
<1>7. \A g \in Host : HostFits(job[g])'
  BY Zenon, <1>1, <1>5, <1>6 DEF IInv, HostFits, ProposalFits
<1>8. StoreFits'
  BY <1>1, <1>3, FinalFitsKept DEF IInv, StoreFits
<1>9. PermitsAreUnique' /\ OneLiveAttempt' /\ StartedIsExposed'
  BY Zenon, <1>1, <1>2, <1>3 DEF IInv, PermitsAreUnique, OneLiveAttempt, StartedIsExposed,
     Attempt, Strict
<1>10. AttemptsAreBounded'
  BY <1>1 DEF IInv, AttemptsAreBounded, Steps, Strict, MaxAttempts
<1> QED
  BY <1>4, <1>7, <1>8, <1>9, <1>10 DEF IInv

(* ObserveQuarantined preserves the invariant.                              *)
LEMMA ObserveQuarantinedPreserves ==
    ASSUME IInv, NEW h \in Host, ObserveQuarantined(h) PROVE IInv'
<1>1. job[h].pc = "quarantined" /\ job[h] \in PlainJobs /\ started \subseteq exposed
      /\ job[h].act \in Strict
  BY Zenon, StateFacts DEF ObserveQuarantined
<1>2. UNCHANGED <<world, store, exposed, waits, sent, admitted, started>>
  BY DEF ObserveQuarantined, External, Durable
<1>3. CASE GiveUp(h)
  BY <1>1, <1>2, <1>3, GiveUpStep
<1>4. ASSUME NEW out \in {"ok", "failed", "noAdmission"}, Observed(h, "resolve", out)
      PROVE  IInv'
  <2>1. PICK j : j = [job[h] EXCEPT !.pc = "resolve", !.out = out]
    OBVIOUS
  <2>2. job' = [job EXCEPT ![h] = j]
    BY Zenon, <1>4, <2>1 DEF Observed, IInv, Types
  <2>3. j \in PlainJobs /\ j.pc = "resolve" /\ j.act = job[h].act
    BY Zenon, <1>1, <2>1 DEF PlainJobs, Outs
  <2>4. JobFits(j)
    BY <1>1, <2>3 DEF JobFits
  <2> QED
    BY Zenon, <1>1, <1>2, <2>2, <2>3, <2>4, PlainStep
<1> QED
  BY <1>3, <1>4 DEF ObserveQuarantined

(* What observing an attempt makes of its record.                           *)
LEMMA ObserveAttemptFacts ==
    ASSUME NEW r \in ActivityRecords, NEW out \in Outs, NEW q \in BOOLEAN, r.ledger # <<>>
    PROVE  LET x == ObserveAttempt(r, out, q)
           IN  /\ x \in ActivityRecords /\ x.ord = r.ord
               /\ x.st = IF MayRedeliver(r, out, q) THEN "scheduled" ELSE "completed"
               /\ DOMAIN x.ledger = DOMAIN r.ledger
               /\ \A k \in DOMAIN r.ledger : x.ledger[k].id = r.ledger[k].id
               /\ \A k \in DOMAIN r.ledger :
                     x.ledger[k].st = IF k # Len(r.ledger) THEN r.ledger[k].st
                                      ELSE IF MayRedeliver(r, out, q) THEN "noAdmission"
                                      ELSE "observed"
<1> DEFINE n == Len(r.ledger)
<1>1. PICK s \in {"noAdmission", "observed"} :
          s = IF MayRedeliver(r, out, q) THEN "noAdmission" ELSE "observed"
  OBVIOUS
<1>2. PICK e : e = [r.ledger[n] EXCEPT !.st = s]
  BY Zenon
<1>3. PICK ledger : ledger = [r.ledger EXCEPT ![n] = e]
  BY Zenon
<1>4. r.ledger \in Ledgers /\ n \in Nat /\ n >= 1 /\ DOMAIN r.ledger = 1..n
  BY DEF ActivityRecords, Ledgers
<1>5. r.ledger[n] \in LedgerEntries
  BY <1>4, ElementOfSeq DEF Ledgers
<1>6. e \in LedgerEntries /\ e.id = r.ledger[n].id
  BY <1>2, <1>5 DEF LedgerEntries
<1>6a. e.st = s
  BY <1>2, <1>5 DEF LedgerEntries
<1>7. ledger \in Ledgers /\ DOMAIN ledger = DOMAIN r.ledger
      /\ \A k \in DOMAIN r.ledger : ledger[k] = IF k = n THEN e ELSE r.ledger[k]
  BY <1>3, <1>4, <1>6, ExceptSeq DEF Ledgers
<1>8. \A k \in DOMAIN r.ledger : ledger[k].id = r.ledger[k].id
  BY <1>6, <1>7
<1>8a. \A k \in DOMAIN r.ledger :
          ledger[k].st = IF k # n THEN r.ledger[k].st
                         ELSE IF MayRedeliver(r, out, q) THEN "noAdmission" ELSE "observed"
  BY Zenon, <1>1, <1>6a, <1>7
<1>9. ledger = [r.ledger EXCEPT ![Len(r.ledger)].st =
                   IF MayRedeliver(r, out, q) THEN "noAdmission" ELSE "observed"]
  BY <1>1, <1>2, <1>3
<1>10. CASE MayRedeliver(r, out, q)
  <2>1. ObserveAttempt(r, out, q) = [r EXCEPT !.st = "scheduled", !.att = 0, !.ledger = ledger]
    BY <1>9, <1>10 DEF ObserveAttempt
  <2>2. [r EXCEPT !.st = "scheduled", !.att = 0, !.ledger = ledger] \in ActivityRecords
    BY Zenon, <1>7 DEF ActivityRecords
  <2>3. ObserveAttempt(r, out, q).ledger = ledger /\ ObserveAttempt(r, out, q).ord = r.ord
        /\ ObserveAttempt(r, out, q).st = "scheduled"
    BY <2>1 DEF ActivityRecords
  <2> QED
    BY Zenon, <1>7, <1>8, <1>8a, <1>10, <2>1, <2>2, <2>3
<1>11. CASE ~MayRedeliver(r, out, q)
  <2>1. PICK res \in Results : res = <<out, r.att>>
    BY Zenon DEF Results, Outs, ActivityRecords
  <2>2. ObserveAttempt(r, out, q) = Settle([r EXCEPT !.ledger = ledger], res)
    BY <1>9, <1>11, <2>1 DEF ObserveAttempt
  <2>3. [r EXCEPT !.ledger = ledger] \in ActivityRecords
        /\ [r EXCEPT !.ledger = ledger].ledger = ledger
        /\ [r EXCEPT !.ledger = ledger].ord = r.ord
    BY <1>7 DEF ActivityRecords
  <2>4. \A y \in ActivityRecords :
            Settle(y, res) \in ActivityRecords /\ Settle(y, res).ledger = y.ledger
            /\ Settle(y, res).ord = y.ord /\ Settle(y, res).st = "completed"
    BY Zenon DEF Settle, ActivityRecords
  <2>5. /\ ObserveAttempt(r, out, q) \in ActivityRecords
        /\ ObserveAttempt(r, out, q).ledger = ledger
        /\ ObserveAttempt(r, out, q).ord = r.ord
        /\ ObserveAttempt(r, out, q).st = "completed"
    BY Zenon, <2>2, <2>3, <2>4
  <2> QED
    BY Zenon, <1>7, <1>8, <1>8a, <1>11, <2>5
<1> QED
  BY Zenon, <1>10, <1>11

(* ReportEffect preserves the invariant: only evidence that the sole        *)
(* attempt was not admitted reopens the effect.                             *)
LEMMA ReportEffectPreserves == ASSUME IInv, NEW h \in Host, ReportEffect(h) PROVE IInv'
<1> DEFINE r == Final(store.hist)
           n == Len(store.hist)
           q == job[h].pc = "resolve"
           x == ObserveAttempt(r, job[h].out, q)
<1>1. /\ job[h].pc \in {"report", "resolve"} /\ job[h] \in PlainJobs /\ JobFits(job[h])
      /\ started \subseteq exposed /\ waits \in Nat
      /\ job[h].pc = "report" => job[h].act \in Strict
  BY Zenon, StateFacts DEF ReportEffect
<1>2. UNCHANGED <<External, Durable>>
      /\ UNCHANGED <<world, store, exposed, waits, sent, admitted, started>>
  BY DEF ReportEffect, External, Durable
<1>3. CASE GiveUp(h)
  BY <1>1, <1>2, <1>3, GiveUpStep
<1>4. CASE /\ StillExposed(h) /\ r.att = job[h].att
           /\ Propose(h, WithFinal(store, x), Idle, job[h])
  <2>1. /\ store.hist # <<>> /\ n = job[h].act /\ r.st = "exposed" /\ r \in ActivityRecords
        /\ FinalFits(n, r, waits)
    BY Zenon, <1>4, StateFacts DEF StillExposed
  <2>2. WaitsWith(job[h]) \in Nat /\ WaitsWith(job[h]) >= waits
    BY <1>1 DEF WaitsWith
  <2>3. job[h].out \in Outs /\ q \in BOOLEAN
    BY <1>1 DEF PlainJobs
  <2>4. CASE n \in Strict
    <3>1. /\ \A p \in ExposedOf(n) : \E k \in DOMAIN r.ledger : r.ledger[k].id = p[2]
          /\ r.ledger # <<>> /\ r.ledger[Len(r.ledger)].id = r.att
      BY Zenon, <2>1, <2>4 DEF FinalFits
    <3>2. /\ x \in ActivityRecords /\ x.ord = r.ord
          /\ x.st = IF MayRedeliver(r, job[h].out, q) THEN "scheduled" ELSE "completed"
          /\ DOMAIN x.ledger = DOMAIN r.ledger
          /\ \A k \in DOMAIN r.ledger : x.ledger[k].id = r.ledger[k].id
      <4> HIDE DEF r, q
      <4> QED
        BY ZenonT(60), <2>1, <2>3, <3>1, ObserveAttemptFacts
    <3>3. ASSUME MayRedeliver(r, job[h].out, q), NEW p \in LiveAttempts, p[1] = n
          PROVE  FALSE
      <4>1. job[h].pc = "report" /\ job[h].out = "noAdmission" /\ Len(r.ledger) = 1
        BY <1>1, <3>3 DEF MayRedeliver
      <4>2. p \in exposed /\ p \in Nat \X Nat
        BY LiveIsExposed DEF IInv, Types
      <4>3. PICK k \in DOMAIN r.ledger : r.ledger[k].id = p[2]
        BY Zenon, <3>1, <3>3, <4>2 DEF ExposedOf
      <4>4. k = 1
        <5>1. r.ledger \in Seq(LedgerEntries)
          BY <2>1 DEF ActivityRecords, Ledgers
        <5>2. DOMAIN r.ledger = 1..1
          BY <4>1, <5>1
        <5> QED
          BY <4>3, <5>2
      <4>5. p[2] = r.att
        BY Zenon, <3>1, <4>1, <4>3, <4>4
      <4>6. p = <<job[h].act, job[h].att>>
        BY <1>4, <2>1, <3>3, <4>2, <4>5
      <4> QED
        BY Zenon, <1>1, <3>3, <4>1, <4>6 DEF JobFits
    <3> HIDE DEF x, r, q
    <3>4. FinalFits(n, x, WaitsWith(job[h])) /\ x.st # "exposed"
      BY Zenon, <2>4, <3>1, <3>2, <3>3 DEF FinalFits
    <3> QED
      BY ZenonT(60), <1>1, <1>2, <1>4, <3>2, <3>4, ReplaceExposedStep
  <2>5. CASE n \notin Strict
    BY Zenon, <1>1, <2>1, <2>5 DEF JobFits
  <2> QED
    BY <2>4, <2>5
<1> QED
  BY Zenon, <1>3, <1>4 DEF ReportEffect

(* Crash preserves the invariant.                                           *)
LEMMA CrashPreserves == ASSUME IInv, NEW h \in Host, Crash(h) PROVE IInv'
<1>1. GiveUp(h) /\ UNCHANGED <<world, store, exposed, waits, sent, admitted, started>>
  BY DEF Crash, External
<1> QED
  BY Zenon, <1>1, StateFacts, GiveUpStep

(* Restart preserves the invariant.                                         *)
LEMMA RestartPreserves == ASSUME IInv, NEW h \in Host, Restart(h) PROVE IInv'
<1>1. GiveUp(h) /\ UNCHANGED <<world, store, exposed, waits, sent, admitted, started>>
  BY DEF Restart, External, Durable
<1> QED
  BY Zenon, <1>1, StateFacts, GiveUpStep

(* The invariant is about the variables only.                               *)
LEMMA StutterPreserves == ASSUME IInv, UNCHANGED vars PROVE IInv'
<1>1. UNCHANGED <<world, store, job, sent, admitted, exposed, started, waits>>
  BY DEF vars
<1>2. LiveAttempts' = LiveAttempts
  BY <1>1 DEF LiveAttempts, Attempt
<1>3. Types'
  BY Zenon, <1>1 DEF IInv, Types, Jobs, Swapping, Proposals, Checkpoints, Steps
<1>4. \A j : JobFits(j) => JobFits(j)'
  BY <1>1, <1>2 DEF JobFits, Strict
<1>5. \A p : CurrentFits(p) => CurrentFits(p)'
  BY <1>1, <1>2, CurrentFitsKept
<1>6. \A g \in Host : HostFits(job[g])'
  BY Zenon, <1>1, <1>4, <1>5 DEF IInv, HostFits, ProposalFits
<1>7. StoreFits'
  BY <1>1, <1>2, FinalFitsKept DEF IInv, StoreFits
<1>8. PermitsAreUnique' /\ OneLiveAttempt' /\ StartedIsExposed'
  BY Zenon, <1>1, <1>2 DEF IInv, PermitsAreUnique, OneLiveAttempt, StartedIsExposed, Attempt, Strict
<1>9. AttemptsAreBounded'
  BY <1>1 DEF IInv, AttemptsAreBounded, Steps, Strict, MaxAttempts
<1> QED
  BY <1>3, <1>6, <1>7, <1>8, <1>9 DEF IInv

(* Every step preserves the invariant.                                      *)
LEMMA NextInvariant == IInv /\ [Next]_vars => IInv'
<1> SUFFICES ASSUME IInv, [Next]_vars PROVE IInv'
  OBVIOUS
<1>1. CASE UNCHANGED vars
  BY <1>1, StutterPreserves
<1>2. CASE Admit
  BY <1>2, AdmitPreserves
<1>3. ASSUME NEW h \in Host, Work(h) \/ OutcomeUnknown(h) \/ Crash(h)
      PROVE  IInv'
  <2>1. CASE Turn(h) \/ TurnPending(h) \/ TurnQuarantined(h)
    BY <2>1, TurnPreserves, TurnPendingPreserves, TurnQuarantinedPreserves
  <2>2. CASE Accepted(h) \/ Conflict(h) \/ OutcomeUnknown(h)
    BY <2>2, AcceptedPreserves, ConflictPreserves, OutcomeUnknownPreserves
  <2>3. CASE ReloadAttempt(h) \/ Invoke(h) \/ Report(h) \/ RetryLost(h)
    BY Zenon, <2>3, ReloadAttemptPreserves, InvokePreserves, ReportPreserves, RetryLostPreserves
  <2>4. CASE ObserveOrDispatch(h) \/ ObserveQuarantined(h) \/ ReportEffect(h)
    BY <2>4, ObserveOrDispatchPreserves, ObserveQuarantinedPreserves, ReportEffectPreserves
  <2>5. CASE Crash(h) \/ Restart(h)
    BY <2>5, CrashPreserves, RestartPreserves
  <2> QED
    BY ZenonT(60), <1>3, <2>1, <2>2, <2>3, <2>4, <2>5 DEF Work
<1> QED
  BY <1>1, <1>2, <1>3 DEF Next

(* The invariant holds in every reachable state.                            *)
LEMMA Invariant == Spec => []IInv
<1>1. Init => IInv
  BY InitInvariant
<1>2. IInv /\ [Next]_vars => IInv'
  BY NextInvariant
<1> QED
  BY <1>1, <1>2, PTL DEF Spec

-----------------------------------------------------------------------------
(* The results.                                                             *)

(* The external system takes the command of every strict effect at most     *)
(* once (observe_effect_with_redelivery), whatever the hosts, the crashes   *)
(* and the swaps of unknown outcome.                                        *)
THEOREM StrictEffectsHappenAtMostOnce == Spec => []StrictAtMostOnce
<1>1. IInv => StrictAtMostOnce
  BY DEF IInv, OneLiveAttempt, LiveAttempts, StrictAtMostOnce
<1> QED
  BY <1>1, Invariant, PTL

(* A handler runs and a command is dispatched only for an attempt that the  *)
(* checkpoint has recorded as exposed (commit_exposure).                    *)
THEOREM NothingStartsUnexposed == Spec => []StartedIsExposed
<1>1. IInv => StartedIsExposed
  BY DEF IInv
<1> QED
  BY <1>1, Invariant, PTL

(* ActivityOptions::max_attempts bounds the exposures of every ordinary     *)
(* activity, accepted waits apart.                                          *)
THEOREM AttemptsStayBounded == Spec => []AttemptsAreBounded
<1>1. IInv => AttemptsAreBounded
  BY DEF IInv
<1> QED
  BY <1>1, Invariant, PTL

(* A swap against the stored revision keeps what replay was shown.          *)
LEMMA SwapKeeps ==
    ASSUME IInv, NEW h \in Host, job[h].pc = "cas", job[h].prop.rev = store.rev,
           Swap(job[h].prop)
    PROVE  /\ store.outcome = None
           /\ \A i \in DOMAIN store.hist : store.hist[i].st = "completed" =>
                 IF store'.outcome # None
                 THEN store'.outcome[i] = store.hist[i].res
                 ELSE store'.hist[i] = store.hist[i]
<1>1. job[h].prop.ck \in Checkpoints /\ CurrentFits(job[h].prop)
  BY Zenon, ProposalFacts DEF ProposalFits
<1>2. store'.hist = job[h].prop.ck.hist /\ store'.outcome = job[h].prop.ck.outcome
  BY Zenon, <1>1 DEF Swap, Checkpoints
<1> QED
  BY Zenon, <1>1, <1>2 DEF CurrentFits, Keeps

(* A completed record never changes, and the terminal outcome is made of    *)
(* the recorded results and is final: replay shows workflow code the same   *)
(* at every host and after every crash.                                     *)
THEOREM ReplaysAgree == Spec => ReplayIsStable
<1> DEFINE Stable ==
        /\ store.outcome # None => store' = store
        /\ \A i \in DOMAIN store.hist : store.hist[i].st = "completed" =>
              IF store'.outcome # None
              THEN store'.outcome[i] = store.hist[i].res
              ELSE store'.hist[i] = store.hist[i]
<1>1. IInv /\ [Next]_vars => [Stable]_vars
  <2> SUFFICES ASSUME IInv, Next PROVE Stable
    OBVIOUS
  <2>1. CASE store' = store
    <3>1. store.outcome # None => DOMAIN store.hist = {}
      BY DEF IInv, StoreFits
    <3> QED
      BY <2>1, <3>1
  <2>2. CASE \E h \in Host : /\ job[h].pc = "cas"
                             /\ job[h].prop.rev = store.rev
                             /\ Swap(job[h].prop)
    BY Zenon, <2>2, SwapKeeps
  <2>3. ASSUME NEW h \in Host, Accepted(h) \/ OutcomeUnknown(h)
        PROVE  Stable
    BY Zenon, <2>1, <2>2, <2>3 DEF Accepted, OutcomeUnknown
  <2>4. ASSUME NEW h \in Host,
               \/ Turn(h) \/ TurnPending(h) \/ TurnQuarantined(h) \/ Conflict(h)
               \/ ReloadAttempt(h) \/ Report(h) \/ RetryLost(h) \/ ObserveOrDispatch(h)
               \/ ObserveQuarantined(h) \/ ReportEffect(h) \/ Restart(h)
        PROVE  store' = store
    BY Zenon, <2>4 DEF Turn, TurnPending, TurnQuarantined, Conflict, ReloadAttempt, Report,
                RetryLost, ObserveOrDispatch, ObserveQuarantined, ReportEffect, Restart,
                Durable
  <2>5. ASSUME NEW h \in Host, Invoke(h) \/ Crash(h) PROVE store' = store
    BY <2>5 DEF Invoke, Crash
  <2>6. Admit => store' = store
    BY DEF Admit, Durable
  <2> QED
    BY ZenonT(60), <2>1, <2>3, <2>4, <2>5, <2>6 DEF Next, Work
<1> QED
  BY <1>1, Invariant, PTL DEF Spec, ReplayIsStable

-----------------------------------------------------------------------------
(* No step stores a checkpoint that a later load refuses.                   *)

(* What a host finds in the store when it reports on an ordinary activity.  *)
LEMMA OrdinaryValid ==
    ASSUME IInv, VInv, NEW h \in Host, StillExposed(h), job[h].act \notin Strict
    PROVE  /\ store \in Checkpoints /\ store.hist # <<>> /\ ValidHistory(store.hist)
           /\ Final(store.hist) \in ActivityRecords
           /\ \A x \in ActivityRecords :
                 x.ord \in 1..MaxAttempts /\ x.ledger = Final(store.hist).ledger =>
                     ValidHistory(WithFinal(store, x).hist)
<1>1. /\ store \in Checkpoints /\ store.hist # <<>> /\ store.hist \in Seq(ActivityRecords)
      /\ Len(store.hist) \notin Strict /\ Final(store.hist) \in ActivityRecords
  BY Zenon, StateFacts, OrdinaryFacts
<1>2. ValidHistory(store.hist)
  BY DEF VInv, StoredIsValid
<1>3. Final(store.hist).ledger = <<>>
  BY Zenon, <1>1, <1>2, FinalValid DEF RecordValid
<1>4. \A x \in ActivityRecords :
          x.ord \in 1..MaxAttempts /\ x.ledger = Final(store.hist).ledger =>
              RecordValid(Len(store.hist), x)
  BY Zenon, <1>1, <1>3 DEF RecordValid
<1> QED
  BY Zenon, <1>1, <1>2, <1>4, ReplaceValid

(* The result of an ordinary activity, with the replay behind it or not.    *)
LEMMA DoneValid ==
    ASSUME IInv, VInv, NEW h \in Host, StillExposed(h), job[h].act \notin Strict,
           job[h].out \in {"ok", "failed"}, job[h].pc # "cas"
    PROVE  Done(h) \in Checkpoints /\ ValidHistory(Done(h).hist) /\ AllCompleted(Done(h).hist)
<1>1. PICK r : r = Final(store.hist)
  OBVIOUS
<1>2. job[h].att \in Nat
  BY StateFacts DEF PlainJobs
<1>3. PICK res \in Results : res = <<job[h].out, job[h].att>>
  BY Zenon, <1>2 DEF Results, Outs
<1>4. store \in Checkpoints /\ store.hist # <<>> /\ store.hist \in Seq(ActivityRecords)
      /\ r \in ActivityRecords /\ RecordValid(Len(store.hist), r)
  BY Zenon, <1>1, OrdinaryValid, StateFacts, FinalValid
<1>5. PICK x : x = Settle(r, res)
  OBVIOUS
<1>6. x \in ActivityRecords /\ x.ord = r.ord /\ x.ledger = r.ledger /\ x.st = "completed"
  BY Zenon, <1>4, <1>5 DEF Settle, ActivityRecords
<1>7. Done(h) = WithFinal(store, x)
  BY Zenon, <1>1, <1>3, <1>5 DEF Done
<1>8. ValidHistory(WithFinal(store, x).hist)
  BY Zenon, <1>1, <1>4, <1>6, OrdinaryValid DEF RecordValid
<1>9. WithFinal(store, x) \in Checkpoints /\ WithFinal(store, x).hist # <<>>
      /\ Final(WithFinal(store, x).hist) = x
  BY Zenon, <1>4, <1>6, WithFinalFacts
<1>10. WithFinal(store, x).hist \in Seq(ActivityRecords)
  BY Zenon, <1>9 DEF Checkpoints
<1>11. AllCompleted(WithFinal(store, x).hist)
  BY Zenon, <1>6, <1>8, <1>9, <1>10, FinalValid
<1> QED
  BY Zenon, <1>7, <1>8, <1>9, <1>11

(* Turn and TurnPending propose what follows a valid history.               *)
LEMMA TurnValid ==
    ASSUME IInv, VInv, NEW h \in Host, Turn(h) \/ TurnPending(h)
    PROVE  VInv'
<1>1. UNCHANGED <<world, store>>
  BY Zenon DEF Turn, TurnPending, Durable
<1>2. store \in Checkpoints /\ ValidHistory(store.hist)
  BY DEF IInv, Types, VInv, StoredIsValid
<1>3. CASE AllCompleted(store.hist) /\ ProposeProgress(h, store, Idle)
  BY Zenon, <1>1, <1>2, <1>3, ProposeProgressValid
<1>4. CASE AllCompleted(store.hist)
           /\ Propose(h, [store EXCEPT !.hist = Append(@, Scheduled)], Idle, Idle)
  <2>1. Types
    BY DEF IInv
  <2>2. ValidHistory([store EXCEPT !.hist = Append(@, Scheduled)].hist)
    BY Zenon, <1>2, <1>4, <2>1, AppendValid
  <2> QED
    BY Zenon, <1>1, <1>4, <2>2, ProposeValid
<1>5. CASE store.hist # <<>> /\ ProposeExposure(h, store, Idle)
  BY Zenon, <1>1, <1>2, <1>5, ProposeExposureValid
<1> QED
  BY Zenon, <1>3, <1>4, <1>5 DEF Turn, TurnPending

(* A host that gives up.                                                    *)
LEMMA GiveUpValid ==
    ASSUME IInv, VInv, NEW h \in Host, GiveUp(h), UNCHANGED <<world, store>>
    PROVE  VInv'
<1>1. Idle.pc # "cas"
  BY DEF Idle
<1> QED
  BY Zenon, <1>1, PlainValid DEF GiveUp

(* Another attempt of an ordinary activity.                                 *)
LEMMA RetryValid ==
    ASSUME IInv, VInv, NEW h \in Host, StillExposed(h), job[h].act \notin Strict,
           Final(store.hist).ord < MaxAttempts, NEW back,
           Propose(h, WithFinal(store, ScheduleRetry(Final(store.hist))), Idle, back),
           UNCHANGED <<world, store>>
    PROVE  VInv'
<1>1. PICK x : x = ScheduleRetry(Final(store.hist))
  OBVIOUS
<1>2. Final(store.hist) \in ActivityRecords
  BY Zenon, OrdinaryFacts
<1>3. x \in ActivityRecords /\ x.ord = Final(store.hist).ord + 1
      /\ x.ledger = Final(store.hist).ledger
  BY Zenon, <1>1, <1>2, ScheduleRetryFacts
<1>4. Final(store.hist).ord \in Nat /\ MaxAttempts \in Nat
  BY <1>2, WorldFacts DEF ActivityRecords, IInv
<1>5. x.ord \in 1..MaxAttempts
  BY <1>3, <1>4
<1>6. ValidHistory(WithFinal(store, x).hist)
  BY Zenon, <1>3, <1>5, OrdinaryValid
<1> QED
  BY Zenon, <1>1, <1>6, ProposeValid

(* Report stores a result, a wait or a retry of a valid record.             *)
LEMMA ReportValid ==
    ASSUME IInv, VInv, NEW h \in Host, Report(h)
    PROVE  VInv'
<1>1. UNCHANGED <<world, store>> /\ job[h].act \notin Strict /\ job[h].pc # "cas"
  BY Zenon DEF Report, Durable
<1>2. CASE GiveUp(h)
  BY Zenon, <1>1, <1>2, GiveUpValid
<1>3. CASE StillExposed(h) /\ (Observe(h) \/ ObserveFailure(h))
  <2>1. Propose(h, Done(h), Idle, job[h]) /\ job[h].out \in {"ok", "failed"}
    BY <1>3 DEF Observe, ObserveFailure
  <2> QED
    BY Zenon, <1>1, <1>3, <2>1, DoneValid, ProposeValid
<1>4. CASE StillExposed(h) /\ ObserveAndTurn(h)
  <2>1. ProposeProgress(h, Done(h), job[h]) /\ job[h].out \in {"ok", "failed"}
    BY <1>4 DEF ObserveAndTurn
  <2>2. Done(h) \in Checkpoints /\ ValidHistory(Done(h).hist) /\ AllCompleted(Done(h).hist)
    BY Zenon, <1>1, <1>4, <2>1, DoneValid
  <2> QED
    BY Zenon, <1>1, <2>1, <2>2, ProposeProgressValid
<1>5. CASE StillExposed(h) /\ Defer(h)
  <2>1. PICK x : x = DeferWait(Final(store.hist))
    OBVIOUS
  <2>2. Final(store.hist) \in ActivityRecords /\ store.hist \in Seq(ActivityRecords)
        /\ store.hist # <<>> /\ ValidHistory(store.hist)
    BY Zenon, <1>1, <1>5, OrdinaryValid, StateFacts
  <2>3. x \in ActivityRecords /\ x.ord = Final(store.hist).ord
        /\ x.ledger = Final(store.hist).ledger
    BY Zenon, <2>1, <2>2 DEF DeferWait, ActivityRecords
  <2>4. Final(store.hist).ord \in 1..MaxAttempts
    BY Zenon, <2>2, FinalValid DEF RecordValid
  <2>5. ValidHistory(WithFinal(store, x).hist)
    BY Zenon, <1>1, <1>5, <2>3, <2>4, OrdinaryValid
  <2> QED
    BY Zenon, <1>1, <1>5, <2>1, <2>5, ProposeValid DEF Defer
<1>6. CASE StillExposed(h) /\ Retry(h)
  BY Zenon, <1>1, <1>2, <1>6, RetryValid DEF Retry
<1> QED
  BY Zenon, <1>2, <1>3, <1>4, <1>5, <1>6 DEF Report

(* RetryLost schedules another attempt while there is one left.             *)
LEMMA RetryLostValid ==
    ASSUME IInv, VInv, NEW h \in Host, RetryLost(h)
    PROVE  VInv'
<1>1. UNCHANGED <<world, store>> /\ job[h].act \notin Strict /\ job[h].pc # "cas"
  BY Zenon DEF RetryLost, Durable
<1>2. CASE GiveUp(h)
  BY Zenon, <1>1, <1>2, GiveUpValid
<1>3. CASE /\ StillExposed(h) /\ Final(store.hist).ord < MaxAttempts
           /\ Propose(h, WithFinal(store, ScheduleRetry(Final(store.hist))), Idle, Idle)
  BY Zenon, <1>1, <1>3, RetryValid
<1>4. CASE job' = [job EXCEPT ![h].pc = "report", ![h].out = "failed"]
  <2>1. PICK j : j = [job[h] EXCEPT !.pc = "report", !.out = "failed"]
    OBVIOUS
  <2>2. job' = [job EXCEPT ![h] = j] /\ j.pc = "report"
    BY Zenon, <1>1, <1>4, <2>1, StateFacts DEF IInv, Types, PlainJobs
  <2> QED
    BY Zenon, <1>1, <2>2, PlainValid
<1> QED
  BY Zenon, <1>2, <1>3, <1>4 DEF RetryLost

(* The ledger of an observed attempt agrees with its record.                *)
LEMMA ObserveAttemptValid ==
    ASSUME NEW i \in Strict, NEW r \in ActivityRecords, RecordValid(i, r), r.st = "exposed",
           NEW out \in Outs, NEW q \in BOOLEAN
    PROVE  /\ ObserveAttempt(r, out, q) \in ActivityRecords
           /\ RecordValid(i, ObserveAttempt(r, out, q))
<1>1. r.ledger # <<>> /\ LedgerValid(r.ledger) /\ r.ord \in 1..MaxAttempts
  BY DEF RecordValid, LedgerMatches
<1>0. PICK x : x = ObserveAttempt(r, out, q)
  OBVIOUS
<1>0a. /\ x \in ActivityRecords /\ x.ord = r.ord
       /\ x.st = IF MayRedeliver(r, out, q) THEN "scheduled" ELSE "completed"
       /\ DOMAIN x.ledger = DOMAIN r.ledger
  <2>1. /\ ObserveAttempt(r, out, q) \in ActivityRecords
        /\ ObserveAttempt(r, out, q).ord = r.ord
        /\ ObserveAttempt(r, out, q).st = IF MayRedeliver(r, out, q) THEN "scheduled" ELSE "completed"
        /\ DOMAIN ObserveAttempt(r, out, q).ledger = DOMAIN r.ledger
    BY <1>1, ObserveAttemptFacts
  <2> QED
    BY <1>0, <2>1
<1>0b. /\ \A k \in DOMAIN r.ledger : x.ledger[k].id = r.ledger[k].id
       /\ \A k \in DOMAIN r.ledger :
             x.ledger[k].st = IF k # Len(r.ledger) THEN r.ledger[k].st
                              ELSE IF MayRedeliver(r, out, q) THEN "noAdmission"
                              ELSE "observed"
  BY <1>0, <1>1, ObserveAttemptFacts
<1>2. PICK l, m : l = r.ledger /\ m = x.ledger
  OBVIOUS
<1>3. /\ x \in ActivityRecords /\ x.ord = r.ord /\ DOMAIN m = DOMAIN l
      /\ x.st = IF MayRedeliver(r, out, q) THEN "scheduled" ELSE "completed"
      /\ \A k \in DOMAIN l : m[k].id = l[k].id
      /\ \A k \in DOMAIN l :
            m[k].st = IF k # Len(l) THEN l[k].st
                      ELSE IF MayRedeliver(r, out, q) THEN "noAdmission" ELSE "observed"
  BY Zenon, <1>0a, <1>0b, <1>2
<1>4. l \in Seq(LedgerEntries) /\ m \in Seq(LedgerEntries)
  BY Zenon, <1>2, <1>3 DEF ActivityRecords, Ledgers
<1>5. PICK n \in Nat : n = Len(l) /\ n = Len(m) /\ DOMAIN l = 1..n /\ DOMAIN m = 1..n /\ n # 0
  BY SMTT(60), <1>1, <1>2, <1>3, <1>4
<1>6. LedgerValid(m)
  BY <1>1, <1>2, <1>3, <1>5 DEF LedgerValid
<1>7. CASE MayRedeliver(r, out, q)
  <2>1. n = 1
    BY <1>2, <1>5, <1>7 DEF MayRedeliver
  <2>2. x.st = "scheduled" /\ \A k \in DOMAIN m : m[k].st = "noAdmission" /\ k = 1
    BY <1>3, <1>5, <1>7, <2>1
  <2> QED
    BY ZenonT(60), <1>0, <1>1, <1>2, <1>3, <1>6, <2>2 DEF RecordValid, LedgerMatches
<1>8. CASE ~MayRedeliver(r, out, q)
  <2>1. x.st = "completed" /\ m # <<>> /\ Final(m).st = "observed"
    BY <1>3, <1>5, <1>8 DEF Final
  <2> QED
    BY Zenon, <1>0, <1>1, <1>2, <1>3, <1>6, <2>1 DEF RecordValid, LedgerMatches
<1> QED
  BY <1>7, <1>8

(* ReportEffect completes or reopens a strict effect.                       *)
LEMMA ReportEffectValid ==
    ASSUME IInv, VInv, NEW h \in Host, ReportEffect(h)
    PROVE  VInv'
<1>1. UNCHANGED <<world, store>> /\ job[h].pc \in {"report", "resolve"}
      /\ (job[h].pc = "report" => job[h].act \in Strict)
  BY Zenon DEF ReportEffect, Durable
<1>2. CASE GiveUp(h)
  BY Zenon, <1>1, <1>2, GiveUpValid
<1>3. PICK q \in BOOLEAN : q = (job[h].pc = "resolve")
  BY Zenon
<1>4. PICK r, x : r = Final(store.hist) /\ x = ObserveAttempt(r, job[h].out, q)
  OBVIOUS
<1>5. CASE StillExposed(h) /\ Propose(h, WithFinal(store, x), Idle, job[h])
  <2>1. /\ store.hist # <<>> /\ Len(store.hist) = job[h].act /\ r.st = "exposed"
        /\ r \in ActivityRecords /\ store.hist \in Seq(ActivityRecords) /\ store \in Checkpoints
    BY Zenon, <1>4, <1>5, StateFacts DEF StillExposed
  <2>2. job[h] \in PlainJobs /\ JobFits(job[h])
    BY Zenon, <1>1, StateFacts
  <2>3. job[h].out \in Outs
    BY Zenon, <2>2 DEF PlainJobs
  <2>4. Len(store.hist) \in Strict
    BY Zenon, <1>1, <2>1, <2>2 DEF JobFits
  <2>5. ValidHistory(store.hist)
    BY DEF VInv, StoredIsValid
  <2>6. RecordValid(Len(store.hist), r)
    BY Zenon, <1>4, <2>1, <2>5, FinalValid
  <2>7. x \in ActivityRecords /\ RecordValid(Len(store.hist), x)
    BY ZenonT(60), <1>4, <2>1, <2>3, <2>4, <2>6, ObserveAttemptValid
  <2>8. ValidHistory(WithFinal(store, x).hist)
    BY Zenon, <2>1, <2>5, <2>7, ReplaceValid
  <2> QED
    BY Zenon, <1>1, <1>5, <2>8, ProposeValid
<1> QED
  BY Zenon, <1>2, <1>3, <1>4, <1>5 DEF ReportEffect

(* The steps of a host that neither propose nor swap.                       *)
LEMMA OtherValid ==
    ASSUME IInv, VInv, NEW h \in Host,
           \/ TurnQuarantined(h) \/ Conflict(h) \/ ReloadAttempt(h) \/ Invoke(h)
           \/ ObserveOrDispatch(h) \/ ObserveQuarantined(h) \/ Restart(h) \/ Crash(h)
    PROVE  VInv'
<1>1. CASE GiveUp(h) /\ UNCHANGED <<world, store>>
  BY Zenon, <1>1, GiveUpValid
<1>2. ASSUME NEW j, job' = [job EXCEPT ![h] = j], j.pc # "cas", UNCHANGED <<world, store>>
      PROVE  VInv'
  BY Zenon, <1>2, PlainValid
<1>3. ASSUME NEW pc \in {"report", "resolve"}, NEW out, job[h].pc # "cas",
             job' = [job EXCEPT ![h].pc = pc, ![h].out = out],
             UNCHANGED <<world, store>>
      PROVE  VInv'
  <2>1. PICK j : j = [job[h] EXCEPT !.pc = pc, !.out = out]
    OBVIOUS
  <2>2. job' = [job EXCEPT ![h] = j] /\ j.pc = pc
    BY Zenon, <1>3, <2>1, StateFacts DEF IInv, Types, PlainJobs
  <2> QED
    BY Zenon, <1>2, <1>3, <2>2
<1>4. CASE Restart(h) \/ Crash(h)
  BY Zenon, <1>1, <1>4 DEF Restart, Crash, Durable
<1>5. CASE TurnQuarantined(h)
  <2>1. PICK j : j = [Idle EXCEPT !.pc = "quarantined", !.act = Len(store.hist),
                                  !.att = Final(store.hist).att]
    OBVIOUS
  <2>2. job' = [job EXCEPT ![h] = j] /\ j.pc = "quarantined" /\ UNCHANGED <<world, store>>
    BY <1>5, <2>1 DEF TurnQuarantined, Durable, Idle
  <2> QED
    BY Zenon, <1>2, <2>2
<1>6. CASE Conflict(h)
  <2>1. PICK j \in {Idle, job[h].prop.back} : job' = [job EXCEPT ![h] = j]
    BY Zenon, <1>6 DEF Conflict, Reload
  <2>2. UNCHANGED <<world, store>> /\ job[h].pc = "cas"
    BY <1>6 DEF Conflict, Durable
  <2>3. job[h].prop.back \in PlainJobs /\ Idle \in PlainJobs
    BY Zenon, <2>2, ProposalFacts, IdleFits
  <2>4. j.pc # "cas"
    BY Zenon, <2>1, <2>3 DEF PlainJobs
  <2> QED
    BY Zenon, <1>2, <2>1, <2>2, <2>4
<1>7. CASE ReloadAttempt(h)
  <2>1. UNCHANGED <<world, store>> /\ job[h].pc = "permit"
    BY <1>7 DEF ReloadAttempt, Durable
  <2>2. PICK j : j = IF store.hist = <<>>
                     THEN [Idle EXCEPT !.pc = "panicked"]
                     ELSE [job[h] EXCEPT !.pc = "invoking", !.ord = Final(store.hist).ord]
    BY ZenonT(60)
  <2>3. job[h] \in PlainJobs /\ job \in [Host -> Jobs]
    BY Zenon, <2>1, StateFacts DEF IInv, Types
  <2>4. job' = [job EXCEPT ![h] = j]
    BY Zenon, <1>7, <2>2, <2>3 DEF ReloadAttempt
  <2>5. j.pc # "cas"
    BY <2>2, <2>3 DEF PlainJobs, Idle
  <2> QED
    BY Zenon, <1>2, <2>1, <2>4, <2>5
<1>8. CASE Invoke(h)
  <2>1. UNCHANGED <<world, store>> /\ job[h].pc = "invoking" /\ job[h].pc # "cas"
    BY <1>8 DEF Invoke
  <2>2. CASE GiveUp(h)
    BY Zenon, <1>1, <2>1, <2>2
  <2>3. CASE job' = [job EXCEPT ![h].pc = "report", ![h].out = "wait"]
    BY Zenon, <1>3, <2>1, <2>3
  <2>4. ASSUME NEW out \in {"ok", "failed", "retryable"},
               job' = [job EXCEPT ![h] = [@ EXCEPT
                    !.pc = "report",
                    !.out = IF out = "retryable" /\ job[h].ord >= MaxAttempts
                            THEN "failed" ELSE out]]
        PROVE  VInv'
    <3>1. PICK o : o = IF out = "retryable" /\ job[h].ord >= MaxAttempts
                       THEN "failed" ELSE out
      OBVIOUS
    <3>2. PICK j : j = [job[h] EXCEPT !.pc = "report", !.out = o]
      OBVIOUS
    <3>3. job' = [job EXCEPT ![h] = j] /\ j.pc = "report"
      BY SMTT(60), <2>1, <2>4, <3>1, <3>2, StateFacts DEF IInv, Types, PlainJobs
    <3> QED
      BY Zenon, <1>2, <2>1, <3>3
  <2> QED
    BY Zenon, <1>8, <2>2, <2>3, <2>4 DEF Invoke
<1>9. CASE ObserveOrDispatch(h)
  <2>1. UNCHANGED <<world, store>> /\ job[h].pc = "permit" /\ job[h].pc # "cas"
    BY <1>9 DEF ObserveOrDispatch, Durable
  <2>2. CASE GiveUp(h)
    BY Zenon, <1>1, <2>1, <2>2
  <2>3. CASE \E out \in {"ok", "failed", "noAdmission"} : Observed(h, "report", out)
    BY Zenon, <1>3, <2>1, <2>3 DEF Observed
  <2> QED
    BY SMTT(60), <1>9, <2>2, <2>3 DEF ObserveOrDispatch
<1>10. CASE ObserveQuarantined(h)
  <2>1. UNCHANGED <<world, store>> /\ job[h].pc = "quarantined" /\ job[h].pc # "cas"
    BY <1>10 DEF ObserveQuarantined, Durable
  <2>2. CASE GiveUp(h)
    BY Zenon, <1>1, <2>1, <2>2
  <2>3. CASE \E out \in {"ok", "failed", "noAdmission"} : Observed(h, "resolve", out)
    BY Zenon, <1>3, <2>1, <2>3 DEF Observed
  <2> QED
    BY SMTT(60), <1>10, <2>2, <2>3 DEF ObserveQuarantined
<1> QED
  BY Zenon, <1>4, <1>5, <1>6, <1>7, <1>8, <1>9, <1>10

(* A swap, accepted or of unknown outcome.                                  *)
LEMMA SwappedValid ==
    ASSUME IInv, VInv, NEW h \in Host, Accepted(h) \/ OutcomeUnknown(h)
    PROVE  VInv'
<1>1. job[h].pc = "cas" /\ UNCHANGED world
  BY DEF Accepted, OutcomeUnknown
<1>2. job[h].prop.next \in PlainJobs /\ job[h].prop.back \in PlainJobs /\ Idle \in PlainJobs
  BY Zenon, <1>1, ProposalFacts, IdleFits
<1>3. PICK j \in PlainJobs : job' = [job EXCEPT ![h] = j]
  BY Zenon, <1>2 DEF Accepted, OutcomeUnknown, Reload
<1>4. j.pc # "cas"
  BY <1>3 DEF PlainJobs
<1>5. CASE job[h].prop.rev = store.rev /\ Swap(job[h].prop)
  BY Zenon, <1>1, <1>3, <1>4, <1>5, SwapValid
<1>6. CASE store' = store
  BY Zenon, <1>1, <1>3, <1>4, <1>6, PlainValid
<1> QED
  BY <1>5, <1>6 DEF Accepted, OutcomeUnknown

(* A step that leaves the hosts and the store alone.                        *)
LEMMA IdleStepValid ==
    ASSUME VInv, UNCHANGED <<world, store, job>>
    PROVE  VInv'
<1>1. \A hist : ValidHistory(hist) => ValidHistory(hist)'
  BY ZenonT(60) DEF ValidHistory, MaxAttempts, Strict, LedgerMatches
<1> QED
  BY Zenon, <1>1 DEF VInv, StoredIsValid, ProposalsAreValid

(* No step stores or proposes a checkpoint that a later load refuses.       *)
LEMMA NextValid == IInv /\ VInv /\ [Next]_vars => VInv'
<1> SUFFICES ASSUME IInv, VInv, [Next]_vars PROVE VInv'
  OBVIOUS
<1>1. CASE UNCHANGED vars
  BY <1>1, IdleStepValid DEF vars
<1>2. CASE Admit
  BY <1>2, IdleStepValid DEF Admit, Durable
<1>3. ASSUME NEW h \in Host, Work(h) \/ OutcomeUnknown(h) \/ Crash(h)
      PROVE  VInv'
  BY Zenon, <1>3, TurnValid, SwappedValid, ReportValid, RetryLostValid, ReportEffectValid,
     OtherValid DEF Work
<1> QED
  BY Zenon, <1>1, <1>2, <1>3 DEF Next

(* Every checkpoint the store ever holds passes decode_and_validate: no     *)
(* history of swaps, crashes and competing hosts makes a workflow that a    *)
(* later load refuses.                                                      *)
THEOREM StoredCheckpointsAreValid == Spec => []StoredIsValid
<1>1. Init => VInv
  <2>1. Init => store.hist = <<>> /\ \A h \in Host : job[h].pc # "cas"
    BY DEF Init, Idle
  <2> QED
    BY <2>1 DEF VInv, StoredIsValid, ProposalsAreValid, ValidHistory
<1>2. VInv => StoredIsValid
  BY DEF VInv
<1> QED
  BY <1>1, <1>2, NextValid, Invariant, PTL DEF Spec

=============================================================================
